\* Two starts are enough for a server without a pid file.
CONSTANTS
    PeerNames <- MCPeerNames
    OrgNames <- MCOrgNames
    HostOf <- MCHostOf
    MaxStarts = 3
SPECIFICATION ApiSpec
INVARIANTS
    PidFileSaved
\* The last of the processes has ended.
CHECK_DEADLOCK FALSE
