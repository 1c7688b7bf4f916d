\* Three processes: a restart after a crash and a reload before it.  Every
\* configuration of up to three peers in two organisations, edited between starts.
CONSTANTS
    PeerNames <- MCPeerNames
    OrgNames <- MCOrgNames
    HostOf <- MCHostOf
    MaxStarts = 3
SPECIFICATION ApiSpec
INVARIANTS
    ApiTypeOK
    SelectionMeetsPolicy
    PidFileNamesLast
    GoesOnServing
\* The last of the processes has ended.
CHECK_DEADLOCK FALSE
