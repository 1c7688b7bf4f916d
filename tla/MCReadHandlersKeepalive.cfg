\* The same instance, for what a keepalive query reports.
CONSTANTS
    Requests <- MCRequests
    NumNodes = 2
    Nil = "nil"
    Peers = {"p1", "p2"}
SPECIFICATION Spec
INVARIANTS
    UnreachedIsUnreached
\* Every request has been answered.
CHECK_DEADLOCK FALSE
