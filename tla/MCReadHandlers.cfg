\* Three requests: one that creates the list, one that waits for the lock and one
\* that comes later; two nodes, so that a list can be half built.
CONSTANTS
    Requests <- MCRequests
    NumNodes = 2
    Nil = "nil"
    Peers = {"p1", "p2"}
SPECIFICATION FairSpec
INVARIANTS
    TypeOK
    OneList
    NeverHalfBuilt
    LateFindsList
PROPERTIES
    RequestsAnswered
\* Every request has been answered.
CHECK_DEADLOCK FALSE
