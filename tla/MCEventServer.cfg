\* Three blocks and three process starts: a session, one that repeats the newest
\* block, and one that begins later.
CONSTANTS
    Blocks <- SharedBlocks
    MaxHeight = 3
    MaxStarts = 3
SPECIFICATION FairSpec
INVARIANTS
    TypeOK
    NoneLeftOut
    InChainOrder
    RepeatsOnlyNewest
PROPERTIES
    EventsHandled
    ImplementsFeed
\* The bounds stop the system: no start is left and the chain has its height.
CHECK_DEADLOCK FALSE
