\* Two concurrent calls and two peers: the smallest instance in which two
\* goroutines share a Peer and a call waits for more than one peer.  Two payloads:
\* peers may endorse different results.
CONSTANTS
    Calls = {t1, t2}
    Peers = {p1, p2}
    Payloads = {e1, e2}
    Selections <- AllSelections
SPECIFICATION FairSpec
INVARIANTS
    TypeOK
    OnlyEndorsedIsOrdered
    SuccessIsOrdered
    OrderedOnce
    NoSenderAfterClose
    HalfOpenIsTransient
PROPERTIES
    ImplementsInvokeSpec
    CallsReturn
