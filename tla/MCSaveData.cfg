\* Two concurrent requests of up to two factors; with two keys, factors share a
\* key or not.
CONSTANTS
    Requests = {r1, r2}
    MaxBatch = 2
    Keys = {k1, k2}
    NoKey = NoKey
SPECIFICATION FairSpec
INVARIANTS
    TypeOK
    PrefixOrdered
    OkMeansAllOrdered
    AtMostOneUnconfirmed
PROPERTY RequestsAnswered
