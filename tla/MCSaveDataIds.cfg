\* One request of two factors, as many keys: they may draw the same one.
CONSTANTS
    Requests = {r1}
    MaxBatch = 2
    Keys = {k1, k2}
    NoKey = NoKey
SPECIFICATION FairSpec
PROPERTY EntriesKept
