\* Three records and three-bit integers: pages that are full, short and empty, a
\* walk over several pages, products that wrap around, and one record replaced away
\* during a walk.
CONSTANTS
    MaxKey = 3
    Modulus = 8
    MaxGone = 1
SPECIFICATION Spec
INVARIANTS
    TypeOK
    PageIsSlice
    TotalCountsAll
    WalkMissesFew
