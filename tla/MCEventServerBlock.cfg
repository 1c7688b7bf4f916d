\* One block whose second transaction parseFullBlock cannot decode.
CONSTANTS
    Blocks <- SharedBlocks
    MaxHeight = 2
    MaxStarts = 1
SPECIFICATION Spec
INVARIANT AllEventsOfBlock
\* The process is started once and the chain stops growing.
CHECK_DEADLOCK FALSE
