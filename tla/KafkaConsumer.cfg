SPECIFICATION FairSpec
CONSTANTS
    Partitions = {q1, q2}
    Length <- Lengths
    Foreign <- OneForeign
    Modes <- AllModes
    Max = 2
    MaxDeliveries = 2
    Outcomes <- AllOutcomes
    MaxCount = 4
    MaxMishaps = 1
INVARIANT
    RecordsKept
PROPERTY
    EveryRecordSettles
CHECK_DEADLOCK FALSE
