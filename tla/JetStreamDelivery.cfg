SPECIFICATION FairSpec
CONSTANTS
    Msgs = {m1, m2, x}
    Foreign = {x}
    Modes = {TRUE, FALSE}
    Max = 2
    MaxInFlight = 2
    MaxDeliveries = 2
    Outcomes <- AllOutcomes
    MaxCount = 3
    MaxMishaps = 1
    MaxResets = 1
INVARIANT
    MessagesKept
PROPERTY
    EveryMessageSettles
CHECK_DEADLOCK FALSE
