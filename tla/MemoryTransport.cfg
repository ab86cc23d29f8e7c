SPECIFICATION FairSpec
CONSTANTS
    Groups = {g1}
    Members = {m1, m2}
    GroupOf <- OneGroup
    Batched = {m2}
    Max = 2
    Msgs = {p1, p2}
    Drainers = {d1}
    IntMax = 15
INVARIANTS
    OnePerGroup
    NothingLost
    InflightExact
    NoStrandedBatch
    DrainJoins
PROPERTY
    DeliveryEnds
CHECK_DEADLOCK FALSE
