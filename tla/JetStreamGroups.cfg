SPECIFICATION FairSpec
CONSTANTS
    NoReg = NoReg
    Calls = {u1, u2}
    Groups = {g1, g2}
    GroupsOf <- Overlapping
    Batched = {g1}
    Deletable = {g1}
    Closers = {k1}
    MaxHandOvers = 1
INVARIANT
    GroupsHeld
PROPERTY
    StopEndsAll
CHECK_DEADLOCK FALSE
