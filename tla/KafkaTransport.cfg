SPECIFICATION FairSpec
CONSTANTS
    Subs = {s1, s2}
    Keys = {k1}
    KeyOf <- OneKey
    Contracts = {a, b}
    NoContract = NoContract
    Share = TRUE
    Publishers = {p1}
    Closers = {c1, c2}
INVARIANTS
    TopicsHeld
    ClientsClosed
PROPERTY
    StopEndsAll
CHECK_DEADLOCK FALSE
