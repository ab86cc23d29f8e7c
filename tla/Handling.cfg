SPECIFICATION AnySpec
CONSTANTS
    Types <- MCTypes
    Bodies <- MCBodies
    Engines <- MCEngines
    Lower <- MCLower
    Escape <- MCEscape
    ReadSize = 2
    maxPartHeader = 12
    Pieces = {1, 2, 3, 5, 40}
    MinSize = 2
    Window = 4
    MaxOps = 3
    Goroutines = {1, 2}
    HasSubscriber = TRUE
    CanBatch = TRUE
    CanRequired = TRUE
    MaxUses = 1
    N = 2
    MaxDepth = 2
    Recovers = {2}
    Escaped = "redeliver"
    MaxCalls = 1
CHECK_DEADLOCK FALSE
INVARIANTS
    BodyRead
    FormHeld
    RequestAnswered
    BusHandsAll
    MessageAsAsked
    AsksKept
    Attributed
