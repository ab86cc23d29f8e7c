SPECIFICATION AnySpec
CONSTANTS
    p = p   g = g  k1 = k1
    Serves = {"http"}
    HttpCalls = {p}
    GrpcCalls = {g}
    Probe = p
    Checks = {k1}
    TelemetryConfigs <- MCTelemetryConfigs
    MaxFaults = 1
    MaxRecv = 2
    NatsSubs = {u1, u2}
    Batches = {u1}
    Max = 2
    MaxMsgs = 3
    N = 3
    Adapters = {"one", "kafka", "jetstream", "nats", "other"}
INVARIANTS
    StopInOrder
    CallAnswered
    SubscriptionsHold
    PublishAccounted
PROPERTIES
    ProcessEnds
    WaitsEnd
    ComesToRest
CHECK_DEADLOCK FALSE
