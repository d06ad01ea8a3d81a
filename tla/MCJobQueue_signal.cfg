SPECIFICATION FairSpec
CONSTANTS
    r1 = r1
    r2 = r2
    r3 = r3
    r4 = r4
    k1 = k1
    noKey = noKey
    Request <- MCRequest
    Dispatcher = {d1}
    Type <- MCType
    TypeOf <- SignalType
    KeyOf <- SignalKey
    NoKey = noKey
    PayloadOf <- RacePayload
    LimitOf <- SignalLimit
    HandledType = {"echo", "dispatch", "suspended"}
    PersistentType = {"suspended"}
    OneShotType = {"dispatch"}
    Batching = {r2}
    BatchSize = 2
    LateCommit = TRUE
    UnusableErrors = FALSE
    MaxCrashes = 0
PROPERTIES
    SignalIsDelivered
CHECK_DEADLOCK FALSE
