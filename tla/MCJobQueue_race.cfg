SPECIFICATION Spec
CONSTANTS
    r1 = r1
    r2 = r2
    r3 = r3
    r4 = r4
    k1 = k1
    noKey = noKey
    Request <- RaceRequest
    Dispatcher = {d1}
    Type <- MCType
    TypeOf <- RaceType
    KeyOf <- RaceKey
    NoKey = noKey
    PayloadOf <- RacePayload
    LimitOf <- RaceLimit
    HandledType = {"echo", "dispatch", "suspended"}
    PersistentType = {"suspended"}
    OneShotType = {"dispatch"}
    Batching = {r1, r2}
    BatchSize = 2
    LateCommit = TRUE
    UnusableErrors = TRUE
    MaxCrashes = 1
INVARIANTS
    NoOrphanedRunning
    ExclusiveClaim
    OneRowPerScope
    ReplayIsDurable
PROPERTIES
    ImplementsContract
CHECK_DEADLOCK FALSE
