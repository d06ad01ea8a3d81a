SPECIFICATION FairSpec
CONSTANTS
    r1 = r1
    r2 = r2
    r3 = r3
    r4 = r4
    k1 = k1
    noKey = noKey
    Request <- MCRequest
    Dispatcher = {d1}
    Type <- MCType
    TypeOf <- MixedType
    KeyOf <- MixedKey
    NoKey = noKey
    PayloadOf <- MixedPayload
    LimitOf <- MixedLimit
    HandledType = {"echo", "dispatch", "suspended"}
    PersistentType = {}
    OneShotType = {"dispatch"}
    Batching = {r1}
    BatchSize = 2
    LateCommit = FALSE
    UnusableErrors = FALSE
    MaxCrashes = 1
INVARIANTS
    AckedIsDurable
    SettledWasDelivered
    WaitingHasBudget
    GivenUpAtLimit
PROPERTIES
    AcceptedIsSettled
CHECK_DEADLOCK FALSE
