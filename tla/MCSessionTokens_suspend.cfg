SPECIFICATION FairSpec
CONSTANTS
    r1 = r1
    r2 = r2
    r3 = r3
    r4 = r4
    s0 = s0
    s1 = s1
    alice = alice
    root = root
    none = none
    Request <- ThreeRequests
    Old = {s0, s1}
    User = {alice, root}
    Member = {alice}
    Kind <- SuspendKind
    UserOf <- OldUserOf
    None = none
INVARIANTS
    LiveSessionHasToken
PROPERTIES
    EveryRequestEnds
CHECK_DEADLOCK FALSE
