SPECIFICATION FairSpec
CONSTANTS
    r1 = r1
    r2 = r2
    r3 = r3
    r4 = r4
    d1 = d1
    k = k
    none = none
    NoKey = none
    KeyOf <- MCKeyOf
    Request = {r1, r2, r3, r4}
    Dispatcher = {d1}
    InApp = {r4}
    Platform = {r3, r4}
    Background = {r1, r3}
    PayloadOf <- MCPayloads
    MaxAttempts = 2
    BatchSize = 2
    LateCommit = TRUE
    MaxFaults = 2
    MaxRequests = 3
    MaxToggles = 1
INVARIANTS
    OneNotePerKey
    MailsArePaidFor
    QueuedHasJob
PROPERTIES
    OutcomeIsFinal
    QueuedIsSettled
CHECK_DEADLOCK FALSE
