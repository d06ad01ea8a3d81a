------------------------- MODULE NotificationDelivery -------------------------
(***************************************************************************)
(* Notifications: a request stores one and, for email, enqueues its        *)
(* dispatch job in the same transaction; a batch of the job queue claims   *)
(* the job, and the handler sends the email and stores the outcome.        *)
(*                                                                         *)
(* The handler of a dispatcher's batch works in a database session of its  *)
(* own, committed before the batch is.  The background batch of a request  *)
(* (schedule_notification_worker) lends the handler the request's own      *)
(* session.  A request stores at most one notification and names it.       *)
(***************************************************************************)
EXTENDS Naturals, FiniteSets

CONSTANTS
    Request,
    Dispatcher,     \* processes running the dispatch loop
    InApp,          \* requests for an in-app notification
    Platform,       \* requests of system scope: no organisation, no settings
    Background,     \* requests whose route schedules a batch
    KeyOf,          \* KeyOf[r]: its idempotency key, or NoKey
    NoKey,
    PayloadOf,      \* what payloads_match compares
    MaxAttempts,    \* NOTIFICATION_DISPATCH_MAX_ATTEMPTS
    BatchSize,
    LateCommit,     \* get_db commits after the background task
    MaxRequests,    \* bound: requests made in one behaviour
    MaxFaults,      \* bound: crashes and database errors in one behaviour
    MaxToggles      \* bound: changes of the organisation's email setting

Session == Request \cup Dispatcher

ASSUME ConstantsAssumption ==
    /\ Request \cap Dispatcher = {}
    /\ InApp \subseteq Platform /\ Platform \subseteq Request
    /\ Background \subseteq Request
    /\ MaxAttempts \in Nat \ {0} /\ BatchSize \in Nat \ {0}
    /\ MaxFaults \in Nat /\ MaxToggles \in Nat
    /\ LateCommit \in BOOLEAN

VARIABLES
    note,       \* committed status of each notification
    job,        \* committed dispatch job of each notification
    enabled,    \* kyrox.notifications.email_enabled of the organisation
    pc,         \* where each session is
    notev,      \* notev[s][r]: version of note r that s has not committed
    jobv,       \* jobv[s][r]: version of job r that s has locked or inserted
    todo,       \* todo[s]: claimed jobs that have not run
    current,    \* current[s]: the job whose handler is running
    reply,      \* what the client was told
    mailed,     \* history: emails the provider has accepted
    faults, toggles

vars == <<note, job, enabled, pc, notev, jobv, todo, current, reply, mailed,
          faults, toggles>>

-----------------------------------------------------------------------------
(* NotificationStatus.  "pending" and "sending" are never committed: they   *)
(* are passed through within one action.                                    *)
Terminal == {"sent", "failed", "suppressed"}
Status   == {"absent", "queued", "sending"} \cup Terminal

(* Mutant: a terminal status may be left.                                   *)
NeverTerminal(st) == FALSE
IsTerminal(st) == st \in Terminal

Job    == [status : {"absent", "pending", "running", "failed"}, attempts : 0..MaxAttempts]
NoJob  == [status |-> "absent",  attempts |-> 0]
NewJob == [status |-> "pending", attempts |-> 0]

SeenNote(s, r) == IF notev[s][r] = "absent" THEN note[r] ELSE notev[s][r]
SeenJob(s, r)  == IF jobv[s][r] = NoJob THEN job[r] ELSE jobv[s][r]

NoNotes == [r \in Request |-> "absent"]
NoJobs  == [r \in Request |-> NoJob]

End(s, l) ==
    /\ pc'      = [pc EXCEPT ![s] = l]
    /\ notev'   = [notev EXCEPT ![s] = NoNotes]
    /\ jobv'    = [jobv EXCEPT ![s] = NoJobs]
    /\ todo'    = [todo EXCEPT ![s] = {}]
    /\ current' = [current EXCEPT ![s] = {}]

Commit(s, l) ==
    /\ note' = [r \in Request |-> SeenNote(s, r)]
    /\ job'  = [r \in Request |-> SeenJob(s, r)]
    /\ End(s, l)

Rollback(s, l) == End(s, l) /\ UNCHANGED <<note, job>>

Rest(s) == IF s \in Dispatcher THEN "idle" ELSE "done"
OwnsSession(s) == s \in Dispatcher

Init ==
    /\ note    = NoNotes
    /\ job     = NoJobs
    /\ enabled \in BOOLEAN
    /\ pc      = [s \in Session |-> IF s \in Request THEN "ready" ELSE "idle"]
    /\ notev   = [s \in Session |-> NoNotes]
    /\ jobv    = [s \in Session |-> NoJobs]
    /\ todo    = [s \in Session |-> {}]
    /\ current = [s \in Session |-> {}]
    /\ reply   = [r \in Request |-> "none"]
    /\ mailed  = [r \in Request |-> 0]
    /\ faults  = 0
    /\ toggles = 0

-----------------------------------------------------------------------------
(* SendNotificationUseCase.execute                                          *)

(* A key is an organisation's or, where organization_id is NULL, the        *)
(* platform's.                                                              *)
SameKey(q, r)  == /\ KeyOf[q] # NoKey /\ KeyOf[q] = KeyOf[r]
                  /\ q \in Platform <=> r \in Platform
Existing(r)    == {q \in Request : SameKey(q, r) /\ note[q] # "absent"}
PayloadsMatch(q, r) == PayloadOf[q] = PayloadOf[r]

(* Where the route goes after its answer.                                   *)
Schedules(r, st) == IF r \in Background /\ st = "queued" THEN "background" ELSE Rest(r)

Find(r) ==
    /\ pc[r] = "ready"
    /\ Cardinality({q \in Request : pc[q] # "ready"}) < MaxRequests
    /\ \/ /\ Existing(r) = {}
          /\ pc' = [pc EXCEPT ![r] = "insert"]
          /\ UNCHANGED reply
       \/ \E q \in Existing(r) :
            IF PayloadsMatch(q, r)
            THEN /\ reply' = [reply EXCEPT ![r] = "replayed"]
                 /\ pc' = [pc EXCEPT ![r] = Schedules(r, note[q])]
            ELSE /\ reply' = [reply EXCEPT ![r] = "conflict"]
                 /\ pc' = [pc EXCEPT ![r] = Rest(r)]
    /\ UNCHANGED <<note, job, enabled, notev, jobv, todo, current, mailed, faults, toggles>>

EmailEnabled(r) == r \in Platform \/ enabled

(* Mutant: the unique index forgets uncommitted and later rows.             *)
AnyInsert(r) == TRUE
(* The unique index on scope and key: an insert waits for another           *)
(* transaction's uncommitted one, and fails on a committed one.             *)
MayInsert(r) == \A q \in Request \ {r} : SameKey(q, r) => note[q] = "absent"
InsertWaits(r) == \E s \in Session \ {r}, q \in Request : SameKey(q, r) /\ notev[s][q] # "absent"
                                                          /\ note[q] = "absent"

(* Where one execution leaves a new notification.  A failing enqueue is a   *)
(* database error, and the save after it fails as well: a Crash.            *)
FirstStatus(r) == CASE r \in InApp -> "sent"
                    [] r \notin InApp /\ EmailEnabled(r) -> "queued"
                    [] OTHER -> "suppressed"

(* The notification, and for email the job, in one transaction.             *)
Insert(r) ==
    /\ pc[r] = "insert" /\ ~InsertWaits(r) /\ MayInsert(r)
    /\ pc' = [pc EXCEPT ![r] = "answer"]
    /\ notev' = [notev EXCEPT ![r][r] = FirstStatus(r)]
    /\ jobv' = [jobv EXCEPT ![r][r] = IF FirstStatus(r) = "queued" THEN NewJob ELSE NoJob]
    /\ UNCHANGED <<note, job, enabled, todo, current, reply, mailed, faults, toggles>>

(* The IntegrityError is nobody's to catch.                                 *)
Collide(r) ==
    /\ pc[r] = "insert" /\ ~InsertWaits(r) /\ ~MayInsert(r)
    /\ reply' = [reply EXCEPT ![r] = "error"]
    /\ Rollback(r, Rest(r))
    /\ UNCHANGED <<enabled, mailed, faults, toggles>>

Answer(r) ==
    /\ pc[r] = "answer"
    /\ reply' = [reply EXCEPT ![r] = notev[r][r]]
    /\ IF LateCommit /\ Schedules(r, notev[r][r]) = "background"
       THEN pc' = [pc EXCEPT ![r] = "background"]
            /\ UNCHANGED <<note, job, notev, jobv, todo, current>>
       ELSE Commit(r, Schedules(r, notev[r][r]))
    /\ UNCHANGED <<enabled, mailed, faults, toggles>>

-----------------------------------------------------------------------------
(* A batch of dispatch jobs.                                                *)

(* Mutant: the claim does not skip locked rows.                             *)
ClaimableAny(s) == {r \in Request : SeenJob(s, r).status = "pending"}
Claimable(s) == {r \in Request : /\ SeenJob(s, r).status = "pending"
                                 /\ \A t \in Session \ {s} : jobv[t][r] = NoJob}

(* FOR UPDATE SKIP LOCKED; the order of the claim is JobQueue's concern.    *)
Claim(s) ==
    /\ pc[s] = IF s \in Dispatcher THEN "idle" ELSE "background"
    /\ Claimable(s) = {} => s \notin Dispatcher
    /\ \E ks \in SUBSET Claimable(s) :
         /\ Cardinality(ks) = BatchSize \/ (ks = Claimable(s) /\ Cardinality(ks) < BatchSize)
         /\ todo' = [todo EXCEPT ![s] = ks]
         /\ jobv' = [jobv EXCEPT ![s] = [r \in Request |->
               IF r \in ks THEN [status |-> "running", attempts |-> SeenJob(s, r).attempts + 1]
                           ELSE @[r]]]
    /\ pc' = [pc EXCEPT ![s] = "batch"]
    /\ UNCHANGED <<note, job, enabled, notev, current, reply, mailed, faults, toggles>>

(* The handler always reports retryable = False: JobRunner fails the job.   *)
Ran(v) == [v EXCEPT !.status = "failed"]
(* Mutant: a failed handler always fails its job.                           *)
RaisedOnce(v) == [v EXCEPT !.status = "failed"]
Raised(v) == [v EXCEPT !.status = IF v.attempts >= MaxAttempts THEN "failed" ELSE "pending"]

(* DispatchNotificationUseCase.execute up to the adapter.                   *)
Dispatch(s, r) ==
    LET v == SeenNote(s, r) IN
    /\ pc[s] = "batch" /\ r \in todo[s]
    /\ todo' = [todo EXCEPT ![s] = @ \ {r}]
    /\ \/ /\ IsTerminal(v)
          /\ jobv' = [jobv EXCEPT ![s][r] = Ran(@)]
          /\ UNCHANGED <<pc, notev, current>>
       \/ /\ ~IsTerminal(v)
          /\ notev' = [notev EXCEPT ![s][r] = IF EmailEnabled(r) THEN "sending"
                                                                 ELSE "suppressed"]
          /\ current' = [current EXCEPT ![s] = {r}]
          /\ pc' = [pc EXCEPT ![s] = IF EmailEnabled(r) THEN "mail" ELSE "settle"]
          /\ UNCHANGED jobv
    /\ UNCHANGED <<note, job, enabled, reply, mailed, faults, toggles>>

(* Any exception of the adapter is a failure.                               *)
Outcome(answered) == IF answered THEN "sent" ELSE "failed"

(* The provider accepts and answers; accepts and the connection fails;      *)
(* or does not accept.                                                      *)
Mail(s) ==
    /\ pc[s] = "mail"
    /\ pc' = [pc EXCEPT ![s] = "settle"]
    /\ \E r \in current[s], accepted, answered \in BOOLEAN :
         /\ answered => accepted
         /\ mailed' = [mailed EXCEPT ![r] = @ + IF accepted THEN 1 ELSE 0]
         /\ notev' = [notev EXCEPT ![s][r] = Outcome(answered)]
    /\ UNCHANGED <<note, job, enabled, jobv, todo, current, reply, faults, toggles>>

(* Mutant: a session of its own that nobody commits.                        *)
SettleShared(s) ==
    /\ pc[s] = "settle"
    /\ \E r \in current[s] : jobv' = [jobv EXCEPT ![s][r] = Ran(@)]
    /\ notev' = [notev EXCEPT ![s] = NoNotes]
    /\ pc' = [pc EXCEPT ![s] = "batch"]
    /\ current' = [current EXCEPT ![s] = {}]
    /\ UNCHANGED <<note, job, enabled, todo, reply, mailed, faults, toggles>>

(* The handler commits its own session and returns; the runner saves the    *)
(* job in the session of the batch.                                         *)
Settle(s) ==
    /\ pc[s] = "settle"
    /\ \E r \in current[s] :
         /\ jobv' = [jobv EXCEPT ![s][r] = Ran(@)]
         /\ IF OwnsSession(s)
            THEN /\ note'  = [note EXCEPT ![r] = notev[s][r]]
                 /\ notev' = [notev EXCEPT ![s][r] = "absent"]
            ELSE UNCHANGED <<note, notev>>
    /\ pc' = [pc EXCEPT ![s] = "batch"]
    /\ current' = [current EXCEPT ![s] = {}]
    /\ UNCHANGED <<job, enabled, todo, reply, mailed, faults, toggles>>

(* A database error in the handler: its own session is rolled back and the  *)
(* runner retries; a shared session is lost with all the batch.             *)
HandlerFails(s) ==
    /\ pc[s] \in {"mail", "settle"}
    /\ faults < MaxFaults
    /\ faults' = faults + 1
    /\ IF OwnsSession(s)
       THEN \E r \in current[s] :
              /\ notev' = [notev EXCEPT ![s][r] = "absent"]
              /\ jobv' = [jobv EXCEPT ![s][r] = Raised(@)]
              /\ pc' = [pc EXCEPT ![s] = "batch"]
              /\ current' = [current EXCEPT ![s] = {}]
              /\ UNCHANGED <<note, job, todo>>
       ELSE Rollback(s, Rest(s))
    /\ UNCHANGED <<enabled, reply, mailed, toggles>>

(* A dispatcher commits; a request's session was committed before the       *)
(* answer and its batch is dropped with it, or is committed only now.       *)
EndBatch(s) ==
    /\ pc[s] = "batch" /\ todo[s] = {}
    /\ IF OwnsSession(s) \/ LateCommit THEN Commit(s, Rest(s)) ELSE Rollback(s, Rest(s))
    /\ UNCHANGED <<enabled, reply, mailed, faults, toggles>>

Crash(s) ==
    /\ faults < MaxFaults
    /\ pc[s] \notin {"idle", "ready", "done"}
    /\ faults' = faults + 1
    /\ Rollback(s, Rest(s))
    /\ UNCHANGED <<enabled, reply, mailed, toggles>>

(* External: somebody changes the organisation's setting.                   *)
Toggle ==
    /\ toggles < MaxToggles
    /\ enabled' = ~enabled
    /\ toggles' = toggles + 1
    /\ UNCHANGED <<note, job, pc, notev, jobv, todo, current, reply, mailed, faults>>

Send(r)  == Find(r) \/ Insert(r) \/ Collide(r) \/ Answer(r)
Batch(s) == Claim(s) \/ (\E r \in Request : Dispatch(s, r)) \/ Mail(s) \/ Settle(s) \/ EndBatch(s)

Next ==
    \/ \E r \in Request : Send(r)
    \/ \E s \in Session : Batch(s) \/ HandlerFails(s) \/ Crash(s)
    \/ Toggle

Spec == Init /\ [][Next]_vars

(* A request's thread runs on, and the dispatch loop polls for ever.        *)
FairSpec == Spec /\ (\A r \in Request : WF_vars(Send(r))) /\ (\A s \in Session : WF_vars(Batch(s)))

-----------------------------------------------------------------------------
(* Properties.                                                              *)

(* Every variable has its type.                                             *)
TypeOK ==
    /\ note \in [Request -> Status] /\ job \in [Request -> Job]
    /\ enabled \in BOOLEAN
    /\ pc \in [Session -> {"ready", "insert", "answer", "background", "idle", "batch",
                           "mail", "settle", "done"}]
    /\ notev \in [Session -> [Request -> Status]] /\ jobv \in [Session -> [Request -> Job]]
    /\ todo \in [Session -> SUBSET Request] /\ current \in [Session -> SUBSET Request]
    /\ reply \in [Request -> {"none", "queued", "sent", "suppressed", "replayed",
                              "conflict", "error"}]
    /\ mailed \in [Request -> Nat] /\ faults \in 0..MaxFaults /\ toggles \in 0..MaxToggles

(* One scope and key is one notification, though every request looks for it *)
(* in a snapshot without the others' inserts.                               *)
OneNotePerKey ==
    \A q, r \in Request : (SameKey(q, r) /\ note[q] # "absent" /\ note[r] # "absent") => q = r

(* Nothing changes the outcome of a notification, whatever batches are      *)
(* rolled back, claimed again or run with a stale job.                      *)
OutcomeIsFinal == [][\A r \in Request : note[r] \in Terminal => note'[r] = note[r]]_vars

(* Every email beyond the first, and every email of a notification that is  *)
(* suppressed or still queued, is paid for by a crash or an error.          *)
InHand(r) == \E s \in Session : notev[s][r] \in {"sent", "failed"}
MailsArePaidFor ==
    \A r \in Request \ InApp :
        mailed[r] <= faults + (IF note[r] \in {"sent", "failed"} \/ InHand(r) THEN 1 ELSE 0)

(* A queued notification has a pending job, or its job was given up after   *)
(* as many errors as it has attempts: nothing else strands it.              *)
QueuedHasJob ==
    \A r \in Request : note[r] = "queued" =>
        \/ job[r].status = "pending"
        \/ job[r].attempts = MaxAttempts /\ faults >= MaxAttempts

(* A committed notification that is queued gets an outcome, unless as many  *)
(* errors and crashes happen as its job has attempts.                       *)
QueuedIsSettled ==
    \A r \in Request : note[r] = "queued" ~> note[r] \in Terminal \/ faults >= MaxAttempts

=============================================================================
