------------------------------- MODULE JobQueue -------------------------------
(***************************************************************************)
(* The durable job queue of KYROX Core: the table platform_jobs, the       *)
(* requests that enqueue into it, and the sessions that claim and run      *)
(* batches of it (the dispatcher loop of app/main.py and the background    *)
(* batch the jobs and notifications routes start after answering).         *)
(*                                                                         *)
(* A session is a database session.  Its uncommitted rows are work[s], the *)
(* rows it has locked or inserted are held[s]; the committed table is row. *)
(* One request inserts at most one row (uuid4), so a request names its     *)
(* row.  The organisation that scopes an idempotency key is part of Key.   *)
(***************************************************************************)
EXTENDS Naturals, FiniteSets

CONSTANTS
    Request,        \* requests that enqueue; each one names the row it inserts
    Dispatcher,     \* processes running the dispatch loop
    Type,           \* job types
    TypeOf,         \* TypeOf[r]: the job type request r asks for
    KeyOf,          \* KeyOf[r]: its scoped idempotency key, or NoKey
    NoKey,
    PayloadOf,      \* PayloadOf[r]: its canonical payload
    LimitOf,        \* LimitOf[r]: its max_attempts
    HandledType,    \* types with a handler in the registry
    PersistentType, \* _PERSISTENT_RETRY_JOB_TYPES; their handler calls a remote receiver
    OneShotType,    \* types whose handler never returns a success: what it
                    \* returns is retryable=False, or no JobHandlerResult
    Batching,       \* requests whose route starts a background batch
    BatchSize,      \* default_batch_size
    LateCommit,     \* get_db commits after the response and its background task
    UnusableErrors, \* a handler may raise with a message FailureReason rejects
    MaxCrashes      \* bound: crashes of a session in one behaviour

Session == Request \cup Dispatcher

ASSUME ConstantsAssumption ==
    /\ Request \cap Dispatcher = {}
    /\ TypeOf \in [Request -> Type]
    /\ LimitOf \in [Request -> Nat \ {0}]
    /\ Batching \subseteq Request
    /\ BatchSize \in Nat \ {0}
    /\ MaxCrashes \in Nat
    /\ LateCommit \in BOOLEAN
    /\ UnusableErrors \in BOOLEAN

VARIABLES
    row,        \* committed rows
    created,    \* created_at of the inserted rows, as a rank
    clock,      \* source of created
    held,       \* held[s]: rows s has inserted or locked and not yet committed
    work,       \* work[s][r]: the version of a held row that only s sees
    todo,       \* todo[s]: claimed rows whose handler has not run yet
    pc,         \* where each session is
    reply,      \* what the client of each request was told
    delivered,  \* history: effects of each job's handler (0, 1 or 2 = many)
    up,         \* the remote receiver is configured and answers
    crashes

vars == <<row, created, clock, held, work, todo, pc, reply, delivered, up, crashes>>

-----------------------------------------------------------------------------
(* Rows.  JobStatus, plus "absent" for a row that does not exist.           *)

Terminal == {"completed", "failed"}
Status   == {"absent", "pending", "running"} \cup Terminal
Reason   == {"none", "handler_not_found", "handler_error", "non_retryable"}
Row      == [status : Status, attempts : Nat, reason : Reason]

NoRow  == [status |-> "absent",  attempts |-> 0, reason |-> "none"]
NewRow == [status |-> "pending", attempts |-> 0, reason |-> "none"]

Persistent(r) == TypeOf[r] \in PersistentType

SameScope(q, r) ==
    /\ KeyOf[q] # NoKey
    /\ KeyOf[q] = KeyOf[r]
    /\ TypeOf[q] = TypeOf[r]

Seen(s, r) == IF r \in held[s] THEN work[s][r] ELSE row[r]
Locked(s, r) == \E t \in Session \ {s} : r \in held[t]

-----------------------------------------------------------------------------
Init ==
    /\ row = [r \in Request |-> NoRow]
    /\ created = [r \in Request |-> 0]
    /\ clock = 0
    /\ held = [s \in Session |-> {}]
    /\ work = [s \in Session |-> [r \in Request |-> NoRow]]
    /\ todo = [s \in Session |-> {}]
    /\ pc = [s \in Session |-> IF s \in Request THEN "ready" ELSE "idle"]
    /\ reply = [r \in Request |-> "none"]
    /\ delivered = [r \in Request |-> 0]
    /\ up = TRUE
    /\ crashes = 0

(* Ends of a transaction.  Both leave the session at location next.         *)
Forget(s) ==
    /\ held' = [held EXCEPT ![s] = {}]
    /\ work' = [work EXCEPT ![s] = [r \in Request |-> NoRow]]
    /\ todo' = [todo EXCEPT ![s] = {}]

CommitTo(s, next) ==
    /\ row' = [r \in Request |-> Seen(s, r)]
    /\ Forget(s)
    /\ pc' = [pc EXCEPT ![s] = next]

RollbackTo(s, next) ==
    /\ Forget(s)
    /\ pc' = [pc EXCEPT ![s] = next]
    /\ UNCHANGED row

Rest(s) == IF s \in Dispatcher THEN "idle" ELSE "done"

-----------------------------------------------------------------------------
(* Enqueueing.                                                              *)

(* Mutant of Existing: the lookup forgets the job type.                     *)
ExistingAnyType(r) ==
    {q \in Request : /\ KeyOf[q] # NoKey
                     /\ KeyOf[q] = KeyOf[r]
                     /\ row[q].status # "absent"}

(* find_by_idempotency: committed rows only.                                *)
Existing(r) == {q \in Request : SameScope(q, r) /\ row[q].status # "absent"}

(* EnqueueJobUseCase.execute up to the idempotency lookup.                  *)
Lookup(r) ==
    /\ pc[r] = "ready"
    /\ \/ /\ Existing(r) = {}
          /\ pc' = [pc EXCEPT ![r] = "insert"]
          /\ UNCHANGED reply
       \/ \E q \in Existing(r) :
            /\ PayloadOf[q] # PayloadOf[r]
            /\ reply' = [reply EXCEPT ![r] = "conflict"]
            /\ pc' = [pc EXCEPT ![r] = "done"]
       \/ \E q \in Existing(r) :
            /\ PayloadOf[q] = PayloadOf[r]
            /\ reply' = [reply EXCEPT ![r] = "replayed"]
            /\ pc' = [pc EXCEPT ![r] =
                        IF r \in Batching /\ row[q].status = "pending"
                        THEN "background" ELSE "done"]
    /\ UNCHANGED <<row, created, clock, held, work, todo, delivered, up, crashes>>

(* Mutant of Duplicate: the table has no unique index.                      *)
NoUniqueIndex(r) == FALSE

(* uq_platform_jobs_*: a row of the scope is committed.                     *)
Duplicate(r) == \E q \in Request : SameScope(q, r) /\ row[q].status # "absent"

(* The INSERT: it waits for an uncommitted row of the same scope, and the   *)
(* unique index refuses it once such a row is committed.                    *)
Insert(r) ==
    /\ pc[r] = "insert"
    /\ \A q \in Request : SameScope(q, r) => ~Locked(r, q)
    /\ IF Duplicate(r)
       THEN /\ reply' = [reply EXCEPT ![r] = "error"]
            /\ RollbackTo(r, "done")
            /\ UNCHANGED <<created, clock>>
       ELSE /\ held' = [held EXCEPT ![r] = {r}]
            /\ work' = [work EXCEPT ![r][r] = NewRow]
            /\ created' = [created EXCEPT ![r] = clock]
            /\ clock' = clock + 1
            /\ pc' = [pc EXCEPT ![r] = "inserted"]
            /\ UNCHANGED <<row, todo, reply>>
    /\ UNCHANGED <<delivered, up, crashes>>

(* Mutant of CommitsFirst: the answer never waits for the commit.           *)
CommitsLast(r) == FALSE

(* get_db commits before the answer, or (LateCommit) after the answer and   *)
(* the background batch.                                                    *)
CommitsFirst(r) == ~LateCommit

(* The route answers.                                                       *)
Answer(r) ==
    /\ pc[r] = "inserted"
    /\ reply' = [reply EXCEPT ![r] = "created"]
    /\ IF CommitsFirst(r)
       THEN CommitTo(r, IF r \in Batching THEN "background" ELSE "done")
       ELSE /\ pc' = [pc EXCEPT ![r] = IF r \in Batching THEN "background" ELSE "batch"]
            /\ UNCHANGED <<row, held, work, todo>>
    /\ UNCHANGED <<created, clock, delivered, up, crashes>>

-----------------------------------------------------------------------------
(* Running a batch: claim, run every claimed job, end the transaction.      *)

(* Mutant of Claimable: the claim does not respect row locks.               *)
ClaimableLocked(s) == {r \in Request : Seen(s, r).status = "pending"}

Claimable(s) ==
    {r \in Request : Seen(s, r).status = "pending" /\ ~Locked(s, r)}

(* ORDER BY created_at LIMIT BatchSize FOR UPDATE SKIP LOCKED.              *)
IsBatch(s, B) ==
    /\ B \subseteq Claimable(s)
    /\ Cardinality(B) <= BatchSize
    /\ Cardinality(B) < BatchSize => B = Claimable(s)
    /\ \A r \in B, q \in Claimable(s) \ B : created[r] <= created[q]

(* Mutant of Started: the attempt is not counted.                           *)
StartedUncounted(old) == [old EXCEPT !.status = "running"]

Started(old) == [old EXCEPT !.status = "running", !.attempts = @ + 1]

(* ck_platform_jobs_attempt_lte_max, checked by the claim's flush.          *)
ClaimAllowed(s, B) == \A r \in B : Seen(s, r).attempts + 1 <= LimitOf[r]

AtBatch(s) == IF s \in Dispatcher THEN pc[s] = "idle" ELSE pc[s] = "background"

Claim(s) ==
    /\ AtBatch(s)
    /\ \E B \in SUBSET Request :
        /\ IsBatch(s, B)
        /\ s \in Dispatcher => B # {}
        /\ IF ClaimAllowed(s, B)
           THEN /\ held' = [held EXCEPT ![s] = @ \cup B]
                /\ work' = [work EXCEPT ![s] =
                              [r \in Request |-> IF r \in B THEN Started(Seen(s, r))
                                                            ELSE @[r]]]
                /\ todo' = [todo EXCEPT ![s] = B]
                /\ pc' = [pc EXCEPT ![s] = "batch"]
                /\ UNCHANGED row
           ELSE RollbackTo(s, Rest(s))
    /\ UNCHANGED <<created, clock, reply, delivered, up, crashes>>

(* Mutants of AfterError: off by one; no retry; the last error counts as    *)
(* done; the retry leaves the row running.                                  *)
AfterErrorLate(r, old) ==
    IF old.attempts > LimitOf[r] /\ ~Persistent(r)
    THEN [old EXCEPT !.status = "failed", !.reason = "handler_error"]
    ELSE [old EXCEPT !.status = "pending", !.reason = "handler_error"]
AfterErrorFails(r, old) ==
    [old EXCEPT !.status = "failed", !.reason = "handler_error"]
AfterErrorDone(r, old) ==
    IF old.attempts >= LimitOf[r] /\ ~Persistent(r)
    THEN [old EXCEPT !.status = "completed", !.reason = "none"]
    ELSE [old EXCEPT !.status = "pending", !.reason = "handler_error"]
AfterErrorStuck(r, old) ==
    IF old.attempts >= LimitOf[r] /\ ~Persistent(r)
    THEN [old EXCEPT !.status = "failed", !.reason = "handler_error"]
    ELSE [old EXCEPT !.reason = "handler_error"]

(* _apply_failure(retryable=True).                                          *)
AfterError(r, old) ==
    IF old.attempts >= LimitOf[r] /\ ~Persistent(r)
    THEN [old EXCEPT !.status = "failed", !.reason = "handler_error"]
    ELSE [old EXCEPT !.status = "pending", !.reason = "handler_error"]

(* A handler that returned: what is no JobHandlerResult fails the job as    *)
(* retryable=False does, under a message of its own.                        *)
AfterReturn(r, old) ==
    IF TypeOf[r] \in OneShotType
    THEN [old EXCEPT !.status = "failed", !.reason = "non_retryable"]
    ELSE [old EXCEPT !.status = "completed", !.reason = "none"]

NotHandled(old) == [old EXCEPT !.status = "failed", !.reason = "handler_not_found"]

Handled(r) == TypeOf[r] \in HandledType
CanDeliver(r) == Handled(r) /\ (Persistent(r) => up)

Deliver(r) ==
    delivered' = [delivered EXCEPT ![r] = IF @ = 2 THEN 2 ELSE @ + 1]

Save(s, r, new) ==
    /\ work' = [work EXCEPT ![s][r] = new]
    /\ todo' = [todo EXCEPT ![s] = @ \ {r}]
    /\ UNCHANGED <<row, held, pc>>

NextInBatch(s, r) ==
    /\ pc[s] = "batch"
    /\ r \in todo[s]
    /\ \A q \in todo[s] : created[r] <= created[q]

(* JobRunner.run and the save after it, by the outcome of the handler.      *)
RunUnhandled(s, r) ==
    /\ NextInBatch(s, r)
    /\ ~Handled(r)
    /\ Save(s, r, NotHandled(work[s][r]))
    /\ UNCHANGED <<created, clock, reply, delivered, up, crashes>>

RunReturns(s, r) ==
    /\ NextInBatch(s, r)
    /\ CanDeliver(r)
    /\ Deliver(r)
    /\ Save(s, r, AfterReturn(r, work[s][r]))
    /\ UNCHANGED <<created, clock, reply, up, crashes>>

(* The handler raises, before its effect or (a lost answer) after it.       *)
RunRaises(s, r) ==
    /\ NextInBatch(s, r)
    /\ Handled(r)
    /\ \/ UNCHANGED delivered /\ (Persistent(r) => ~up)
       \/ CanDeliver(r) /\ Deliver(r)
    /\ Save(s, r, AfterError(r, work[s][r]))
    /\ UNCHANGED <<created, clock, reply, up, crashes>>

(* FailureReason.create(str(exc)) itself raises: nothing in the batch is    *)
(* saved, whatever the jobs before this one already did.                    *)
RunRaisesUnusable(s, r) ==
    /\ UnusableErrors
    /\ NextInBatch(s, r)
    /\ Handled(r)
    /\ RollbackTo(s, Rest(s))
    /\ UNCHANGED <<created, clock, reply, delivered, up, crashes>>

(* The end of the batch: _process_pending_job_batch commits; a request,     *)
(* with or without a batch, commits in get_db (LateCommit) or has already   *)
(* left get_db and never commits again.                                     *)
EndBatch(s) ==
    /\ pc[s] = "batch"
    /\ todo[s] = {}
    /\ IF s \in Dispatcher \/ LateCommit
       THEN CommitTo(s, Rest(s))
       ELSE RollbackTo(s, Rest(s))
    /\ UNCHANGED <<created, clock, reply, delivered, up, crashes>>

(* The process dies, or the request fails after the insert: the database    *)
(* rolls the transaction back.                                              *)
Crash(s) ==
    /\ crashes < MaxCrashes
    /\ pc[s] \in {"insert", "inserted", "background", "batch"}
    /\ crashes' = crashes + 1
    /\ RollbackTo(s, Rest(s))
    /\ UNCHANGED <<created, clock, reply, delivered, up>>

(* External: the remote receiver goes down and comes back.                  *)
ReceiverFlips ==
    /\ PersistentType # {}
    /\ up' = ~up
    /\ UNCHANGED <<row, created, clock, held, work, todo, pc, reply, delivered, crashes>>

-----------------------------------------------------------------------------
RequestStep(r) == Lookup(r) \/ Insert(r) \/ Answer(r)

Run(s, r) ==
    \/ RunUnhandled(s, r)
    \/ RunReturns(s, r)
    \/ RunRaises(s, r)
    \/ RunRaisesUnusable(s, r)

BatchStep(s) ==
    \/ Claim(s)
    \/ \E r \in Request : Run(s, r)
    \/ EndBatch(s)

Next ==
    \/ \E r \in Request : RequestStep(r)
    \/ \E s \in Session : BatchStep(s) \/ Crash(s)
    \/ ReceiverFlips

Spec == Init /\ [][Next]_vars

(* Threads of a live process run: a request goes on to its end and the      *)
(* dispatch loop, which never returns, takes the next batch.                *)
Fairness ==
    /\ \A r \in Request : WF_vars(RequestStep(r))
    /\ \A s \in Session : WF_vars(BatchStep(s))

FairSpec == Spec /\ Fairness

-----------------------------------------------------------------------------
(* Properties.                                                              *)

TypeOK ==
    /\ row \in [Request -> Row]
    /\ created \in [Request -> Nat]
    /\ clock \in Nat
    /\ held \in [Session -> SUBSET Request]
    /\ work \in [Session -> [Request -> Row]]
    /\ todo \in [Session -> SUBSET Request]
    /\ pc \in [Session -> {"ready", "insert", "inserted", "background",
                           "idle", "batch", "done"}]
    /\ reply \in [Request -> {"none", "created", "replayed", "conflict", "error"}]
    /\ delivered \in [Request -> 0..2]
    /\ up \in BOOLEAN
    /\ crashes \in 0..MaxCrashes

(* Nothing ever resets a row left in status running: there is no lease and  *)
(* no reaper.  The queue relies on claim, run and save being one            *)
(* transaction, so that no crash leaves a committed running row behind.     *)
NoOrphanedRunning == \A r \in Request : row[r].status # "running"

(* FOR UPDATE SKIP LOCKED: two sessions never work on the same row, whoever *)
(* claims or inserts it.                                                    *)
ExclusiveClaim ==
    \A s, t \in Session : s # t => held[s] \cap held[t] = {}

(* The attempt counter stays inside max_attempts, and a waiting ordinary    *)
(* job always has an attempt left, so that claiming it cannot be refused by *)
(* the table's CHECK constraint.                                            *)
WaitingHasBudget ==
    \A r \in Request :
        /\ row[r].attempts <= LimitOf[r]
        /\ row[r].status = "pending" /\ ~Persistent(r) => row[r].attempts < LimitOf[r]

(* A job whose handler raised is given up only when every attempt was used. *)
GivenUpAtLimit ==
    \A r \in Request :
        row[r].status = "failed" /\ row[r].reason = "handler_error"
            => row[r].attempts = LimitOf[r]

(* Enqueueing is idempotent: whatever the interleaving of two requests with *)
(* one key, at most one row of that scope is ever committed.                *)
OneRowPerScope ==
    \A q, r \in Request :
        q # r /\ SameScope(q, r)
            => row[q].status = "absent" \/ row[r].status = "absent"

(* A client that reads completed can rely on the handler having run, and    *)
(* one that reads "non-retryable" can too.                                  *)
SettledWasDelivered ==
    \A r \in Request :
        (row[r].status = "completed" \/ row[r].reason = "non_retryable")
            => delivered[r] > 0

(* A settled row is never written again, by any session with any age of     *)
(* what it read.                                                            *)
TerminalIsFinal ==
    [][\A r \in Request : row[r].status \in Terminal => row'[r] = row[r]]_row

(* A client that was told "created" finds its job, once its request is over.*)
AckedIsDurable ==
    \A r \in Request :
        reply[r] = "created" /\ pc[r] = "done" => row[r].status # "absent"

(* A client that was told the job exists already is right for good.         *)
ReplayIsDurable ==
    \A r \in Request :
        reply[r] \in {"replayed", "conflict"}
            => \E q \in Request : SameScope(q, r) /\ row[q].status # "absent"

(* The queue implements its contract.                                       *)
Contract == INSTANCE JobContract WITH
    Job <- Request,
    status <- [r \in Request |-> row[r].status],
    attempts <- [r \in Request |-> row[r].attempts]

ImplementsContract == Contract!Spec

(* Every accepted ordinary job is settled in the end.                       *)
AcceptedIsSettled ==
    \A r \in Request :
        row[r].status = "pending" /\ ~Persistent(r) ~> row[r].status \in Terminal

(* The security signal: once the receiver stays reachable, an accepted      *)
(* signal is delivered.                                                     *)
SignalIsDelivered ==
    (<>[]up) =>
        \A r \in Request :
            row[r].status = "pending" /\ Persistent(r) ~> delivered[r] > 0
=============================================================================
