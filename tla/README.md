# KYROX Core: TLA+ verification

KYROX Core is a FastAPI + SQLAlchemy service over PostgreSQL: identity and
organisations, an audit log, settings, a durable job queue and notifications.
Every request runs in a thread with one database session; transactions are
PostgreSQL READ COMMITTED; a dispatch loop in the same process drains the job
queue. What is hard in it is what happens between those transactions. This
directory holds TLA+ models of it, TLC configurations that check them on small
instances, and TLAPS proofs of the results that matter for every instance.

All paths below are relative to `src/backend/app/` unless they start with
`src/`.

## 1. Inventory

| Part | State it keeps | Operations | Talks to | What is hard | What makes it correct |
|---|---|---|---|---|---|
| Process and sessions (`main.py`, `db/session.py`, `core/`) | the dispatch task, one DB session a request | start-up batch, loop, `get_db` commit/rollback | everything | where the commit falls relative to the response and the background task | an answered request is committed |
| Jobs (`modules/jobs`) | `platform_jobs` | enqueue, claim, run, save | handlers: echo, notification dispatch, suspension signal | claim+run+save in one transaction, row locks, idempotency race, attempt budget against a CHECK, poisoned batches | one row per idempotency scope, exclusive claims, no orphaned running row, final states final, every ordinary job settled |
| Notifications (`modules/notifications`) | `platform_notifications` | send (enqueues a dispatch job), dispatch (sends the email), list | jobs, settings, SMTP | the dispatch handler commits in a session of its own inside the job's batch; the external effect cannot be rolled back | no send after SENT/FAILED, job and notification agree |
| Sessions and tokens (`identity/application/authentication`: login, refresh, logout, revoke) | sessions, refresh tokens | login, refresh with rotation and reuse detection, logout, revoke all | organisation lifecycle, passwords | concurrent refreshes, revocation racing login, revocations rolled back by the exception that reports them | one live token per session, a revoked session stays dead |
| Action tokens (signup, activation, password recovery) | action tokens, pending users | issue, materialise, consume, invalidate | sessions, notifications | two issues at once, consume racing invalidate | a token is used once, the newest wins |
| Organisation lifecycle (`identity/api/organization`, `application/organization`) | organisations, `updated_at` as the episode | create, update, suspend, reactivate, delete (tombstone) | sessions (revocation), jobs (signal), audit (minimisation) | update and suspend both move `updated_at`; double suspend; stale signal after reactivation | a tombstone is final, every suspension has its signal |
| Restore guard (`identity/maintenance/restore_lifecycle_guard.py`) | a snapshot outside the database | capture, restore, reconcile | organisations | what the old backup brings back beside the organisation row | no organisation is resurrected |
| Access control (roles, templates, permissions, users; DB triggers in `src/backend/alembic/versions`) | roles, grants, assignments, users | create/update/delete role, assign, template sync, permission lifecycle, promote/demote/delete user | sessions | write skew between triggers that read other tables; advisory lock of the last super admin | one active super admin remains; no assignment to a deleted role; one role a user, in one organisation |
| Audit (`modules/audit`) | `audit_logs` | record, list by cursor, minimise, purge | organisation lifecycle | an event recorded by a request that outlives the tombstone; the retention deadline | after minimisation only retained, sanitised rows; nothing purged early |
| Settings (`modules/settings`) | `platform_settings` | get, list, upsert, delete | notifications | get-then-insert races, lost updates | one row per scope and key |
| Migrations (`src/backend/alembic`) and scripts | schema | upgrade | database | one-way, sequential | their triggers and constraints are modelled with the part that relies on them |

`PROJECT.json` lists the same parts with their status, and under `hazards` each
line of the code where one of these difficulties bites.

## 2. Modules

| Module | Models | Runs |
|---|---|---|
| `JobQueue` | the durable queue: requests, database sessions, locks, batches, crashes | `race`, `settled`, `signal` |
| `JobContract` | what a client and a handler may rely on, without sessions or locks; `JobQueue` is checked and proved to implement it | in `race` |
| `SessionTokens` | login, refresh with rotation, logout, password change, suspension: statement by statement on session and token rows | `rotate`, `suspend`, `logout` |
| `NotificationDelivery` | send, enqueue, dispatch, mail and settle, in two database sessions around one email | `deliver` |
| `OrganizationLifecycle` | organisations, suspension episodes, deletion, audit trail, backup and restore | `lifecycle` |
| `UserAccounts` | users, role assignments and action tokens, with the triggers of 0045 and 0058 | `accounts` |
| `RoleGrants` | templates, roles, exclusions and the lifecycle of permissions, with the triggers of 0055 | `grants`, `lock` |
| `MigrationRows`, `MigrationSchema`, `MigrationCatalogue`, `MigrationGovernance`, `MigrationPeople`, `Migrations` | the 73 migration scripts up and down, and the edits between them | `chain` |
| `JobQueueProofs`, `SessionTokensProofs`, `UserAccountsProofs`, `OrganizationLifecycleProofs`, `NotificationDeliveryProofs`, `RoleGrantsProofs`, `MigrationsProofs`, `MigrationAccessProofs` | inductive invariants and theorems | proofs |

Each component has an `MC` module with its small instances and one `.cfg` a run.

How they fit together. `JobQueue` is the queue for every kind of job and treats
a handler as an effect; `NotificationDelivery` looks into the one handler that
has a state of its own, and abstracts the queue to claim, run, save and commit.
`OrganizationLifecycle` queues the signal of a suspension as a set of episodes:
what happens to the job afterwards is `JobQueue` (a persistent type), and the
sessions that the suspension revokes are in `SessionTokens` (`StartSuspend`).
`UserAccounts` and `RoleGrants` share roles: the first says who holds which
role, the second what a role grants. The triggers both rely on are installed by
scripts of `Migrations`, which checks what the tables, grants and assignments
are after them.

Left for later, in order:

1. One module in which a suspension, an activation and a login meet: today each
   of the three modules sees the other two from outside.
2. A sync of several roles at once and the renaming of roles.

Every invariant and action property of a passing run is also proved for every
value of the constants (`AccessKept` for all but those with a stop at 0011), except four of `Migrations`
(`ScriptsRun`, `SchemaServes`, `CustomisedKept` and `InStepStays`, see section 9), and the liveness
properties `AcceptedIsSettled`, `EveryRequestEnds` and `QueuedIsSettled`.

The type invariant of each module is its `TypeOK`. It says what the variables
are; where a proof needs it, it is proved, and only that of `Migrations`, which
holds the referential integrity of the catalogue and of assignments, is one of
the properties of a run.

## 3. The job queue model

**State and code.** `row` is the committed table; `created` its `created_at`
order. A session's uncommitted rows are `work[s]` and the rows it has locked or
inserted `held[s]`; `Seen(s, r)` is what a query of session `s` returns. `todo[s]`
are the claimed jobs of the batch that have not run. `pc` is the place of the
session in `EnqueueJobUseCase.execute`, the route, or
`ProcessPendingJobsUseCase.execute`. `reply` is what the client was told,
`delivered` counts effects of the handler and saturates at "many", so that it
bounds nothing. A row is named by the request that would insert it, which is
what `uuid4` gives.

**Actions.** `Lookup`/`Insert`/`Answer` are the enqueue use case cut where other
sessions can interleave: after the lookup, and at the flush. `Claim` is
`SELECT ... ORDER BY created_at LIMIT n FOR UPDATE SKIP LOCKED` with the update
and the flush after it, which the table's CHECK may refuse: then the
exception ends the transaction. `RunUnhandled`, `RunReturns`, `RunRaises` and
`RunRaisesUnusable` are `JobRunner.run` with the `save` after it, one action for
each outcome of the handler; the last is the exception `FailureReason.create`
raises inside the runner's own except block. `EndBatch` commits, or does not:
see `LateCommit`. `Crash` is the death of the process or of the request, which
the database answers with a rollback. `ReceiverFlips` is the environment of the
suspension signal.

**LateCommit.** FastAPI decides whether the exit of `get_db` (the commit) runs
before or after the response and its background task, and it has changed its
mind; `requirements.txt` (`fastapi>=0.115.0`) admits both orders. `LateCommit`
is therefore a constant and the theorems hold for both values. Commit first: the background
batch uses a session whose commit is over, so its work is rolled back when the
session is dropped. Commit last: the batch and the enqueued job share a
transaction.

**What is abstracted.** Payloads are values compared for equality; `result`,
timestamps other than the order, and messages are left out; the SQLite variant of the
claim (used by tests only) is not modelled; `failure_reason` keeps only which
of the runner's branches wrote it. A handler that never returns a success
(`retryable=False`, as the notification dispatch handler, or no `JobHandlerResult`) is
`OneShotType`.

### Runs

| Run | Asks |
|---|---|
| `race` | two equal requests and one with another payload race for one key, with a signal job under the same key and another type, background batches and a dispatcher, one crash, poisoned messages, commit last: no orphaned running row, exclusive claims, one row per scope, a replay answer stays true, and `JobContract` is implemented |
| `settled` | a background batch and a dispatcher, commit first, one job that completes or is retried, one that its handler gives up and one of a type nobody handles: a 201 is durable, what reads completed took effect, and so did what its handler gave up; attempts stay in budget, an ordinary job is given up at exactly `max_attempts`, every accepted ordinary job is settled |
| `signal` | (expected violation) the comment in `job_runner.py:8-12` against the CHECK constraint |

**Bounds.** `race` has four requests, of which three contend for one key (the one that wins, its
equal and its rival), one dispatcher and two background batches (a background
batch and a dispatcher claim by the same statement, so three sessions contend); `settled` has three
rows, so that they settle in every way: completed, given
up by the handler, failed at the limit, nobody's. Limits are 1 and 2, the batch size is 2,
and there is one crash (`MaxCrashes`, the only bound the model itself needs: everything else is
finite by itself). Three rows are the least at which a batch holds some, leaves
some and races with an insert; limits 1 and 2 give both a first and a last
attempt; a batch of 2 lets one job poison another.
`CHECK_DEADLOCK FALSE`: a run stops when all jobs are settled and no request is left.

**Fairness.** `Fairness` is weak fairness of each request and of each session's
batch steps: a request thread runs to its end, and the dispatch loop, which
catches every exception, always polls again. No outcome of a handler is favoured. The
receiver of the signal is not assumed fair; `SignalIsDelivered` has
"eventually always up" as its own hypothesis. `settled` has no
persistent-retry job and no poisoned message: with them the liveness is
false, which is what `signal` shows.

**Disagreement found.** `signal`: after `max_attempts` claims the suspension
signal is pending with all attempts used; the next claim breaks the CHECK
constraint, the batch rolls back and is retried for ever. Nothing in the code
promises that a 201 is durable when the commit comes last, and `AckedIsDurable`
is therefore asked with the commit first: with `LateCommit` a background batch
that claims such an exhausted signal rolls back the answered job with it.

### Proofs (`JobQueueProofs`)

For every set of requests and dispatchers, every limit, batch size, number of
crashes and both commit orders, from `ConstantsAssumption` alone:
`TypeCorrect`, `NoOrphans`, `ClaimsExclude`, `BudgetHolds`, `GivesUpAtLimit`,
`EnqueueIsIdempotent` and the action property `SettledIsFinal`.

The properties speak of committed rows, and what a commit writes is decided by
the uncommitted versions; they are not inductive. `IInv` adds: who holds what
(`BatchShape`), that an uncommitted version is running exactly while its handler
is due and is otherwise fit to be committed (`WorkFits`), that only absent or
pending rows are held (`HeldIsOpen`), that a request that has not inserted has
left no trace (`NotInserted`), and that a scope has one *live* row, committed or
not (`OneLivePerScope`; counting committed rows only is not preserved by a
commit). There is one lemma for each way a transaction ends (`CommitKeeps`,
`RollbackKeeps`) and for a save (`SaveKeeps`), so each action's proof is its
reduction to one of these; `SettledIsFinal` needs only `HeldIsOpen` and
`RowChanges`. `TypeOK` and `TerminalIsFinal`, which `TypeCorrect` and `SettledIsFinal`
state, are in no run.

The second part of the module proves that `JobQueue` implements `JobContract`, step
by step, and what a client's answer is worth: `SettledMeansDelivered`, `ReplaysAreDurable`,
`AnswersAreDurable` (under `~LateCommit`; it is false otherwise) and
`QueueImplementsContract`. A commit is one step of the contract for many jobs, and the
contract allows each of them one step only: `WorkSteps` says that an uncommitted
version is not ahead of its row if it was just inserted, and one attempt ahead if it
was claimed. It is inductive only with `FreshUntilClaim`: a session claims once in
a transaction, since before its claim it holds nothing but the row it inserted.
`WorkDelivered` says of every version that reads as settled by its handler that
the handler took effect (so `SettledWasDelivered` after the commit), and
`AnsweredIsCommitted` with `InsertedIsHeld` ties a 201 to the committed row. The
refinement maps a commit to `Commit` (`CommitRefines`), a run whose handler takes
effect to `Deliver` (`DeliverRefines`), everything else to a stutter.

Only model-checked: `AcceptedIsSettled`; liveness is out of the prover's reach.

## 4. The session and token model

**State and code.** `row` holds the committed rows of `sessions` and
`refresh_tokens`, both in one function of keys `Token(i)` and `Session(i)`,
because a request inserts at most one of each and so names them. `born` is
the rank of `created_at`. `work[r]` are the versions request `r` has written
and not committed: to have one is to hold the row's lock. `entity[r]` are the
domain entities the use case carries between statements, with its changes;
`todo[r]` the entities it has still to write, `changed[r]` the columns of the
UPDATE that is about to run, `next[r]` what follows the last UPDATE.

**Actions.** A use case is cut at every statement, because READ COMMITTED
gives each statement a snapshot of its own. `PresentUnknown`, `PresentDead`,
`PresentLive`, `ReadSession`, `RefuseSuspended`, `Rotate`, `Reread`, `Raise` and
`Issue` are `RefreshSessionUseCase.execute` with its early returns and raises;
`PresentToLogout` and `Reread` are the logout; `ListTokens` and `ListSessions`
are the two queries of both mass revocations, which a login, a password change
and a suspension run after `StartLogin`, `StartPassword`, `StartSuspend` and
`LockOrganization`. `repository.update` is two actions: `Prepare` re-reads
the row (nothing keeps the model object alive between the two calls, and the
identity map is weak) and the mapper assigns every column, of which SQLAlchemy
sends those that differ; `Write` is the UPDATE, which waits for the
lock and keeps the other columns of the version it finds. `Stamped` are the columns a
use case has just set to the current time: they always differ. `Raise` ends in
a rollback because the route turns the use case's exception into an
`AppException` that passes through `get_db`.

**What is abstracted.** Expiry, and with it every clock; the columns of the
user row (status, password, rehash at login): a password change matters here
by the user row it locks and the sessions it revokes; the access token; two
rows with one `created_at`; the key-share locks of foreign keys, which no
statement here conflicts with, since none changes a key.

### Runs

| Run | Asks |
|---|---|
| `rotate` | two refreshes, a logout and a password change over two sessions of two users: a successor follows a spent token, a dead token stays dead, a mass revocation leaves dead what it listed, a finished session is finished for good, no cycle of lock waits |
| `suspend` | a suspension and a login beside a refresh, of a member and of a super admin whom the suspension spares: a live session keeps a live token where a rotation meets two mass revocations, and every request that has started ends |
| `logout` | (expected violation) "a logout revokes the session" |

**Bounds.** None beyond the sets: a request is one transaction, and three or four
of them over one or two old sessions are all there is. Two refreshes are the
least that race for one token and make a chain of two rotations; the third and
fourth request revoke under them, from one row (logout) or from a list. Two
sessions of two users let a lock order go wrong and a suspension spare somebody.
`CHECK_DEADLOCK FALSE`: a run stops when every request has ended.

**Fairness.** `FairSpec` is weak fairness of `Continue(r)`: the thread of a
request that has started runs on. No request has to start, and no
abort has to happen. A thread blocked on a row lock is not enabled; `EveryRequestEnds` holds
because the holders of locks end.

**What the model shows beside its properties.** Two causes recur. Rows are read without a
lock and written back by id, so a check on what was read does not hold when the
write happens; and a refusal is an exception, which rolls back what was
written to go with it.

- A refresh that had read a session before its logout committed revives it
  (`logout`; the finding in `PROJECT.json`).
- Two refreshes with one token both rotate it: the refusal of a used token
  holds between requests that follow one another and not between concurrent ones.
- The revocation that goes with a detected reuse is rolled back with the
  exception that reports it: neither the mark nor the revocation is ever
  committed (`Raise`, then the abort).
- Two logins at once both keep their session: each lists the sessions to
  revoke before the other's is there.
- A login that checked its organisation and password before a suspension or a
  password change commits its session after the listing, and the session
  survives. Nothing in the code promises otherwise.

What does survive the stale write-backs is worth as much: tokens stay dead (every
writer stamps `revoked_at`), only a refresh that had already read the session can
revive it (`FinishedForGood`), and the order of the two queries, tokens first,
is what keeps a live session renewable (`LiveSessionHasToken`).

### Proofs (`SessionTokensProofs`)

For every set of requests, users and sessions, from the two assumptions of the
module: `TypeCorrect`, `RotationIsAtomic` (`RotationSpends`) and the action
property `TokensStayDead` (`DeadTokenStaysDead`).

A commit installs the uncommitted versions over rows that may have changed since
their entities were read, so nothing about committed rows is inductive alone.
The key fact of `IInv` is `WorkDead`: a version of an *existing* token is
revoked, whichever entity it came from, because every entity a request has
still to write is revoked (`LocalInv`) and the UPDATE includes `revoked_at`. `WorkSpends`
says the predecessor of an uncommitted token is dead or dies in the same
transaction; `WorkExists` that only the request that names a row inserts it;
`SessionKnown` and `ReuseRevoked` carry the facts on which a refresh relies when it
follows a token to its session. Three lemmas carry the steps: `QuietKeeps`
(reads), `WorkKeeps` (a request's own versions change) and `CommitKeeps`; the
lemma of each action reduces it to one of them.

Its second part proves `LiveSessionsAreRenewable` (`LiveSessionHasToken`),
`RevocationsReachTheirList` (`RevokesWhatItListed`), `FinishedSessionsStayFinished`
(`FinishedForGood`) and `LocksAreOrdered` (`NoDeadlock`). All four depend on what an open
transaction holds, has written and has still to write, and `IInv` is silent about
that; `PlanInv` adds it, once for each request (`Planned`): which entities it may
have loaded, that a version of an existing row comes from one of them and keeps its
owner, that all it has written comes before all it has still to write (`OrderOK`),
and that a session and a token are inserted together and alive. A plan speaks of
its own request and of rows that exist, so the steps of others cannot disturb it:
`OthersPlanned` says so once, and each action is left with its own request.

- A live session has a live token that no open transaction takes unless it also
  takes the session or has not yet listed it (`SessionsRenewable`). That is where the
  order of the two queries matters: a transaction that has listed its tokens lists
  sessions afterwards, so it sees every session whose token it took. A refresh
  also takes a token, but commits a successor with it.
- `RevokesWhatItListed` and `FinishedForGood` follow from `EntitiesOK` and
  `VersionsOK`: a row is listed until it is written, and a version of a revoked
  entity is revoked.
- A request that waits for a row holds only earlier ones, by the order in which
  the listing transactions write: tokens before sessions, then by date of creation. The
  dates differ (`BirthsDiffer`), which is a fact of the model: `born` is a rank, and
  two rows of one user with the same `created_at` are not modelled. Among rows that requests of a waiting circle
  want and others of it hold, one has the fewest rows after it, and its holder
  wants a later one, which contradicts the choice (`WFMin` over `Nat`).

`PlanInv` is inductive only together with `IInv`; TLC checked both on the instances
of `rotate`, `suspend` and `logout` before they were proved.

Only model-checked: `EveryRequestEnds`; liveness is out of the prover's reach.

## 5. Notifications (`NotificationDelivery`)

**State and code.** A request stores at most one notification and names it.
`note` and `job` are the committed notification and its dispatch job, `notev[s]`
and `jobv[s]` the versions a session has not committed, `todo` and `current` the
batch a session is running. `mailed` counts the emails the provider has accepted.

**Actions.** `Find`, `Insert`, `Collide` and `Answer` are `SendNotificationUseCase.execute`
and its route; `Insert` stores the notification and the job in one
transaction, or an in-app notification alone. `Claim`, `Dispatch`, `Mail`, `Settle` and
`EndBatch` are a batch; `Dispatch` is `DispatchNotificationUseCase.execute` up to
the adapter, which reads the organisation's setting of that moment (`Toggle`
changes it). `Mail` has three outcomes: accepted and answered, accepted and
then the connection fails, not accepted. A dispatcher's handler has a session of
its own, committed by `Settle` before the batch commits; the background batch of
a request lends the handler the session of the request. `HandlerFails` is a
database error inside the handler and `Crash` the death of a session.

**Runs.** `deliver`: two equal requests of an organisation for one key, the
first with a background batch, so that one is a replay of the other or collides with it,
and two requests of the platform, a mail and an in-app notification with different payloads,
for a key of the same name. Keys are scoped by the organisation, or by having none
(`SameKey`): the organisation's and the platform's never meet. With a dispatcher beside the two mails' background
batches: one key is one notification, an outcome is final, each email beyond
the first is paid for by a fault, a queued notification has a job that will
bring it an outcome, and (`QueuedIsSettled`) it gets one. Two requests suffice for the race of
one key, and the third makes a batch of 2 mix two notifications: `MaxRequests` is 3, any three
of the four.
`MaxAttempts` is 2, the least that has a first and a last attempt; `MaxFaults` is
2, so that faults can use up a job; `MaxToggles` is 1, so that the setting may
differ between sending and dispatching, and between two attempts.
`LateCommit` is `TRUE`: see below.

**Fairness.** `FairSpec` is weak fairness of `Send(r)` (a request's thread runs
on) and of `Batch(s)` (the dispatch loop polls for ever, and a background task runs to
its end). Faults and the setting are free. `QueuedIsSettled` excuses
a notification whose job was given up after as many faults as it has attempts.

**What the model shows beside its properties.** With the commit before the
background batch (`LateCommit = FALSE`, a lent session that nobody commits any
more, `api/dependencies.py:38-42`), the record of a mail that was sent is lost
with the batch and a dispatcher sends the mail again, without any fault. The job of a
notification that was delivered ends `failed`, because the handler
reports `retryable=False` whatever happened
(`notification_dispatch_job_handler.py:83`): jobs and notifications agree on being
final and not on the outcome.

### Proofs (`NotificationDeliveryProofs`)

For all requests, dispatchers, keys, limits and settings, from
`ConstantsAssumption`: `TypeCorrect`, `OneKeyOneNote`, `NothingIsStranded`,
`EmailsAreCharged` and the action property `OutcomesStand`, which are all the
safety properties of its runs; `QueuedIsSettled`, the liveness property, is TLC's.
The argument is one inductive invariant. The code locks the job and never
the notification, so that one session at a time works on a notification has to
follow from the job: `NoteVersionFits` says that a session with an uncommitted
notification holds its job or is the request that is inserting it, and that
nobody has an uncommitted version of a settled notification, which is
`OutcomesStand`. `JobVersionFits` and `CommittedFits` say that a job given up, in a
session or committed, has its notification settled in the same session or was
paid for by faults, which is `NothingIsStranded`. `OneLivePerKey` extends
`OneNotePerKey` to what is inserted and not committed: there the unique index
works. `SessionShape` ties each session's versions to where it is. `BatchKeeps` proves
once what every step of a batch leaves alone; `CommitKeeps` and `RollbackKeeps` are
the two ends of a transaction.

`EmailsAreCharged` assumes `LateCommit`. Without it a request's own batch is rolled
back without a fault, emails and all, and the statement is false, as said above.

## 6. Organisations, audit trail and restore (`OrganizationLifecycle`)

**State and code.** `row` are the committed organisations; `updated` is the
stamp that names a suspension episode. `signals` are the episodes queued to the
product, `trail` the audit events by kind (lifecycle, closure, closure without
values, other). A request is cut in three: `Read` (the use case with its checks, into
`entity`), `Reload` (`repository.update` reads again and the
mapper notes the columns that differ, in `patch`), `Write` (the UPDATE under
the row lock, the audit event, the signal or the minimisation, and the commit). The
conditional deletion and an audit event have no second step. `Backup`, `Capture`,
`PgRestore` and `Reconcile` are the maintenance procedure around
`restore_lifecycle_guard.py`. `since`, `unseen`, `dead`, `usable` and `blind` are
history, for the properties only.

**Run `lifecycle`.** Three requests of any kind on one organisation and on one
created later, a backup taken at any time and two restores. Two requests race on one
row; the third is what the two must not have broken (a deletion after an
update that overtook a suspension), and a second restore is the least that can
restore over a restored database. Requests are interchangeable (`SYMMETRY`; no
property there is a liveness property). Checked: a conditional
deletion hits the very suspension whose episode it names; what was deleted
stays deleted, across restores too, but for the two ways named in the
property; a deleted organisation's trail holds minimal evidence but for requests
that were under way.

**What the model shows beside its properties.**

- An edit that read the organisation before its deletion or suspension writes
  back every column that then differs: it revives a deleted organisation, or
  undoes a suspension (`ByStaleEdit`).
- A rename and a second suspension move `updated_at`, so one suspension may have
  two episodes; a reconciliation that changes no status does not move it, so an
  old episode may be current again after a restore.
- A restore brings back the unminimised trail, sessions and jobs of the backup:
  the guard reconciles organisations only.
- When the guard blocks a restore, a second capture takes the blocked
  database for the authority (`blind`).

### Proofs (`OrganizationLifecycleProofs`)

For every set of organisations and requests and any number of restores, from
`LifecycleAssumption`: `TypeCorrect`, `TrailsAreMinimal` and the action properties
`TombstonesHitTheirEpisode` and `TombstonesHold`, which are all the properties of the
run. None of them is inductive. What a request under way may still write is
in `RequestShape`: it works on a row that exists, and no edit sets `deleted` to a
stamp. `StragglersAreUnseen` says that whoever may still revive a deleted
organisation, or record more than minimal evidence in it, was under way at its
deletion; that covers the trail and the stale edit at once. For the episode,
`Tracked` (a suspended row's stamp was written since the suspension) is asked of the
rows and of the backup (`BackupOK`), since a restore puts one in the place of the
other. For the restore, `MemoryFollows` ties `dead` and `usable` to the rows while
the service runs, `SnapshotRemembers` to the snapshot while it does not, unless
the database captured was a blocked one. There is one lemma for each kind of step
(`BeginKeeps` for all readers, `CommitKeeps` with `QuietKeeps` and `RemoveKeeps` for all
writers, one each for the steps of a restore).

## 7. Users, assignments and tokens (`UserAccounts`)

**State and code.** `user`, `assignment` and `token` are the committed rows of
`identity_users`, `identity_user_roles` and the action tokens; `org` and `retired` what users and
roles need of organisations and deleted roles. A request reads (`entity` for use
cases whose repository re-reads the row in `Reload`, `patch` and `plan` at once for routes
that hold it), flushes under the row lock and through the
triggers, and commits. `Consume` is the conditional UPDATE with which a redeemer begins; a
redeemer that is then refused gives the token back by rolling back.

**Actions.** `UpdateUser`, `DeleteUser`, `RestoreDeletedUser`, `CreateUser`, `PublicSignup`,
`DeleteOrganizationRole`, `ForgotPassword`, `ChangePassword`, and `Consume` with
`ReadRedeemer` and `RejectRedeemer` for activation and reset; `FlushUser` and
`FlushForgot` wait for locks and run `identity_protect_last_super_admin` (an
advisory lock, one removal at a time) and `identity_validate_user_role_assignment`
(which locks nothing); `CommitUser`, `CommitForgot`, `CommitRetire`; `Expire`.

**Run `accounts`.** Three requests of any kind on two super admins, a member and
an email that is not there yet. Two super admins are the least of whom two
removals leave none; three requests let a deletion, an assignment and a
restore, or two resets and a redemption, overlap. Requests are
interchangeable, and so are the two super admins (`SYMMETRY Alike`). The
changes an administrator may ask are five (`Changes`), one for each branch of
`update_user`. Checked: a super admin remains; a user has two active assignments only
through two concurrent requests; assignments are of roles and users
that exist, but for concurrent deletions; a token is consumed by
exactly one act; only the latest reset token is usable, but for concurrent requests.

**What the model shows beside its properties.**

- Duplicate assignments, once there, may survive a further assignment: the loop of
  `_assign_role` returns at the first that already says what is asked.
- A stale activation, reset or change of password writes back the user it had
  read, and can so undo a demotion, a deactivation or a deletion.
- Two overlapping requests for a reset leave two usable tokens, and one whose mail
  is refused invalidates the token of the other; using one token does
  not invalidate others.
- An activation overlapping the deletion of its user may leave an active
  organisation without users.
- `update_user` makes a member super admin and leaves the member's active assignment (it revokes
  assignments only when it assigns a role). The trigger of 0058 raises 'Super Admin access cannot be
  represented by a role assignment', but it sees inserts and updates of assignments only, so one
  request leaves what the message excludes. What is left is in one organisation: section 9.

### Proofs (`UserAccountsProofs`)

For every set of requests, users, roles and changes, from `AccountsAssumption`
(there is a founder; `None` is no name and no row):
`AnAdminRemains` (`SuperAdminRemains`) and `ActsConsume` (`ConsumptionIsTheAct`).

Neither property is inductive, since both depend on what open transactions are
about to write. `AdminInv` adds that two flushed requests never write one
user (`RowIsHeld`), that one at most removes a super admin (`OneRemoval`, the advisory
lock) and that this one leaves another (`RemoverLeavesOne`). The last
survives the commits of the others because a commit that is not a removal leaves
its user as active a super admin as it was. `TokenInv` adds that only ended
requests have issued a token (`Issued`), that a held token is open and its
holder under way (`HeldIsOpen`) and that it has one holder (`HeldOnce`).
`TypeInv` and `Addressed` are the types the steps need. There is a lemma for each way a
transaction moves (`AdminBegins`, `AdminFlush`, `AdminCommit`, `AdminEnds`, and their `Token`
counterparts), and `StepIInv` reduces each action to these.

The second half of the module proves, on top of that, `TypeCorrect` (`TypeOK`),
`RolesReplaceEachOther` (`OneRole`), `NothingIsAssignedToTheDeleted`
(`AssignmentsAreLawful`) and `LatestTokenCounts` (`OneOpenToken`). These allow what
requests under way at once did to each other; the proof is that a request knows of
everything else. `AInv` says so in three parts:

- `Company`: any two open requests are beside each other.
- `Planned(r)`: what `r` is about to write follows from what it was asked. A patch
  taken from a row leaves a row (`Fits`); only a deletion sets `deleted`, and a
  stale entity can only clear it.
- `Current(r)`: since `r` read, only requests beside it can have put it out of
  date. What it does not revoke was granted beside it (`RevokesStand`), and so on
  for a deleted user, a retired role, a role in use, a reset token that it
  will not invalidate, and the email of a new user, which nobody else can take
  once `r` has flushed (this is where `RowIsHeld` is needed).

The step of another request is split in two: it changes rows only in ways a
request beside it may see (`Gently`, proved for each commit), and then `Planned`
and `Current` of the others survive (`OthersStand`, proved once). The latest
assignment of a restore exists because stamps do not exceed the clock
(`LatestIsOne`, from the well-foundedness of the natural numbers).
Nothing of the run's properties is left to TLC alone.

## 8. Roles and permissions (`RoleGrants`)

**State and code.** `grant[x][p]` is the request that inserted the committed
grant of permission `p` to role `x`; `state` the lifecycle of permissions; `source` the
template a role came from; `exclusion` what it leaves out of it. A DELETE
is two actions, the snapshot (`StartDelete`) and the end of its wait for the rows that
others have deleted (`FinishDelete`), because in between other
transactions insert grants which it does not see. `FlushRole` inserts through
`identity_enforce_permission_lifecycle`, `FlushLifecycle` updates the state, and
`identity_apply_permission_lifecycle` grants to the roles that include new
permissions or strips grants with a DELETE of its own (`stripping`). An edit of a derived
role reads twice what is locked on it: before its DELETE, to keep it (`Wants`), and after
its flush, to note what the role excludes (`NoteTemplate`, `NoteLocked`, two queries).
`leaves` holds what it was not asked for, cut down by the two.

**Runs.** `grants`: three requests edit a template, derive, sync, create and edit roles, and lock,
deactivate and activate two permissions, over one template, one role derived from it and one role
that includes new permissions. A grant of a permission that is not active was inserted beside the
change that stripped it; an excluded permission is granted only by a request that was under way
beside the one that excluded it, or by that one, if a third unlocked the permission beside it. Two
requests make the first exception of each happen, and the third could break it later. The second
one of exclusions needs five (a leftover of a lock on the role, an edit that keeps it, an unlock
and an edit of the template between its two readings) and is beyond the run: for it there is the
theorem. Requests are interchangeable (`SYMMETRY`). `lock` (expected violation): comments say that
a lock keeps grants.

**What the model shows beside its properties.** A lock deletes every
grant of a permission (the finding `lock`), and an unlock restores them only
to the roles that include new permissions. A leftover grant of a locked permission makes its role
impossible to edit: `_replace_permissions` keeps it and re-inserts it, which the
trigger refuses. Two edits of one role at once may leave the union of
their grants beside the exclusions of one of them. A deactivation that read
its permission as already inactive, and so changes no state, still strips the
grants which an activation in between gave. A permission that an edit keeps as locked and
that is unlocked before the edit notes its exclusions is granted and excluded by the same
edit, if the template grants it by then.

### Proofs (`RoleGrantsProofs`)

For every set of requests, roles, templates and permissions, from `GrantsAssumption`:
`TypeCorrect`, `LeftoversAreLate` and `ExclusionsHold`, which are the two invariants of
the run `grants`. Both are one fact about READ COMMITTED, said twice: `RoleDelete`
for the DELETE of an edit or a sync, `TriggerDelete` for the one of the trigger. What
such a DELETE has neither seen nor removed was granted by a request that is
`BesideEachOther` with it, since only requests under way insert (`AddedShape`) and a
grant names one that has ended (`GrantedByDone`). `AddedIsActive` carries the check
of the other trigger from the flush to the commit: by then the permission may have ceased
to be active, but only beside. `ExclusionShape` (only roles that came
from a template exclude, and none that includes permissions by itself) is why the triggers'
own grants and new roles never meet an exclusion. `KeptShape` is about the two readings of an
edit: what it keeps unasked was locked when read, so since the flush takes only what is
active, somebody `beside` unlocked it; `BesideHasBegun` makes that lasting, because whom a
request knows never begins again. `BeginKeeps`,
`LocalKeeps` and `EndKeeps` are the three ways a step moves a request; each action is
reduced to one of them.

## 9. Migrations

**State and code.** `schema` is the set of tables, references and constraints
(`MigrationSchema`), `cat` the permission catalogue with roles, grants, exclusions and
versions (`MigrationCatalogue` to 0034 with the idioms of seeds, `MigrationGovernance` from
0035), `people` users, memberships and assignments (`MigrationPeople`), `rows`
the kinds of platform rows that exist. These are what is committed; `run` is the
open run of alembic: where it goes, the last script it has executed, and the
database its transaction sees. The operators carry the revision of their
script: `S0016` and `T0016` are what 0016 does to the schema up and down, and
`U`/`D` do the same for the catalogue and `V`/`X` for the people.

**Actions.** `Begin` opens a run of alembic from one stop to the next; `Upgrade` and
`Downgrade` execute one script of it; `Commit` is the end of
`context.begin_transaction()`, and `Abort` a script that raised (`run.db.ok` is
FALSE and nothing but `Abort` is left) or alembic being stopped between two scripts: the transaction is rolled
back. Between runs the application of the deployed revision edits its rows: `AddRole`, `Join` and `Assign`
before 0057, `CreateUser`, `CreateSuper`, `UpdateSuper` and `UpdateMember` from then on, and
`SetLifecycle`, `EditTemplate`, `Derive`, `Customise`, `AddRow`.

**The edits of users.** From 0057 they are `create_user` and `update_user` of the head, whole. `CreateUser`
makes a user of an organisation with a role (so does a public signup), `CreateSuper` a super admin, who
has an organisation too and no role. `UpdateSuper` is an update that leaves the user super admin: a
promotion, which keeps the assignments there are, or the organisation given to a super admin who has
none. `UpdateMember` is one that leaves the user none: another role or a demotion, which moves the user to the
organisation of the request; `AssignRole` revokes the other active assignments, or only some of
them when the role is held already, since the loop of `_assign_role` returns there. Who demotes is
another super admin or the user, but never the last one (0045). The trigger of 0041 has the
owner born super admin, so that the owner cannot be created with a role, and at 0057 nobody can get a role: the
trigger of 0047 asks for the memberships that are gone.

**Run `chain`.** Nine stops (0, 10, 15, 45, 47, 52, 58, 66, 73), before and after the scripts that
restructure: roles without memberships (10, 15), governance (45, 47), the merges (52), users
without memberships (58), platform identity (66). `MaxEdits` 2 gives a template edit and a
customised role, or a user and another role; `MaxTurns` 1 gives every upgrade, downgrade and mixed
path with one turn. Checked: no script raises on a database whose rows are as expected (`Expected`
spells out what that means); the head finds the tables its models declare; from 0039 on every
foreign key lets a deletion through, in the tables that downgrades bring back too; grants follow
the lifecycle, scope and administrators' completeness; a user acts in one organisation; a customised role keeps its access under
the permissions' new names; a role in step with its template stays so; an upgrade takes nobody's
last role. 113 720 distinct states, paths of up to 128 steps.

Access is compared in the head's permissions. `Heir` is what a permission came to be called; `Heirs`
adds, at a revision before a split, those the split made of it: `identity.users.update` stood for
`identity.users.delete` until 0053, and `fair_crm.email_accounts.read` and `.update` for the two
permissions of mail sending until 0062. A customised role must therefore be granted them, and a role
customised after the split may hold one without the other.

`OneOrganization` says that since 0058 a user's active assignments are in one organisation, and the
user's own unless the user is a super admin. A super admin's may be elsewhere: one promoted with a
role is left without an organisation by 0057 on the way down and up again, and the next update gives
the one it is asked in. Two edits are enough for roles in two organisations before 0057, and for a
promotion that keeps a role; the way down and up with it, and a demotion in another organisation,
take more edits and turns, for which it is proved.

**What the model shows beside its properties.**

- What `Expected` excludes does raise: a role that is an unknown custom one before
  0047, a permission that is locked when scripts grant it (0053 with a locked
  `identity.users.update`), a membership whose role is no active assignment
  (0016, whose message speaks of active memberships and which also counts suspended ones).
  A downgrade of 0046 leaves rows which 0047 then refuses on the way up.
- 0053 gives the followers of a `full_user` template that was edited to hold no
  `identity.users.update` less than the template; `InStepStays` says so.
- A downgrade of 0047 installs another trigger body than 0046 had, and one of
  0058 drops the trigger of 0047.
- The merge of codes (0048) may leave a role that both grants and excludes the
  merged one. 0056, 0060, 0067 and 0070 mark followers as synced that were
  behind their template for another reason. 0025 seeds into whichever group
  of the module it finds first.

**What is abstracted.** Column types, defaults and nullability, descriptions,
names, and therefore the clashes of slugs on which 0010 and the downgrade of 0046
would raise; the SQLite branches. `Execute` is atomic for a script: nothing of the
application runs beside alembic.

Of the edits of users, deletion, restore and status are left out (`UserAccounts` has them; a
restore assigns in the user's organisation after revoking the rest). What the applications before
0057 did with `is_super_admin` is not in the repository, so before it only the owner is one. If
they, or a hand-written UPDATE, which the comments of 0041 allow for, promoted a user with roles
in two organisations after 0047 had deleted super admins' assignments, 0057 would keep both, and
`OneOrganization` would not hold.

### Proofs (`MigrationsProofs`, `MigrationAccessProofs`)

For every set of stops, organisations, users, ways to join and edited permissions, and any
number of edits and turns, from `StopsAssumption`, `BoundsAssumption` and
`JoinsAssumption` (an organisation is not "none", the NULL of
`identity_users.organization_id`; joining is a sequence of organisations with a
status): `TypeCorrect` (`TypeOK`), `GrantsGoverned` (`GrantsAreGoverned`),
`HomesKept` (`OneOrganization`) and `KeysRelease` (`DeletionsCascade`, one half of `SchemaServes`). They rest on
`InvariantHolds`, that `IInv` is an invariant.

The properties speak of the stops; a proof has to speak of the database
between any two scripts of an open run. `DatabaseInv(n, x)` is what holds of the database `x`
at revision `n`, whichever way it came there, and `IInv` says it of the
committed database (`RowsInv`) and of the one the open run sees (`RunInv`). Its parts:

- `CatalogueInv`: rows refer to rows there are (`Sound`). Before 0046 the catalogue is as the
  seeds make it (`Plain`), and before 0039, below which no downgrade leads, holds only permissions
  seeded so far (`Sown`): the downgrades that delete or rename, and the seeds that insert, meet no
  other rows. From 0046 the triggers have held (`Ruled`: grants are of live permissions, and once
  there is a scope exclusions are of organisations' ones); from 0047 the administrators hold every
  live permission (`Complete`, which 0046's trigger alone does not give), and from 0055 on, and
  only there, the trigger knows scopes.
- `PeopleInv`: members and assignments refer to users and roles, with finitely many rows and
  stamps in `Nat` (the latest of an organisation exists, which 0057 chooses). From 0016
  memberships have no role. From 0047 the active assignments of a super admin are in one
  organisation (`SupersAgree`: 0047 deletes them, then only a promotion from 0057 on leaves some,
  those of a user who acts at home), which 0057 relies on, for it moves nobody who is super admin;
  from 0057 everybody else's are in the user's own (`MembersHome`). Together these say where edits
  find people (`Settled`).
- `Releasing`: foreign keys are CASCADE or SET NULL, from 0039.

Each idiom of the scripts (insert, rename, merge, clone, drop, grant, rewrite) has a
lemma that says it `Keeps` these parts, and the lemma of a script
chains them; `CatalogueUpKeeps`, `CatalogueDownKeeps`, `PeopleUpKeeps`, `PeopleDownKeeps` and their schema
counterparts take the scripts one revision at a time; there is one lemma for each edit. A script
that raises leaves nothing to prove, since its database is never committed: so a
theorem says that what is committed is right, not that scripts succeed.

`MigrationAccessProofs` proves `UpgradesKeepAccess` (`AccessKept`), which compares what a run
commits with what it found. `UpInv` therefore speaks of the open run: `Kept` relates the people
and the roles the run has come to, after any of its scripts, with those that are committed,
which no edit changes while a run is open. Until 0056 a user keeps every way of acting whose role is still
there; 0057 chooses one, so from then on it is only that there is one. `Remain` is what one
script does to it: most leave users, memberships and assignments alone, and each of 0012, 0016, 0040,
0041, 0043, 0047 and 0057 has a lemma. A role that 0040 or 0043 deletes does not come back under its name
(`Founded` are the only roles scripts create, and they are others), or who lost it on the way
would have to have it again.

The theorem assumes that no run stops at 0011. 0011 takes the roles of the organisations from the
memberships, and 0012 assigns only those: a membership that the application of revision 0011 adds
without a row of `identity_organization_roles` gets no assignment. Which row that application wrote is not in
the repository; `Join` writes none, and TLC shows `AccessKept` violated when 0011 is added to `MCStops`.

What stays with TLC, and why. `ScriptsRun`: that no script raises needs, script by
script, what every row is and not only what it may be, which is the whole of `Expected` at every
revision between two stops. `SchemaServes`: equality of the tables
with the models needs the exact schema at every revision, on the way up and after each
way down. `CustomisedKept` and `InStepStays` relate the grants of a role to those it had,
across all the scripts of a run, with permissions that are merged, split and renamed on the way:
that needs, for each script, what it does to every permission.

## 10. Not modelled

- Settings: an upsert by key under a unique constraint, with no state beside it. The
  one setting that other code reads is `enabled` in `NotificationDelivery`.
- The filtered audit listing and every other read, HTTP schemas and error
  mapping, password hashing and JWT signing, logging, configuration: pure
  functions or I/O without state a property here depends on.
- The development seed script, run by hand.
- SQLite variants of queries and scripts: tests only, without the triggers and
  the row locks that production relies on.
- Who may ask for what: authorisation is a guard on requests and not a state, and
  the models let every request be allowed.
- A suspension in the middle of an activation or of a login beyond what
  `SessionTokens` has (section 2).
- Out of the prover's reach: liveness. It is model-checked.
