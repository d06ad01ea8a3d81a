------------------------- MODULE OrganizationLifecycle -------------------------
(***************************************************************************)
(* The life of an organisation: creation, renaming, suspension and         *)
(* reactivation, the unconditional and the conditional deletion, the audit *)
(* trail with its minimisation and purge, and the guard that re-applies    *)
(* lifecycles after a database restore.                                    *)
(*                                                                         *)
(* A request is one PostgreSQL transaction at READ COMMITTED.  A use case  *)
(* reads the row into an entity and checks it; repository.update reads the *)
(* row again and compares it with the entity; the UPDATE writes the columns *)
(* that differed then, after waiting for the row lock, and the rest of the *)
(* transaction follows under that lock.  Other transactions commit between *)
(* these three steps.  A refused request changes nothing and is left out.  *)
(*                                                                         *)
(* Time: what a request writes is stamped with the request, so stamps are  *)
(* as distinct as microseconds; only the twelve months of retention are    *)
(* told apart, by Elapse.                                                  *)
(***************************************************************************)
EXTENDS Naturals, FiniteSets

CONSTANTS
    Org,
    Request,
    Founded,       \* organisations that exist at the start
    MaxRestores,   \* bound: restores of the database
    None

Restore == 1..MaxRestores
Stamp   == Request \cup Restore \cup {None}
Status  == {"active", "suspended", "archived"}
Row     == [status : Status, name : Stamp, updated : Stamp, deleted : Stamp]
Lifecycle == [status : Status, deleted : Stamp]    \* what the guard captures
Event   == [by : Request, kind : {"lifecycle", "closure", "minimal", "other"}]

ASSUME LifecycleAssumption ==
    /\ Founded \subseteq Org
    /\ IsFiniteSet(Org) /\ IsFiniteSet(Request)
    /\ MaxRestores \in Nat
    /\ Request \cap Restore = {}
    /\ None \notin Request \cup Restore \cup Row \cup Lifecycle

VARIABLES
    row,       \* committed rows of identity_organizations; None where there is none
    signals,   \* signals[o]: the episodes for which a suspension signal is queued
    trail,     \* trail[o]: committed audit events of o
    pc,        \* where each request is
    call,      \* call[r]: what r was asked to do
    entity,    \* entity[r]: the row r has read, with r's changes
    patch,     \* patch[r]: the columns that the UPDATE of r sets
    aged,      \* deletions at least twelve months old
    phase,     \* of the database: up, captured, restored or blocked
    backup,    \* what the backup holds
    snapshot,  \* lifecycles captured before the restore
    restores,  \* restores so far
    \* What the properties remember.
    since,     \* since[o]: stamps written to o since it was last suspended
    unseen,    \* unseen[o]: requests whose events the last deletion of o may
               \* have missed, or a restore brought back
    dead,      \* organisations that were deleted when the service last ran
    usable,    \* organisations that were usable when the service last ran
    blind      \* the snapshot was captured from a database that was blocked

data    == <<row, signals, trail>>
request == <<pc, call, entity, patch>>
guard   == <<phase, backup, snapshot, restores>>
memory  == <<since, unseen, dead, usable, blind>>
vars    == <<data, request, aged, guard, memory>>

-----------------------------------------------------------------------------
(* Organisations                                                            *)

Exists(v)   == v # None
IsDeleted(v) == Exists(v) /\ v.deleted # None
GetById(v)  == Exists(v) /\ v.deleted = None
IsActive(v) == GetById(v) /\ v.status = "active"
NewRow(r)   == [status |-> "active", name |-> r, updated |-> r, deleted |-> None]

Open(r)   == pc[r] \in {"reload", "write"}
Serving   == phase = "up"

Dead(rows)   == {o \in Org : IsDeleted(rows[o])}
Usable(rows) == {o \in Org : IsActive(rows[o])}
(* While the service runs, memory follows the rows.                         *)
Remember(rows) == dead' = Dead(rows) /\ usable' = Usable(rows)

(* Whom a deletion of o by r cannot see: requests on o that are under way.  *)
UnderWay(r, o) == {q \in Request \ {r} : Open(q) /\ call[q].org = o}

Init ==
    /\ row = [o \in Org |-> IF o \in Founded THEN NewRow(None) ELSE None]
    /\ signals = [o \in Org |-> {}]
    /\ trail = [o \in Org |-> {}]
    /\ pc = [r \in Request |-> "idle"]
    /\ call = [r \in Request |-> None]
    /\ entity = [r \in Request |-> None]
    /\ patch = [r \in Request |-> None]
    /\ aged = {}
    /\ phase = "up" /\ backup = None /\ snapshot = None /\ restores = 0
    /\ since = [o \in Org |-> {}]
    /\ unseen = [o \in Org |-> {}]
    /\ dead = {} /\ usable = Founded /\ blind = FALSE

-----------------------------------------------------------------------------
(* Reading: get_by_id, and the changes the use case makes to the entity.    *)

Begins(r, k, o, l) ==
    /\ Serving /\ pc[r] = "idle"
    /\ pc' = [pc EXCEPT ![r] = l]
    /\ call' = [call EXCEPT ![r] = k]
    /\ k.org = o
    /\ UNCHANGED <<data, patch, aged, guard, memory>>

Call(op, o) == [op |-> op, org |-> o, expected |-> None, kind |-> None]

(* A use case that reads a row and hands v to the repository.               *)
Edits(r, op, o, v) ==
    /\ Begins(r, Call(op, o), o, "reload")
    /\ entity' = [entity EXCEPT ![r] = v]

SuspendOrganization(r, o) ==
    /\ GetById(row[o]) /\ row[o].status = "active"
    /\ Edits(r, "suspend", o, [row[o] EXCEPT !.status = "suspended", !.updated = r])

ReactivateOrganization(r, o) ==
    /\ GetById(row[o]) /\ row[o].status = "suspended"
    /\ Edits(r, "reactivate", o, [row[o] EXCEPT !.status = "active", !.updated = r])

(* assert_can_operate, then the new name.                                   *)
UpdateOrganization(r, o) ==
    /\ GetById(row[o]) /\ row[o].status = "active"
    /\ Edits(r, "update", o, [row[o] EXCEPT !.name = r, !.updated = r])

DeleteOrganization(r, o) ==
    /\ GetById(row[o])
    /\ Edits(r, "delete", o, None)

(* The product knows an episode from its signal or from the lifecycle      *)
(* snapshot.                                                                *)
DeleteExpected(r, o) ==
    /\ GetById(row[o])
    /\ \E e \in signals[o] \cup {row[o].updated} :
          Begins(r, [Call("tombstone", o) EXCEPT !.expected = e], o, "write")
    /\ UNCHANGED entity

(* The events a client may record: in a deleted organisation only retained *)
(* ones, made minimal; in a live one, no core lifecycle event.              *)
Recorded(v, k) ==
    IF IsDeleted(v) THEN k \in {"lifecycle", "minimal"} ELSE k \in {"closure", "other"}

RecordEvent(r, o) ==
    /\ Exists(row[o])
    /\ \E k \in {"lifecycle", "closure", "minimal", "other"} :
          /\ Recorded(row[o], k)
          /\ Begins(r, [Call("record", o) EXCEPT !.kind = k], o, "write")
    /\ UNCHANGED entity

(* The retention deadline: twelve months after the deletion.                *)
PurgeRetained(r, o) ==
    /\ IsDeleted(row[o]) /\ row[o].deleted \in aged
    /\ Begins(r, Call("purge", o), o, "write")
    /\ UNCHANGED entity

(* A new organisation, by a super admin or a signup; one INSERT.            *)
CreateOrganization(r, o) ==
    /\ Serving /\ pc[r] = "idle" /\ ~Exists(row[o])
    /\ row' = [row EXCEPT ![o] = NewRow(r)]
    /\ pc' = [pc EXCEPT ![r] = "done"]
    /\ Remember(row')
    /\ UNCHANGED <<signals, trail, call, entity, patch, aged, guard, since, unseen, blind>>

-----------------------------------------------------------------------------
(* Reloading: repository.update and remove read the row again, see what    *)
(* has been committed meanwhile, and note the columns to set.               *)

Column == {"status", "name", "updated", "deleted"}

(* apply_to_model assigns every column; the flush sets those that differ.   *)
ApplyToModel(v, w) ==
    [c \in {d \in Column : v[d] # w[d]} |-> v[c]]

Reload(r) ==
    /\ pc[r] = "reload" /\ Serving
    /\ LET o == call[r].org IN
       patch' = [patch EXCEPT ![r] =
                   IF call[r].op # "delete" THEN ApplyToModel(entity[r], row[o])
                   ELSE IF IsDeleted(row[o]) THEN << >>
                   ELSE [c \in {"deleted", "updated"} |-> r]]
    /\ pc' = [pc EXCEPT ![r] = "write"]
    /\ UNCHANGED <<data, call, entity, aged, guard, memory>>

-----------------------------------------------------------------------------
(* Writing: the UPDATE under the row lock and the rest of the transaction,  *)
(* committed as one.                                                        *)

Patched(v, p) == [c \in Column |-> IF c \in DOMAIN p THEN p[c] ELSE v[c]]

(* Stamps written to o since it was suspended, after r writes v over w.     *)
SinceSuspended(r, o, v, w) ==
    IF v.status # "suspended" THEN {}
    ELSE IF w.status # "suspended" THEN {v.updated} ELSE since[o] \cup {v.updated}

(* The commit of r leaves the row v for o.                                  *)
Commits(r, o, v) ==
    /\ row' = [row EXCEPT ![o] = v]
    /\ since' = [since EXCEPT ![o] = SinceSuspended(r, o, v, row[o])]
    /\ pc' = [pc EXCEPT ![r] = "done"]
    /\ entity' = [entity EXCEPT ![r] = None]
    /\ patch' = [patch EXCEPT ![r] = None]
    /\ Remember(row')
    /\ UNCHANGED <<call, aged, guard, blind>>

Logs(r, o, k) == trail' = [trail EXCEPT ![o] = @ \cup {[by |-> r, kind |-> k]}]

(* suspend: sessions are revoked, the episode is audited and signalled.     *)
(* reactivate is audited, update is not.                                    *)
WriteEdit(r) ==
    LET o == call[r].org IN
    /\ call[r].op \in {"suspend", "reactivate", "update"}
    /\ Commits(r, o, Patched(row[o], patch[r]))
    /\ IF call[r].op = "update" THEN UNCHANGED trail ELSE Logs(r, o, "lifecycle")
    /\ signals' = IF call[r].op = "suspend"
                  THEN [signals EXCEPT ![o] = @ \cup {entity[r].updated}] ELSE signals
    /\ UNCHANGED unseen

(* minimize_for_terminal_retention: other events go, closure events lose   *)
(* their values.                                                            *)
(* Mutant of Minimize: closure events are kept as they are.                 *)
MinimizeOthers(es) == {e \in es : e.kind # "other"}
Minimize(es) ==
    {IF e.kind = "closure" THEN [e EXCEPT !.kind = "minimal"] ELSE e :
        e \in {f \in es : f.kind # "other"}}

Removes(r, o, v) ==
    /\ Commits(r, o, v)
    /\ trail' = [trail EXCEPT ![o] = Minimize(@) \cup {[by |-> r, kind |-> "lifecycle"]}]
    /\ unseen' = [unseen EXCEPT ![o] = UnderWay(r, o)]
    /\ UNCHANGED signals

WriteDelete(r) ==
    /\ call[r].op = "delete"
    /\ Removes(r, call[r].org, Patched(row[call[r].org], patch[r]))

(* remove_if_suspended_episode: one conditional UPDATE, which keeps the     *)
(* stamp.                                                                   *)
(* Mutant of SameEpisode: the status is not compared.                       *)
SameStamp(v, e)    == GetById(v) /\ v.updated = e
SameEpisode(v, e)  == GetById(v) /\ v.status = "suspended" /\ v.updated = e

WriteTombstone(r) ==
    LET o == call[r].org IN
    /\ call[r].op = "tombstone"
    /\ SameEpisode(row[o], call[r].expected)
    /\ Removes(r, o, [row[o] EXCEPT !.deleted = r])

WriteEvent(r) ==
    LET o == call[r].org IN
    /\ call[r].op = "record"
    /\ Commits(r, o, row[o])
    /\ Logs(r, o, call[r].kind)
    /\ UNCHANGED <<signals, unseen>>

WritePurge(r) ==
    LET o == call[r].org IN
    /\ call[r].op = "purge"
    /\ Commits(r, o, row[o])
    /\ trail' = [trail EXCEPT ![o] = {}]
    /\ UNCHANGED <<signals, unseen>>

(* Twelve months pass; no request is that slow.                             *)
Elapse ==
    /\ Serving /\ \A r \in Request : ~Open(r)
    /\ aged' = {r \in Request : pc[r] = "done"} \cup 1..restores
    /\ aged' # aged
    /\ UNCHANGED <<data, request, guard, memory>>

-----------------------------------------------------------------------------
(* Backup and restore.  From the capture on the service is down; requests  *)
(* under way are lost.  It comes up again when the guard has certified.     *)

Backup ==
    /\ Serving
    /\ backup' = [row |-> row, signals |-> signals, trail |-> trail, since |-> since]
    /\ UNCHANGED <<data, request, aged, phase, snapshot, restores, memory>>

(* capture_authoritative_lifecycle_snapshot, of whatever the database holds. *)
Capture ==
    /\ phase \in {"up", "blocked"} /\ backup # None /\ restores < MaxRestores
    /\ snapshot' = [o \in Org |->
         IF Exists(row[o]) THEN [status |-> row[o].status, deleted |-> row[o].deleted]
         ELSE None]
    /\ blind' = (blind \/ phase = "blocked")
    /\ phase' = "captured"
    /\ pc' = [r \in Request |-> IF Open(r) THEN "lost" ELSE pc[r]]
    /\ entity' = [r \in Request |-> None] /\ patch' = [r \in Request |-> None]
    /\ UNCHANGED <<data, call, aged, backup, restores, since, unseen, dead, usable>>

(* pg_restore: everything but the snapshot is as in the backup.             *)
PgRestore ==
    /\ phase = "captured"
    /\ phase' = "restored" /\ restores' = restores + 1
    /\ row' = backup.row /\ signals' = backup.signals /\ trail' = backup.trail
    /\ since' = backup.since
    /\ unseen' = [o \in Org |-> unseen[o] \cup {e.by : e \in backup.trail[o]}]
    /\ UNCHANGED <<request, aged, backup, snapshot, dead, usable, blind>>

(* One organisation: gone from the authority, changed, or as captured.  The *)
(* model's on-update clock stamps a row that changes.                       *)
(* Mutant of Reapplied: a row whose status agrees is taken to agree.        *)
ReappliedStatus(v, s) ==
    IF v = None \/ s = None THEN v
    ELSE IF v.status = s.status THEN v
    ELSE [v EXCEPT !.status = s.status, !.deleted = s.deleted, !.updated = restores]
Reapplied(v, s) ==
    IF v = None THEN None
    ELSE IF s = None THEN [v EXCEPT !.status = "archived", !.deleted = restores,
                                    !.updated = restores]
    ELSE IF v.status # s.status \/ v.deleted # s.deleted
    THEN [v EXCEPT !.status = s.status, !.deleted = s.deleted, !.updated = restores]
    ELSE v

Missing == {o \in Org : snapshot[o] # None /\ row[o] = None}

(* reconcile_restored_lifecycle_snapshot.                                   *)
Reconcile ==
    /\ phase = "restored"
    /\ IF Missing # {}
       THEN /\ phase' = "blocked"
            /\ UNCHANGED <<row, memory>>
       ELSE /\ phase' = "up"
            /\ row' = [o \in Org |-> Reapplied(row[o], snapshot[o])]
            /\ since' = [o \in Org |->
                 IF row'[o] = row[o] THEN since[o]
                 ELSE SinceSuspended(restores, o, row'[o], row[o])]
            /\ Remember(row')
            /\ UNCHANGED <<unseen, blind>>
    /\ UNCHANGED <<signals, trail, request, aged, backup, snapshot, restores>>

-----------------------------------------------------------------------------
Read(r, o) ==
    \/ SuspendOrganization(r, o)
    \/ ReactivateOrganization(r, o)
    \/ UpdateOrganization(r, o)
    \/ DeleteOrganization(r, o)
    \/ DeleteExpected(r, o)
    \/ RecordEvent(r, o)
    \/ PurgeRetained(r, o)
    \/ CreateOrganization(r, o)

Write(r) ==
    /\ pc[r] = "write" /\ Serving
    /\ \/ WriteEdit(r)
       \/ WriteDelete(r)
       \/ WriteTombstone(r)
       \/ WriteEvent(r)
       \/ WritePurge(r)

Next ==
    \/ \E r \in Request : (\E o \in Org : Read(r, o)) \/ Reload(r) \/ Write(r)
    \/ Elapse
    \/ Backup
    \/ Capture
    \/ PgRestore
    \/ Reconcile

Spec == Init /\ [][Next]_vars

-----------------------------------------------------------------------------
TypeOK ==
    /\ row \in [Org -> Row \cup {None}]
    /\ signals \in [Org -> SUBSET Stamp]
    /\ trail \in [Org -> SUBSET Event]
    /\ pc \in [Request -> {"idle", "reload", "write", "done", "lost"}]
    /\ entity \in [Request -> Row \cup {None}]
    /\ aged \subseteq Stamp
    /\ phase \in {"up", "captured", "restored", "blocked"}
    /\ restores \in 0..MaxRestores
    /\ since \in [Org -> SUBSET Stamp]
    /\ unseen \in [Org -> SUBSET Request]
    /\ dead \subseteq Org /\ usable \subseteq Org /\ blind \in BOOLEAN

(* A conditional deletion removes an organisation in the very suspension   *)
(* whose episode it names (remove_if_suspended_episode): the stamp was     *)
(* written since the organisation was last suspended, whatever suspensions, *)
(* reactivations and renamings were under way at once.                      *)
TombstoneHitsItsEpisode ==
    [][\A r \in Request :
         (pc[r] = "write" /\ pc'[r] = "done" /\ call[r].op = "tombstone")
            => call[r].expected \in since[call[r].org]]_vars

(* Who brought o back: an edit that had read it before it was deleted.      *)
ByStaleEdit(o) ==
    \E r \in unseen[o] : pc[r] = "write" /\ pc'[r] = "done" /\ call[r].op # "record"

(* A deleted organisation stays deleted while the service runs and across  *)
(* restores, and a restore makes nothing usable that was not: only an edit *)
(* which read the organisation before its deletion (update writes back     *)
(* every column of the entity), or a snapshot captured from a database that *)
(* the guard had blocked, can bring it back.                                *)
TombstoneHolds ==
    [][phase' = "up" /\ ~blind =>
         /\ \A o \in dead : IsDeleted(row'[o]) \/ ByStaleEdit(o)
         /\ phase = "restored" => Usable(row') \subseteq usable]_vars

(* The trail of a deleted organisation holds retained, minimal evidence:    *)
(* anything else is of a request that was under way when it was deleted, or *)
(* came back with a restored backup.                                        *)
TrailIsMinimal ==
    \A o \in Org : (Serving /\ IsDeleted(row[o])) =>
        \A e \in trail[o] : e.kind \in {"closure", "other"} => e.by \in unseen[o]
=============================================================================
