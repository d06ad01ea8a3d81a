--------------------- MODULE OrganizationLifecycleProofs ---------------------
(***************************************************************************)
(* What holds of organisations, their trail and the restore guard, for     *)
(* every set of organisations and requests and any number of restores.     *)
(*                                                                         *)
(* None of the three properties is inductive.  A deletion is undone, and a *)
(* trail spoiled, by a request that read the organisation before: IInv     *)
(* says that every request which could still do so was under way at the    *)
(* deletion (StragglersAreUnseen).  A restore goes through a backup, so    *)
(* what a conditional deletion relies on is asked of the backup as well;   *)
(* and what the service last knew is asked of the snapshot.                *)
(***************************************************************************)
EXTENDS OrganizationLifecycle, TLAPS

Edit == {"suspend", "reactivate", "update"}
Kind == {"lifecycle", "closure", "minimal", "other"}

Rows   == [Org -> Row \cup {None}]
Stamps == [Org -> SUBSET Stamp]
Trails == [Org -> SUBSET Event]

-----------------------------------------------------------------------------
(* The strengthening.                                                       *)

(* What an UPDATE may set.  No edit deletes: its entity was not deleted.    *)
EditEntity(v)   == v \in Row /\ v.deleted = None
EditPatch(p)    == \A c \in DOMAIN p : /\ c = "status" => p[c] \in Status
                                       /\ c \in {"name", "updated"} => p[c] \in Stamp
                                       /\ c = "deleted" => p[c] = None
DeletePatch(p, r) == \A c \in DOMAIN p : c \in {"deleted", "updated"} /\ p[c] = r

(* A request under way runs while the service does, on a row that exists:   *)
(* rows are never removed except by a restore, which ends all requests.     *)
RequestShape ==
    /\ DOMAIN call = Request /\ DOMAIN patch = Request
    /\ \A r \in Request : Open(r) =>
          /\ Serving
          /\ call[r].org \in Org
          /\ Exists(row[call[r].org])
          /\ call[r].op \in Edit =>
                EditEntity(entity[r]) /\ (pc[r] = "write" => EditPatch(patch[r]))
          /\ call[r].op = "delete" /\ pc[r] = "write" => DeletePatch(patch[r], r)
          /\ call[r].op = "record" => call[r].kind \in Kind

(* A request that could still bring a deleted organisation back, or record  *)
(* more than minimal evidence in it.                                        *)
Straggler(r) ==
    \/ call[r].op \in Edit
    \/ call[r].op = "record" /\ call[r].kind \in {"closure", "other"}

StragglersAreUnseen ==
    \A o \in Org : Serving /\ IsDeleted(row[o]) =>
        \A r \in Request :
            Open(r) /\ call[r].org = o /\ Straggler(r) => r \in unseen[o]

RestoredIsUnseen ==
    phase = "restored" => \A o \in Org : \A e \in trail[o] : e.by \in unseen[o]

(* The stamp of a suspended row was written since it was suspended.         *)
Tracked(rows, stamps) ==
    \A o \in Org : Exists(rows[o]) /\ rows[o].status = "suspended"
                      => rows[o].updated \in stamps[o]

BackupOK ==
    backup # None => /\ backup.row \in Rows /\ backup.signals \in Stamps
                     /\ backup.trail \in Trails /\ backup.since \in Stamps
                     /\ Tracked(backup.row, backup.since)

(* Where the database is in a restore.                                      *)
PhaseOK ==
    /\ ~Serving => backup # None
    /\ phase = "captured" => restores < MaxRestores
    /\ phase = "restored" => restores \in Restore
    /\ phase \in {"captured", "restored"} => snapshot \in [Org -> Lifecycle \cup {None}]

(* What the service last knew: the rows while it runs; and, unless it was   *)
(* captured from a blocked database, the snapshot.                          *)
MemoryFollows == Serving => dead = Dead(row) /\ usable = Usable(row)
SnapshotRemembers ==
    ~blind /\ phase \in {"captured", "restored"} =>
        \A o \in Org :
            /\ o \in dead => snapshot[o] # None /\ snapshot[o].deleted # None
            /\ snapshot[o] # None /\ snapshot[o].status = "active"
                  /\ snapshot[o].deleted = None => o \in usable

IInv ==
    /\ TypeOK
    /\ RequestShape
    /\ StragglersAreUnseen
    /\ TrailIsMinimal
    /\ RestoredIsUnseen
    /\ Tracked(row, since)
    /\ BackupOK
    /\ PhaseOK
    /\ MemoryFollows
    /\ SnapshotRemembers
-----------------------------------------------------------------------------
(* Reading and reloading.                                                   *)

LEMMA NoneIsNew == /\ None \notin Request /\ None \notin Restore
                   /\ None \notin Row /\ None \notin Lifecycle
BY LifecycleAssumption

(* A request begins: what it was asked to do, on a row that exists, fits.   *)
LEMMA BeginKeeps ==
    ASSUME IInv, NEW r \in Request, NEW o \in Org, NEW k, NEW l \in {"reload", "write"},
           Begins(r, k, o, l), Exists(row[o]),
           entity' \in [Request -> Row \cup {None}],
           \A q \in Request \ {r} : entity'[q] = entity[q],
           k.op \in Edit => l = "reload" /\ ~IsDeleted(row[o])
                              /\ entity'[r] \in Row /\ entity'[r].deleted = None,
           k.op = "delete" => l = "reload",
           k.op = "record" =>
               k.kind \in Kind
               /\ (IsDeleted(row[o]) => k.kind \notin {"closure", "other"})
    PROVE  IInv'
<1>1. /\ Serving /\ k.org = o
      /\ UNCHANGED <<row, signals, trail, patch, aged, phase, backup, snapshot, restores,
                     since, unseen, dead, usable, blind>>
  BY DEF Begins, data, guard, memory
<1>2. \A q \in Request : /\ pc'[q] = IF q = r THEN l ELSE pc[q]
                         /\ call'[q] = IF q = r THEN k ELSE call[q]
  BY DEF Begins, IInv, TypeOK, RequestShape
<1>3. TypeOK'
  <2>1. pc' \in [Request -> {"idle", "reload", "write", "done", "lost"}]
    BY DEF Begins, IInv, TypeOK
  <2> QED BY <1>1, <2>1 DEF IInv, TypeOK
<1>4. RequestShape'
  <2>1. DOMAIN call' = Request /\ DOMAIN patch' = Request
    BY <1>1 DEF Begins, IInv, RequestShape
  <2>2. ASSUME NEW q \in Request, Open(q)'
        PROVE  /\ Serving'
               /\ call'[q].org \in Org
               /\ Exists(row[call'[q].org])
               /\ call'[q].op \in Edit =>
                     EditEntity(entity'[q]) /\ (pc'[q] = "write" => EditPatch(patch[q]))
               /\ call'[q].op = "delete" /\ pc'[q] = "write" => DeletePatch(patch[q], q)
               /\ call'[q].op = "record" => call'[q].kind \in Kind
    <3>1. CASE q = r
      BY <1>1, <1>2, <3>1 DEF EditEntity, Serving
    <3>2. CASE q # r
      BY <1>1, <1>2, <2>2, <3>2 DEF IInv, RequestShape, Open, Serving
    <3> QED BY <3>1, <3>2
  <2> QED BY <1>1, <2>1, <2>2 DEF RequestShape, Exists, EditEntity, EditPatch, DeletePatch
<1>5. StragglersAreUnseen'
  <2> SUFFICES ASSUME NEW x \in Org, IsDeleted(row[x]), NEW q \in Request, Open(q)',
                      call'[q].org = x, Straggler(q)'
               PROVE  q \in unseen[x]
    BY <1>1 DEF StragglersAreUnseen, IsDeleted, Exists, Serving
  <2>1. q # r
    BY <1>1, <1>2 DEF Straggler
  <2> QED BY <1>1, <1>2, <2>1 DEF IInv, StragglersAreUnseen, Open, Straggler
<1>6. TrailIsMinimal' /\ RestoredIsUnseen' /\ Tracked(row, since)'
  BY <1>1 DEF IInv, TrailIsMinimal, RestoredIsUnseen, Tracked, Serving, IsDeleted, Exists
<1>7. BackupOK' /\ PhaseOK' /\ MemoryFollows' /\ SnapshotRemembers'
  BY <1>1 DEF IInv, BackupOK, PhaseOK, MemoryFollows, SnapshotRemembers, Serving, Tracked,
     Exists, Dead, Usable, IsDeleted, IsActive, GetById
<1> QED BY <1>3, <1>4, <1>5, <1>6, <1>7 DEF IInv

LEMMA ReadKeeps ==
    ASSUME IInv, NEW r \in Request, NEW o \in Org, Read(r, o), ~CreateOrganization(r, o)
    PROVE  IInv'
<1>0. /\ entity \in [Request -> Row \cup {None}]
      /\ Exists(row[o]) => row[o] \in Row
      /\ r \in Stamp
  BY DEF IInv, TypeOK, Exists, Stamp
<1>1. ASSUME NEW op \in Edit, NEW v \in Row, v.deleted = None, Edits(r, op, o, v),
             GetById(row[o])
      PROVE  IInv'
  <2>1. /\ Begins(r, Call(op, o), o, "reload")
        /\ entity' = [entity EXCEPT ![r] = v]
        /\ Call(op, o).op = op
        /\ Exists(row[o]) /\ ~IsDeleted(row[o])
    BY <1>1 DEF Edits, Call, GetById, IsDeleted
  <2>2. /\ entity' \in [Request -> Row \cup {None}]
        /\ \A q \in Request \ {r} : entity'[q] = entity[q]
        /\ entity'[r] \in Row /\ entity'[r].deleted = None
    BY <1>0, <1>1, <2>1
  <2>3. op # "delete" /\ op # "record"
    BY DEF Edit
  <2> HIDE DEF Call
  <2> QED BY <2>1, <2>2, <2>3, BeginKeeps
<1>2. CASE SuspendOrganization(r, o)
  <2>1. [row[o] EXCEPT !.status = "suspended", !.updated = r] \in Row
    BY <1>0, <1>2 DEF SuspendOrganization, GetById, Row, Status
  <2> QED BY <1>0, <1>1, <1>2, <2>1 DEF SuspendOrganization, GetById, Edit, Row
<1>3. CASE ReactivateOrganization(r, o)
  <2>1. [row[o] EXCEPT !.status = "active", !.updated = r] \in Row
    BY <1>0, <1>3 DEF ReactivateOrganization, GetById, Row, Status
  <2> QED BY <1>0, <1>1, <1>3, <2>1 DEF ReactivateOrganization, GetById, Edit, Row
<1>4. CASE UpdateOrganization(r, o)
  <2>1. [row[o] EXCEPT !.name = r, !.updated = r] \in Row
    BY <1>0, <1>4 DEF UpdateOrganization, GetById, Row, Status
  <2> QED BY <1>0, <1>1, <1>4, <2>1 DEF UpdateOrganization, GetById, Edit, Row
<1>5. CASE DeleteOrganization(r, o)
  <2>1. /\ Begins(r, Call("delete", o), o, "reload") /\ Call("delete", o).op = "delete"
        /\ Exists(row[o])
        /\ entity' = [entity EXCEPT ![r] = None]
    BY <1>5 DEF DeleteOrganization, Edits, Call, GetById
  <2>2. /\ entity' \in [Request -> Row \cup {None}]
        /\ \A q \in Request \ {r} : entity'[q] = entity[q]
    BY <1>0, <2>1
  <2> QED BY <2>1, <2>2, BeginKeeps DEF Edit
<1>6. CASE DeleteExpected(r, o)
  <2>1. PICK e : Begins(r, [Call("tombstone", o) EXCEPT !.expected = e], o, "write")
    BY <1>6 DEF DeleteExpected
  <2>2. /\ [Call("tombstone", o) EXCEPT !.expected = e].op = "tombstone"
        /\ Exists(row[o]) /\ entity' = entity
    BY <1>6 DEF DeleteExpected, Call, GetById
  <2> QED BY <1>0, <2>1, <2>2, BeginKeeps DEF Edit
<1>7. CASE RecordEvent(r, o)
  <2>1. PICK k \in Kind : /\ Recorded(row[o], k)
                          /\ Begins(r, [Call("record", o) EXCEPT !.kind = k], o, "write")
    BY <1>7 DEF RecordEvent, Kind
  <2>2. /\ [Call("record", o) EXCEPT !.kind = k].op = "record"
        /\ [Call("record", o) EXCEPT !.kind = k].kind = k
        /\ Exists(row[o]) /\ entity' = entity
    BY <1>7 DEF RecordEvent, Call
  <2>3. IsDeleted(row[o]) => k \notin {"closure", "other"}
    BY <2>1 DEF Recorded
  <2> QED BY <1>0, <2>1, <2>2, <2>3, BeginKeeps DEF Edit
<1>8. CASE PurgeRetained(r, o)
  <2>1. /\ Begins(r, Call("purge", o), o, "write") /\ Call("purge", o).op = "purge"
        /\ Exists(row[o]) /\ entity' = entity
    BY <1>8 DEF PurgeRetained, Call, IsDeleted
  <2> QED BY <1>0, <2>1, BeginKeeps DEF Edit
<1> QED BY <1>2, <1>3, <1>4, <1>5, <1>6, <1>7, <1>8 DEF Read

LEMMA ReloadKeeps ==
    ASSUME IInv, NEW r \in Request, Reload(r)
    PROVE  IInv'
<1> DEFINE o == call[r].org
           p == IF call[r].op # "delete" THEN ApplyToModel(entity[r], row[o])
                ELSE IF IsDeleted(row[o]) THEN << >>
                ELSE [c \in {"deleted", "updated"} |-> r]
<1>1. UNCHANGED <<row, signals, trail, call, entity, aged, phase, backup, snapshot, restores,
                  since, unseen, dead, usable, blind>>
  BY DEF Reload, data, guard, memory
<1>2. pc[r] = "reload" /\ patch' = [patch EXCEPT ![r] = p] /\ pc' = [pc EXCEPT ![r] = "write"]
  BY DEF Reload
<1>3. \A q \in Request : /\ Open(q)' <=> Open(q)
                         /\ q # r => pc'[q] = pc[q]
  BY <1>2 DEF Open, IInv, TypeOK
<1>4. TypeOK'
  <2>1. pc' \in [Request -> {"idle", "reload", "write", "done", "lost"}]
    BY <1>2 DEF IInv, TypeOK
  <2> QED BY <1>1, <2>1 DEF IInv, TypeOK
<1>5. RequestShape'
  <2>1. DOMAIN call' = Request /\ DOMAIN patch' = Request
    BY <1>1, <1>2 DEF IInv, RequestShape
  <2>2. patch'[r] = p /\ \A q \in Request \ {r} : patch'[q] = patch[q]
    <3> HIDE DEF p
    <3> QED BY <1>2 DEF IInv, RequestShape
  <2>3. call[r].op \in Edit => EditPatch(p)
    <3> SUFFICES ASSUME call[r].op \in Edit, NEW c \in DOMAIN p
                 PROVE  /\ c = "status" => p[c] \in Status
                        /\ c \in {"name", "updated"} => p[c] \in Stamp
                        /\ c = "deleted" => p[c] = None
      BY DEF EditPatch
    <3>1. entity[r] \in Row /\ entity[r].deleted = None /\ call[r].op # "delete"
      BY <1>2 DEF IInv, RequestShape, Open, EditEntity, Edit
    <3>2. p[c] = entity[r][c] /\ c \in Column
      BY <3>1 DEF ApplyToModel
    <3>3. PICK v \in Row : v = entity[r]
      BY <3>1
    <3> HIDE DEF p
    <3> QED BY <3>1, <3>2, <3>3 DEF Row
  <2>4. call[r].op = "delete" => DeletePatch(p, r)
    BY DEF DeletePatch
  <2> HIDE DEF p
  <2>5. ASSUME NEW q \in Request, Open(q)
        PROVE  /\ Serving
               /\ call[q].org \in Org
               /\ Exists(row[call[q].org])
               /\ call[q].op \in Edit =>
                     EditEntity(entity[q]) /\ (pc'[q] = "write" => EditPatch(patch'[q]))
               /\ call[q].op = "delete" /\ pc'[q] = "write" => DeletePatch(patch'[q], q)
               /\ call[q].op = "record" => call[q].kind \in Kind
    BY <1>3, <2>2, <2>3, <2>4, <2>5 DEF IInv, RequestShape
  <2> QED BY <1>1, <1>3, <2>1, <2>5
          DEF RequestShape, Exists, EditEntity, EditPatch, DeletePatch, Serving
<1>6. StragglersAreUnseen'
  BY <1>1, <1>3 DEF IInv, StragglersAreUnseen, IsDeleted, Exists, Serving, Straggler
<1>7. TrailIsMinimal' /\ RestoredIsUnseen' /\ Tracked(row, since)'
  BY <1>1 DEF IInv, TrailIsMinimal, RestoredIsUnseen, Tracked, Serving, IsDeleted, Exists
<1>8. BackupOK' /\ PhaseOK' /\ MemoryFollows' /\ SnapshotRemembers'
  BY <1>1 DEF IInv, BackupOK, PhaseOK, MemoryFollows, SnapshotRemembers, Serving, Tracked,
     Exists, Dead, Usable, IsDeleted, IsActive, GetById
<1> QED BY <1>4, <1>5, <1>6, <1>7, <1>8 DEF IInv

-----------------------------------------------------------------------------
(* Writing.                                                                 *)

(* What an UPDATE leaves is a row, and it deletes only if it is a deletion. *)
LEMMA PatchedRow ==
    ASSUME NEW v \in Row, NEW p, EditPatch(p) \/ \E r \in Request : DeletePatch(p, r)
    PROVE  /\ Patched(v, p) \in Row
           /\ EditPatch(p) /\ IsDeleted(Patched(v, p)) => IsDeleted(v)
           /\ IsDeleted(v) /\ (\E r \in Request : DeletePatch(p, r))
                 => IsDeleted(Patched(v, p))
<1> DEFINE w == Patched(v, p)
           at(c) == IF c \in DOMAIN p THEN p[c] ELSE v[c]
<1>1. w = [status |-> at("status"), name |-> at("name"), updated |-> at("updated"),
           deleted |-> at("deleted")]
  BY DEF Patched, Column, Row
<1>2. /\ at("status") \in Status
      /\ at("name") \in Stamp /\ at("updated") \in Stamp /\ at("deleted") \in Stamp
  BY DEF EditPatch, DeletePatch, Row, Stamp
<1>3. w \in Row /\ w # None /\ w.deleted = at("deleted")
  BY <1>1, <1>2, NoneIsNew DEF Row
<1>4. EditPatch(p) /\ at("deleted") # None => v.deleted # None
  BY DEF EditPatch, Row
<1>5. ASSUME NEW r \in Request, DeletePatch(p, r), v.deleted # None PROVE at("deleted") # None
  BY <1>5, NoneIsNew DEF DeletePatch
<1>6. v # None
  BY NoneIsNew
<1> HIDE DEF w, at
<1>7. IsDeleted(w) <=> at("deleted") # None
  BY <1>3 DEF IsDeleted, Exists
<1>8. IsDeleted(v) <=> v.deleted # None
  BY <1>6 DEF IsDeleted, Exists
<1> QED BY <1>3, <1>4, <1>5, <1>7, <1>8 DEF w

(* Every commit of a request: what it leaves but for the trail, the signals *)
(* and the unseen.                                                          *)
LEMMA CommitKeeps ==
    ASSUME IInv, NEW r \in Request, NEW o \in Org, NEW v \in Row,
           Serving, Commits(r, o, v),
           signals' \in Stamps, trail' \in Trails, unseen' \in [Org -> SUBSET Request]
    PROVE  /\ TypeOK' /\ RequestShape' /\ RestoredIsUnseen' /\ Tracked(row, since)'
           /\ BackupOK' /\ PhaseOK' /\ MemoryFollows' /\ SnapshotRemembers'
<1>1. /\ UNCHANGED <<call, aged, phase, backup, snapshot, restores, blind>>
      /\ phase = "up" /\ Serving'
  BY DEF Commits, guard, Serving
<1>2. /\ \A x \in Org : /\ row'[x] = IF x = o THEN v ELSE row[x]
                        /\ x # o => since'[x] = since[x]
      /\ since'[o] = SinceSuspended(r, o, v, row[o])
  BY DEF Commits, IInv, TypeOK
<1>3. \A q \in Request : /\ q = r => pc'[q] = "done"
                         /\ q # r => pc'[q] = pc[q] /\ entity'[q] = entity[q]
                                       /\ patch'[q] = patch[q]
  BY DEF Commits, IInv, TypeOK, RequestShape
<1>4. TypeOK'
  <2>1. row' \in Rows /\ entity' \in [Request -> Row \cup {None}]
    BY DEF Commits, IInv, TypeOK, Rows
  <2>2. pc' \in [Request -> {"idle", "reload", "write", "done", "lost"}]
    BY DEF Commits, IInv, TypeOK
  <2>3. since' \in Stamps
    <3>1. SinceSuspended(r, o, v, row[o]) \subseteq Stamp
      BY DEF SinceSuspended, IInv, TypeOK, Row
    <3>2. since' = [since EXCEPT ![o] = SinceSuspended(r, o, v, row[o])]
      BY DEF Commits
    <3> QED BY <3>1, <3>2 DEF IInv, TypeOK, Stamps
  <2>4. dead' \subseteq Org /\ usable' \subseteq Org
    BY DEF Commits, Remember, Dead, Usable
  <2> QED BY <1>1, <2>1, <2>2, <2>3, <2>4 DEF IInv, TypeOK, Rows, Stamps, Trails
<1>5. RequestShape'
  <2>1. DOMAIN call' = Request /\ DOMAIN patch' = Request
    BY DEF Commits, IInv, RequestShape
  <2>2. ASSUME NEW q \in Request, Open(q)'
        PROVE  /\ Open(q) /\ pc'[q] = pc[q] /\ entity'[q] = entity[q] /\ patch'[q] = patch[q]
               /\ Exists(row'[call[q].org])
    <3>1. q # r /\ Open(q)
      BY <1>3, <2>2 DEF Open
    <3>2. call[q].org \in Org /\ Exists(row[call[q].org])
      BY <3>1 DEF IInv, RequestShape
    <3> QED BY <1>2, <1>3, <3>1, <3>2, NoneIsNew DEF Exists
  <2> QED BY <1>1, <2>1, <2>2
          DEF IInv, RequestShape, Exists, EditEntity, EditPatch, DeletePatch, Serving
<1>6. Tracked(row, since)'
  <2>1. v.status = "suspended" => v.updated \in since'[o]
    BY <1>2 DEF SinceSuspended
  <2>2. ASSUME NEW x \in Org, Exists(row'[x]), row'[x].status = "suspended"
        PROVE  row'[x].updated \in since'[x]
    <3>1. CASE x = o
      BY <1>2, <2>1, <2>2, <3>1
    <3>2. CASE x # o
      <4>1. row'[x] = row[x] /\ since'[x] = since[x]
        BY <1>2, <3>2
      <4> QED BY <2>2, <4>1 DEF IInv, Tracked
    <3> QED BY <3>1, <3>2
  <2> QED BY <2>2 DEF Tracked, Exists
<1>7. RestoredIsUnseen' /\ PhaseOK' /\ SnapshotRemembers'
  BY <1>1 DEF RestoredIsUnseen, PhaseOK, SnapshotRemembers, Serving
<1>8. BackupOK'
  BY <1>1 DEF IInv, BackupOK, Tracked, Exists
<1>9. MemoryFollows'
  BY DEF Commits, Remember, MemoryFollows, Dead, Usable, IsDeleted, IsActive, GetById, Exists
<1> QED BY <1>4, <1>5, <1>6, <1>7, <1>8, <1>9

(* A commit that deletes nothing: whoever might have spoiled the trail of a *)
(* deleted organisation is unseen already.                                  *)
LEMMA QuietKeeps ==
    ASSUME IInv, NEW r \in Request, NEW o \in Org, NEW v \in Row,
           Serving, Commits(r, o, v), IsDeleted(v) => IsDeleted(row[o]),
           unseen' = unseen, signals' \in Stamps, trail' \in Trails,
           \A x \in Org : \A e \in trail'[x] :
               \/ e \in trail[x]
               \/ IsDeleted(row[x]) /\ e.kind \in {"closure", "other"} => e.by \in unseen[x]
    PROVE  IInv'
<1>1. \A x \in Org : IsDeleted(row[x])' => IsDeleted(row[x])
  BY DEF Commits, IInv, TypeOK, IsDeleted, Exists
<1>2. \A q \in Request : Open(q)' => Open(q)
  BY DEF Commits, IInv, TypeOK, Open
<1>3. call' = call
  BY DEF Commits
<1>4. StragglersAreUnseen'
  BY <1>1, <1>2, <1>3 DEF IInv, StragglersAreUnseen, Straggler
<1>5. TrailIsMinimal'
  BY <1>1 DEF IInv, TrailIsMinimal
<1>6. unseen' \in [Org -> SUBSET Request]
  BY DEF IInv, TypeOK
<1> QED BY <1>4, <1>5, <1>6, CommitKeeps DEF IInv

LEMMA MinimizeTypes ==
    ASSUME NEW es \in SUBSET Event
    PROVE  /\ Minimize(es) \in SUBSET Event
           /\ \A e \in Minimize(es) : e.kind \in {"lifecycle", "minimal"}
BY DEF Minimize, Event

(* A deletion: the trail is minimised, and those under way are unseen.      *)
LEMMA RemoveKeeps ==
    ASSUME IInv, NEW r \in Request, NEW o \in Org, NEW v \in Row,
           Serving, Removes(r, o, v)
    PROVE  IInv'
<1>0. trail[o] \in SUBSET Event /\ unseen[o] \in SUBSET Request
  BY DEF IInv, TypeOK
<1>1. /\ Commits(r, o, v) /\ signals' = signals
      /\ trail' = [trail EXCEPT ![o] = Minimize(trail[o])
                                           \cup {[by |-> r, kind |-> "lifecycle"]}]
      /\ unseen' = [unseen EXCEPT ![o] = UnderWay(r, o)]
  BY DEF Removes
<1>2. \A x \in Org :
        /\ trail'[x] = IF x = o THEN Minimize(trail[o]) \cup {[by |-> r, kind |-> "lifecycle"]}
                       ELSE trail[x]
        /\ unseen'[x] = IF x = o THEN UnderWay(r, o) ELSE unseen[x]
  BY <1>1 DEF IInv, TypeOK
<1>3. trail' \in Trails /\ signals' \in Stamps /\ unseen' \in [Org -> SUBSET Request]
  <2>1. Minimize(trail[o]) \cup {[by |-> r, kind |-> "lifecycle"]} \in SUBSET Event
    BY <1>0, MinimizeTypes DEF Event
  <2>2. UnderWay(r, o) \in SUBSET Request
    BY DEF UnderWay
  <2> QED BY <1>1, <2>1, <2>2 DEF IInv, TypeOK, Trails, Stamps
<1>4. call' = call /\ Serving' /\ Serving
  BY <1>1 DEF Commits, guard, Serving
<1>5. \A q \in Request : Open(q)' => Open(q) /\ q # r
  BY <1>1 DEF Commits, IInv, TypeOK, Open
<1>6. \A x \in Org \ {o} : IsDeleted(row[x])' => IsDeleted(row[x])
  BY <1>1 DEF Commits, IInv, TypeOK, IsDeleted, Exists
<1>7. StragglersAreUnseen'
  BY <1>2, <1>4, <1>5, <1>6 DEF IInv, StragglersAreUnseen, Straggler, UnderWay
<1>8. TrailIsMinimal'
  <2> SUFFICES ASSUME NEW x \in Org, IsDeleted(row[x])', NEW e \in trail'[x],
                      e.kind \in {"closure", "other"}
               PROVE  e.by \in unseen'[x]
    BY DEF TrailIsMinimal
  <2>1. x # o
    BY <1>0, <1>2, MinimizeTypes
  <2> QED BY <1>2, <1>4, <1>6, <2>1 DEF IInv, TrailIsMinimal
<1> QED BY <1>1, <1>3, <1>7, <1>8, CommitKeeps DEF IInv

LEMMA WriteKeeps ==
    ASSUME IInv, NEW r \in Request, Write(r)
    PROVE  IInv'
<1>0. PICK o : o = call[r].org
  OBVIOUS
<1>1. /\ pc[r] = "write" /\ Serving /\ Open(r)
      /\ o \in Org /\ row[o] \in Row
  BY <1>0 DEF Write, Open, IInv, RequestShape, TypeOK, Exists
<1>2. signals \in Stamps /\ trail \in Trails
  BY DEF IInv, TypeOK, Stamps, Trails
<1>3. CASE WriteEdit(r)
  <2>1. call[r].op \in Edit
    BY <1>3 DEF WriteEdit, Edit
  <2>2. EditEntity(entity[r]) /\ EditPatch(patch[r])
    BY <1>1, <2>1 DEF IInv, RequestShape
  <2>3. PICK v : v = Patched(row[o], patch[r])
    OBVIOUS
  <2>4. v \in Row /\ (IsDeleted(v) => IsDeleted(row[o]))
    BY <1>1, <2>2, <2>3, PatchedRow
  <2>5. Commits(r, o, v) /\ unseen' = unseen
    BY <1>0, <1>3, <2>3 DEF WriteEdit
  <2>6. signals' \in Stamps
    <3>1. entity[r].updated \in Stamp
      BY <2>2 DEF EditEntity, Row
    <3>2. signals' = signals \/ signals' = [signals EXCEPT ![o] = signals[o] \cup {entity[r].updated}]
      BY <1>0, <1>3 DEF WriteEdit
    <3> QED BY <1>2, <3>1, <3>2 DEF Stamps
  <2>7. \/ trail' = trail
        \/ trail' = [trail EXCEPT ![o] = trail[o] \cup {[by |-> r, kind |-> "lifecycle"]}]
    BY <1>0, <1>3 DEF WriteEdit, Logs
  <2>8. [by |-> r, kind |-> "lifecycle"] \in Event
    BY DEF Event
  <2>9. trail' \in Trails /\ \A x \in Org : \A e \in trail'[x] :
            e \in trail[x] \/ e = [by |-> r, kind |-> "lifecycle"]
    BY <1>1, <1>2, <2>7, <2>8 DEF Trails
  <2> QED BY <1>1, <2>4, <2>5, <2>6, <2>9, QuietKeeps
<1>4. CASE WriteDelete(r)
  <2>1. DeletePatch(patch[r], r)
    BY <1>1, <1>4 DEF WriteDelete, IInv, RequestShape
  <2>2. PICK v : v = Patched(row[o], patch[r])
    OBVIOUS
  <2>3. v \in Row /\ Removes(r, o, v)
    BY <1>0, <1>1, <1>4, <2>1, <2>2, PatchedRow DEF WriteDelete
  <2> QED BY <1>1, <2>3, RemoveKeeps
<1>5. CASE WriteTombstone(r)
  <2>1. PICK v : v = [row[o] EXCEPT !.deleted = r]
    OBVIOUS
  <2>2. v \in Row
    BY <1>1, <2>1 DEF Row, Stamp
  <2>3. Removes(r, o, v)
    BY <1>0, <1>5, <2>1 DEF WriteTombstone
  <2> QED BY <1>1, <2>2, <2>3, RemoveKeeps
<1>6. CASE WriteEvent(r)
  <2>1. PICK k : k = call[r].kind
    OBVIOUS
  <2>2. call[r].op = "record" /\ Commits(r, o, row[o]) /\ unseen' = unseen /\ signals' = signals
    BY <1>0, <1>6 DEF WriteEvent
  <2>3. k \in Kind /\ [by |-> r, kind |-> k] \in Event
    BY <1>1, <2>1, <2>2 DEF IInv, RequestShape, Kind, Event
  <2>4. trail' = [trail EXCEPT ![o] = trail[o] \cup {[by |-> r, kind |-> k]}]
    BY <1>0, <1>6, <2>1 DEF WriteEvent, Logs
  <2>5. IsDeleted(row[o]) /\ k \in {"closure", "other"} => r \in unseen[o]
    BY <1>0, <1>1, <2>1, <2>2 DEF IInv, StragglersAreUnseen, Straggler
  <2>6. trail' \in Trails /\ \A x \in Org : \A e \in trail'[x] :
            e \in trail[x] \/ (x = o /\ e.by = r /\ e.kind = k)
    BY <1>1, <1>2, <2>3, <2>4 DEF Trails
  <2>7. \A x \in Org : \A e \in trail'[x] :
            \/ e \in trail[x]
            \/ IsDeleted(row[x]) /\ e.kind \in {"closure", "other"} => e.by \in unseen[x]
    BY <2>5, <2>6
  <2> QED BY <1>1, <1>2, <2>2, <2>6, <2>7, QuietKeeps
<1>7. CASE WritePurge(r)
  <2>1. Commits(r, o, row[o]) /\ unseen' = unseen /\ signals' = signals
    BY <1>0, <1>7 DEF WritePurge
  <2>2. trail' = [trail EXCEPT ![o] = {}]
    BY <1>0, <1>7 DEF WritePurge
  <2>3. trail' \in Trails /\ \A x \in Org : trail'[x] \subseteq trail[x]
    BY <1>1, <1>2, <2>2 DEF Trails
  <2> QED BY <1>1, <1>2, <2>1, <2>3, QuietKeeps
<1> QED BY <1>3, <1>4, <1>5, <1>6, <1>7 DEF Write

LEMMA CreateKeeps ==
    ASSUME IInv, NEW r \in Request, NEW o \in Org, CreateOrganization(r, o)
    PROVE  IInv'
<1>1. /\ Serving /\ pc[r] = "idle" /\ ~Exists(row[o])
      /\ UNCHANGED <<signals, trail, call, entity, patch, aged, phase, backup, snapshot,
                     restores, since, unseen, blind>>
  BY DEF CreateOrganization, guard
<1>2. NewRow(r) \in Row /\ ~IsDeleted(NewRow(r)) /\ NewRow(r).status # "suspended"
  BY DEF NewRow, Row, Stamp, Status, IsDeleted
<1>3. /\ \A x \in Org : row'[x] = IF x = o THEN NewRow(r) ELSE row[x]
      /\ row' \in Rows
  BY <1>2 DEF CreateOrganization, IInv, TypeOK, Rows
<1>4. /\ pc' \in [Request -> {"idle", "reload", "write", "done", "lost"}]
      /\ \A q \in Request : Open(q)' => Open(q) /\ pc'[q] = pc[q]
  BY <1>1 DEF CreateOrganization, IInv, TypeOK, Open
<1>5. TypeOK'
  <2>1. dead' \subseteq Org /\ usable' \subseteq Org
    BY DEF CreateOrganization, Remember, Dead, Usable
  <2> QED BY <1>1, <1>3, <1>4, <2>1 DEF IInv, TypeOK, Rows
<1> HIDE DEF NewRow
<1>6. \A x \in Org : /\ Exists(row[x]) => Exists(row'[x])
                     /\ IsDeleted(row'[x]) => IsDeleted(row[x])
  BY <1>1, <1>2, <1>3, NoneIsNew DEF Exists
<1>7. RequestShape'
  BY <1>1, <1>4, <1>6
  DEF IInv, RequestShape, Exists, EditEntity, EditPatch, DeletePatch, Serving
<1>8. StragglersAreUnseen' /\ TrailIsMinimal' /\ RestoredIsUnseen'
  BY <1>1, <1>4, <1>6
  DEF IInv, StragglersAreUnseen, Straggler, TrailIsMinimal, RestoredIsUnseen, Serving,
      IsDeleted, Exists
<1>9. Tracked(row, since)'
  BY <1>1, <1>2, <1>3 DEF IInv, Tracked, Exists
<1>10. BackupOK' /\ PhaseOK' /\ SnapshotRemembers'
  BY <1>1 DEF IInv, BackupOK, PhaseOK, SnapshotRemembers, Serving, Tracked, Exists
<1>11. MemoryFollows'
  BY DEF CreateOrganization, Remember, MemoryFollows, Dead, Usable, IsDeleted, IsActive,
     GetById, Exists
<1> QED BY <1>5, <1>7, <1>8, <1>9, <1>10, <1>11 DEF IInv

-----------------------------------------------------------------------------
(* Backup and restore.                                                      *)

LEMMA QuietTimeKeeps ==
    ASSUME IInv, Elapse \/ Backup \/ UNCHANGED vars
    PROVE  IInv'
<1>1. /\ UNCHANGED <<row, signals, trail, pc, call, entity, patch, phase, snapshot, restores,
                     since, unseen, dead, usable, blind>>
      /\ aged' = aged \/ aged' = {r \in Request : pc[r] = "done"} \cup 1..restores
      /\ backup' = backup \/ Backup
  BY DEF Elapse, Backup, vars, data, request, guard, memory
<1>2. aged' \subseteq Stamp
  BY <1>1, LifecycleAssumption DEF IInv, TypeOK, Stamp, Restore
<1>3. BackupOK'
  <2>1. CASE backup' = backup
    BY <2>1 DEF IInv, BackupOK, Tracked, Exists
  <2>2. CASE Backup
    <3>1. /\ backup'.row = row /\ backup'.signals = signals
          /\ backup'.trail = trail /\ backup'.since = since
      BY <2>2 DEF Backup
    <3> QED BY <3>1 DEF IInv, TypeOK, BackupOK, Tracked, Exists, Rows, Stamps, Trails
  <2> QED BY <1>1, <2>1, <2>2
<1>4. PhaseOK'
  <2>1. ~Serving => backup' = backup
    BY <1>1 DEF Backup
  <2> QED BY <1>1, <2>1 DEF IInv, PhaseOK, Serving
<1>5. TypeOK'
  BY <1>1, <1>2 DEF IInv, TypeOK
<1>6. RequestShape' /\ StragglersAreUnseen' /\ TrailIsMinimal' /\ RestoredIsUnseen'
  BY <1>1 DEF IInv, RequestShape, StragglersAreUnseen, TrailIsMinimal, RestoredIsUnseen,
     Straggler, Open, Serving, IsDeleted, Exists, EditEntity, EditPatch, DeletePatch
<1>7. Tracked(row, since)' /\ MemoryFollows' /\ SnapshotRemembers'
  BY <1>1 DEF IInv, Tracked, MemoryFollows, SnapshotRemembers, Serving, Dead, Usable,
     IsDeleted, IsActive, GetById, Exists
<1> QED BY <1>3, <1>4, <1>5, <1>6, <1>7 DEF IInv

LEMMA CaptureKeeps ==
    ASSUME IInv, Capture
    PROVE  IInv'
<1>1. /\ UNCHANGED <<row, signals, trail, call, aged, backup, restores, since, unseen,
                     dead, usable>>
      /\ phase \in {"up", "blocked"} /\ phase' = "captured"
      /\ backup # None /\ restores < MaxRestores
      /\ blind' = (blind \/ phase = "blocked")
      /\ entity' = [r \in Request |-> None] /\ patch' = [r \in Request |-> None]
  BY DEF Capture, data
<1>2. \A r \in Request : ~Open(r)'
  BY DEF Capture, Open
<1>3. TypeOK'
  <2>1. pc' \in [Request -> {"idle", "reload", "write", "done", "lost"}]
    BY DEF Capture, IInv, TypeOK
  <2> QED BY <1>1, <2>1 DEF IInv, TypeOK
<1>4. RequestShape' /\ StragglersAreUnseen'
  BY <1>1, <1>2 DEF IInv, RequestShape, StragglersAreUnseen
<1>5. TrailIsMinimal' /\ RestoredIsUnseen' /\ MemoryFollows'
  BY <1>1 DEF TrailIsMinimal, RestoredIsUnseen, MemoryFollows, Serving
<1>6. Tracked(row, since)' /\ BackupOK'
  BY <1>1 DEF IInv, Tracked, BackupOK, Exists
<1>7. \A o \in Org : snapshot'[o] =
        IF Exists(row[o]) THEN [status |-> row[o].status, deleted |-> row[o].deleted] ELSE None
  BY DEF Capture
<1>8. \A o \in Org : Exists(row[o]) =>
        [status |-> row[o].status, deleted |-> row[o].deleted] \in Lifecycle
  BY DEF IInv, TypeOK, Exists, Row, Lifecycle
<1>9. PhaseOK'
  <2>1. snapshot' \in [Org -> Lifecycle \cup {None}]
    BY <1>8 DEF Capture
  <2> QED BY <1>1, <2>1 DEF PhaseOK, Serving
<1>10. SnapshotRemembers'
  <2> SUFFICES ASSUME phase = "up", NEW o \in Org
               PROVE  /\ o \in dead => snapshot'[o] # None /\ snapshot'[o].deleted # None
                      /\ snapshot'[o] # None /\ snapshot'[o].status = "active"
                            /\ snapshot'[o].deleted = None => o \in usable
    BY <1>1 DEF SnapshotRemembers
  <2>1. dead = Dead(row) /\ usable = Usable(row)
    BY DEF IInv, MemoryFollows, Serving
  <2>2. CASE Exists(row[o])
    <3>1. /\ snapshot'[o] = [status |-> row[o].status, deleted |-> row[o].deleted]
          /\ snapshot'[o] # None
      BY <1>7, <1>8, <2>2, NoneIsNew
    <3> QED BY <2>1, <2>2, <3>1 DEF Dead, Usable, IsDeleted, IsActive, GetById
  <2>3. CASE ~Exists(row[o])
    BY <1>7, <2>1, <2>3 DEF Dead, IsDeleted
  <2> QED BY <2>2, <2>3
<1> QED BY <1>3, <1>4, <1>5, <1>6, <1>9, <1>10 DEF IInv

LEMMA PgRestoreKeeps ==
    ASSUME IInv, PgRestore
    PROVE  IInv'
<1>1. /\ phase = "captured" /\ phase' = "restored" /\ restores' = restores + 1
      /\ row' = backup.row /\ signals' = backup.signals /\ trail' = backup.trail
      /\ since' = backup.since
      /\ UNCHANGED <<pc, call, entity, patch, aged, backup, snapshot, dead, usable, blind>>
  BY DEF PgRestore, request
<1>2. /\ row' \in Rows /\ signals' \in Stamps /\ trail' \in Trails /\ since' \in Stamps
      /\ Tracked(backup.row, backup.since) /\ backup # None
  BY <1>1 DEF IInv, PhaseOK, BackupOK, Serving
<1>3. restores' \in Restore /\ restores' \in 0..MaxRestores
  BY <1>1, LifecycleAssumption DEF IInv, TypeOK, PhaseOK, Restore
<1>4. \A r \in Request : ~Open(r)'
  BY <1>1 DEF IInv, RequestShape, Serving, Open
<1>5. \A o \in Org : unseen'[o] = unseen[o] \cup {e.by : e \in trail'[o]}
  BY <1>1 DEF PgRestore
<1>6. unseen' \in [Org -> SUBSET Request]
  <2>1. ASSUME NEW o \in Org
        PROVE  unseen[o] \cup {e.by : e \in backup.trail[o]} \subseteq Request
    <3>1. backup.trail[o] \subseteq Event
      BY <1>1, <1>2 DEF Trails
    <3> QED BY <3>1 DEF IInv, TypeOK, Event
  <2> QED BY <2>1 DEF PgRestore
<1>7. TypeOK'
  BY <1>1, <1>2, <1>3, <1>6 DEF IInv, TypeOK, Rows, Stamps, Trails
<1>8. RequestShape' /\ StragglersAreUnseen'
  BY <1>1, <1>4 DEF IInv, RequestShape, StragglersAreUnseen
<1>9. TrailIsMinimal' /\ RestoredIsUnseen' /\ MemoryFollows'
  BY <1>1, <1>5 DEF TrailIsMinimal, RestoredIsUnseen, MemoryFollows, Serving
<1>10. Tracked(row, since)' /\ BackupOK'
  BY <1>1, <1>2 DEF IInv, Tracked, BackupOK, Exists
<1>11. PhaseOK' /\ SnapshotRemembers'
  BY <1>1, <1>2, <1>3 DEF IInv, PhaseOK, SnapshotRemembers, Serving
<1> QED BY <1>7, <1>8, <1>9, <1>10, <1>11 DEF IInv

(* What the guard makes of one organisation.                                *)
LEMMA ReappliedRow ==
    ASSUME IInv, phase = "restored", NEW v \in Row \cup {None},
           NEW s \in Lifecycle \cup {None}
    PROVE  /\ Reapplied(v, s) \in Row \cup {None}
           /\ v # None => Reapplied(v, s) # None
           /\ v # None /\ s # None /\ s.deleted # None => IsDeleted(Reapplied(v, s))
           /\ IsActive(Reapplied(v, s)) => s # None /\ s.status = "active" /\ s.deleted = None
           /\ Reapplied(v, s) # None /\ Reapplied(v, s).status = "suspended"
                 => Reapplied(v, s) = v \/ Reapplied(v, s).updated = restores
<1>1. restores \in Stamp /\ restores # None
  BY NoneIsNew DEF IInv, PhaseOK, Stamp
<1>2. CASE v = None
  BY <1>2 DEF Reapplied, IsActive, GetById, Exists
<1>3. CASE v # None /\ s = None
  <2>1. PICK w : w = [v EXCEPT !.status = "archived", !.deleted = restores, !.updated = restores]
    OBVIOUS
  <2>2. w \in Row /\ w # None /\ w.status = "archived" /\ w.deleted = restores
    BY <1>1, <1>3, <2>1, NoneIsNew DEF Row, Status
  <2>3. Reapplied(v, s) = w
    BY <1>3, <2>1 DEF Reapplied
  <2> QED BY <1>1, <1>3, <2>2, <2>3 DEF IsDeleted, IsActive, GetById, Exists
<1>4. CASE v # None /\ s # None /\ (v.status # s.status \/ v.deleted # s.deleted)
  <2>1. PICK w : w = [v EXCEPT !.status = s.status, !.deleted = s.deleted, !.updated = restores]
    OBVIOUS
  <2>2. /\ w \in Row /\ w # None
        /\ w.status = s.status /\ w.deleted = s.deleted /\ w.updated = restores
    BY <1>1, <1>4, <2>1, NoneIsNew DEF Row, Lifecycle
  <2>3. Reapplied(v, s) = w
    BY <1>4, <2>1 DEF Reapplied
  <2> QED BY <1>1, <1>4, <2>2, <2>3 DEF IsDeleted, IsActive, GetById, Exists
<1>5. CASE v # None /\ s # None /\ v.status = s.status /\ v.deleted = s.deleted
  BY <1>5 DEF Reapplied, IsDeleted, IsActive, GetById, Exists
<1> QED BY <1>2, <1>3, <1>4, <1>5

LEMMA ReconcileKeeps ==
    ASSUME IInv, Reconcile
    PROVE  IInv'
<1>1. /\ phase = "restored"
      /\ UNCHANGED <<signals, trail, pc, call, entity, patch, aged, backup, snapshot,
                     restores, unseen, blind>>
  BY DEF Reconcile, request, memory
<1>2. \A r \in Request : ~Open(r)'
  BY <1>1 DEF IInv, RequestShape, Serving, Open
<1>3. RequestShape' /\ StragglersAreUnseen'
  BY <1>1, <1>2 DEF IInv, RequestShape, StragglersAreUnseen
<1>4. CASE Missing # {}
  <2>1. phase' = "blocked" /\ UNCHANGED <<row, since, dead, usable>>
    BY <1>4 DEF Reconcile, memory
  <2>2. TypeOK'
    BY <1>1, <2>1 DEF IInv, TypeOK
  <2>3. /\ TrailIsMinimal' /\ RestoredIsUnseen' /\ MemoryFollows' /\ SnapshotRemembers'
        /\ PhaseOK'
    BY <1>1, <2>1 DEF IInv, TrailIsMinimal, RestoredIsUnseen, MemoryFollows,
       SnapshotRemembers, PhaseOK, Serving
  <2>4. Tracked(row, since)' /\ BackupOK'
    BY <1>1, <2>1 DEF IInv, Tracked, BackupOK, Exists
  <2> QED BY <1>3, <2>2, <2>3, <2>4 DEF IInv
<1>5. CASE Missing = {}
  <2>1. /\ phase' = "up" /\ Remember(row')
        /\ row' = [o \in Org |-> Reapplied(row[o], snapshot[o])]
        /\ since' = [o \in Org |-> IF row'[o] = row[o] THEN since[o]
                                   ELSE SinceSuspended(restores, o, row'[o], row[o])]
    BY <1>5 DEF Reconcile
  <2>2. \A o \in Org : row[o] \in Row \cup {None} /\ snapshot[o] \in Lifecycle \cup {None}
    BY <1>1 DEF IInv, TypeOK, PhaseOK
  <2>3. \A o \in Org : row'[o] = Reapplied(row[o], snapshot[o])
    BY <2>1
  <2>4. row' \in Rows
    BY <1>1, <2>1, <2>2, ReappliedRow DEF Rows
  <2>5. since' \in Stamps
    <3>1. ASSUME NEW o \in Org, row'[o] # row[o]
          PROVE  SinceSuspended(restores, o, row'[o], row[o]) \subseteq Stamp
      <4>1. row[o] # None
        BY <2>3, <3>1 DEF Reapplied
      <4>2. row'[o] \in Row
        BY <1>1, <2>2, <2>3, <4>1, ReappliedRow
      <4> QED BY <4>2 DEF SinceSuspended, IInv, TypeOK, Row
    <3> QED BY <2>1, <3>1 DEF IInv, TypeOK, Stamps
  <2>6. TypeOK'
    <3>1. dead' \subseteq Org /\ usable' \subseteq Org
      BY <2>1 DEF Remember, Dead, Usable
    <3> QED BY <1>1, <2>1, <2>4, <2>5, <3>1 DEF IInv, TypeOK, Rows, Stamps
  <2>7. TrailIsMinimal' /\ RestoredIsUnseen'
    BY <1>1, <2>1 DEF IInv, TrailIsMinimal, RestoredIsUnseen
  <2>8. Tracked(row, since)'
    <3> SUFFICES ASSUME NEW o \in Org, row'[o] # None, row'[o].status = "suspended"
                 PROVE  row'[o].updated \in since'[o]
      BY DEF Tracked, Exists
    <3>1. CASE row'[o] = row[o]
      BY <2>1, <3>1 DEF IInv, Tracked, Exists
    <3>2. CASE row'[o] # row[o]
      BY <2>1, <3>2 DEF SinceSuspended
    <3> QED BY <3>1, <3>2
  <2>9. MemoryFollows'
    BY <2>1 DEF Remember, MemoryFollows, Dead, Usable, IsDeleted, IsActive, GetById, Exists
  <2>10. BackupOK' /\ PhaseOK' /\ SnapshotRemembers'
    BY <1>1, <2>1 DEF IInv, BackupOK, PhaseOK, SnapshotRemembers, Tracked, Exists, Serving
  <2> QED BY <1>3, <2>6, <2>7, <2>8, <2>9, <2>10 DEF IInv
<1> QED BY <1>4, <1>5

LEMMA NextKeeps == IInv /\ [Next]_vars => IInv'
BY ReadKeeps, CreateKeeps, ReloadKeeps, WriteKeeps, QuietTimeKeeps, CaptureKeeps,
   PgRestoreKeeps, ReconcileKeeps DEF Next, Read

LEMMA InitIInv == Init => IInv
<1> SUFFICES ASSUME Init PROVE IInv
  OBVIOUS
<1>1. NewRow(None) \in Row /\ NewRow(None).deleted = None /\ NewRow(None).status = "active"
  BY DEF NewRow, Row, Stamp, Status
<1>2. \A o \in Org : row[o] = IF o \in Founded THEN NewRow(None) ELSE None
  BY DEF Init
<1>3. /\ Dead(row) = {} /\ Usable(row) = Founded
      /\ \A o \in Org : ~IsDeleted(row[o])
                        /\ (Exists(row[o]) => row[o].status = "active")
  BY <1>1, <1>2, NoneIsNew, LifecycleAssumption
  DEF Dead, Usable, IsDeleted, IsActive, GetById, Exists
<1>4. TypeOK
  <2>1. row \in [Org -> Row \cup {None}]
    BY <1>1 DEF Init
  <2>2. restores \in 0..MaxRestores
    BY LifecycleAssumption DEF Init
  <2>3. pc \in [Request -> {"idle", "reload", "write", "done", "lost"}]
    BY DEF Init
  <2> QED BY <2>1, <2>2, <2>3, LifecycleAssumption DEF Init, TypeOK
<1>5. RequestShape /\ \A r \in Request : ~Open(r)
  BY DEF Init, RequestShape, Open
<1> QED BY <1>3, <1>4, <1>5
        DEF Init, IInv, StragglersAreUnseen, TrailIsMinimal, RestoredIsUnseen, Tracked,
            BackupOK, PhaseOK, MemoryFollows, SnapshotRemembers, Serving

LEMMA Invariance == Spec => []IInv
BY InitIInv, NextKeeps, PTL DEF Spec

(* Every variable keeps to its type.                                        *)
THEOREM TypeCorrect == Spec => []TypeOK
<1>1. IInv => TypeOK
  BY DEF IInv
<1> QED BY <1>1, Invariance, PTL

(* After a deletion the trail holds minimal evidence, but for events of     *)
(* requests that were under way then or that a restore brought back:        *)
(* minimize_for_terminal_retention misses nothing else.                     *)
THEOREM TrailsAreMinimal == Spec => []TrailIsMinimal
<1>1. IInv => TrailIsMinimal
  BY DEF IInv
<1> QED BY <1>1, Invariance, PTL

-----------------------------------------------------------------------------
(* The action properties.                                                   *)

(* Only its own commit makes a request done.                                *)
LEMMA DoneByWrite ==
    ASSUME IInv, [Next]_vars, NEW r \in Request, pc[r] = "write", pc'[r] = "done"
    PROVE  Write(r)
<1>0. pc \in [Request -> {"idle", "reload", "write", "done", "lost"}]
  BY DEF IInv, TypeOK
<1>1. ASSUME NEW q \in Request, NEW o \in Org, Read(q, o) PROVE FALSE
  <2>1. pc[q] = "idle" /\ \E l : pc' = [pc EXCEPT ![q] = l]
    BY <1>1 DEF Read, SuspendOrganization, ReactivateOrganization, UpdateOrganization,
       DeleteOrganization, DeleteExpected, RecordEvent, PurgeRetained,
       CreateOrganization, Edits, Begins
  <2> QED BY <1>0, <2>1
<1>2. ASSUME NEW q \in Request, Reload(q) PROVE FALSE
  BY <1>0, <1>2 DEF Reload
<1>3. ASSUME NEW q \in Request \ {r}, Write(q) PROVE FALSE
  BY <1>0, <1>3 DEF Write, WriteEdit, WriteDelete, WriteTombstone, WriteEvent, WritePurge,
     Removes, Commits
<1>4. CASE Elapse \/ Backup \/ PgRestore \/ Reconcile \/ UNCHANGED vars
  BY <1>4 DEF Elapse, Backup, PgRestore, Reconcile, request, vars
<1>5. CASE Capture
  BY <1>5 DEF Capture, Open
<1> QED BY <1>1, <1>2, <1>3, <1>4, <1>5 DEF Next

(* remove_if_suspended_episode deletes in the very suspension whose episode *)
(* it names: the stamp it compares was written since the suspension, which  *)
(* a backup keeps and the guard renews.                                     *)
THEOREM TombstonesHitTheirEpisode == Spec => TombstoneHitsItsEpisode
<1>1. IInv /\ [Next]_vars
        => [\A r \in Request :
              (pc[r] = "write" /\ pc'[r] = "done" /\ call[r].op = "tombstone")
                 => call[r].expected \in since[call[r].org]]_vars
  <2> SUFFICES ASSUME IInv, [Next]_vars, NEW r \in Request,
                      pc[r] = "write", pc'[r] = "done", call[r].op = "tombstone"
               PROVE  call[r].expected \in since[call[r].org]
    OBVIOUS
  <2>1. WriteTombstone(r)
    BY DoneByWrite DEF Write, WriteEdit, WriteDelete, WriteEvent, WritePurge
  <2>2. call[r].org \in Org
    BY DEF IInv, RequestShape, Open
  <2> QED BY <2>1, <2>2 DEF WriteTombstone, SameEpisode, GetById, IInv, Tracked
<1> QED BY <1>1, Invariance, PTL DEF Spec, TombstoneHitsItsEpisode

(* The update that brings back a deleted organisation writes an entity that *)
(* was read before the deletion.                                            *)
LEMMA OnlyStaleEditsRevive ==
    ASSUME IInv, NEW r \in Request, Write(r), NEW o \in Org,
           IsDeleted(row[o]), ~IsDeleted(row'[o])
    PROVE  ByStaleEdit(o)
<1>0. PICK x : x = call[r].org
  OBVIOUS
<1>1. /\ pc[r] = "write" /\ Open(r) /\ Serving
      /\ x \in Org /\ row[x] \in Row
  BY <1>0 DEF Write, Open, IInv, RequestShape, TypeOK, Exists
<1>2. ASSUME NEW v, Commits(r, x, v), x # o \/ IsDeleted(v) \/ v = row[x] PROVE FALSE
  BY <1>1, <1>2 DEF Commits, IInv, TypeOK
<1>3. CASE WriteEdit(r)
  <2>1. call[r].op \in Edit /\ x = o
    BY <1>0, <1>2, <1>3 DEF WriteEdit, Edit
  <2>2. r \in unseen[o]
    BY <1>0, <1>1, <2>1 DEF IInv, StragglersAreUnseen, Straggler
  <2>3. pc'[r] = "done"
    BY <1>3 DEF WriteEdit, Commits, IInv, TypeOK
  <2>4. call[r].op # "record"
    BY <2>1 DEF Edit
  <2>5. r \in unseen[o] /\ pc[r] = "write" /\ pc'[r] = "done" /\ call[r].op # "record"
    BY <1>1, <2>2, <2>3, <2>4
  <2> QED BY <2>5 DEF ByStaleEdit
<1>4. CASE WriteDelete(r)
  <2>1. DeletePatch(patch[r], r)
    BY <1>1, <1>4 DEF WriteDelete, IInv, RequestShape
  <2>2. x = o => IsDeleted(Patched(row[x], patch[r]))
    BY <1>1, <2>1, PatchedRow
  <2>3. Commits(r, x, Patched(row[x], patch[r]))
    BY <1>0, <1>4 DEF WriteDelete, Removes
  <2> QED BY <1>2, <2>2, <2>3
<1>5. CASE WriteTombstone(r)
  <2>1. PICK v : v = [row[x] EXCEPT !.deleted = r]
    OBVIOUS
  <2>2. v \in Row /\ v.deleted = r
    BY <1>1, <2>1 DEF Row, Stamp
  <2>3. IsDeleted(v)
    BY <2>2, NoneIsNew DEF IsDeleted, Exists
  <2>4. Commits(r, x, v)
    BY <1>0, <1>5, <2>1 DEF WriteTombstone, Removes
  <2> QED BY <1>2, <2>3, <2>4
<1>6. CASE WriteEvent(r) \/ WritePurge(r)
  BY <1>0, <1>2, <1>6 DEF WriteEvent, WritePurge
<1> QED BY <1>3, <1>4, <1>5, <1>6 DEF Write

(* A deleted organisation stays deleted while the service runs and across   *)
(* restores, and no restore makes one usable that was not, but for an edit  *)
(* that had read it before, and for a snapshot taken from a blocked database.*)
THEOREM TombstonesHold == Spec => TombstoneHolds
<1>1. IInv /\ [Next]_vars
        => [phase' = "up" /\ ~blind =>
              /\ \A o \in dead : IsDeleted(row'[o]) \/ ByStaleEdit(o)
              /\ phase = "restored" => Usable(row') \subseteq usable]_vars
  <2> SUFFICES ASSUME IInv, [Next]_vars, phase' = "up", ~blind
               PROVE  /\ \A o \in dead : IsDeleted(row'[o]) \/ ByStaleEdit(o)
                      /\ phase = "restored" => Usable(row') \subseteq usable
    OBVIOUS
  <2>0. dead \subseteq Org
    BY DEF IInv, TypeOK
  <2>1. CASE Reconcile
    <3>1. /\ phase = "restored" /\ Missing = {}
          /\ row' = [o \in Org |-> Reapplied(row[o], snapshot[o])]
      BY <2>1 DEF Reconcile
    <3>2. \A o \in Org : /\ row[o] \in Row \cup {None}
                         /\ snapshot[o] \in Lifecycle \cup {None}
                         /\ row'[o] = Reapplied(row[o], snapshot[o])
                         /\ snapshot[o] # None => row[o] # None
      BY <3>1 DEF IInv, TypeOK, PhaseOK, Missing
    <3>3. ASSUME NEW o \in dead PROVE IsDeleted(row'[o])
      <4>1. o \in Org /\ snapshot[o] # None /\ snapshot[o].deleted # None
        BY <2>0, <3>1 DEF IInv, SnapshotRemembers
      <4> QED BY <3>1, <3>2, <4>1, ReappliedRow
    <3>4. ASSUME NEW o \in Usable(row') PROVE o \in usable
      <4>1. o \in Org /\ IsActive(row'[o])
        BY DEF Usable
      <4>2. snapshot[o] # None /\ snapshot[o].status = "active" /\ snapshot[o].deleted = None
        BY <3>1, <3>2, <4>1, ReappliedRow
      <4> QED BY <3>1, <4>1, <4>2 DEF IInv, SnapshotRemembers
    <3> QED BY <3>3, <3>4
  <2>2. CASE phase = "up"
    <3>1. dead = Dead(row)
      BY <2>2 DEF IInv, MemoryFollows, Serving
    <3> SUFFICES ASSUME NEW o \in Org, IsDeleted(row[o]), ~IsDeleted(row'[o])
                 PROVE  ByStaleEdit(o)
      BY <2>2, <3>1 DEF Dead
    <3>2. row' # row
      OBVIOUS
    <3>3. ASSUME NEW r \in Request, NEW x \in Org, Read(r, x) PROVE FALSE
      <4>1. CASE CreateOrganization(r, x)
        BY <4>1 DEF CreateOrganization, IInv, TypeOK, IsDeleted
      <4>2. CASE ~CreateOrganization(r, x)
        BY <3>2, <3>3, <4>2
        DEF Read, SuspendOrganization, ReactivateOrganization, UpdateOrganization,
            DeleteOrganization, DeleteExpected, RecordEvent, PurgeRetained, Edits, Begins, data
      <4> QED BY <4>1, <4>2
    <3>4. ASSUME NEW r \in Request, Reload(r) PROVE FALSE
      BY <3>2, <3>4 DEF Reload, data
    <3>5. ~(Elapse \/ Backup \/ Capture \/ PgRestore \/ UNCHANGED vars)
      BY <2>2, <3>2 DEF Elapse, Backup, Capture, PgRestore, vars, data
    <3>6. \E r \in Request : Write(r)
      BY <2>2, <3>3, <3>4, <3>5 DEF Next, Reconcile
    <3> QED BY <3>6, OnlyStaleEditsRevive
  <2>3. CASE ~Reconcile /\ phase # "up"
    <3>1. ASSUME NEW r \in Request, NEW x \in Org, Read(r, x) PROVE FALSE
      BY <2>3, <3>1
      DEF Read, SuspendOrganization, ReactivateOrganization, UpdateOrganization,
          DeleteOrganization, DeleteExpected, RecordEvent, PurgeRetained, CreateOrganization,
          Edits, Begins, Serving
    <3> QED BY <2>3, <3>1 DEF Next, Reload, Write, Elapse, Backup, Capture, PgRestore,
            vars, guard, Serving
  <2> QED BY <2>1, <2>2, <2>3
<1> QED BY <1>1, Invariance, PTL DEF Spec, TombstoneHolds
=============================================================================
