------------------------------ MODULE RoleGrants ------------------------------
(***************************************************************************)
(* What roles grant: templates, the roles derived from them, the roles of  *)
(* organisations, and the lifecycle of permissions, with the triggers that *)
(* migration 0055 leaves on grants and permissions.                        *)
(*                                                                         *)
(* A request is one PostgreSQL transaction at READ COMMITTED: it reads and *)
(* checks, its DELETE takes a snapshot and waits for the rows it saw, its  *)
(* flush takes the row lock of the role or permission and runs the         *)
(* triggers, and it commits.  Others commit in between.  A request that is *)
(* refused at once changes nothing and is left out.                        *)
(*                                                                         *)
(* Names, versions and audit events of roles are left out, as are          *)
(* permissions that only a super admin may assign.  A sync has one target: *)
(* one of several targets does the same to each in one transaction.        *)
(***************************************************************************)
EXTENDS Naturals, FiniteSets

CONSTANTS
    Request,
    Role,        \* roles at the start; a derived or new role is its request
    Template,    \* the templates among them,
    Derived,     \* the roles that came from the template Source,
    AutoInclude, \* and the roles that include new permissions by themselves
    Source,
    Permission,
    None

Roles == Role \cup Request
State == {"active", "locked", "inactive"}

ASSUME GrantsAssumption ==
    /\ Template \subseteq Role /\ Derived \subseteq Role \ Template
    /\ AutoInclude \subseteq Role /\ Source \in Template
    /\ Role \cap Request = {} /\ None \notin Request \cup Role

VARIABLES
    state,      \* lifecycle_state of permissions
    source,     \* source[x]: the template role x came from, "own", or None if
                \* there is no such role
    grant,      \* grant[x][p]: the request that inserted the grant, or None
    exclusion,  \* exclusion[x]: permissions that x leaves out of its template,
                \* and the request that said so
    pc, call,   \* where each request is, and what it was asked to do
    wanted,     \* wanted[r]: permissions that r is to grant to its role
    leaves,     \* leaves[r]: permissions that r, an edit of a derived role, was
                \* not asked for; in the end those it is to exclude
    seen,       \* seen[r]: grants in the snapshot of the DELETE that r waits in
    removed,    \* removed[r]: grants that r has deleted, not yet committed
    added,      \* added[r]: grants that r has inserted, not yet committed
    \* What the properties remember.
    beside,     \* beside[r]: requests that were under way beside r
    late        \* late[p]: requests beside the one with which p last ceased to
                \* be active, that had by then inserted a grant of p

request == <<pc, call, wanted, leaves, seen, removed, added>>
rows    == <<state, source, grant, exclusion>>
vars    == <<rows, request, beside, late>>

(* The grants of committed rows, each with who inserted it.                 *)
Cell == {[role |-> x, perm |-> p, by |-> r] :
            x \in Roles, p \in Permission, r \in Request \cup Role}
Grants == {g \in Cell : grant[g.role][g.perm] = g.by}
Granted(x) == {p \in Permission : grant[x][p] # None}

(* The flush is over, and what r wrote is locked.                           *)
Written(r) == pc[r] \in {"stripping", "flushed", "noting", "noted"}
Open(r) == pc[r] \in {"read", "deleting", "deleted"} \/ Written(r)
RemovedElsewhere(r) == UNION {removed[q] : q \in Request \ {r}}
AddedElsewhere(r) == UNION {added[q] : q \in Request \ {r}}

Init ==
    /\ state = [p \in Permission |-> "active"]
    /\ source = [x \in Roles |-> IF x \in Derived THEN Source
                                 ELSE IF x \in Role THEN "own" ELSE None]
    /\ grant = [x \in Roles |-> [p \in Permission |-> IF x \in Role THEN x ELSE None]]
    /\ exclusion = [x \in Roles |-> [out |-> {}, by |-> None]]
    /\ pc = [r \in Request |-> "idle"]
    /\ call = [r \in Request |-> None]
    /\ wanted = [r \in Request |-> {}]
    /\ leaves = [r \in Request |-> {}]
    /\ seen = [r \in Request |-> {}]
    /\ removed = [r \in Request |-> {}]
    /\ added = [r \in Request |-> {}]
    /\ beside = [r \in Request |-> {}]
    /\ late = [p \in Permission |-> {}]

-----------------------------------------------------------------------------
(* Reading                                                                  *)

Begins(r, op, x) ==
    /\ pc[r] = "idle"
    /\ pc' = [pc EXCEPT ![r] = "read"]
    /\ call' = [call EXCEPT ![r] = [op |-> op, on |-> x]]
    /\ beside' = [q \in Request |->
         IF q = r THEN {y \in Request : Open(y)}
         ELSE IF Open(q) THEN beside[q] \cup {r} ELSE beside[q]]
    /\ UNCHANGED <<rows, seen, removed, added, late>>

InState(ps, s) == {p \in ps : state[p] = s}

FromTemplate(x) == source[x] \in Template

(* _replace_permissions: locked grants of the role stay.                    *)
Wants(r, x, ps) ==
    wanted' = [wanted EXCEPT ![r] = ps \cup InState(Granted(x), "locked")]

(* _validated_permissions: only active ones may be asked for.               *)
Validated(ps) == ps = InState(ps, "active")
(* _permissions_for_propagation: what a template passes on.                 *)
Propagated(t) == Granted(t) \ InState(Permission, "inactive")

UpdateTemplate(r, t, ps) ==
    /\ Begins(r, "template", t)
    /\ t \in Template /\ Validated(ps)
    /\ Wants(r, t, ps)
    /\ UNCHANGED leaves

DeriveTemplate(r, t) ==
    /\ Begins(r, "derive", t)
    /\ t \in Template
    /\ Wants(r, r, Propagated(t))
    /\ UNCHANGED leaves

SyncTemplate(r, x) ==
    /\ Begins(r, "sync", x)
    /\ FromTemplate(x)
    /\ Wants(r, x, Propagated(source[x]))
    /\ UNCHANGED leaves

CreateOrganizationRole(r, ps) ==
    /\ Begins(r, "create", r)
    /\ Validated(ps)
    /\ Wants(r, r, ps)
    /\ UNCHANGED leaves

(* Not asked for is what is not in the payload, whether or not it stays.    *)
UpdateOrganizationRolePermissions(r, x, ps) ==
    /\ Begins(r, "edit", x)
    /\ source[x] # None /\ x \notin Template \cup AutoInclude /\ Validated(ps)
    /\ Wants(r, x, ps)
    /\ leaves' = [leaves EXCEPT ![r] = IF FromTemplate(x) THEN Permission \ ps ELSE {}]

(* The state that was read is compared with the new one by the flush; the   *)
(* grants of a permission that is to be inactive are deleted before.        *)
UpdatePermissionLifecycle(r, p, s) ==
    /\ pc[r] = "idle"
    /\ pc' = [pc EXCEPT ![r] = IF s = "inactive" THEN "read" ELSE "deleted"]
    /\ call' = [call EXCEPT ![r] =
                  [op |-> "lifecycle", on |-> p, from |-> state[p], to |-> s]]
    /\ beside' = [q \in Request |->
         IF q = r THEN {y \in Request : Open(y)}
         ELSE IF Open(q) THEN beside[q] \cup {r} ELSE beside[q]]
    /\ UNCHANGED <<rows, wanted, leaves, seen, removed, added, late>>

-----------------------------------------------------------------------------
(* Deleting                                                                 *)

IsLifecycle(r) == call[r].op = "lifecycle"
(* The role that r writes.                                                  *)
Target(r) == IF call[r].op \in {"derive", "create"} THEN r ELSE call[r].on

Concerned(r) ==
    {g \in Grants \ removed[r] :
        IF IsLifecycle(r) THEN g.perm = call[r].on ELSE g.role = Target(r)}

(* The DELETE sees what is committed.                                       *)
StartDelete(r) ==
    /\ pc[r] = "read"
    /\ seen' = [seen EXCEPT ![r] = Concerned(r)]
    /\ pc' = [pc EXCEPT ![r] = "deleting"]
    /\ UNCHANGED <<rows, call, wanted, leaves, removed, added, beside, late>>

(* It waits for the rows that others have deleted, and skips those which    *)
(* are gone by then.                                                        *)
FinishDelete(r) ==
    /\ pc[r] \in {"deleting", "stripping"}
    /\ seen[r] \cap RemovedElsewhere(r) = {}
    /\ removed' = [removed EXCEPT ![r] = @ \cup (seen[r] \cap Grants)]
    /\ seen' = [seen EXCEPT ![r] = {}]
    /\ pc' = [pc EXCEPT ![r] = IF @ = "deleting" THEN "deleted" ELSE "flushed"]
    /\ UNCHANGED <<rows, call, wanted, leaves, added, beside, late>>

-----------------------------------------------------------------------------
(* Flushing                                                                 *)

(* The rows of roles and of permissions that r holds.                       *)
Locks(q, x) ==
    Written(q) /\ x = IF IsLifecycle(q) THEN call[q].on ELSE Target(q)

(* identity_enforce_permission_lifecycle, on every inserted grant.          *)
(* Mutant of Enforced: the trigger is not there.                            *)
EnforcedNever(ps) == TRUE
Enforced(ps) == ps = InState(ps, "active")

(* A grant there already, but for those r has deleted itself.               *)
Collides(r, gs) ==
    \E g \in gs : \E h \in Grants \ removed[r] : h.role = g.role /\ h.perm = g.perm

SameCell(gs, hs) == \E g \in gs, h \in hs : g.role = h.role /\ g.perm = h.perm

Ends(r) ==
    /\ pc' = [pc EXCEPT ![r] = "done"]
    /\ wanted' = [wanted EXCEPT ![r] = {}]
    /\ leaves' = [leaves EXCEPT ![r] = {}]
    /\ seen' = [seen EXCEPT ![r] = {}]
    /\ removed' = [removed EXCEPT ![r] = {}]
    /\ added' = [added EXCEPT ![r] = {}]
    /\ UNCHANGED <<call, beside>>

FlushRole(r) ==
    LET gs == {[role |-> Target(r), perm |-> p, by |-> r] : p \in wanted[r]} IN
    /\ pc[r] = "deleted" /\ ~IsLifecycle(r)
    /\ \A q \in Request \ {r} : ~Locks(q, Target(r))
    /\ ~SameCell(gs, AddedElsewhere(r))
    /\ IF Enforced(wanted[r]) /\ ~Collides(r, gs)
       THEN /\ added' = [added EXCEPT ![r] = gs]
            /\ pc' = [pc EXCEPT ![r] = "flushed"]
            /\ UNCHANGED <<rows, call, wanted, leaves, seen, removed, beside, late>>
       ELSE Ends(r) /\ UNCHANGED <<rows, late>>

(* The UPDATE names the state only when it differs from what was read; then *)
(* identity_apply_permission_lifecycle runs.                                *)
Changes(r) == call[r].to # call[r].from

(* An active permission goes to the roles that include it by themselves.    *)
AutoGrants(r) ==
    {[role |-> x, perm |-> call[r].on, by |-> r] : x \in AutoInclude}

FlushLifecycle(r) ==
    /\ pc[r] = "deleted" /\ IsLifecycle(r)
    /\ \A q \in Request \ {r} : ~Locks(q, call[r].on)
    /\ IF ~Changes(r)
       THEN pc' = [pc EXCEPT ![r] = "flushed"] /\ UNCHANGED <<seen, added>>
       ELSE IF call[r].to = "active"
       THEN /\ ~SameCell(AutoGrants(r), AddedElsewhere(r))
            /\ added' = [added EXCEPT ![r] = {g \in AutoGrants(r) : ~Collides(r, {g})}]
            /\ pc' = [pc EXCEPT ![r] = "flushed"]
            /\ UNCHANGED seen
       ELSE /\ seen' = [seen EXCEPT ![r] = Concerned(r)]
            /\ pc' = [pc EXCEPT ![r] = "stripping"]
            /\ UNCHANGED added
    /\ UNCHANGED <<rows, call, wanted, leaves, removed, beside, late>>

-----------------------------------------------------------------------------
(* Committing                                                               *)

GrantsAfter(r) ==
    [x \in Roles |-> [p \in Permission |->
        IF \E g \in added[r] : g.role = x /\ g.perm = p THEN r
        ELSE IF \E g \in removed[r] : g.role = x /\ g.perm = p THEN None
        ELSE grant[x][p]]]

(* An edit of a derived role notes what it leaves out of the template: two  *)
(* queries after the flush, for what the template grants by now and for     *)
(* what is locked by now on the role as r sees it.                          *)
Notes(r) == call[r].op = "edit" /\ FromTemplate(Target(r))

NoteTemplate(r) ==
    /\ pc[r] = "flushed" /\ ~IsLifecycle(r) /\ Notes(r)
    /\ leaves' = [leaves EXCEPT ![r] = @ \cap Granted(source[Target(r)])]
    /\ pc' = [pc EXCEPT ![r] = "noting"]
    /\ UNCHANGED <<rows, call, wanted, seen, removed, added, beside, late>>

LockedKept(r) ==
    InState({p \in Permission : GrantsAfter(r)[Target(r)][p] # None}, "locked")
NoteLocked(r) ==
    /\ pc[r] = "noting"
    /\ leaves' = [leaves EXCEPT ![r] = @ \ LockedKept(r)]
    /\ pc' = [pc EXCEPT ![r] = "noted"]
    /\ UNCHANGED <<rows, call, wanted, seen, removed, added, beside, late>>

(* A sync forgets what the role excludes.                                   *)
(* Mutant of ExclusionsAfter: it does not.                                  *)
ExclusionsKept(r) ==
    IF Notes(r) THEN [exclusion EXCEPT ![Target(r)] = [out |-> leaves[r], by |-> r]]
    ELSE exclusion
ExclusionsAfter(r) ==
    IF Notes(r) THEN [exclusion EXCEPT ![Target(r)] = [out |-> leaves[r], by |-> r]]
    ELSE IF call[r].op = "sync" THEN [exclusion EXCEPT ![Target(r)] = [out |-> {}, by |-> r]]
    ELSE exclusion

CommitRole(r) ==
    /\ pc[r] \in {"flushed", "noted"} /\ ~IsLifecycle(r)
    /\ Notes(r) => pc[r] = "noted"
    /\ grant' = GrantsAfter(r)
    /\ exclusion' = ExclusionsAfter(r)
    /\ source' = CASE call[r].op = "derive" -> [source EXCEPT ![r] = call[r].on]
                   [] call[r].op = "create" -> [source EXCEPT ![r] = "own"]
                   [] OTHER -> source
    /\ UNCHANGED <<state, late>>
    /\ Ends(r)

CommitLifecycle(r) ==
    LET p == call[r].on IN
    /\ pc[r] = "flushed" /\ IsLifecycle(r)
    /\ grant' = GrantsAfter(r)
    /\ state' = IF Changes(r) THEN [state EXCEPT ![p] = call[r].to] ELSE state
    /\ late' = IF state[p] = "active" /\ state'[p] # "active"
               THEN [late EXCEPT ![p] =
                       {q \in beside[r] : \/ \E g \in added[q] : g.perm = p
                                          \/ \E x \in Roles : GrantsAfter(r)[x][p] = q}]
               ELSE late
    /\ UNCHANGED <<source, exclusion>>
    /\ Ends(r)

-----------------------------------------------------------------------------
Next == \E r \in Request :
    \/ \E x \in Roles :
         \/ DeriveTemplate(r, x)
         \/ SyncTemplate(r, x)
         \/ \E ps \in SUBSET Permission : \/ UpdateTemplate(r, x, ps)
                                          \/ UpdateOrganizationRolePermissions(r, x, ps)
    \/ \E ps \in SUBSET Permission : CreateOrganizationRole(r, ps)
    \/ \E p \in Permission, s \in State : UpdatePermissionLifecycle(r, p, s)
    \/ StartDelete(r)
    \/ FinishDelete(r)
    \/ FlushRole(r)
    \/ FlushLifecycle(r)
    \/ NoteTemplate(r)
    \/ NoteLocked(r)
    \/ CommitRole(r)
    \/ CommitLifecycle(r)

Spec == Init /\ [][Next]_vars

-----------------------------------------------------------------------------
TypeOK ==
    /\ state \in [Permission -> State]
    /\ source \in [Roles -> Template \cup {"own", None}]
    /\ grant \in [Roles -> [Permission -> Request \cup Role \cup {None}]]
    /\ exclusion \in [Roles -> [out : SUBSET Permission, by : Request \cup {None}]]
    /\ pc \in [Request -> {"idle", "read", "deleting", "deleted", "stripping",
                           "flushed", "noting", "noted", "done"}]
    /\ wanted \in [Request -> SUBSET Permission]
    /\ leaves \in [Request -> SUBSET Permission]
    /\ seen \in [Request -> SUBSET Cell] /\ removed \in [Request -> SUBSET Cell]
    /\ added \in [Request -> SUBSET Cell]
    /\ beside \in [Request -> SUBSET Request]
    /\ late \in [Permission -> SUBSET Request]

(* A permission that is not active is granted only by a request which ran   *)
(* beside the one that made it so and had by then inserted the grant: the   *)
(* DELETE of the one trigger did not see it, and the other trigger refuses  *)
(* every later one, the locked grants that an edit keeps included.          *)
LeftoverGrants ==
    \A x \in Roles, p \in Permission :
        (state[p] # "active" /\ grant[x][p] # None) => grant[x][p] \in late[p]

(* A role does not grant what it is noted to exclude, unless the request    *)
(* that granted it was under way beside the one that noted the exclusion:   *)
(* the DELETE of the second does not see what the first inserts.  One       *)
(* request does both only of a permission unlocked beside it: locked when   *)
(* the request kept it on the role, active when it noted what it left out.  *)
Unlocks(q, p) == call[q].op = "lifecycle" /\ call[q].on = p /\ call[q].to = "active"
ExcludedIsNotGranted ==
    \A x \in Roles : \A p \in exclusion[x].out :
        LET r == grant[x][p]  n == exclusion[x].by IN
        r # None => /\ r \in Request
                    /\ n \in beside[r] \/ (n = r /\ \E q \in beside[r] : Unlocks(q, p))

(* routes.py: "Lock suspends authorization only (grants kept). Inactive     *)
(* strips role grants permanently."                                         *)
LockKeepsGrants ==
    [][\A p \in Permission :
         (state'[p] = "locked" /\ state[p] # "locked")
            => \A x \in Roles : grant'[x][p] = grant[x][p]]_vars
=============================================================================
