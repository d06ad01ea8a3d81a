---------------------------- MODULE RoleGrantsProofs ----------------------------
(***************************************************************************)
(* What roles may grant, for every set of requests, roles, templates and   *)
(* permissions.                                                            *)
(*                                                                         *)
(* A DELETE misses what others insert beside it.  Both properties are one  *)
(* fact about that: what a DELETE has not seen was granted by a request    *)
(* under way beside it.                                                    *)
(***************************************************************************)
EXTENDS RoleGrants, TLAPS

Calls(r) == Open(r) /\ ~IsLifecycle(r)
Turns(r) == Open(r) /\ IsLifecycle(r)
Flushed(r) == pc[r] \in {"flushed", "noting", "noted"}

-----------------------------------------------------------------------------
(* The strengthening.                                                       *)

CallsAreKept == call = [r \in Request |-> call[r]]

(* What a request under way was asked to do, and on what.                   *)
CallShape(r) ==
    /\ Calls(r) =>
          /\ call[r].op \in {"template", "derive", "sync", "create", "edit"}
          /\ Target(r) \in Roles
          /\ call[r].op = "template" => call[r].on \in Template
          /\ call[r].op = "derive" => call[r].on \in Template
          /\ call[r].op = "sync" => source[call[r].on] \in Template
          /\ call[r].op = "edit" => /\ call[r].on \notin Template \cup AutoInclude
                                    /\ source[call[r].on] # None
    /\ Turns(r) => /\ call[r].on \in Permission
                   /\ call[r].from \in State /\ call[r].to \in State
    /\ pc[r] = "stripping" => IsLifecycle(r)
    /\ pc[r] \in {"noting", "noted"} => ~IsLifecycle(r)

(* A role that is yet to be committed, and who committed a grant.           *)
NotYet == \A r \in Request : pc[r] # "done" => source[r] = None
GrantedByDone == \A g \in Grants : g.by \in Request => pc[g.by] = "done"

(* Two requests under way know of each other.                               *)
BesideEachOther == \A q, r \in Request : (q # r /\ Open(q) /\ Open(r)) => q \in beside[r]

(* Whom a request knows has begun, and was asked what it was asked.         *)
BesideHasBegun == \A r \in Request : \A q \in beside[r] : q \in Request /\ pc[q] # "idle"

IdleLeavesNothing == \A r \in Request : pc[r] = "idle" => leaves[r] = {}

(* What an edit keeps without being asked was locked when it was read; what *)
(* it is since, a request beside the edit has made it.  The flush takes     *)
(* only what is active.                                                     *)
MadeIt(q, p, s) == call[q].op = "lifecycle" /\ call[q].on = p /\ call[q].to = s
KeptShape(r) ==
    Calls(r) => \A p \in wanted[r] \cap leaves[r] :
        IF Flushed(r) THEN \E q \in beside[r] : Unlocks(q, p)
        ELSE state[p] = "locked" \/ \E q \in beside[r] : MadeIt(q, p, state[p])

(* What a request is about to add.                                          *)
AddedShape(r) ==
    /\ ~Flushed(r) => added[r] = {}
    /\ Calls(r) => \A g \in added[r] : g.role = Target(r) /\ g.perm \in wanted[r]
    /\ Turns(r) => \A g \in added[r] : /\ g.role \in AutoInclude /\ g.perm = call[r].on
                                       /\ Changes(r) /\ call[r].to = "active"
    /\ \A g \in added[r] : g.by = r

(* What a role is about to be granted is active, or ceased to be so beside  *)
(* the request.                                                             *)
AddedIsActive(r) ==
    Calls(r) => \A g \in added[r] : state[g.perm] = "active" \/ r \in late[g.perm]

(* The DELETE of a request on a role misses only what others inserted       *)
(* beside it; so does the one of the trigger.                               *)
RoleDelete(r) ==
    (Calls(r) /\ (pc[r] \in {"deleting", "deleted"} \/ Flushed(r))) =>
        \A g \in Grants : g.role = Target(r) =>
            \/ g \in removed[r] \cup seen[r]
            \/ g.by \in Request /\ r \in beside[g.by]
TriggerDelete(r) ==
    (Turns(r) /\ pc[r] \in {"stripping", "flushed"} /\ Changes(r) /\ call[r].to # "active") =>
        \A g \in Grants : g.perm = call[r].on =>
            g \in removed[r] \cup seen[r] \/ g.by \in beside[r]
SeenIsOver(r) == pc[r] \notin {"deleting", "stripping"} => seen[r] = {}

(* Only roles that came from a template exclude.                            *)
ExclusionShape ==
    \A x \in Roles : exclusion[x].out # {} => x \notin Template \cup AutoInclude /\ source[x] \in Template

RequestShape ==
    \A r \in Request : /\ CallShape(r) /\ AddedShape(r) /\ AddedIsActive(r)
                       /\ RoleDelete(r) /\ TriggerDelete(r) /\ SeenIsOver(r) /\ KeptShape(r)

IInv ==
    /\ TypeOK
    /\ CallsAreKept
    /\ NotYet
    /\ GrantedByDone
    /\ BesideEachOther
    /\ BesideHasBegun
    /\ IdleLeavesNothing
    /\ RequestShape
    /\ ExclusionShape
    /\ LeftoverGrants
    /\ ExcludedIsNotGranted

-----------------------------------------------------------------------------
(* Helpers.                                                                 *)

Location == {"idle", "read", "deleting", "deleted", "stripping", "flushed",
             "noting", "noted", "done"}

LEMMA Names ==
    /\ \A x \in Template : x \in Role /\ x # None /\ x \notin Request
    /\ \A r \in Request : r # None /\ r \notin Role /\ r \in Roles
    /\ \A x \in Role : x # None /\ x \in Roles
BY GrantsAssumption DEF Roles

LEMMA GrantFacts ==
    ASSUME TypeOK
    PROVE  /\ \A x \in Roles, p \in Permission : grant[x][p] # None =>
                  [role |-> x, perm |-> p, by |-> grant[x][p]] \in Grants
           /\ \A g \in Grants : /\ g \in Cell /\ g.role \in Roles /\ g.perm \in Permission
                                /\ grant[g.role][g.perm] = g.by /\ g.by # None
<1>1. \A x \in Roles, p \in Permission : grant[x][p] # None => grant[x][p] \in Request \cup Role
  BY DEF TypeOK
<1>2. \A x \in Roles, p \in Permission : grant[x][p] # None =>
                  [role |-> x, perm |-> p, by |-> grant[x][p]] \in Grants
  BY <1>1 DEF Grants, Cell
<1>3. \A g \in Grants : /\ g \in Cell /\ g.role \in Roles /\ g.perm \in Permission
                        /\ grant[g.role][g.perm] = g.by /\ g.by # None
  BY Names DEF Grants, Cell
<1> QED BY <1>2, <1>3

(* A request that does nothing keeps its shape while the rows stay.         *)
LEMMA ShapeStays ==
    ASSUME IInv, NEW q \in Request, UNCHANGED <<state, source, grant, late>>,
           pc'[q] = pc[q], call'[q] = call[q], wanted'[q] = wanted[q], seen'[q] = seen[q],
           leaves'[q] = leaves[q], \A y \in beside[q] : call'[y] = call[y],
           removed'[q] = removed[q], added'[q] = added[q],
           beside[q] \subseteq beside'[q],
           \A g \in Grants : g.by \in Request => beside'[g.by] = beside[g.by]
    PROVE  /\ CallShape(q)' /\ AddedShape(q)' /\ AddedIsActive(q)'
           /\ RoleDelete(q)' /\ TriggerDelete(q)' /\ SeenIsOver(q)' /\ KeptShape(q)'
<1>1. /\ Calls(q)' <=> Calls(q)
      /\ Flushed(q)' <=> Flushed(q)
      /\ Turns(q)' <=> Turns(q)
      /\ IsLifecycle(q)' <=> IsLifecycle(q)
      /\ Target(q)' = Target(q) /\ (Changes(q)' <=> Changes(q)) /\ Grants' = Grants
  BY DEF Calls, Turns, Open, Written, Flushed, IsLifecycle, Target, Changes, Grants
<1>2. /\ CallShape(q) /\ AddedShape(q) /\ AddedIsActive(q)
      /\ RoleDelete(q) /\ TriggerDelete(q) /\ SeenIsOver(q) /\ KeptShape(q)
  BY DEF IInv, RequestShape
<1>3. CallShape(q)' /\ AddedShape(q)' /\ AddedIsActive(q)' /\ SeenIsOver(q)'
  <2>1. CallShape(q)'
    BY <1>1, <1>2 DEF CallShape
  <2>2. AddedShape(q)' /\ AddedIsActive(q)' /\ SeenIsOver(q)'
    BY <1>1, <1>2 DEF AddedShape, AddedIsActive, SeenIsOver
  <2> QED BY <2>1, <2>2
<1>4. RoleDelete(q)'
  BY <1>1, <1>2 DEF RoleDelete
<1>5. TriggerDelete(q)'
  BY <1>1, <1>2 DEF TriggerDelete
<1>6. KeptShape(q)'
  BY <1>1, <1>2 DEF KeptShape, Unlocks, MadeIt
<1> QED BY <1>3, <1>4, <1>5, <1>6

(* What it keeps unasked stays locked, or becomes what one beside it makes  *)
(* of it.                                                                   *)
LEMMA KeptStays ==
    ASSUME IInv, NEW q \in Request, UNCHANGED <<call, beside>>,
           pc'[q] = pc[q], wanted'[q] = wanted[q], leaves'[q] = leaves[q],
           Calls(q) => \A p \in Permission :
               state'[p] = state[p] \/ \E y \in beside[q] : MadeIt(y, p, state'[p])
    PROVE  KeptShape(q)'
<1>1. (Calls(q)' <=> Calls(q)) /\ (Flushed(q)' <=> Flushed(q))
  BY DEF Calls, Open, Written, Flushed, IsLifecycle
<1>2. KeptShape(q) /\ wanted[q] \subseteq Permission
  BY DEF IInv, RequestShape, TypeOK
<1>3. CASE Flushed(q)
  BY <1>1, <1>2, <1>3 DEF KeptShape, Unlocks
<1>4. CASE ~Flushed(q)
  BY <1>1, <1>2, <1>4 DEF KeptShape, MadeIt
<1> QED BY <1>3, <1>4

-----------------------------------------------------------------------------
(* A request begins: it gets to know the others, and they it.               *)
LEMMA BeginKeeps ==
    ASSUME IInv, NEW r \in Request, NEW l \in {"read", "deleted"}, NEW c,
           pc[r] = "idle", pc' = [pc EXCEPT ![r] = l], call' = [call EXCEPT ![r] = c],
           beside' = [q \in Request |->
              IF q = r THEN {y \in Request : Open(y)}
              ELSE IF Open(q) THEN beside[q] \cup {r} ELSE beside[q]],
           \A q \in Request \ {r} : wanted'[q] = wanted[q],
           wanted' \in [Request -> SUBSET Permission],
           \A q \in Request \ {r} : leaves'[q] = leaves[q],
           leaves' \in [Request -> SUBSET Permission],
           UNCHANGED <<rows, seen, removed, added, late>>,
           CallShape(r)', KeptShape(r)', l = "deleted" => c.op = "lifecycle"
    PROVE  IInv'
<1>0. TypeOK /\ UNCHANGED <<state, source, grant, exclusion, seen, removed, added, late>>
  BY DEF IInv, rows
<1>1. /\ \A q \in Request \ {r} : pc'[q] = pc[q] /\ call'[q] = call[q]
      /\ pc'[r] = l /\ call'[r] = c /\ ~Open(r) /\ Grants' = Grants
      /\ call' = [q \in Request |-> call'[q]]
  BY <1>0 DEF IInv, CallsAreKept, TypeOK, Open, Written, Grants
<1>2. /\ beside' \in [Request -> SUBSET Request]
      /\ \A q \in Request \ {r} : beside[q] \subseteq beside'[q]
      /\ \A g \in Grants : g.by \in Request => g.by # r /\ beside'[g.by] = beside[g.by]
      /\ \A q, y \in Request : y \in beside[q] => y # r
  <2>1. beside' \in [Request -> SUBSET Request]
    BY <1>0 DEF TypeOK
  <2>2. \A q \in Request \ {r} : beside[q] \subseteq beside'[q]
    OBVIOUS
  <2>3. \A g \in Grants : g.by \in Request => pc[g.by] = "done"
    BY DEF IInv, GrantedByDone
  <2>4. ASSUME NEW q \in Request, pc[q] = "done" PROVE q # r /\ beside'[q] = beside[q]
    <3>1. q # r /\ ~Open(q)
      BY <2>4 DEF Open, Written
    <3> QED BY <3>1
  <2>5. \A q, y \in Request : y \in beside[q] => y # r
    BY DEF IInv, BesideHasBegun
  <2> QED BY <2>1, <2>2, <2>3, <2>4, <2>5
<1>3. TypeOK'
  <2>1. pc' \in [Request -> Location]
    BY <1>0 DEF TypeOK, Location
  <2> QED BY <1>0, <1>2, <2>1 DEF TypeOK, Location
<1>4. NotYet' /\ GrantedByDone' /\ CallsAreKept'
  BY <1>0, <1>1, <1>2 DEF IInv, NotYet, GrantedByDone, CallsAreKept
<1>5. BesideEachOther'
  <2> SUFFICES ASSUME NEW q \in Request, NEW y \in Request, q # y, Open(q)', Open(y)'
               PROVE  q \in beside'[y]
    BY DEF BesideEachOther
  <2>1. \A z \in Request \ {r} : Open(z)' <=> Open(z)
    BY <1>1 DEF Open, Written
  <2>2. q # r => Open(q)
    BY <2>1
  <2>3. y # r => Open(y)
    BY <2>1
  <2> QED BY <2>2, <2>3 DEF IInv, BesideEachOther
<1>6. RequestShape'
  <2>1. ASSUME NEW q \in Request \ {r}
        PROVE  /\ CallShape(q)' /\ AddedShape(q)' /\ AddedIsActive(q)'
               /\ RoleDelete(q)' /\ TriggerDelete(q)' /\ SeenIsOver(q)' /\ KeptShape(q)'
    <3>1. \A y \in beside[q] : y \in Request /\ call'[y] = call[y]
      BY <1>0, <1>1, <1>2 DEF TypeOK
    <3> QED BY <1>0, <1>1, <1>2, <3>1, ShapeStays
  <2>2. added[r] = {} /\ seen[r] = {}
    BY DEF IInv, RequestShape, AddedShape, SeenIsOver, Flushed
  <2>3. l = "deleted" => ~Calls(r)'
    BY <1>1 DEF Calls, IsLifecycle
  <2>4. AddedShape(r)' /\ AddedIsActive(r)' /\ RoleDelete(r)' /\ TriggerDelete(r)' /\ SeenIsOver(r)'
    BY <1>0, <1>1, <2>2, <2>3 DEF AddedShape, AddedIsActive, RoleDelete, TriggerDelete, SeenIsOver,
                                  Flushed
  <2> QED BY <2>1, <2>4 DEF RequestShape
<1>7. ExclusionShape' /\ LeftoverGrants'
  BY <1>0 DEF IInv, ExclusionShape, LeftoverGrants
<1>8. ExcludedIsNotGranted'
  <2> SUFFICES ASSUME NEW x \in Roles, NEW p \in exclusion[x].out, grant[x][p] # None
               PROVE  /\ grant[x][p] \in Request
                      /\ \/ exclusion[x].by \in beside'[grant[x][p]]
                         \/ /\ exclusion[x].by = grant[x][p]
                            /\ \E q \in beside'[grant[x][p]] : Unlocks(q, p)'
    BY <1>0 DEF ExcludedIsNotGranted
  <2>0. PICK g : g = grant[x][p]
    OBVIOUS
  <2>1. p \in Permission
    BY <1>0 DEF TypeOK
  <2>2. /\ g \in Request
        /\ \/ exclusion[x].by \in beside[g]
           \/ exclusion[x].by = g /\ \E q \in beside[g] : Unlocks(q, p)
    BY <2>0 DEF IInv, ExcludedIsNotGranted
  <2>3. PICK h \in Grants : h.by = g
    BY <1>0, <2>0, <2>1, GrantFacts
  <2>4. beside'[g] = beside[g]
    BY <1>2, <2>2, <2>3
  <2>5. \A q \in beside[g] : q \in Request /\ call'[q] = call[q]
    BY <1>0, <1>1, <1>2, <2>2 DEF TypeOK
  <2> QED BY <2>0, <2>2, <2>4, <2>5 DEF Unlocks
<1>9. BesideHasBegun'
  <2> SUFFICES ASSUME NEW y \in Request, NEW q \in beside'[y]
               PROVE  q \in Request /\ pc'[q] # "idle"
    BY DEF BesideHasBegun
  <2>1. q \in Request
    BY <1>2
  <2>2. q = r \/ Open(q) \/ q \in beside[y]
    OBVIOUS
  <2> QED BY <1>1, <2>1, <2>2 DEF IInv, BesideHasBegun, Open, Written
<1>10. IdleLeavesNothing'
  BY <1>1 DEF IInv, IdleLeavesNothing
<1> QED BY <1>3, <1>4, <1>5, <1>6, <1>7, <1>8, <1>9, <1>10 DEF IInv

(* A step of a request under way that commits nothing.                      *)
LEMMA LocalKeeps ==
    ASSUME IInv, NEW r \in Request, Open(r), Open(r)', pc'[r] = "stripping" => IsLifecycle(r),
           UNCHANGED <<rows, call, wanted, beside, late>>,
           pc'[r] \in {"noting", "noted"} => ~IsLifecycle(r),
           leaves' \in [Request -> SUBSET Permission],
           \A q \in Request \ {r} : leaves'[q] = leaves[q],
           pc' \in [Request -> Location], seen' \in [Request -> SUBSET Cell],
           removed' \in [Request -> SUBSET Cell], added' \in [Request -> SUBSET Cell],
           \A q \in Request \ {r} : /\ pc'[q] = pc[q] /\ seen'[q] = seen[q]
                                    /\ removed'[q] = removed[q] /\ added'[q] = added[q],
           AddedShape(r)', AddedIsActive(r)', RoleDelete(r)', TriggerDelete(r)', SeenIsOver(r)',
           KeptShape(r)'
    PROVE  IInv'
<1>0. TypeOK /\ UNCHANGED <<state, source, grant, exclusion, call, wanted, beside, late>>
  BY DEF IInv, rows
<1>1. TypeOK'
  BY <1>0 DEF TypeOK, Location
<1>2. \A q \in Request : (Open(q)' <=> Open(q)) /\ (pc'[q] = "done" <=> pc[q] = "done")
  <2>1. pc[r] # "done" /\ pc'[r] # "done"
    BY DEF Open, Written
  <2> QED BY <2>1 DEF Open, Written
<1>3. NotYet' /\ GrantedByDone' /\ CallsAreKept' /\ BesideEachOther' /\ BesideHasBegun'
  <2>1. \A q \in Request : pc[q] # "idle" => pc'[q] # "idle"
    BY DEF Open, Written
  <2> QED BY <1>0, <1>2, <2>1 DEF IInv, NotYet, GrantedByDone, CallsAreKept, BesideEachOther,
                                  BesideHasBegun, Grants
<1>6. IdleLeavesNothing'
  <2>1. pc'[r] # "idle"
    BY DEF Open, Written
  <2> QED BY <2>1 DEF IInv, IdleLeavesNothing
<1>4. RequestShape'
  <2>1. ASSUME NEW q \in Request \ {r}
        PROVE  /\ CallShape(q)' /\ AddedShape(q)' /\ AddedIsActive(q)'
               /\ RoleDelete(q)' /\ TriggerDelete(q)' /\ SeenIsOver(q)' /\ KeptShape(q)'
    BY <1>0, ShapeStays
  <2>2. CallShape(r)'
    BY <1>0 DEF IInv, RequestShape, CallShape, Calls, Turns, IsLifecycle, Target
  <2> QED BY <2>1, <2>2 DEF RequestShape
<1>5. ExclusionShape' /\ LeftoverGrants' /\ ExcludedIsNotGranted'
  BY <1>0 DEF IInv, ExclusionShape, LeftoverGrants, ExcludedIsNotGranted, Unlocks
<1> QED BY <1>1, <1>3, <1>4, <1>5, <1>6 DEF IInv

LEMMA CallKeeps ==
    ASSUME IInv, NEW r \in Request, NEW x \in Roles, NEW ps \in SUBSET Permission, NEW y \in Roles,
           NEW op \in {"template", "derive", "sync", "create", "edit"},
           Begins(r, op, x), Wants(r, y, ps), NEW ls \in SUBSET Permission,
           UNCHANGED leaves \/ leaves' = [leaves EXCEPT ![r] = ls], op = "edit" \/ UNCHANGED leaves,
           ls \cap ps = {}, op = "edit" => y = x,
           op \in {"derive", "create"} => y = r,
           op \in {"template", "derive"} => x \in Template,
           op = "sync" => source[x] \in Template,
           op = "edit" => x \notin Template \cup AutoInclude /\ source[x] # None
    PROVE  IInv'
<1>1. PICK c : c = [op |-> op, on |-> x]
  OBVIOUS
<1>2. /\ pc[r] = "idle" /\ pc' = [pc EXCEPT ![r] = "read"] /\ call' = [call EXCEPT ![r] = c]
      /\ beside' = [q \in Request |->
              IF q = r THEN {z \in Request : Open(z)}
              ELSE IF Open(q) THEN beside[q] \cup {r} ELSE beside[q]]
      /\ UNCHANGED <<rows, seen, removed, added, late>>
  BY <1>1 DEF Begins
<1>3. /\ \A q \in Request \ {r} : wanted'[q] = wanted[q] /\ leaves'[q] = leaves[q]
      /\ wanted' \in [Request -> SUBSET Permission] /\ leaves' \in [Request -> SUBSET Permission]
      /\ \A p \in wanted'[r] \cap leaves'[r] : state[p] = "locked"
  <2>1. PICK w : w = ps \cup InState(Granted(y), "locked")
    OBVIOUS
  <2>2. w \in SUBSET Permission
    BY <2>1 DEF InState, Granted
  <2>3. wanted' = [wanted EXCEPT ![r] = w]
    BY <2>1 DEF Wants
  <2>4. leaves[r] = {}
    BY <1>2 DEF IInv, IdleLeavesNothing
  <2>5. /\ leaves' \in [Request -> SUBSET Permission] /\ leaves'[r] \cap ps = {}
        /\ \A q \in Request \ {r} : leaves'[q] = leaves[q]
    BY <2>4 DEF IInv, TypeOK
  <2> QED BY <2>1, <2>2, <2>3, <2>5 DEF IInv, TypeOK, InState
<1>4. CallShape(r)'
  <2>1. call'[r] = c /\ pc'[r] = "read"
    BY <1>2 DEF IInv, CallsAreKept, TypeOK
  <2>2. c.op = op /\ c.on = x
    BY <1>1
  <2>3. Target(r)' \in Roles
    BY <2>1, <2>2, Names DEF Target
  <2>4. source' = source
    BY <1>2 DEF rows
  <2> QED BY <2>1, <2>2, <2>3, <2>4 DEF CallShape, Calls, Turns, IsLifecycle
<1>5. KeptShape(r)'
  <2>1. pc'[r] = "read" /\ state' = state
    BY <1>2 DEF IInv, TypeOK, rows
  <2> QED BY <1>3, <2>1 DEF KeptShape, Flushed
<1> QED BY <1>2, <1>3, <1>4, <1>5, BeginKeeps

LEMMA UpdatePermissionLifecycleKeeps ==
    ASSUME IInv, NEW r \in Request, NEW p \in Permission, NEW to \in State,
           UpdatePermissionLifecycle(r, p, to)
    PROVE  IInv'
<1>1. PICK c : c = [op |-> "lifecycle", on |-> p, from |-> state[p], to |-> to]
  OBVIOUS
<1>2. PICK l \in {"read", "deleted"} : pc' = [pc EXCEPT ![r] = l]
  BY DEF UpdatePermissionLifecycle
<1>3. /\ pc[r] = "idle" /\ call' = [call EXCEPT ![r] = c]
      /\ beside' = [q \in Request |->
              IF q = r THEN {z \in Request : Open(z)}
              ELSE IF Open(q) THEN beside[q] \cup {r} ELSE beside[q]]
      /\ UNCHANGED <<rows, wanted, leaves, seen, removed, added, late>>
  BY <1>1 DEF UpdatePermissionLifecycle
<1>4. CallShape(r)'
  <2>1. call'[r] = c /\ pc'[r] \in {"read", "deleted"}
    BY <1>2, <1>3 DEF IInv, CallsAreKept, TypeOK
  <2>2. c.op = "lifecycle" /\ c.on = p /\ c.from \in State /\ c.to \in State
    BY <1>1 DEF IInv, TypeOK
  <2> QED BY <2>1, <2>2 DEF CallShape, Calls, Turns, IsLifecycle
<1>5. c.op = "lifecycle" /\ wanted' \in [Request -> SUBSET Permission]
      /\ leaves' \in [Request -> SUBSET Permission]
  BY <1>1, <1>3 DEF IInv, TypeOK
<1>6. KeptShape(r)'
  <2>1. call'[r].op = "lifecycle"
    BY <1>3, <1>5 DEF IInv, CallsAreKept
  <2> QED BY <2>1 DEF KeptShape, Calls, IsLifecycle
<1> QED BY <1>2, <1>3, <1>4, <1>5, <1>6, BeginKeeps

LEMMA BeginsKeep ==
    ASSUME IInv, NEW r \in Request,
           \/ \E x \in Roles :
                \/ DeriveTemplate(r, x)
                \/ SyncTemplate(r, x)
                \/ \E ps \in SUBSET Permission : \/ UpdateTemplate(r, x, ps)
                                                 \/ UpdateOrganizationRolePermissions(r, x, ps)
           \/ \E ps \in SUBSET Permission : CreateOrganizationRole(r, ps)
    PROVE  IInv'
<1>0. r \in Roles
  BY DEF Roles
<1> DEFINE nothing == {}
<1>6. nothing \in SUBSET Permission /\ \A qs : nothing \cap qs = {}
  OBVIOUS
<1> HIDE DEF nothing
<1>1. ASSUME NEW x \in Roles, DeriveTemplate(r, x) PROVE IInv'
  <2>1. Propagated(x) \in SUBSET Permission
    BY DEF Propagated, Granted
  <2> QED BY <1>0, <1>1, <1>6, <2>1, CallKeeps DEF DeriveTemplate
<1>2. ASSUME NEW x \in Roles, SyncTemplate(r, x) PROVE IInv'
  <2>1. Propagated(source[x]) \in SUBSET Permission
    BY DEF Propagated, Granted
  <2>2. /\ Begins(r, "sync", x) /\ Wants(r, x, Propagated(source[x])) /\ UNCHANGED leaves
        /\ source[x] \in Template
    <3>1. /\ Begins(r, "sync", x) /\ Wants(r, x, Propagated(source[x])) /\ UNCHANGED leaves
          /\ FromTemplate(x)
      BY <1>2 DEF SyncTemplate
    <3> QED BY <3>1 DEF FromTemplate
  <2>3. PICK qs \in SUBSET Permission : qs = Propagated(source[x])
    BY <2>1
  <2>4. Begins(r, "sync", x) /\ Wants(r, x, qs) /\ UNCHANGED leaves
    BY <2>2, <2>3
  <2> QED BY <1>6, <2>2, <2>4, CallKeeps
<1>3. ASSUME NEW x \in Roles, NEW ps \in SUBSET Permission, UpdateTemplate(r, x, ps) PROVE IInv'
  <2>1. /\ Begins(r, "template", x) /\ Wants(r, x, ps) /\ UNCHANGED leaves
        /\ x \in Template
    BY <1>3 DEF UpdateTemplate
  <2> QED BY <1>6, <2>1, CallKeeps
<1>4. ASSUME NEW x \in Roles, NEW ps \in SUBSET Permission,
             UpdateOrganizationRolePermissions(r, x, ps)
      PROVE  IInv'
  <2>1. PICK ls : ls = IF FromTemplate(x) THEN Permission \ ps ELSE {}
    OBVIOUS
  <2>2. ls \in SUBSET Permission /\ ls \cap ps = {}
    BY <2>1
  <2>3. leaves' = [leaves EXCEPT ![r] = ls]
    BY <1>4, <2>1 DEF UpdateOrganizationRolePermissions
  <2> QED BY <1>4, <2>2, <2>3, CallKeeps DEF UpdateOrganizationRolePermissions
<1>5. ASSUME NEW ps \in SUBSET Permission, CreateOrganizationRole(r, ps) PROVE IInv'
  BY <1>0, <1>5, <1>6, CallKeeps DEF CreateOrganizationRole
<1> QED BY <1>1, <1>2, <1>3, <1>4, <1>5

-----------------------------------------------------------------------------
(* The two halves of a DELETE.                                              *)

LEMMA StartDeleteKeeps ==
    ASSUME IInv, NEW r \in Request, StartDelete(r)
    PROVE  IInv'
<1>0. /\ TypeOK /\ pc[r] = "read" /\ seen' = [seen EXCEPT ![r] = Concerned(r)]
      /\ pc' = [pc EXCEPT ![r] = "deleting"]
      /\ UNCHANGED <<rows, call, wanted, leaves, removed, added, beside, late>>
      /\ UNCHANGED <<state, source, grant, exclusion>>
  BY DEF StartDelete, IInv, rows
<1>1. Concerned(r) \in SUBSET Cell
  BY DEF Concerned, Grants
<1>2. /\ pc' \in [Request -> Location] /\ seen' \in [Request -> SUBSET Cell]
      /\ removed' \in [Request -> SUBSET Cell] /\ added' \in [Request -> SUBSET Cell]
      /\ pc'[r] = "deleting" /\ seen'[r] = Concerned(r) /\ Open(r) /\ Open(r)'
      /\ \A q \in Request \ {r} : /\ pc'[q] = pc[q] /\ seen'[q] = seen[q]
                                  /\ removed'[q] = removed[q] /\ added'[q] = added[q]
  BY <1>0, <1>1 DEF TypeOK, Location, Open, Written
<1>3. added'[r] = {}
  BY <1>0 DEF IInv, RequestShape, AddedShape, Flushed
<1>4. AddedShape(r)' /\ AddedIsActive(r)' /\ TriggerDelete(r)' /\ SeenIsOver(r)'
  BY <1>2, <1>3 DEF AddedShape, AddedIsActive, TriggerDelete, SeenIsOver
<1>5. RoleDelete(r)'
  <2>1. Grants' = Grants /\ Target(r)' = Target(r) /\ (IsLifecycle(r)' <=> IsLifecycle(r))
    BY <1>0 DEF Grants, Target, IsLifecycle
  <2> QED BY <1>0, <1>2, <2>1 DEF RoleDelete, Calls, Concerned, Flushed
<1>6. KeptShape(r)' /\ leaves' \in [Request -> SUBSET Permission]
  <2>1. KeptShape(r) /\ (IsLifecycle(r)' <=> IsLifecycle(r)) /\ ~Flushed(r) /\ ~Flushed(r)'
    BY <1>0, <1>2 DEF IInv, RequestShape, IsLifecycle, Flushed
  <2> QED BY <1>0, <1>2, <2>1 DEF KeptShape, Calls, MadeIt, TypeOK
<1> QED BY <1>0, <1>2, <1>4, <1>5, <1>6, LocalKeeps

LEMMA FinishDeleteKeeps ==
    ASSUME IInv, NEW r \in Request, FinishDelete(r)
    PROVE  IInv'
<1>0. /\ TypeOK /\ pc[r] \in {"deleting", "stripping"}
      /\ removed' = [removed EXCEPT ![r] = @ \cup (seen[r] \cap Grants)]
      /\ seen' = [seen EXCEPT ![r] = {}]
      /\ UNCHANGED <<rows, call, wanted, leaves, added, beside, late>>
      /\ UNCHANGED <<state, source, grant, exclusion>>
  BY DEF FinishDelete, IInv, rows
<1>1. pc' = [pc EXCEPT ![r] = IF pc[r] = "deleting" THEN "deleted" ELSE "flushed"]
  BY DEF FinishDelete, IInv, TypeOK
<1>2. /\ pc' \in [Request -> Location] /\ seen' \in [Request -> SUBSET Cell]
      /\ removed' \in [Request -> SUBSET Cell] /\ added' \in [Request -> SUBSET Cell]
      /\ seen'[r] = {} /\ removed'[r] = removed[r] \cup (seen[r] \cap Grants) /\ Open(r) /\ Open(r)'
      /\ pc[r] = "deleting" => pc'[r] = "deleted"
      /\ pc[r] = "stripping" => pc'[r] = "flushed"
      /\ \A q \in Request \ {r} : /\ pc'[q] = pc[q] /\ seen'[q] = seen[q]
                                  /\ removed'[q] = removed[q] /\ added'[q] = added[q]
  BY <1>0, <1>1 DEF TypeOK, Location, Open, Written
<1>3. /\ added'[r] = {} /\ RoleDelete(r) /\ TriggerDelete(r)
  BY <1>0 DEF IInv, RequestShape, AddedShape, Flushed
<1>4. AddedShape(r)' /\ AddedIsActive(r)' /\ SeenIsOver(r)'
  BY <1>2, <1>3 DEF AddedShape, AddedIsActive, SeenIsOver
<1>5. /\ Grants' = Grants /\ Target(r)' = Target(r) /\ (IsLifecycle(r)' <=> IsLifecycle(r))
      /\ Changes(r)' <=> Changes(r)
  BY <1>0 DEF Grants, Target, IsLifecycle, Changes
<1>6. RoleDelete(r)'
  <2>1. pc[r] = "stripping" => ~Calls(r)'
    BY <1>5 DEF Calls, IInv, RequestShape, CallShape
  <2> QED BY <1>0, <1>2, <1>3, <1>5, <2>1 DEF RoleDelete, Calls, Flushed
<1>7. TriggerDelete(r)'
  BY <1>0, <1>2, <1>3, <1>5 DEF TriggerDelete, Turns
<1>8. KeptShape(r)' /\ leaves' \in [Request -> SUBSET Permission]
  <2>1. KeptShape(r) /\ CallShape(r)
    BY DEF IInv, RequestShape
  <2>2. Calls(r)' => pc[r] = "deleting" /\ Calls(r) /\ ~Flushed(r) /\ ~Flushed(r)'
    BY <1>0, <1>2, <1>5, <2>1 DEF Calls, CallShape, Flushed
  <2> QED BY <1>0, <2>1, <2>2 DEF KeptShape, MadeIt, TypeOK
<1>9. pc'[r] \notin {"stripping", "noting", "noted"}
  BY <1>0, <1>2
<1> QED BY <1>0, <1>2, <1>4, <1>6, <1>7, <1>8, <1>9, LocalKeeps

-----------------------------------------------------------------------------
(* Flushing.                                                                *)

(* The end of a transaction: with what it grants, or with nothing.          *)
LEMMA EndKeeps ==
    ASSUME IInv, NEW r \in Request, Open(r), Ends(r),
           \A x \in Roles, p \in Permission :
              grant'[x][p] = grant[x][p] \/ grant'[x][p] \in {None, r},
           grant' \in [Roles -> [Permission -> Request \cup Role \cup {None}]],
           source' \in [Roles -> Template \cup {"own", None}],
           \A x \in Roles \ {r} : source'[x] = source[x],
           state' \in [Permission -> State], late' \in [Permission -> SUBSET Request],
           exclusion' \in [Roles -> [out : SUBSET Permission, by : Request \cup {None}]],
           \A q \in Request \ {r} : AddedIsActive(q)' /\ KeptShape(q)',
           ExclusionShape', LeftoverGrants', ExcludedIsNotGranted'
    PROVE  IInv'
<1>0. TypeOK /\ call' = call /\ beside' = beside
  BY DEF IInv, Ends
<1>1. /\ pc' \in [Request -> Location] /\ wanted' \in [Request -> SUBSET Permission]
      /\ leaves' \in [Request -> SUBSET Permission]
      /\ seen' \in [Request -> SUBSET Cell] /\ removed' \in [Request -> SUBSET Cell]
      /\ added' \in [Request -> SUBSET Cell]
      /\ pc'[r] = "done" /\ added'[r] = {} /\ seen'[r] = {}
      /\ \A q \in Request \ {r} : /\ pc'[q] = pc[q] /\ wanted'[q] = wanted[q]
                                  /\ seen'[q] = seen[q] /\ removed'[q] = removed[q]
                                  /\ added'[q] = added[q] /\ leaves'[q] = leaves[q]
  BY <1>0 DEF TypeOK, Ends, Location
<1>2. TypeOK'
  BY <1>0, <1>1 DEF TypeOK, Location
<1>3. /\ ~Open(r)' /\ \A q \in Request \ {r} : Open(q)' <=> Open(q)
      /\ \A g \in Grants' : g \in Grants \/ g.by = r
  <2>1. ~Open(r)' /\ \A q \in Request \ {r} : Open(q)' <=> Open(q)
    BY <1>1 DEF Open, Written
  <2>2. ASSUME NEW g \in Grants' PROVE g \in Grants \/ g.by = r
    <3>1. g \in Cell /\ grant'[g.role][g.perm] = g.by
      BY DEF Grants
    <3>2. g.role \in Roles /\ g.perm \in Permission /\ g.by # None
      BY <3>1, Names DEF Cell
    <3> QED BY <3>1, <3>2 DEF Grants
  <2> QED BY <2>1, <2>2
<1>4. NotYet' /\ GrantedByDone' /\ CallsAreKept' /\ BesideEachOther'
  <2>1. NotYet'
    BY <1>1, Names DEF IInv, NotYet
  <2>2. GrantedByDone'
    BY <1>1, <1>3 DEF IInv, GrantedByDone
  <2> QED BY <1>0, <1>1, <1>3, <2>1, <2>2 DEF IInv, CallsAreKept, BesideEachOther
<1>5. ASSUME NEW x \in Roles
      PROVE  /\ source[x] # None => source'[x] # None
             /\ source[x] \in Template => source'[x] \in Template
  <2>1. pc[r] # "done"
    BY DEF Open, Written
  <2>2. source[r] = None
    BY <2>1 DEF IInv, NotYet
  <2> QED BY <2>2, Names
<1>6. ASSUME NEW q \in Request \ {r}
      PROVE  /\ CallShape(q)' /\ AddedShape(q)'
             /\ RoleDelete(q)' /\ TriggerDelete(q)' /\ SeenIsOver(q)' /\ KeptShape(q)'
  <2>0. /\ Calls(q)' <=> Calls(q)
        /\ Turns(q)' <=> Turns(q)
        /\ Changes(q)' <=> Changes(q)
        /\ IsLifecycle(q)' <=> IsLifecycle(q)
        /\ Target(q)' = Target(q)
        /\ Flushed(q)' <=> Flushed(q)
    BY <1>0, <1>1, <1>3 DEF Calls, Turns, IsLifecycle, Changes, Target, Flushed
  <2>1. /\ CallShape(q) /\ AddedShape(q) /\ RoleDelete(q) /\ TriggerDelete(q) /\ SeenIsOver(q)
    BY DEF IInv, RequestShape
  <2>2. Open(q) => r \in beside[q] /\ q \in beside[r]
    BY DEF IInv, BesideEachOther
  <2>3. CallShape(q)'
    <3>1. Calls(q) /\ call[q].op \in {"sync", "edit"} => call[q].on \in Roles
      BY <2>1 DEF CallShape, Target
    <3> QED BY <1>0, <1>1, <1>5, <2>0, <2>1, <3>1 DEF CallShape
  <2>4. AddedShape(q)' /\ SeenIsOver(q)'
    BY <1>0, <1>1, <2>0, <2>1 DEF AddedShape, SeenIsOver
  <2>5. RoleDelete(q)'
    BY <1>0, <1>1, <1>3, <2>0, <2>1, <2>2 DEF RoleDelete, Calls
  <2>6. TriggerDelete(q)'
    BY <1>0, <1>1, <1>3, <2>0, <2>1, <2>2 DEF TriggerDelete, Turns
  <2> QED BY <2>3, <2>4, <2>5, <2>6
<1>7. /\ CallShape(r)' /\ AddedShape(r)' /\ AddedIsActive(r)'
      /\ RoleDelete(r)' /\ TriggerDelete(r)' /\ SeenIsOver(r)' /\ KeptShape(r)'
  BY <1>1, <1>3 DEF CallShape, AddedShape, AddedIsActive, RoleDelete, TriggerDelete, SeenIsOver,
                    KeptShape, Calls, Turns
<1>8. RequestShape'
  BY <1>6, <1>7 DEF RequestShape
<1>9. BesideHasBegun' /\ IdleLeavesNothing'
  <2>1. \A q \in Request : pc[q] # "idle" => pc'[q] # "idle"
    BY <1>1
  <2>2. \A q \in Request : pc'[q] = "idle" => q # r /\ pc[q] = "idle" /\ leaves'[q] = leaves[q]
    BY <1>1
  <2>3. BesideHasBegun'
    BY <1>0, <2>1 DEF IInv, BesideHasBegun
  <2>4. IdleLeavesNothing'
    BY <2>2 DEF IInv, IdleLeavesNothing
  <2> QED BY <2>3, <2>4
<1> QED BY <1>2, <1>4, <1>8, <1>9 DEF IInv

(* A refused flush.                                                         *)
LEMMA RefusedKeeps ==
    ASSUME IInv, NEW r \in Request, Open(r), Ends(r), UNCHANGED <<rows, late>>
    PROVE  IInv'
<1>1. UNCHANGED <<state, source, grant, exclusion, late, call, beside>> /\ TypeOK
  BY DEF IInv, rows, Ends
<1>2. \A q \in Request \ {r} : AddedIsActive(q)' /\ KeptShape(q)'
  <2> SUFFICES ASSUME NEW q \in Request \ {r} PROVE AddedIsActive(q)' /\ KeptShape(q)'
    OBVIOUS
  <2>1. /\ AddedIsActive(q) /\ added'[q] = added[q] /\ pc'[q] = pc[q]
        /\ wanted'[q] = wanted[q] /\ leaves'[q] = leaves[q]
    BY <1>1 DEF IInv, RequestShape, Ends, TypeOK
  <2>2. AddedIsActive(q)'
    BY <1>1, <2>1 DEF AddedIsActive, Calls, Open, Written, IsLifecycle
  <2>3. KeptShape(q)'
    BY <1>1, <2>1, KeptStays
  <2> QED BY <2>2, <2>3
<1>3. ExclusionShape' /\ LeftoverGrants' /\ ExcludedIsNotGranted'
  BY <1>1 DEF IInv, ExclusionShape, LeftoverGrants, ExcludedIsNotGranted, Unlocks
<1>4. /\ grant' \in [Roles -> [Permission -> Request \cup Role \cup {None}]]
      /\ source' \in [Roles -> Template \cup {"own", None}]
      /\ state' \in [Permission -> State] /\ late' \in [Permission -> SUBSET Request]
      /\ exclusion' \in [Roles -> [out : SUBSET Permission, by : Request \cup {None}]]
  BY <1>1 DEF TypeOK
<1> QED BY <1>1, <1>2, <1>3, <1>4, EndKeeps

LEMMA FlushRoleKeeps ==
    ASSUME IInv, NEW r \in Request, FlushRole(r)
    PROVE  IInv'
<1>0. TypeOK /\ pc[r] = "deleted" /\ ~IsLifecycle(r) /\ Open(r) /\ Calls(r)
  BY DEF FlushRole, IInv, Open, Calls
<1>1. PICK gs : gs = {[role |-> Target(r), perm |-> p, by |-> r] : p \in wanted[r]}
  OBVIOUS
<1>2. CASE Enforced(wanted[r]) /\ added' = [added EXCEPT ![r] = gs]
           /\ pc' = [pc EXCEPT ![r] = "flushed"]
           /\ UNCHANGED <<rows, call, wanted, leaves, seen, removed, beside, late>>
  <2>1. Target(r) \in Roles /\ wanted[r] \subseteq Permission
    BY <1>0 DEF IInv, RequestShape, CallShape, TypeOK
  <2>2. gs \in SUBSET Cell /\ \A g \in gs : g.role = Target(r) /\ g.perm \in wanted[r] /\ g.by = r
    BY <1>1, <2>1 DEF Cell
  <2>3. /\ pc' \in [Request -> Location] /\ added' \in [Request -> SUBSET Cell]
        /\ seen' \in [Request -> SUBSET Cell] /\ removed' \in [Request -> SUBSET Cell]
        /\ pc'[r] = "flushed" /\ added'[r] = gs /\ Open(r)'
        /\ \A q \in Request \ {r} : /\ pc'[q] = pc[q] /\ seen'[q] = seen[q]
                                    /\ removed'[q] = removed[q] /\ added'[q] = added[q]
    BY <1>0, <1>2, <2>2 DEF TypeOK, Location, Open, Written
  <2>4. /\ Target(r)' = Target(r) /\ ~IsLifecycle(r)' /\ Grants' = Grants
        /\ UNCHANGED <<state, call, wanted, leaves, seen, removed, beside, late>>
    BY <1>0, <1>2 DEF Target, IsLifecycle, Grants, rows
  <2>5. AddedShape(r)'
    BY <2>2, <2>3, <2>4 DEF AddedShape, Turns, Flushed
  <2>6. AddedIsActive(r)'
    BY <1>2, <2>2, <2>3, <2>4 DEF AddedIsActive, Enforced, InState
  <2>7. RoleDelete(r)' /\ TriggerDelete(r)' /\ SeenIsOver(r)'
    BY <1>0, <2>3, <2>4 DEF IInv, RequestShape, RoleDelete, TriggerDelete, SeenIsOver, Turns,
                                          Calls
  <2>8. KeptShape(r)' /\ leaves' \in [Request -> SUBSET Permission]
    <3>1. KeptShape(r) /\ ~Flushed(r)
      BY <1>0 DEF IInv, RequestShape, Flushed
    <3>2. \A p \in wanted[r] : state[p] = "active"
      BY <1>2 DEF Enforced, InState
    <3>3. \A p \in wanted[r] \cap leaves[r] : \E q \in beside[r] : Unlocks(q, p)
      BY <1>0, <3>1, <3>2 DEF KeptShape, MadeIt, Unlocks
    <3>4. Flushed(r)'
      BY <2>3 DEF Flushed
    <3> QED BY <1>0, <2>4, <3>3, <3>4 DEF KeptShape, Unlocks, TypeOK
  <2> QED BY <1>0, <1>2, <2>3, <2>5, <2>6, <2>7, <2>8, LocalKeeps
<1>3. CASE Ends(r) /\ UNCHANGED <<rows, late>>
  BY <1>0, <1>3, RefusedKeeps
<1> QED BY <1>1, <1>2, <1>3 DEF FlushRole

LEMMA FlushLifecycleKeeps ==
    ASSUME IInv, NEW r \in Request, FlushLifecycle(r)
    PROVE  IInv'
<1>0. /\ TypeOK /\ pc[r] = "deleted" /\ IsLifecycle(r) /\ Open(r) /\ Turns(r)
      /\ UNCHANGED <<rows, call, wanted, leaves, removed, beside, late>>
      /\ UNCHANGED <<state, source, grant, exclusion>>
      /\ AddedShape(r) /\ SeenIsOver(r) /\ added[r] = {} /\ seen[r] = {} /\ call[r].on \in Permission
  BY DEF FlushLifecycle, IInv, Open, Turns, rows, RequestShape, AddedShape, SeenIsOver, CallShape,
            Flushed
<1>1. PICK l \in {"stripping", "flushed"}, gs \in SUBSET Cell, hs \in SUBSET Cell :
        /\ pc' = [pc EXCEPT ![r] = l]
        /\ added' = [added EXCEPT ![r] = gs]
        /\ seen' = [seen EXCEPT ![r] = hs]
        /\ gs # {} => Changes(r) /\ call[r].to = "active" /\ l = "flushed" /\ gs \subseteq AutoGrants(r)
        /\ Changes(r) /\ call[r].to # "active" => l = "stripping"
        /\ l = "stripping" => hs = Concerned(r)
        /\ l = "flushed" => hs = {}
  <2>1. Concerned(r) \in SUBSET Cell
    BY DEF Concerned, Grants
  <2>2. AutoGrants(r) \subseteq Cell
    BY <1>0, GrantsAssumption DEF AutoGrants, Cell, Roles
  <2>3. added = [added EXCEPT ![r] = {}] /\ seen = [seen EXCEPT ![r] = {}]
    BY <1>0 DEF TypeOK
  <2>4. CASE ~Changes(r)
    <3>1. pc' = [pc EXCEPT ![r] = "flushed"] /\ added' = [added EXCEPT ![r] = {}]
          /\ seen' = [seen EXCEPT ![r] = {}]
      BY <2>3, <2>4 DEF FlushLifecycle
    <3> QED BY <2>4, <3>1
  <2>5. CASE Changes(r) /\ call[r].to = "active"
    <3>1. PICK gs : gs = {g \in AutoGrants(r) : ~Collides(r, {g})}
      OBVIOUS
    <3>2. gs \in SUBSET Cell /\ gs \subseteq AutoGrants(r)
      BY <2>2, <3>1
    <3>3. pc' = [pc EXCEPT ![r] = "flushed"] /\ added' = [added EXCEPT ![r] = gs]
          /\ seen' = [seen EXCEPT ![r] = {}]
      BY <2>3, <2>5, <3>1 DEF FlushLifecycle
    <3> QED BY <2>5, <3>2, <3>3
  <2>6. CASE Changes(r) /\ call[r].to # "active"
    <3>1. pc' = [pc EXCEPT ![r] = "stripping"] /\ added' = [added EXCEPT ![r] = {}]
          /\ seen' = [seen EXCEPT ![r] = Concerned(r)]
      BY <2>3, <2>6 DEF FlushLifecycle
    <3> QED BY <2>1, <2>6, <3>1
  <2> QED BY <2>4, <2>5, <2>6
<1>2. /\ pc' \in [Request -> Location] /\ added' \in [Request -> SUBSET Cell]
      /\ seen' \in [Request -> SUBSET Cell] /\ removed' \in [Request -> SUBSET Cell]
      /\ pc'[r] = l /\ added'[r] = gs /\ seen'[r] = hs /\ Open(r)'
      /\ \A q \in Request \ {r} : /\ pc'[q] = pc[q] /\ seen'[q] = seen[q]
                                  /\ removed'[q] = removed[q] /\ added'[q] = added[q]
  BY <1>0, <1>1 DEF TypeOK, Location, Open, Written
<1>3. /\ Grants' = Grants /\ IsLifecycle(r)' /\ (Changes(r)' <=> Changes(r))
      /\ \A g \in AutoGrants(r) : g.role \in AutoInclude /\ g.perm = call[r].on /\ g.by = r
  BY <1>0 DEF Grants, IsLifecycle, Changes, AutoGrants
<1>4. AddedShape(r)' /\ AddedIsActive(r)' /\ SeenIsOver(r)' /\ RoleDelete(r)'
  BY <1>0, <1>1, <1>2, <1>3 DEF AddedShape, AddedIsActive, SeenIsOver, RoleDelete, Calls,
                                   Turns, Flushed
<1>5. TriggerDelete(r)'
  BY <1>0, <1>1, <1>2, <1>3 DEF TriggerDelete, Concerned, Turns
<1>6. KeptShape(r)' /\ leaves' \in [Request -> SUBSET Permission]
  BY <1>0, <1>3 DEF KeptShape, Calls, TypeOK
<1> QED BY <1>0, <1>1, <1>2, <1>4, <1>5, <1>6, LocalKeeps

-----------------------------------------------------------------------------
(* Noting what an edit leaves out: it only grows less.                      *)

LEMMA NotesKeep ==
    ASSUME IInv, NEW r \in Request, NoteTemplate(r) \/ NoteLocked(r)
    PROVE  IInv'
<1>1. PICK l \in {"noting", "noted"}, ls \in SUBSET leaves[r] :
        /\ pc' = [pc EXCEPT ![r] = l] /\ leaves' = [leaves EXCEPT ![r] = ls]
  <2>1. CASE NoteTemplate(r)
    <3>1. PICK ls : ls = leaves[r] \cap Granted(source[Target(r)])
      OBVIOUS
    <3>2. pc' = [pc EXCEPT ![r] = "noting"] /\ leaves' = [leaves EXCEPT ![r] = ls]
      BY <2>1, <3>1 DEF NoteTemplate, IInv, TypeOK
    <3> QED BY <3>1, <3>2
  <2>2. CASE NoteLocked(r)
    <3>1. PICK ls : ls = leaves[r] \ LockedKept(r)
      OBVIOUS
    <3>2. pc' = [pc EXCEPT ![r] = "noted"] /\ leaves' = [leaves EXCEPT ![r] = ls]
      BY <2>2, <3>1 DEF NoteLocked, IInv, TypeOK
    <3> QED BY <3>1, <3>2
  <2> QED BY <2>1, <2>2
<1>2. /\ TypeOK /\ Flushed(r) /\ ~IsLifecycle(r)
      /\ UNCHANGED <<rows, call, wanted, seen, removed, added, beside, late>>
      /\ UNCHANGED <<state, source, grant, exclusion>>
  BY DEF NoteTemplate, NoteLocked, IInv, Flushed, rows, RequestShape, CallShape
<1>3. /\ pc' \in [Request -> Location] /\ leaves' \in [Request -> SUBSET Permission]
      /\ pc'[r] = l /\ leaves'[r] = ls
      /\ \A q \in Request \ {r} : pc'[q] = pc[q] /\ leaves'[q] = leaves[q]
  BY <1>1, <1>2 DEF TypeOK, Location
<1>4. /\ Calls(r) /\ Calls(r)' /\ Open(r) /\ Open(r)' /\ ~Turns(r)' /\ Flushed(r)'
      /\ Target(r)' = Target(r) /\ Grants' = Grants /\ ~IsLifecycle(r)'
  BY <1>2, <1>3 DEF Calls, Open, Written, Turns, Flushed, IsLifecycle, Target, Grants
<1>5. /\ AddedShape(r) /\ AddedIsActive(r) /\ RoleDelete(r) /\ SeenIsOver(r) /\ KeptShape(r)
  BY DEF IInv, RequestShape
<1>6. AddedShape(r)' /\ AddedIsActive(r)' /\ TriggerDelete(r)'
  BY <1>2, <1>4, <1>5 DEF AddedShape, AddedIsActive, TriggerDelete
<1>7. RoleDelete(r)' /\ SeenIsOver(r)'
  BY <1>2, <1>3, <1>4, <1>5 DEF RoleDelete, SeenIsOver, Flushed
<1>8. KeptShape(r)'
  BY <1>1, <1>2, <1>3, <1>4, <1>5 DEF KeptShape, Unlocks
<1>9. /\ seen' \in [Request -> SUBSET Cell] /\ removed' \in [Request -> SUBSET Cell]
      /\ added' \in [Request -> SUBSET Cell]
      /\ \A q \in Request \ {r} : /\ seen'[q] = seen[q] /\ removed'[q] = removed[q]
                                  /\ added'[q] = added[q]
  BY <1>2 DEF TypeOK
<1> QED BY <1>1, <1>2, <1>3, <1>4, <1>6, <1>7, <1>8, <1>9, LocalKeeps

-----------------------------------------------------------------------------
(* Committing.                                                              *)

(* The grants after: those there were, but for what r removed and added.    *)
LEMMA GrantsAfterFacts ==
    ASSUME IInv, NEW r \in Request, Open(r), grant' = GrantsAfter(r)
    PROVE  /\ grant' \in [Roles -> [Permission -> Request \cup Role \cup {None}]]
           /\ \A x \in Roles, p \in Permission :
                \/ /\ grant'[x][p] = r
                   /\ \E g \in added[r] : g.role = x /\ g.perm = p
                \/ grant'[x][p] = None
                \/ /\ grant'[x][p] = grant[x][p] /\ grant[x][p] \in Request \cup Role
                   /\ \E h \in Grants : /\ h.role = x /\ h.perm = p /\ h.by = grant[x][p]
                                        /\ h \notin removed[r]
<1>0. TypeOK
  BY DEF IInv
<1>1. \A x \in Roles, p \in Permission :
        grant'[x][p] = IF \E g \in added[r] : g.role = x /\ g.perm = p THEN r
                       ELSE IF \E g \in removed[r] : g.role = x /\ g.perm = p THEN None
                       ELSE grant[x][p]
  BY DEF GrantsAfter
<1>2. \A x \in Roles, p \in Permission : grant[x][p] \in Request \cup Role \cup {None}
  BY <1>0 DEF TypeOK
<1>3. grant' \in [Roles -> [Permission -> Request \cup Role \cup {None}]]
  BY <1>2 DEF GrantsAfter
<1>4. ASSUME NEW x \in Roles, NEW p \in Permission
      PROVE  \/ /\ grant'[x][p] = r
                /\ \E g \in added[r] : g.role = x /\ g.perm = p
             \/ grant'[x][p] = None
             \/ /\ grant'[x][p] = grant[x][p] /\ grant[x][p] \in Request \cup Role
                /\ \E h \in Grants : /\ h.role = x /\ h.perm = p /\ h.by = grant[x][p]
                                     /\ h \notin removed[r]
  <2>1. CASE \E g \in added[r] : g.role = x /\ g.perm = p
    BY <1>1, <2>1
  <2>2. CASE /\ ~\E g \in added[r] : g.role = x /\ g.perm = p
             /\ ~\E g \in removed[r] : g.role = x /\ g.perm = p
             /\ grant[x][p] # None
    <3>1. grant'[x][p] = grant[x][p] /\ grant[x][p] \in Request \cup Role
      BY <1>1, <1>2, <2>2
    <3>2. PICK h \in Grants : h = [role |-> x, perm |-> p, by |-> grant[x][p]]
      BY <1>0, <2>2, GrantFacts
    <3>3. h.role = x /\ h.perm = p /\ h.by = grant[x][p] /\ h \notin removed[r]
      BY <2>2, <3>2
    <3> QED BY <3>1, <3>3
  <2>3. CASE /\ ~\E g \in added[r] : g.role = x /\ g.perm = p
             /\ \/ \E g \in removed[r] : g.role = x /\ g.perm = p
                \/ grant[x][p] = None
    BY <1>1, <2>3
  <2> QED BY <2>1, <2>2, <2>3
<1> QED BY <1>3, <1>4

LEMMA CommitRoleKeeps ==
    ASSUME IInv, NEW r \in Request, CommitRole(r)
    PROVE  IInv'
<1>0. /\ TypeOK /\ Open(r) /\ Calls(r) /\ Flushed(r) /\ ~IsLifecycle(r) /\ Ends(r)
      /\ grant' = GrantsAfter(r) /\ exclusion' = ExclusionsAfter(r) /\ UNCHANGED <<state, late>>
      /\ UNCHANGED <<call, beside>>
  BY DEF CommitRole, IInv, Open, Written, Flushed, Calls, Ends
<1>1. /\ CallShape(r) /\ AddedShape(r) /\ AddedIsActive(r) /\ RoleDelete(r) /\ SeenIsOver(r)
      /\ KeptShape(r) /\ Target(r) \in Roles
  BY <1>0 DEF IInv, RequestShape, CallShape
<1>2. PICK x : x = Target(r) /\ x \in Roles
  BY <1>1
<1>3. /\ grant' \in [Roles -> [Permission -> Request \cup Role \cup {None}]]
      /\ \A y \in Roles, p \in Permission :
           grant'[y][p] = grant[y][p] \/ grant'[y][p] \in {None, r}
  BY <1>0, GrantsAfterFacts
<1>4. source[r] = None /\ source' \in [Roles -> Template \cup {"own", None}]
      /\ \A y \in Roles \ {r} : source'[y] = source[y]
  <2>1. source[r] = None
    BY <1>0 DEF IInv, NotYet, Flushed
  <2>2. PICK v \in Template \cup {"own", None} : source' = [source EXCEPT ![r] = v]
    <3>1. CASE call[r].op = "derive"
      BY <1>0, <1>1, <3>1 DEF CommitRole, CallShape
    <3>2. CASE call[r].op = "create"
      BY <3>2 DEF CommitRole
    <3>3. CASE call[r].op \notin {"derive", "create"}
      <4>1. source' = source
        BY <3>3 DEF CommitRole
      <4>2. source' = [source EXCEPT ![r] = None]
        BY <1>0, <2>1, <4>1 DEF TypeOK
      <4> QED BY <4>2
    <3> QED BY <3>1, <3>2, <3>3
  <2> QED BY <1>0, <2>1, <2>2, Names DEF TypeOK
(* What the exclusions become, by what was asked.                           *)
<1>5. PICK e \in [out : SUBSET Permission, by : Request \cup {None}] :
        /\ exclusion' = [exclusion EXCEPT ![x] = e]
        /\ \/ /\ call[r].op = "edit" /\ source[x] \in Template /\ e.by = r
              /\ e.out = leaves[r]
           \/ call[r].op = "sync" /\ e.out = {}
           \/ e = exclusion[x] /\ ~(call[r].op = "edit" /\ source[x] \in Template) /\ call[r].op # "sync"
  <2>1. CASE call[r].op = "edit" /\ source[x] \in Template
    <3>1. PICK out : out = leaves[r]
      OBVIOUS
    <3>2. out \in SUBSET Permission
      BY <1>0, <3>1 DEF TypeOK
    <3>3. exclusion' = [exclusion EXCEPT ![x] = [out |-> out, by |-> r]]
      BY <1>0, <1>2, <2>1, <3>1 DEF ExclusionsAfter, Notes, FromTemplate
    <3>4. PICK e : e = [out |-> out, by |-> r]
      OBVIOUS
    <3>5. e \in [out : SUBSET Permission, by : Request \cup {None}] /\ e.out = out /\ e.by = r
      BY <3>2, <3>4
    <3> QED BY <2>1, <3>1, <3>3, <3>4, <3>5
  <2>2. CASE call[r].op = "sync"
    <3>1. PICK e : e = [out |-> {}, by |-> r]
      OBVIOUS
    <3>2. exclusion' = [exclusion EXCEPT ![x] = e]
      BY <1>0, <1>2, <2>2, <3>1 DEF ExclusionsAfter, Notes, FromTemplate
    <3>3. e \in [out : SUBSET Permission, by : Request \cup {None}] /\ e.out = {}
      BY <3>1
    <3> QED BY <2>2, <3>2, <3>3
  <2>3. CASE ~(call[r].op = "edit" /\ source[x] \in Template) /\ call[r].op # "sync"
    <3>1. exclusion' = exclusion
      BY <1>0, <1>2, <2>3 DEF ExclusionsAfter, Notes, FromTemplate
    <3>2. exclusion' = [exclusion EXCEPT ![x] = exclusion[x]]
      BY <1>0, <3>1 DEF TypeOK
    <3>3. exclusion[x] \in [out : SUBSET Permission, by : Request \cup {None}]
      BY <1>0, <1>2 DEF TypeOK
    <3> QED BY <2>3, <3>2, <3>3
  <2> QED BY <2>1, <2>2, <2>3
<1>6. /\ exclusion' \in [Roles -> [out : SUBSET Permission, by : Request \cup {None}]]
      /\ exclusion'[x] = e /\ \A y \in Roles \ {x} : exclusion'[y] = exclusion[y]
  BY <1>0, <1>2, <1>5 DEF TypeOK
(* Who keeps its exclusions has none, unless it came from a template and is *)
(* not the one that r writes.                                               *)
<1>7. ~(call[r].op = "edit" /\ source[x] \in Template) => e.out = {}
  <2>1. CASE call[r].op = "sync"
    BY <1>5, <2>1
  <2>2. CASE call[r].op # "sync" /\ ~(call[r].op = "edit" /\ source[x] \in Template)
    <3>1. x \in Template \/ source[x] \notin Template
      BY <1>0, <1>1, <1>2, <1>4, <2>2, Names DEF CallShape, Target
    <3>2. exclusion[x].out = {}
      BY <1>2, <3>1 DEF IInv, ExclusionShape
    <3> QED BY <1>5, <2>2, <3>2
  <2> QED BY <2>1, <2>2
<1>8. ExclusionShape'
  <2> SUFFICES ASSUME NEW y \in Roles, exclusion'[y].out # {}
               PROVE  y \notin Template \cup AutoInclude /\ source'[y] \in Template
    BY DEF ExclusionShape
  <2>1. y \notin Template \cup AutoInclude /\ source[y] \in Template
    <3>1. CASE y = x
      <4>1. call[r].op = "edit" /\ source[x] \in Template /\ x = call[r].on
        BY <1>2, <1>6, <1>7, <3>1 DEF Target
      <4> QED BY <1>0, <1>1, <3>1, <4>1 DEF CallShape
    <3>2. CASE y # x
      BY <1>6, <3>2 DEF IInv, ExclusionShape
    <3> QED BY <3>1, <3>2
  <2>2. y # r
    BY <1>4, <2>1, Names
  <2> QED BY <1>4, <2>1, <2>2
<1>9. ExcludedIsNotGranted'
  <2> SUFFICES ASSUME NEW y \in Roles, NEW p \in exclusion'[y].out, grant'[y][p] # None
               PROVE  /\ grant'[y][p] \in Request
                      /\ \/ exclusion'[y].by \in beside[grant'[y][p]]
                         \/ /\ exclusion'[y].by = grant'[y][p]
                            /\ \E q \in beside[grant'[y][p]] : Unlocks(q, p)
    BY <1>0 DEF ExcludedIsNotGranted, Unlocks
  <2>1. p \in Permission
    BY <1>6
  <2>2. CASE y # x
    <3>1. \A g \in added[r] : g.role # y
      BY <1>0, <1>1, <1>2, <2>2 DEF AddedShape
    <3>2. grant'[y][p] = grant[y][p]
      BY <1>0, <2>1, <2>2, <3>1, GrantsAfterFacts
    <3> QED BY <1>6, <2>2, <3>2 DEF IInv, ExcludedIsNotGranted
  <2>3. CASE y = x
    <3>1. call[r].op = "edit" /\ exclusion'[y].by = r /\ p \in leaves[r]
      BY <1>5, <1>6, <1>7, <2>3
    <3>2. CASE grant'[x][p] = r /\ \E g \in added[r] : g.perm = p
      <4>1. p \in wanted[r]
        BY <1>0, <1>1, <3>2 DEF AddedShape
      <4>2. \E q \in beside[r] : Unlocks(q, p)
        BY <1>0, <1>1, <3>1, <4>1 DEF KeptShape
      <4> QED BY <2>3, <3>1, <3>2, <4>2
    <3>3. CASE \E h \in Grants : /\ h.role = x /\ h.by = grant[x][p] /\ h \notin removed[r]
                                 /\ grant'[x][p] = grant[x][p]
      <4>1. PICK h \in Grants : /\ h.role = x /\ h.by = grant[x][p] /\ h \notin removed[r]
                                /\ grant'[x][p] = grant[x][p]
        BY <3>3
      <4>2. seen[r] = {}
        BY <1>0, <1>1 DEF SeenIsOver, Flushed
      <4>3. h.by \in Request /\ r \in beside[h.by]
        BY <1>0, <1>1, <1>2, <4>1, <4>2 DEF RoleDelete
      <4> QED BY <2>3, <3>1, <4>1, <4>3
    <3> QED BY <1>0, <1>2, <2>1, <2>3, <3>2, <3>3, GrantsAfterFacts
  <2> QED BY <2>2, <2>3
<1>10. LeftoverGrants'
  <2> SUFFICES ASSUME NEW y \in Roles, NEW p \in Permission, state[p] # "active", grant'[y][p] # None
               PROVE  grant'[y][p] \in late[p]
    BY <1>0 DEF LeftoverGrants
  <2>1. CASE grant'[y][p] = grant[y][p]
    BY <2>1 DEF IInv, LeftoverGrants
  <2>2. CASE grant'[y][p] # grant[y][p]
    <3>1. PICK g \in added[r] : g.perm = p /\ grant'[y][p] = r
      BY <1>0, <2>2, GrantsAfterFacts
    <3> QED BY <1>0, <1>1, <3>1 DEF AddedIsActive
  <2> QED BY <2>1, <2>2
<1>11. ASSUME NEW q \in Request \ {r} PROVE AddedIsActive(q)' /\ KeptShape(q)'
  <2>1. /\ AddedIsActive(q) /\ added'[q] = added[q] /\ pc'[q] = pc[q]
        /\ wanted'[q] = wanted[q] /\ leaves'[q] = leaves[q]
    BY <1>0 DEF IInv, RequestShape, Ends, TypeOK
  <2>2. AddedIsActive(q)'
    BY <1>0, <2>1 DEF AddedIsActive, Calls, Open, Written, IsLifecycle
  <2>3. KeptShape(q)'
    BY <1>0, <2>1, KeptStays
  <2> QED BY <2>2, <2>3
<1>12. state' \in [Permission -> State] /\ late' \in [Permission -> SUBSET Request]
  BY <1>0 DEF TypeOK
<1> QED BY <1>0, <1>3, <1>4, <1>6, <1>8, <1>9, <1>10, <1>11, <1>12, EndKeeps

LEMMA CommitLifecycleKeeps ==
    ASSUME IInv, NEW r \in Request, CommitLifecycle(r)
    PROVE  IInv'
<1>0. /\ TypeOK /\ Open(r) /\ Turns(r) /\ pc[r] = "flushed" /\ IsLifecycle(r) /\ Ends(r)
      /\ grant' = GrantsAfter(r) /\ UNCHANGED <<source, exclusion, call, beside>>
  BY DEF CommitLifecycle, IInv, Open, Written, Turns, Ends
<1>1. /\ CallShape(r) /\ AddedShape(r) /\ TriggerDelete(r) /\ SeenIsOver(r)
      /\ call[r].on \in Permission /\ call[r].to \in State
  BY <1>0 DEF IInv, RequestShape, CallShape
<1>2. PICK p \in Permission : p = call[r].on
  BY <1>1
<1>3. /\ grant' \in [Roles -> [Permission -> Request \cup Role \cup {None}]]
      /\ \A y \in Roles, c \in Permission :
           grant'[y][c] = grant[y][c] \/ grant'[y][c] \in {None, r}
  BY <1>0, GrantsAfterFacts
<1>4. /\ state' \in [Permission -> State]
      /\ state'[p] = IF Changes(r) THEN call[r].to ELSE state[p]
      /\ \A c \in Permission \ {p} : state'[c] = state[c]
  BY <1>0, <1>1, <1>2 DEF CommitLifecycle, TypeOK
<1>5. PICK ls \in SUBSET Request :
        /\ late' = [late EXCEPT ![p] = ls]
        /\ state[p] = "active" /\ state'[p] # "active" =>
             /\ \A q \in beside[r] : (\E g \in added[q] : g.perm = p) => q \in ls
             /\ \A y \in Roles : \A q \in beside[r] : grant'[y][p] = q => q \in ls
        /\ ~(state[p] = "active" /\ state'[p] # "active") => ls = late[p]
  <2>1. CASE state[p] = "active" /\ state'[p] # "active"
    <3>1. PICK ls : ls = {q \in beside[r] : \/ \E g \in added[q] : g.perm = p
                                            \/ \E y \in Roles : GrantsAfter(r)[y][p] = q}
      OBVIOUS
    <3>2. late' = [late EXCEPT ![p] = ls]
      BY <1>2, <2>1, <3>1 DEF CommitLifecycle
    <3>3. ls \in SUBSET Request
      BY <1>0, <3>1 DEF TypeOK
    <3> QED BY <1>0, <2>1, <3>1, <3>2, <3>3
  <2>2. CASE ~(state[p] = "active" /\ state'[p] # "active")
    <3>1. late' = late
      BY <1>2, <2>2 DEF CommitLifecycle
    <3>2. late' = [late EXCEPT ![p] = late[p]] /\ late[p] \in SUBSET Request
      BY <1>0, <3>1 DEF TypeOK
    <3> QED BY <2>2, <3>2
  <2> QED BY <2>1, <2>2
<1>6. /\ late' \in [Permission -> SUBSET Request] /\ late'[p] = ls
      /\ \A c \in Permission \ {p} : late'[c] = late[c]
  BY <1>0, <1>5 DEF TypeOK
<1>7. ExclusionShape'
  BY <1>0 DEF IInv, ExclusionShape
<1>8. ExcludedIsNotGranted'
  <2> SUFFICES ASSUME NEW y \in Roles, NEW c \in exclusion[y].out, grant'[y][c] # None
               PROVE  /\ grant'[y][c] \in Request
                      /\ \/ exclusion[y].by \in beside[grant'[y][c]]
                         \/ /\ exclusion[y].by = grant'[y][c]
                            /\ \E q \in beside[grant'[y][c]] : Unlocks(q, c)
    BY <1>0 DEF ExcludedIsNotGranted, Unlocks
  <2>1. c \in Permission /\ y \notin AutoInclude
    BY <1>0 DEF TypeOK, IInv, ExclusionShape
  <2>2. \A g \in added[r] : g.role # y
    BY <1>0, <1>1, <2>1 DEF AddedShape
  <2>3. grant'[y][c] = grant[y][c]
    BY <1>0, <2>1, <2>2, GrantsAfterFacts
  <2> QED BY <2>3 DEF IInv, ExcludedIsNotGranted
<1>9. LeftoverGrants'
  <2> SUFFICES ASSUME NEW y \in Roles, NEW c \in Permission, state'[c] # "active", grant'[y][c] # None
               PROVE  grant'[y][c] \in late'[c]
    BY DEF LeftoverGrants
  <2>1. ~\E g \in added[r] : g.perm = c
    <3>1. \A g \in added[r] : g.perm = p /\ Changes(r) /\ call[r].to = "active"
      BY <1>0, <1>1, <1>2 DEF AddedShape
    <3> QED BY <1>4, <3>1
  <2>2. PICK h \in Grants : /\ h.role = y /\ h.perm = c /\ h.by = grant[y][c] /\ h \notin removed[r]
                            /\ grant'[y][c] = grant[y][c]
    BY <1>0, <2>1, GrantsAfterFacts
  <2>3. state[c] # "active" => grant[y][c] \in late[c]
    BY <2>2 DEF IInv, LeftoverGrants
  <2>4. CASE c # p
    BY <1>4, <1>6, <2>2, <2>3, <2>4
  <2>5. CASE c = p /\ state[p] # "active"
    BY <1>5, <1>6, <2>2, <2>3, <2>5
  <2>6. CASE c = p /\ state[p] = "active"
    <3>1. Changes(r) /\ call[r].to # "active"
      BY <1>4, <2>6
    <3>2. h.by \in beside[r]
      BY <1>0, <1>1, <1>2, <2>2, <2>6, <3>1 DEF TriggerDelete, SeenIsOver
    <3> QED BY <1>5, <1>6, <2>2, <2>6, <3>2
  <2> QED BY <2>4, <2>5, <2>6
<1>10. ASSUME NEW q \in Request \ {r} PROVE AddedIsActive(q)'
  <2>1. AddedIsActive(q) /\ added'[q] = added[q] /\ pc'[q] = pc[q]
    BY <1>0 DEF IInv, RequestShape, Ends, TypeOK
  <2>2. Open(q) => q \in beside[r]
    BY <1>0 DEF IInv, BesideEachOther
  <2>3. SUFFICES ASSUME Calls(q), NEW g \in added[q]
                 PROVE  state'[g.perm] = "active" \/ q \in late'[g.perm]
    BY <1>0, <2>1 DEF AddedIsActive, Calls, Open, Written, IsLifecycle
  <2>4. g.perm \in Permission /\ (state[g.perm] = "active" \/ q \in late[g.perm])
    BY <1>0, <2>1, <2>3 DEF AddedIsActive, TypeOK, Cell
  <2>5. CASE g.perm # p
    BY <1>4, <1>6, <2>4, <2>5
  <2>6. CASE g.perm = p
    BY <1>5, <1>6, <2>2, <2>3, <2>4, <2>6 DEF Calls
  <2> QED BY <2>5, <2>6
<1>11. ASSUME NEW q \in Request \ {r} PROVE KeptShape(q)'
  <2>1. pc'[q] = pc[q] /\ wanted'[q] = wanted[q] /\ leaves'[q] = leaves[q]
    BY <1>0 DEF Ends, TypeOK
  <2>2. Calls(q) => r \in beside[q]
    BY <1>0 DEF IInv, BesideEachOther, Calls
  <2>3. \A c \in Permission : state'[c] = state[c] \/ MadeIt(r, c, state'[c])
    BY <1>0, <1>2, <1>4 DEF MadeIt, IsLifecycle
  <2> QED BY <1>0, <2>1, <2>2, <2>3, KeptStays
<1>12. /\ source' \in [Roles -> Template \cup {"own", None}]
       /\ exclusion' \in [Roles -> [out : SUBSET Permission, by : Request \cup {None}]]
       /\ \A y \in Roles \ {r} : source'[y] = source[y]
  BY <1>0 DEF TypeOK
<1> QED BY <1>0, <1>3, <1>4, <1>6, <1>7, <1>8, <1>9, <1>10, <1>11, <1>12, EndKeeps

-----------------------------------------------------------------------------
LEMMA InitIInv == Init => IInv
<1> SUFFICES ASSUME Init PROVE IInv
  OBVIOUS
<1>1. TypeOK
  BY GrantsAssumption DEF Init, TypeOK, State, Roles
<1>2. /\ \A r \in Request : /\ pc[r] = "idle" /\ added[r] = {} /\ seen[r] = {} /\ ~Open(r)
                            /\ source[r] = None
      /\ \A p \in Permission : state[p] = "active"
      /\ \A x \in Roles : exclusion[x].out = {}
  <2>1. ASSUME NEW r \in Request
        PROVE  /\ pc[r] = "idle" /\ added[r] = {} /\ seen[r] = {} /\ ~Open(r)
               /\ source[r] = None
    <3>1. r \notin Role /\ r \notin Derived /\ r \in Roles
      BY Names, GrantsAssumption
    <3> QED BY <3>1 DEF Init, Open, Written
  <2>2. \A x \in Roles : exclusion[x].out = {}
    BY DEF Init
  <2> QED BY <2>1, <2>2 DEF Init
<1>3. \A g \in Grants : g.by \notin Request
  <2> SUFFICES ASSUME NEW g \in Grants PROVE g.by \notin Request
    OBVIOUS
  <2>1. g \in Cell /\ grant[g.role][g.perm] = g.by /\ g.by # None
    BY <1>1, GrantFacts
  <2>2. grant[g.role][g.perm] = IF g.role \in Role THEN g.role ELSE None
    BY <2>1 DEF Init, Cell
  <2> QED BY <2>1, <2>2, Names
<1>4. CallsAreKept /\ NotYet /\ GrantedByDone /\ BesideEachOther /\ BesideHasBegun
      /\ IdleLeavesNothing
  <2>1. CallsAreKept
    BY DEF Init, CallsAreKept
  <2>2. BesideHasBegun /\ IdleLeavesNothing
    BY DEF Init, BesideHasBegun, IdleLeavesNothing
  <2> QED BY <1>2, <1>3, <2>1, <2>2 DEF NotYet, GrantedByDone, BesideEachOther
<1>5. RequestShape
  BY <1>2 DEF RequestShape, CallShape, AddedShape, AddedIsActive, RoleDelete, TriggerDelete,
              SeenIsOver, KeptShape, Calls, Turns, Flushed
<1>6. ExclusionShape /\ LeftoverGrants /\ ExcludedIsNotGranted
  BY <1>2 DEF ExclusionShape, LeftoverGrants, ExcludedIsNotGranted
<1> QED BY <1>1, <1>4, <1>5, <1>6 DEF IInv

LEMMA NextKeeps == IInv /\ [Next]_vars => IInv'
<1> SUFFICES ASSUME IInv, [Next]_vars PROVE IInv'
  OBVIOUS
<1>1. CASE UNCHANGED vars
  <2>1. UNCHANGED <<state, source, grant, exclusion, pc, call, wanted, leaves, seen, removed,
                    added, beside, late>>
    BY <1>1 DEF vars, rows, request
  <2>2. RequestShape'
    BY <2>1, ShapeStays DEF RequestShape
  <2>3. /\ NotYet' /\ GrantedByDone' /\ BesideEachOther' /\ BesideHasBegun' /\ IdleLeavesNothing'
        /\ TypeOK' /\ CallsAreKept'
    BY <2>1 DEF IInv, TypeOK, CallsAreKept, NotYet, GrantedByDone, BesideEachOther,
                BesideHasBegun, IdleLeavesNothing, Grants, Open, Written
  <2> QED BY <2>1, <2>2, <2>3 DEF IInv, ExclusionShape, LeftoverGrants, ExcludedIsNotGranted,
                                  Unlocks
<1>2. ASSUME NEW r \in Request,
             \/ \E x \in Roles :
                  \/ DeriveTemplate(r, x)
                  \/ SyncTemplate(r, x)
                  \/ \E ps \in SUBSET Permission : \/ UpdateTemplate(r, x, ps)
                                                   \/ UpdateOrganizationRolePermissions(r, x, ps)
             \/ \E ps \in SUBSET Permission : CreateOrganizationRole(r, ps)
      PROVE  IInv'
  BY <1>2, BeginsKeep
<1>3. ASSUME NEW r \in Request, NEW p \in Permission, NEW to \in State,
             UpdatePermissionLifecycle(r, p, to)
      PROVE  IInv'
  BY <1>3, UpdatePermissionLifecycleKeeps
<1>4. ASSUME NEW r \in Request,
             \/ StartDelete(r) \/ FinishDelete(r) \/ FlushRole(r) \/ FlushLifecycle(r)
             \/ NoteTemplate(r) \/ NoteLocked(r) \/ CommitRole(r) \/ CommitLifecycle(r)
      PROVE  IInv'
  BY <1>4, StartDeleteKeeps, FinishDeleteKeeps, FlushRoleKeeps, FlushLifecycleKeeps,
     NotesKeep, CommitRoleKeeps, CommitLifecycleKeeps
<1>5. CASE Next
  BY <1>2, <1>3, <1>4, <1>5 DEF Next
<1> QED BY <1>1, <1>5

LEMMA Invariance == Spec => []IInv
BY InitIInv, NextKeeps, PTL DEF Spec

-----------------------------------------------------------------------------
(* The theorems.                                                            *)

(* Every variable keeps its type.                                           *)
THEOREM TypeCorrect == Spec => []TypeOK
<1>1. IInv => TypeOK
  BY DEF IInv
<1> QED BY <1>1, Invariance, PTL

(* A permission that is not active is granted only by a request that was    *)
(* under way when it ceased to be and had by then inserted the grant: the   *)
(* two triggers leave this one gap, whatever roles, templates and changes   *)
(* of lifecycle are written at once.                                        *)
THEOREM LeftoversAreLate == Spec => []LeftoverGrants
<1>1. IInv => LeftoverGrants
  BY DEF IInv
<1> QED BY <1>1, Invariance, PTL

(* A role grants what it is noted to exclude only by the hand of a request  *)
(* that was under way beside the one which noted the exclusion, or of that  *)
(* one itself: an edit reads what is locked twice, and grants and excludes  *)
(* what a request beside it unlocks in between.                             *)
THEOREM ExclusionsHold == Spec => []ExcludedIsNotGranted
<1>1. IInv => ExcludedIsNotGranted
  BY DEF IInv
<1> QED BY <1>1, Invariance, PTL
=============================================================================
