----------------------------- MODULE UserAccounts -----------------------------
(***************************************************************************)
(* Everything that writes identity_users: signup and activation, password  *)
(* recovery and change, and the administration of users and of their role  *)
(* assignments, with the tokens that activation and recovery spend.        *)
(*                                                                         *)
(* A request is one PostgreSQL transaction at READ COMMITTED.  It reads    *)
(* (and, to redeem a token, first consumes it), works on what it has read, *)
(* flushes - which waits for row locks and runs the triggers - and commits. *)
(* Others commit in between.  A refused request changes nothing: it is left *)
(* out when it is refused at once, and ends without a commit otherwise.    *)
(* Whether the caller may ask is not modelled: every request is allowed.   *)
(* Time passes freely between requests, so the resend cooldown has always  *)
(* passed, and a token may expire whenever nobody is redeeming it.         *)
(***************************************************************************)
EXTENDS Naturals, FiniteSets

CONSTANTS
    Request,
    User,        \* accounts by their email, existing or not
    Founder,     \* users that are super admins at the start
    Member,      \* users with a role in Home at the start
    Home,        \* an active organisation; a signup r founds organisation r
    Role,        \* assignable roles of Home ...
    AdminRole,   \* ... and the protected global one that a signup assigns
    FirstRole,   \* what members have at the start
    Change,      \* what an administrator may ask of update_user
    None

Org   == Request \cup {Home}
Roles == Role \cup {AdminRole}

UserRow == [status : {"active", "inactive"}, password : Request \cup User \cup {None},
            super : BOOLEAN, org : Org \cup {None}, deleted : Request \cup {None}]

TokenRow == [user : User, purpose : {"activate", "reset"},
             state : {"open", "consumed", "invalidated", "expired"}]

(* by is the request that granted it last, None in the first state.         *)
AssignmentRow == [user : User, org : Org, role : Roles, active : BOOLEAN, at : Nat,
                  by : Request \cup {None}]

(* What a plan grants: a new assignment, or an old one again.               *)
Grant == [user : User, org : Org, role : Roles]
         \cup [again : Request \cup User, revived : BOOLEAN]

ASSUME AccountsAssumption ==
    /\ Founder \subseteq User /\ Member \subseteq User \ Founder
    /\ Founder # {} /\ FirstRole \in Roles
    /\ Home \notin Request \cup User /\ Request \cap User = {}
    /\ None \notin Request \cup User \cup Roles \cup {Home}
    /\ None \notin UserRow \cup TokenRow \cup AssignmentRow \cup Grant
    /\ Change \subseteq [super : BOOLEAN \cup {None},
                         status : {"active", "inactive", None},
                         password : BOOLEAN,
                         role : Roles \cup {None}]

VARIABLES
    user,        \* committed identity_users
    org,         \* status of organisations
    retired,     \* retired[p]: the request that deleted role p
    assignment,  \* committed identity_user_roles, by the request that inserted
                 \* them, or by their member
    token,       \* committed action tokens, by the request that issued them
    pc, call,    \* where each request is, and what it was asked to do
    entity,      \* entity[r]: the user as r read it, with r's changes
    patch,       \* patch[r]: the columns r is about to set
    plan,        \* plan[r]: the assignments r revokes and the one it grants
    held,        \* held[r]: tokens that r has consumed or invalidated
    clock,       \* counts the stamps of assignments
    \* What the properties remember.
    beside,      \* beside[r]: requests that were under way beside r
    acts         \* acts[t]: committed requests that redeemed t

request == <<pc, call, entity, patch, plan, held>>
rows    == <<user, org, retired, assignment, token>>
vars    == <<rows, request, clock, beside, acts>>

NoPlan == [revokes |-> {}, grants |-> None, at |-> 0]

-----------------------------------------------------------------------------
(* Users                                                                    *)

Column == {"status", "password", "super", "org", "deleted"}

Alive(v) == v # None /\ v.deleted = None
(* is_super_admin, active and not deleted: what the trigger protects.       *)
ActiveSuper(v) == Alive(v) /\ v.super /\ v.status = "active"
(* _eligible_user of the password recovery.                                 *)
Eligible(v) ==
    /\ Alive(v) /\ v.status = "active" /\ v.password # None
    /\ IF v.org = None THEN v.super ELSE org[v.org] = "active"
(* What an activation asks of the user and of the organisation.             *)
Activatable(v) ==
    /\ Alive(v) /\ v.status = "inactive" /\ v.password = None
    /\ ~v.super /\ v.org # None /\ org[v.org] = "pending"
(* What a change of password asks of the user.                              *)
Changeable(v) == Alive(v) /\ v.status = "active" /\ v.password # None

Patched(v, p) == [c \in Column |-> IF c \in DOMAIN p THEN p[c] ELSE v[c]]
Differing(v, w) == [c \in {d \in Column : v[d] # w[d]} |-> v[c]]

Open(r) == pc[r] \in {"consumed", "read", "ready", "flushed"}

-----------------------------------------------------------------------------
(* Assignments and roles                                                    *)

Ids        == {i \in DOMAIN assignment : assignment[i] # None}
Active(u)  == {i \in Ids : assignment[i].user = u /\ assignment[i].active}
(* A global role is available everywhere, the others in Home.               *)
Available(p, o) == retired[p] = None /\ (p = AdminRole \/ o = Home)

Plan(ids, grant) == [revokes |-> ids, grants |-> grant, at |-> clock]

(* Mutant of Assigned: nothing is revoked.                                  *)
AssignedBeside(u, o, p) ==
    {Plan({}, [user |-> u, org |-> o, role |-> p])}
(* _assign_role: the assignments that are active are revoked in turn until  *)
(* one is found that already says the same; they come in no order.          *)
Assigned(u, o, p) ==
    LET same == {i \in Active(u) : assignment[i].org = o /\ assignment[i].role = p}
        others == Active(u) \ same
    IN  IF same = {} THEN {Plan(others, [user |-> u, org |-> o, role |-> p])}
        ELSE {Plan(s, None) : s \in SUBSET others}

(* _latest_restorable_assignment, or None.                                  *)
Restorable(u, o) ==
    {i \in Ids : assignment[i].user = u /\ assignment[i].org = o
                 /\ Available(assignment[i].role, o)}
Latest(ids) == CHOOSE i \in ids : \A j \in ids : assignment[j].at <= assignment[i].at

-----------------------------------------------------------------------------
Init ==
    /\ user = [u \in User |->
         IF u \in Founder \cup Member
         THEN [status |-> "active", password |-> u, super |-> u \in Founder,
               org |-> IF u \in Founder THEN None ELSE Home, deleted |-> None]
         ELSE None]
    /\ org = [o \in Org |-> IF o = Home THEN "active" ELSE None]
    /\ retired = [p \in Roles |-> None]
    /\ assignment = [i \in Request \cup User |->
         IF i \in Member
         THEN [user |-> i, org |-> Home, role |-> FirstRole, active |-> TRUE,
               at |-> 0, by |-> None]
         ELSE None]
    /\ token = [t \in Request |-> None]
    /\ pc = [r \in Request |-> "idle"]
    /\ call = [r \in Request |-> None]
    /\ entity = [r \in Request |-> None]
    /\ patch = [r \in Request |-> None]
    /\ plan = [r \in Request |-> NoPlan]
    /\ held = [r \in Request |-> {}]
    /\ clock = 1
    /\ beside = [r \in Request |-> {}]
    /\ acts = [t \in Request |-> 0]

-----------------------------------------------------------------------------
(* Reading                                                                  *)

Begins(r, op, u, l) ==
    /\ pc[r] = "idle"
    /\ pc' = [pc EXCEPT ![r] = l]
    /\ call' = [call EXCEPT ![r] = [op |-> op, user |-> u]]
    /\ beside' = [q \in Request |->
         IF q = r THEN {x \in Request : Open(x)}
         ELSE IF Open(q) THEN beside[q] \cup {r} ELSE beside[q]]
    /\ UNCHANGED <<rows, acts>>

(* A route that holds the row it has read: its columns are compared with    *)
(* what was read.                                                           *)
Holds(r, p, a) ==
    /\ patch' = [patch EXCEPT ![r] = p]
    /\ plan' = [plan EXCEPT ![r] = a]
    /\ UNCHANGED <<entity, held>>

UpdateUser(r, u, o) ==
    /\ Begins(r, "update", u, "ready")
    /\ Alive(user[u]) /\ org[o] # None
    /\ ~user[u].super => user[u].org = o
    /\ \E c \in Change :
         LET v == user[u]
             super == IF c.super = None THEN v.super ELSE c.super
             w == [v EXCEPT !.super = super,
                            !.status = IF c.status = None THEN @ ELSE c.status,
                            !.password = IF c.password THEN r ELSE @,
                            !.org = IF ~super \/ @ = None THEN o ELSE @]
         IN  /\ (v.super /\ ~super) => c.role # None
             /\ IF super \/ c.role = None THEN Holds(r, Differing(w, v), NoPlan)
                ELSE /\ Available(c.role, o)
                     /\ \E a \in Assigned(u, o, c.role) : Holds(r, Differing(w, v), a)
    /\ clock' = clock + 1

DeleteUser(r, u, o) ==
    /\ Begins(r, "delete", u, "ready")
    /\ Alive(user[u]) /\ org[o] # None
    /\ ~user[u].super => user[u].org = o
    /\ Holds(r, Differing([user[u] EXCEPT !.deleted = r, !.status = "inactive"], user[u]),
             Plan(Active(u), None))
    /\ UNCHANGED clock

(* The chosen assignment is granted again as it stands.                     *)
RestoreDeletedUser(r, u, o) ==
    /\ Begins(r, "restore", u, "ready")
    /\ user[u] # None /\ ~Alive(user[u]) /\ ~user[u].super /\ user[u].org = o
    /\ Restorable(u, o) # {}
    /\ LET i == Latest(Restorable(u, o)) IN
       Holds(r, Differing([user[u] EXCEPT !.deleted = None, !.status = "active"], user[u]),
             Plan(Active(u) \ {i}, [again |-> i, revived |-> ~assignment[i].active]))
    /\ clock' = clock + 1

CreateUser(r, u, o) ==
    /\ Begins(r, "create", u, "ready")
    /\ user[u] = None /\ org[o] # None
    /\ \E status \in {"active", "inactive"} :
         LET new(s) == [status |-> status, password |-> r, super |-> s, org |-> o,
                        deleted |-> None]
         IN  \/ Holds(r, new(TRUE), NoPlan)
             \/ \E p \in Roles :
                  /\ Available(p, o)
                  /\ Holds(r, new(FALSE), Plan({}, [user |-> u, org |-> o, role |-> p]))
    /\ clock' = clock + 1

(* A pending organisation, its first user and an activation token.  When    *)
(* the mail cannot be queued the signup fails.                              *)
PublicSignup(r, u) ==
    /\ Begins(r, "signup", u, "ready")
    /\ ~Alive(user[u]) /\ retired[AdminRole] = None
    /\ Holds(r, [status |-> "inactive", password |-> None, super |-> FALSE,
                 org |-> r, deleted |-> None],
             Plan({}, [user |-> u, org |-> r, role |-> AdminRole]))
    /\ clock' = clock + 1

(* Mutant of InUse: assignments are not counted.                            *)
NeverInUse(p) == FALSE
InUse(p) == \E i \in Ids : assignment[i].role = p /\ assignment[i].active

DeleteOrganizationRole(r, p) ==
    /\ Begins(r, "retire", p, "ready")
    /\ p \in Role /\ retired[p] = None /\ ~InUse(p)
    /\ UNCHANGED <<entity, patch, plan, held, clock>>

ForgotPassword(r, u) ==
    /\ Begins(r, "forgot", u, "ready")
    /\ Eligible(user[u])
    /\ UNCHANGED <<entity, patch, plan, held, clock>>

ChangePassword(r, u) ==
    /\ Begins(r, "change", u, "read")
    /\ Changeable(user[u])
    /\ entity' = [entity EXCEPT ![r] = [user[u] EXCEPT !.password = r]]
    /\ UNCHANGED <<patch, plan, held, clock>>

-----------------------------------------------------------------------------
(* Tokens                                                                   *)

HeldElsewhere(r) == UNION {held[q] : q \in Request \ {r}}

(* Mutant of IsAvailable: consumed_at is not asked for.                     *)
IsAvailableAgain(t) == token[t].state \in {"open", "consumed"}
(* consume_if_available: consumed_at, invalidated_at and expires_at.        *)
IsAvailable(t) == token[t].state = "open"

(* The conditional UPDATE, after a wait for the row lock.                   *)
Consume(r, t) ==
    /\ token[t] # None /\ t \notin HeldElsewhere(r) /\ IsAvailable(t)
    /\ Begins(r, token[t].purpose, token[t].user, "consumed")
    /\ held' = [held EXCEPT ![r] = {t}]
    /\ UNCHANGED <<entity, patch, plan, clock>>

Ends(r) ==
    /\ pc' = [pc EXCEPT ![r] = "done"]
    /\ entity' = [entity EXCEPT ![r] = None]
    /\ patch' = [patch EXCEPT ![r] = None]
    /\ plan' = [plan EXCEPT ![r] = NoPlan]
    /\ held' = [held EXCEPT ![r] = {}]
    /\ UNCHANGED <<call, clock, beside>>

Fails(r) == Ends(r) /\ UNCHANGED <<rows, acts>>

(* CompleteActivation and ResetPassword: the user behind the token.         *)
ReadRedeemer(r) ==
    LET v == user[call[r].user] IN
    /\ pc[r] = "consumed"
    /\ IF call[r].op = "activate" THEN Activatable(v) ELSE Eligible(v)
    /\ pc' = [pc EXCEPT ![r] = "read"]
    /\ entity' = [entity EXCEPT ![r] =
                    [v EXCEPT !.password = r, !.status = "active"]]
    /\ UNCHANGED <<rows, call, patch, plan, held, clock, beside, acts>>

RejectRedeemer(r) ==
    LET v == user[call[r].user] IN
    /\ pc[r] = "consumed"
    /\ ~(IF call[r].op = "activate" THEN Activatable(v) ELSE Eligible(v))
    /\ Fails(r)

(* UserRepository.update reads the row again and compares every column of   *)
(* the entity with it.                                                      *)
Reload(r) ==
    /\ pc[r] = "read"
    /\ pc' = [pc EXCEPT ![r] = "ready"]
    /\ patch' = [patch EXCEPT ![r] = Differing(entity[r], user[call[r].user])]
    /\ UNCHANGED <<rows, call, entity, plan, held, clock, beside, acts>>

(* A token is as old as its expires_at while nobody redeems it.             *)
Expire(t) ==
    /\ token[t] # None /\ token[t].state = "open" /\ t \notin HeldElsewhere(None)
    /\ token' = [token EXCEPT ![t].state = "expired"]
    /\ UNCHANGED <<user, org, retired, assignment, request, clock, beside, acts>>

-----------------------------------------------------------------------------
(* Flushing: row locks and triggers                                         *)

Creates(r) == call[r].op \in {"create", "signup"}
Writes(r)  == Creates(r) \/ call[r].op \in {"update", "delete", "restore", "change",
                                            "activate", "reset"}

NewUser(r) == IF Creates(r) THEN patch[r] ELSE Patched(user[call[r].user], patch[r])

(* Others wait for the row of the user until r commits.                     *)
LocksUser(q, u) == pc[q] = "flushed" /\ Writes(q) /\ call[q].user = u

(* identity_protect_last_super_admin: removal, one at a time, of a super    *)
(* admin who is not the last.                                               *)
Removes(r) == ActiveSuper(user[call[r].user]) /\ ~ActiveSuper(NewUser(r))
(* Mutant of SuperLock: there is no advisory lock.                          *)
SuperLockFree(q) == FALSE
SuperLock(q) == pc[q] = "flushed" /\ Writes(q) /\ Removes(q)
OtherSuper(u) == \E v \in User \ {u} : ActiveSuper(user[v])

(* identity_validate_user_role_assignment, on the row as r leaves it.       *)
Lawful(r) ==
    LET g == plan[r].grants IN
    \/ g = None
    \/ "again" \in DOMAIN g
       /\ g.revived => /\ ~NewUser(r).super
                       /\ NewUser(r).org = assignment[g.again].org
                       /\ Available(assignment[g.again].role, assignment[g.again].org)
    \/ "role" \in DOMAIN g
       /\ ~NewUser(r).super /\ NewUser(r).org = g.org /\ Available(g.role, g.org)

(* An email is unique.                                                      *)
Accepted(r) ==
    /\ Creates(r) => user[call[r].user] = None
    /\ (~Creates(r) /\ Removes(r)) => OtherSuper(call[r].user)
    /\ Lawful(r)

FlushUser(r) ==
    /\ pc[r] = "ready" /\ Writes(r)
    /\ \A q \in Request \ {r} : ~LocksUser(q, call[r].user)
    /\ (~Creates(r) /\ Removes(r)) => \A q \in Request \ {r} : ~SuperLock(q)
    /\ IF Accepted(r)
       THEN /\ pc' = [pc EXCEPT ![r] = "flushed"]
            /\ UNCHANGED <<rows, call, entity, patch, plan, held, clock, beside, acts>>
       ELSE Fails(r)

(* Mutant of Outstanding: tokens issued before are left alone.              *)
OutstandingNone(u) == {}
(* invalidate_outstanding_for_user_purpose.                                 *)
Outstanding(u) ==
    {t \in Request : token[t] # None /\ token[t].user = u /\ token[t].purpose = "reset"
                     /\ token[t].state = "open"}

FlushForgot(r) ==
    LET ts == Outstanding(call[r].user) IN
    /\ pc[r] = "ready" /\ call[r].op = "forgot"
    /\ ts \cap HeldElsewhere(r) = {}
    /\ held' = [held EXCEPT ![r] = ts]
    /\ pc' = [pc EXCEPT ![r] = "flushed"]
    /\ UNCHANGED <<rows, call, entity, patch, plan, clock, beside, acts>>

-----------------------------------------------------------------------------
(* Committing                                                               *)

WithPlan(r) ==
    LET a == plan[r] IN
    [i \in DOMAIN assignment |->
       IF a.grants # None /\ "role" \in DOMAIN a.grants /\ i = r
       THEN [user |-> a.grants.user, org |-> a.grants.org, role |-> a.grants.role,
             active |-> TRUE, at |-> a.at, by |-> r]
       ELSE IF i \in a.revokes THEN [assignment[i] EXCEPT !.active = FALSE]
       ELSE IF a.grants # None /\ "again" \in DOMAIN a.grants /\ i = a.grants.again
       THEN [assignment[i] EXCEPT !.active = a.grants.revived \/ @, !.at = a.at, !.by = r]
       ELSE assignment[i]]

CommitUser(r) ==
    /\ pc[r] = "flushed" /\ Writes(r)
    /\ user' = [user EXCEPT ![call[r].user] = NewUser(r)]
    /\ assignment' = WithPlan(r)
    /\ org' = CASE call[r].op = "signup"   -> [org EXCEPT ![r] = "pending"]
                [] call[r].op = "activate" -> [org EXCEPT ![entity[r].org] = "active"]
                [] OTHER                   -> org
    /\ token' = [t \in Request |->
         IF t \in held[r] THEN [token[t] EXCEPT !.state = "consumed"]
         ELSE IF t = r /\ call[r].op = "signup"
         THEN [user |-> call[r].user, purpose |-> "activate", state |-> "open"]
         ELSE token[t]]
    /\ acts' = [t \in Request |-> IF t \in held[r] THEN acts[t] + 1 ELSE acts[t]]
    /\ UNCHANGED retired
    /\ Ends(r)

(* The new token and its mail; when the mail is not queued, every token of  *)
(* the user is invalidated.                                                 *)
CommitForgot(r) ==
    LET u == call[r].user IN
    /\ pc[r] = "flushed" /\ call[r].op = "forgot"
    /\ \E queued \in BOOLEAN :
         LET gone == held[r] \cup (IF queued THEN {} ELSE Outstanding(u)) IN
         /\ gone \cap HeldElsewhere(r) = {}
         /\ token' = [t \in Request |->
              IF t = r THEN [user |-> u, purpose |-> "reset",
                             state |-> IF queued THEN "open" ELSE "invalidated"]
              ELSE IF t \in gone THEN [token[t] EXCEPT !.state = "invalidated"]
              ELSE token[t]]
    /\ UNCHANGED <<user, org, retired, assignment, acts>>
    /\ Ends(r)

CommitRetire(r) ==
    /\ pc[r] = "ready" /\ call[r].op = "retire"
    /\ retired' = [retired EXCEPT ![call[r].user] = r]
    /\ UNCHANGED <<user, org, assignment, token, acts>>
    /\ Ends(r)

-----------------------------------------------------------------------------
Read(r) ==
    \/ \E u \in User : \/ PublicSignup(r, u)
                       \/ ForgotPassword(r, u)
                       \/ ChangePassword(r, u)
                       \/ \E o \in Org : \/ UpdateUser(r, u, o)
                                         \/ DeleteUser(r, u, o)
                                         \/ RestoreDeletedUser(r, u, o)
                                         \/ CreateUser(r, u, o)
    \/ \E p \in Roles : DeleteOrganizationRole(r, p)

Next ==
    \/ \E r \in Request :
         \/ Read(r)
         \/ \E t \in Request : Consume(r, t)
         \/ ReadRedeemer(r)
         \/ RejectRedeemer(r)
         \/ Reload(r)
         \/ FlushUser(r)
         \/ FlushForgot(r)
         \/ CommitUser(r)
         \/ CommitForgot(r)
         \/ CommitRetire(r)
    \/ \E t \in Request : Expire(t)

Spec == Init /\ [][Next]_vars

-----------------------------------------------------------------------------
TypeOK ==
    /\ user \in [User -> UserRow \cup {None}]
    /\ org \in [Org -> {"pending", "active", None}]
    /\ retired \in [Roles -> Request \cup {None}]
    /\ assignment \in [Request \cup User -> AssignmentRow \cup {None}]
    /\ pc \in [Request -> {"idle", "consumed", "read", "ready", "flushed", "done"}]
    /\ token \in [Request -> TokenRow \cup {None}]
    /\ held \in [Request -> SUBSET Request]
    /\ beside \in [Request -> SUBSET Request]
    /\ clock \in Nat /\ acts \in [Request -> Nat]

(* The platform always has an active super admin, however demotions,       *)
(* deactivations, deletions and stale writes of whole entities overlap     *)
(* (identity_protect_last_super_admin).                                     *)
SuperAdminRemains == \E u \in User : ActiveSuper(user[u])

Beside(q, r) == q # None /\ r # None /\ q \in beside[r]

(* A user has two active assignments only by two requests that were under  *)
(* way at once: each revokes what it finds (_assign_role, restore).         *)
OneRole ==
    \A u \in User : \A i, j \in Active(u) :
        i # j => Beside(assignment[i].by, assignment[j].by)

(* An active assignment is of a role and of a user that are not deleted,   *)
(* unless the request that made it was under way beside the deletion: a    *)
(* role in use is not deleted, a deleted user loses its roles, and the     *)
(* trigger refuses deleted roles.                                           *)
AssignmentsAreLawful ==
    \A u \in User : \A i \in Active(u) :
        /\ retired[assignment[i].role] # None
             => Beside(retired[assignment[i].role], assignment[i].by)
        /\ ~Alive(user[u]) => Beside(user[u].deleted, assignment[i].by)

(* A token is consumed by the one request that acts by it: a request that  *)
(* fails gives it back, and no two act by one token (consume_if_available). *)
ConsumptionIsTheAct ==
    \A t \in Request : token[t] # None =>
        acts[t] = IF token[t].state = "consumed" THEN 1 ELSE 0

(* Only the latest reset token of a user can be used: two can only if they *)
(* were issued by requests under way at once.                               *)
OneOpenToken ==
    \A t, s \in Request :
        (/\ t # s /\ token[t] # None /\ token[s] # None
         /\ token[t].purpose = token[s].purpose
         /\ token[t].state = "open" /\ token[s].state = "open"
         /\ token[t].user = token[s].user) => Beside(t, s)
=============================================================================
