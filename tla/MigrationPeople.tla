--------------------------- MODULE MigrationPeople ---------------------------
(* What the migrations of alembic/versions do to the people of a database: its   *)
(* users, their memberships of organizations and the roles assigned to them.    *)
(* A population p is a record:                                                  *)
(*   p.user    user -> [super, org], org "none" before revision 0057            *)
(*   p.member  set of [user, org, status, role, at], role "none" after 0016     *)
(*   p.orole   the pairs <<org, role>> of identity_organization_roles           *)
(*   p.assign  set of [user, org, role, status, at]                             *)
(*   p.owner   new rows of the canonical owner are born super admin             *)
(*   p.last    how the last super admin is kept: "none", "count" or "serial"    *)
(*   p.valid   what the assignment trigger asks: "none", "member" or "direct"   *)
(*   p.ok      no statement of the migration raised                             *)
EXTENDS Naturals, FiniteSets, MigrationRows

Owner    == "dev@example.com"
LegacyDevEmails ==
    {"dev-admin@example.com", "dev-manager@example.com", "dev-sales@example.com",
     "dev-viewer@example.com", "dev-scraper@example.com"}

EmptyPopulation ==
    [user |-> <<>>, member |-> {}, orole |-> {}, assign |-> {}, owner |-> FALSE,
     last |-> "none", valid |-> "none", ok |-> TRUE]

Supers(p)       == {u \in DOMAIN p.user : p.user[u].super}
Assigned(p)     == {a \in p.assign : a.status = "active"}
Latest(rows)    == CHOOSE r \in rows : \A s \in rows : s.at <= r.at
(* Deleting a user or a role deletes what refers to it.                         *)
ForgetRoles(p, rs) == [p EXCEPT !.orole = {x \in @ : x[2] \notin rs},
                                !.assign = {a \in @ : a.role \notin rs}]

X0002(p) == [p EXCEPT !.user = <<>>, !.member = {}]
X0004(p) == [p EXCEPT !.member = {[m EXCEPT !.role = "none"] : m \in @}]

(* The roles of an organization are those its members have; an active member is  *)
(* assigned the role.                                                           *)
V0011(p) == [p EXCEPT !.orole = {<<m.org, m.role>> : m \in {x \in p.member : x.role # "none"}}]
X0011(p) == [p EXCEPT !.orole = {}]
V0012(p) ==
    [p EXCEPT !.assign = {[user |-> m.user, org |-> m.org, role |-> m.role,
                           status |-> "active", at |-> m.at] :
                            m \in {x \in p.member : /\ x.status = "active"
                                                    /\ <<x.org, x.role>> \in p.orole}}]
X0012(p) == [p EXCEPT !.assign = {}]

(* The role of a membership goes, once every one is an active assignment.        *)
V0016(p) ==
    [p EXCEPT !.ok = @ /\ \A m \in p.member : m.role # "none" =>
                         \E a \in Assigned(p) : a.user = m.user /\ a.org = m.org,
              !.member = {[m EXCEPT !.role = "none"] : m \in @}]

(* Mutant of V0040: the memberships of the deleted users stay.                *)
V0040Orphans(p, roles) ==
    LET e == ForgetRoles(p, roles)
    IN  [e EXCEPT !.user = [u \in DOMAIN @ \ LegacyDevEmails |-> @[u]],
                  !.assign = {a \in @ : a.user \notin LegacyDevEmails}]
V0040(p, roles) ==
    LET e == ForgetRoles(p, roles)
    IN  [e EXCEPT !.user = [u \in DOMAIN @ \ LegacyDevEmails |-> @[u]],
                  !.member = {m \in @ : m.user \notin LegacyDevEmails},
                  !.assign = {a \in @ : a.user \notin LegacyDevEmails}]

SetOwner(p, yes) ==
    [p EXCEPT !.owner = yes,
              !.user = [u \in DOMAIN @ |-> IF u = Owner THEN [@[u] EXCEPT !.super = yes]
                                           ELSE @[u]]]
V0041(p) == SetOwner(p, TRUE)
X0041(p) == SetOwner(p, FALSE)
V0042(p) == [p EXCEPT !.last = "count"]
X0042(p) == [p EXCEPT !.last = "none"]
V0045(p) == [p EXCEPT !.last = "serial"]
X0045(p) == [p EXCEPT !.last = "count"]

(* An assignment names its role; organization_roles goes, and comes back with     *)
(* the roles that are assigned.                                                 *)
V0046(p) == [p EXCEPT !.orole = {}]
X0046(p) == [p EXCEPT !.orole = {<<a.org, a.role>> : a \in p.assign}]
V0047(p) == [p EXCEPT !.assign = {a \in @ : a.user \notin Supers(p)}, !.valid = "member"]
X0047(p) == [p EXCEPT !.valid = "none"]

(* Mutant of HomeOf: only memberships count, the ended ones too.              *)
HomeByMembership(p, u) ==
    LET any == {m \in p.member : m.user = u}
    IN  IF u \in Supers(p) \/ any = {} THEN "none" ELSE Latest(any).org
(* A user belongs to the organization of the latest active assignment, or else    *)
(* of an active membership, or of any; super admins to none.  Active assignments *)
(* elsewhere are revoked.                                                       *)
HomeOf(p, u) ==
    LET assigned == {a \in Assigned(p) : a.user = u}
        active   == {m \in p.member : m.user = u /\ m.status = "active"}
        any      == {m \in p.member : m.user = u}
    IN  IF u \in Supers(p) \/ assigned \cup any = {} THEN "none"
        ELSE IF assigned # {} THEN Latest(assigned).org
        ELSE IF active # {} THEN Latest(active).org
        ELSE Latest(any).org
(* Mutant of Elsewhere: no assignment is revoked.                             *)
NowhereElse(user, a) == FALSE
Elsewhere(user, a) ==
    /\ a.status = "active"
    /\ ~user[a.user].super
    /\ user[a.user].org \notin {"none", a.org}
V0057(p) ==
    LET homes == [u \in DOMAIN p.user |-> [p.user[u] EXCEPT !.org = HomeOf(p, u)]]
    IN  [p EXCEPT !.user = homes, !.member = {},
                  !.assign = {IF Elsewhere(homes, a) THEN [a EXCEPT !.status = "revoked"] ELSE a :
                                a \in @}]
(* The users of an organization become its active members.                      *)
X0057(p) ==
    [p EXCEPT !.user = [u \in DOMAIN @ |-> [@[u] EXCEPT !.org = "none"]],
              !.member = {[user |-> u, org |-> p.user[u].org, status |-> "active",
                           role |-> "none", at |-> 0] :
                            u \in {x \in DOMAIN p.user : p.user[x].org # "none"}}]

V0058(p) == [p EXCEPT !.valid = "direct"]
X0058(p) == [p EXCEPT !.valid = "none"]
===============================================================================
