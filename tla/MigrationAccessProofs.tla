------------------------- MODULE MigrationAccessProofs -------------------------
(* What an upgrade leaves to whom, for every set of stops, people, organizations *)
(* and edits.  These properties compare what a run of alembic commits with what  *)
(* it found, so the invariants here compare what the run has come to after any   *)
(* script of it with what is committed.                                         *)
EXTENDS MigrationsProofs

-------------------------------------------------------------------------------
(* Who acts with which role.                                                    *)

Acting(p) == DOMAIN p.user \ Supers(p)
WaysAt(n, p, u) ==
    IF n < 12
    THEN {<<m.org, m.role>> : m \in {x \in p.member : x.user = u /\ x.status = "active"
                                                              /\ x.role # "none"}}
    ELSE {<<a.org, a.role>> : a \in {x \in Assigned(p) : x.user = u}}

LEMMA WaysNow == \A u : Ways(u) = WaysAt(rev, people, u)
BY DEF Ways, WaysAt

LEMMA WaysOfMembers ==
    ASSUME NEW n \in 0..11, NEW p, NEW u, NEW w
    PROVE  w \in WaysAt(n, p, u) <=>
             \E m \in p.member : /\ m.user = u /\ m.status = "active" /\ m.role # "none"
                                 /\ w = <<m.org, m.role>>
BY DEF WaysAt

LEMMA WaysOfAssigned ==
    ASSUME NEW n \in 12..73, NEW p, NEW u, NEW w
    PROVE  w \in WaysAt(n, p, u) <=> \E a \in Assigned(p) : a.user = u /\ w = <<a.org, a.role>>
BY DEF WaysAt

(* What the script up to r does to the ways of those who act after it.           *)
Remain(r, p, q) ==
    \A u \in Acting(q) :
      /\ u \in Acting(p)
      /\ WaysAt(r, q, u) \subseteq WaysAt(r - 1, p, u)
      /\ r # 57 => \A w \in WaysAt(r - 1, p, u) : w[2] \notin Gone(r) => w \in WaysAt(r, q, u)
      /\ r = 57 /\ WaysAt(r - 1, p, u) # {} => WaysAt(r, q, u) # {}

(* The organizations' roles, as 0011 takes them from the memberships.            *)
Backfilled(p) == p.orole = {<<m.org, m.role>> : m \in {x \in p.member : x.role # "none"}}

LEMMA AlikeRemain ==
    ASSUME NEW r \in 1..73 \ {12, 57}, NEW p, NEW q, Alike(p, q)
    PROVE  Remain(r, p, q)
<1>1. Acting(q) = Acting(p) /\ Assigned(q) = Assigned(p) /\ q.member = p.member
  BY DEF Alike, Acting, Supers, Assigned
<1>2. \A u : WaysAt(r, q, u) = WaysAt(r - 1, p, u)
  BY <1>1 DEF WaysAt
<1> QED BY <1>1, <1>2 DEF Remain

(* Assignments go, but not those of who still acts with a role that stays.        *)
LEMMA FewerRemain ==
    ASSUME NEW r \in {16, 40, 41, 43, 47}, NEW p, NEW q, Acting(q) \subseteq Acting(p),
           q.assign \subseteq p.assign,
           \A a \in p.assign : a.user \in Acting(q) /\ a.role \notin Gone(r) => a \in q.assign
    PROVE  Remain(r, p, q)
<1>1. r \in 12..73 /\ r - 1 \in 12..73 /\ r # 57
  OBVIOUS
<1>2. ASSUME NEW u \in Acting(q), NEW w \in WaysAt(r, q, u)
      PROVE  w \in WaysAt(r - 1, p, u)
  BY <1>1, <1>2, WaysOfAssigned DEF Assigned
<1>3. ASSUME NEW u \in Acting(q), NEW w \in WaysAt(r - 1, p, u), w[2] \notin Gone(r)
      PROVE  w \in WaysAt(r, q, u)
  <2>1. PICK a \in Assigned(p) : a.user = u /\ w = <<a.org, a.role>>
    BY <1>1, WaysOfAssigned
  <2>2. a \in Assigned(q)
    BY <1>3, <2>1 DEF Assigned
  <2> QED BY <1>1, <2>1, <2>2, WaysOfAssigned
<1> QED BY <1>1, <1>2, <1>3 DEF Remain

(* 0012: every active member with a role gets the role assigned.                  *)
LEMMA V0012Remain ==
    ASSUME NEW p, Placed(p), Backfilled(p)
    PROVE  Remain(12, p, V0012(p))
<1> DEFINE M == {x \in p.member : x.status = "active" /\ <<x.org, x.role>> \in p.orole}
           f == [m \in M |-> [user |-> m.user, org |-> m.org, role |-> m.role,
                              status |-> "active", at |-> m.at]]
           A == {f[m] : m \in M}
           q == [p EXCEPT !.assign = A]
<1>1. V0012(p) = q
  BY DEF V0012
<1>2. M = {x \in p.member : x.status = "active" /\ x.role # "none"}
  BY DEF Backfilled
<1>3. /\ \A a \in A : a.status = "active" /\ \E m \in M : f[m] = a
      /\ \A m \in M : f[m] \in A /\ f[m].user = m.user /\ f[m].org = m.org /\ f[m].role = m.role
  <2>1. \A m \in M : /\ f[m].user = m.user /\ f[m].org = m.org /\ f[m].role = m.role
                     /\ f[m].status = "active"
    <3> HIDE DEF M
    <3> QED OBVIOUS
  <2>2. (\A a \in A : \E m \in M : f[m] = a) /\ (\A m \in M : f[m] \in A)
    <3> HIDE DEF M, f
    <3> QED OBVIOUS
  <2> HIDE DEF M, f, A
  <2> QED BY <2>1, <2>2
<1> HIDE DEF M, f, A
<1>4. q.user = p.user /\ q.assign = A
  BY DEF Placed, IsPopulation
<1> HIDE DEF q
<1>5. Acting(q) = Acting(p) /\ Assigned(q) = A
  BY <1>3, <1>4 DEF Acting, Supers, Assigned
<1>6. \A u, w : w \in WaysAt(12, q, u) <=> w \in WaysAt(11, p, u)
  <2> TAKE u, w
  <2>1. w \in WaysAt(12, q, u) <=> \E a \in A : a.user = u /\ w = <<a.org, a.role>>
    BY <1>5, WaysOfAssigned
  <2>2. w \in WaysAt(11, p, u) <=> \E m \in M : m.user = u /\ w = <<m.org, m.role>>
    BY <1>2, WaysOfMembers
  <2> QED BY <1>3, <2>1, <2>2
<1>7. Remain(12, p, q)
  BY <1>5, <1>6 DEF Remain
<1> QED BY <1>1, <1>7

(* 0016: the role of a membership goes, once it is an assignment's.                *)
LEMMA V0016Remain ==
    ASSUME NEW p, Placed(p), NEW q, q = V0016(p)
    PROVE  Remain(16, p, q)
<1> DEFINE b == p.ok /\ \A m \in p.member : m.role # "none" =>
                  \E a \in Assigned(p) : a.user = m.user /\ a.org = m.org
           M == {[m EXCEPT !.role = "none"] : m \in p.member}
<1>1. q = [p EXCEPT !.ok = b, !.member = M]
  BY DEF V0016
<1> HIDE DEF b, M
<1>2. q.user = p.user /\ q.assign = p.assign
  BY <1>1 DEF Placed, IsPopulation
<1>3. Acting(q) = Acting(p)
  BY <1>2 DEF Acting, Supers
<1> QED BY <1>2, <1>3, FewerRemain

(* 0040 and 0043: roles go, and what refers to them; 0040 takes users with it.     *)
LEMMA V0040Remain ==
    ASSUME NEW p, Placed(p), NEW q, q = V0040(p, LegacyRoles)
    PROVE  Remain(40, p, q)
<1> DEFINE rs == LegacyRoles
           x == ForgetRoles(p, rs)
           U == [u \in DOMAIN x.user \ LegacyDevEmails |-> x.user[u]]
           M == {m \in x.member : m.user \notin LegacyDevEmails}
           A == {a \in x.assign : a.user \notin LegacyDevEmails}
<1>1. q = [x EXCEPT !.user = U, !.member = M, !.assign = A]
  BY DEF V0040
<1>2. /\ Placed(x) /\ x.user = p.user /\ \A a : a \in x.assign <=> a \in p.assign /\ a.role \notin rs
  <2>1. x = ForgetRoles(p, rs)
    OBVIOUS
  <2> HIDE DEF rs, x
  <2> QED BY <2>1, ForgetRolesFacts
<1> HIDE DEF x
<1>3. /\ DOMAIN U = DOMAIN p.user \ LegacyDevEmails
      /\ \A u \in DOMAIN U : U[u] = p.user[u]
  BY <1>2
<1>4. \A a : a \in A <=> a \in p.assign /\ a.role \notin LegacyRoles /\ a.user \notin LegacyDevEmails
  BY <1>2
<1> HIDE DEF U, M, A
<1>5. q.user = U /\ q.assign = A
  BY <1>1, <1>2 DEF Placed, IsPopulation
<1>6. \A u \in Acting(q) : u \in Acting(p) /\ u \notin LegacyDevEmails
  BY <1>3, <1>5 DEF Acting, Supers
<1>7. Gone(40) = LegacyRoles
  BY DEF Gone
<1> QED BY <1>4, <1>5, <1>6, <1>7, FewerRemain

LEMMA V0043Remain ==
    ASSUME NEW p, Placed(p), NEW q, q = ForgetRoles(p, {"owner"})
    PROVE  Remain(43, p, q)
<1> DEFINE rs == {"owner"}
<1>1. q = ForgetRoles(p, rs) /\ Gone(43) = rs
  BY DEF Gone
<1> HIDE DEF rs
<1>2. q.user = p.user /\ \A a : a \in q.assign <=> a \in p.assign /\ a.role \notin rs
  BY <1>1, ForgetRolesFacts
<1>3. Acting(q) = Acting(p)
  BY <1>2 DEF Acting, Supers
<1> QED BY <1>1, <1>2, <1>3, FewerRemain

(* 0041 makes the owner a super admin, 0047 takes the assignments of super admins. *)
LEMMA V0041Remain ==
    ASSUME NEW p, Placed(p), NEW q, q = V0041(p)
    PROVE  Remain(41, p, q)
<1> DEFINE yes == TRUE
           o == p.user[Owner]
           y == [o EXCEPT !.super = yes]
           U == [u \in DOMAIN p.user |-> IF u = Owner THEN y ELSE p.user[u]]
<1>1. q = [p EXCEPT !.owner = yes, !.user = U]
  BY DEF V0041, SetOwner
<1>2. Owner \in DOMAIN p.user => y.super
  <2>1. Owner \in DOMAIN p.user => o = [super |-> o.super, org |-> o.org]
    BY DEF Placed
  <2> HIDE DEF o
  <2> QED BY <2>1
<1>3. DOMAIN U = DOMAIN p.user /\ \A u \in DOMAIN U : IF u = Owner THEN U[u] = y ELSE U[u] = p.user[u]
  OBVIOUS
<1> HIDE DEF U, y, o
<1>4. q.user = U /\ q.assign = p.assign
  BY <1>1 DEF Placed, IsPopulation
<1>5. \A u \in Acting(q) : u \in Acting(p)
  BY <1>2, <1>3, <1>4 DEF Acting, Supers
<1> QED BY <1>4, <1>5, FewerRemain

LEMMA V0047Remain ==
    ASSUME NEW p, Placed(p), NEW q, q = V0047(p)
    PROVE  Remain(47, p, q)
<1> DEFINE A == {a \in p.assign : a.user \notin Supers(p)}
<1>1. q = [p EXCEPT !.assign = A, !.valid = "member"]
  BY DEF V0047
<1>2. \A a : a \in A <=> a \in p.assign /\ a.user \notin Supers(p)
  OBVIOUS
<1> HIDE DEF A
<1>3. q.user = p.user /\ q.assign = A
  BY <1>1 DEF Placed, IsPopulation
<1>4. Acting(q) = Acting(p)
  BY <1>3 DEF Acting, Supers
<1>5. \A a \in p.assign : a.user \in Acting(q) => a \in A
  BY <1>2, <1>4 DEF Acting
<1> QED BY <1>2, <1>3, <1>4, <1>5, FewerRemain

(* 0057: who has assignments keeps the latest one.                                *)
LEMMA V0057Remain ==
    ASSUME NEW p, Placed(p), NEW q, q = V0057(p)
    PROVE  Remain(57, p, q)
<1> DEFINE H == [u \in DOMAIN p.user |-> [p.user[u] EXCEPT !.org = HomeOf(p, u)]]
           A == {IF Elsewhere(H, a) THEN [a EXCEPT !.status = "revoked"] ELSE a : a \in p.assign}
           M == {}
<1>1. q = [p EXCEPT !.user = H, !.member = M, !.assign = A]
  BY DEF V0057
<1>2. /\ DOMAIN H = DOMAIN p.user
      /\ \A u \in DOMAIN p.user : H[u].super = p.user[u].super /\ H[u].org = HomeOf(p, u)
  <2>1. SUFFICES ASSUME NEW u \in DOMAIN p.user
                 PROVE  H[u].super = p.user[u].super /\ H[u].org = HomeOf(p, u)
    OBVIOUS
  <2> DEFINE x == p.user[u]
             h == HomeOf(p, u)
  <2>2. H[u] = [x EXCEPT !.org = h] /\ x = [super |-> x.super, org |-> x.org]
    BY DEF Placed
  <2> HIDE DEF x, h, H
  <2> QED BY <2>2 DEF x, h
<1> HIDE DEF H
<1>3. /\ \A x \in A : x.status = "active" => x \in p.assign
      /\ \A a \in p.assign : ~Elsewhere(H, a) => a \in A
  <2>1. \A x \in A : \E a \in p.assign :
           /\ IsAssignment(x) /\ x.at = a.at /\ x.org = a.org /\ x.user = a.user
           /\ x.role = a.role
           /\ x.status = "active" => x = a /\ ~Elsewhere(H, a)
    BY RevokedElsewhere
  <2>2. \A a \in p.assign : ~Elsewhere(H, a) => a \in A
    OBVIOUS
  <2> HIDE DEF A
  <2> QED BY <2>1, <2>2
<1> HIDE DEF A, M
<1>4. q.user = H /\ q.assign = A
  BY <1>1 DEF Placed, IsPopulation
<1>5. Acting(q) = Acting(p)
  BY <1>2, <1>4 DEF Acting, Supers
<1>6. \A u, w : w \in WaysAt(57, q, u) => w \in WaysAt(56, p, u)
  <2>1. \A a \in Assigned(q) : a \in Assigned(p)
    BY <1>3, <1>4 DEF Assigned
  <2> QED BY <2>1, WaysOfAssigned
<1>7. ASSUME NEW u \in Acting(p), WaysAt(56, p, u) # {}
      PROVE  WaysAt(57, q, u) # {}
  <2> DEFINE S == {a \in Assigned(p) : a.user = u}
  <2>1. S # {} /\ IsFiniteSet(S) /\ \A a \in S : a.at \in Nat
    <3>1. S # {}
      BY <1>7, WaysOfAssigned
    <3>2. S \subseteq p.assign
      BY DEF Assigned
    <3> QED BY <3>1, <3>2, FS_Subset DEF Placed
  <2>2. HomeOf(p, u) = Latest(S).org
    BY <2>1 DEF HomeOf, Acting
  <2>3. \A a \in S : a \in p.assign /\ a.status = "active" /\ a.user = u
    BY DEF Assigned
  <2> HIDE DEF S
  <2> DEFINE l == Latest(S)
  <2>4. l \in S
    BY <2>1, LatestFacts
  <2>5. H[u].org = l.org
    BY <1>2, <2>2 DEF Acting
  <2>6. ~Elsewhere(H, l)
    BY <2>3, <2>4, <2>5 DEF Elsewhere
  <2>7. l \in Assigned(q) /\ l.user = u
    BY <1>3, <1>4, <2>3, <2>4, <2>6 DEF Assigned
  <2> HIDE DEF l
  <2>8. <<l.org, l.role>> \in WaysAt(57, q, u)
    BY <2>7, WaysOfAssigned
  <2> QED BY <2>8
<1> QED BY <1>5, <1>6, <1>7 DEF Remain

LEMMA PeopleUpRemain ==
    ASSUME NEW r \in 1..73, NEW p, Placed(p), r = 12 => Backfilled(p), NEW q, q = PeopleUp(r, p)
    PROVE  Remain(r, p, q)
<1>1. CASE r \in PeopleAside
  <2>1. Alike(p, q)
    BY <1>1, PeopleAsideUp
  <2> QED BY <1>1, <2>1, AlikeRemain DEF PeopleAside
<1>2. CASE r \notin PeopleAside \cup {12, 16, 40, 41, 43, 47, 57}
  <2>1. q = p
    BY <1>2 DEF PeopleUp, PeopleAside
  <2>2. Alike(p, q)
    BY <2>1 DEF Alike, Placed
  <2> QED BY <1>2, <2>2, AlikeRemain
<1>3. CASE r = 12
  BY <1>3, V0012Remain DEF PeopleUp
<1>4. CASE r = 16
  BY <1>4, V0016Remain DEF PeopleUp
<1>5. CASE r = 40
  BY <1>5, V0040Remain DEF PeopleUp
<1>6. CASE r = 41
  BY <1>6, V0041Remain DEF PeopleUp
<1>7. CASE r = 43
  BY <1>7, V0043Remain DEF PeopleUp
<1>8. CASE r = 47
  BY <1>8, V0047Remain DEF PeopleUp
<1>9. CASE r = 57
  BY <1>9, V0057Remain DEF PeopleUp
<1> QED BY <1>1, <1>2, <1>3, <1>4, <1>5, <1>6, <1>7, <1>8, <1>9

-------------------------------------------------------------------------------
(* What a run upwards has come to beside what it found.                          *)

(* The database the run found, at revision m, has people p0 and catalogue c0; the *)
(* run has come to revision n, people p and catalogue c.                        *)
Kept(m, p0, c0, n, p, c) ==
    /\ RolesOf(c0) \ (LegacyRoles \cup {"owner"}) \subseteq RolesOf(c)
    /\ \A u \in Acting(p) :
         /\ WaysAt(n, p, u) \subseteq WaysAt(m, p0, u)
         /\ n < 57 => \A w \in WaysAt(m, p0, u) : w[2] \in RolesOf(c) => w \in WaysAt(n, p, u)
         /\ n >= 57 /\ (\E w \in WaysAt(m, p0, u) : w[2] \in RolesOf(c)) => WaysAt(n, p, u) # {}

LEMMA KeptSelf ==
    ASSUME NEW n, NEW p, NEW c
    PROVE  Kept(n, p, c, n, p, c)
BY DEF Kept

(* A role a user has is in the catalogue, but for the name "none".                 *)
LEMMA WaysHaveRoles ==
    ASSUME NEW n \in 0..73, NEW p, NEW d, PeopleInv(n, p, d), NEW u, NEW w \in WaysAt(n, p, u)
    PROVE  w[2] = "none" \/ w[2] \in RolesOf(d)
<1>1. CASE n \in 0..11
  <2>1. PICK m \in p.member : m.role # "none" /\ w = <<m.org, m.role>>
    BY <1>1, WaysOfMembers
  <2> QED BY <2>1 DEF PeopleInv
<1>2. CASE n \in 12..73
  <2>1. PICK a \in Assigned(p) : w = <<a.org, a.role>>
    BY <1>2, WaysOfAssigned
  <2> QED BY <2>1 DEF PeopleInv, Assigned
<1> QED BY <1>1, <1>2

LEMMA FoundedStay ==
    "none" \notin Founded /\ Founded \cap (LegacyRoles \cup {"owner"}) = {}
BY DEF Founded, LegacyRoles, TemplateSlugs, Admin

LEMMA KeptStep ==
    ASSUME NEW r \in 1..73, NEW m, NEW p0, NEW c0, NEW p, NEW c, Kept(m, p0, c0, r - 1, p, c),
           NEW q, Remain(r, p, q),
           NEW e, RolesOf(c) \ Gone(r) \subseteq RolesOf(e),
           RolesOf(e) \subseteq (RolesOf(c) \ Gone(r)) \cup Founded,
           \A u : \A w \in WaysAt(m, p0, u) : w[2] = "none" \/ w[2] \in RolesOf(c0)
    PROVE  Kept(m, p0, c0, r, q, e)
<1>0. Gone(r) \subseteq LegacyRoles \cup {"owner"} /\ (r # 40 /\ r # 43 => Gone(r) = {})
  BY DEF Gone
<1>1. RolesOf(c0) \ (LegacyRoles \cup {"owner"}) \subseteq RolesOf(e)
  BY <1>0 DEF Kept
<1>2. ASSUME NEW u, NEW w \in WaysAt(m, p0, u), w[2] \in RolesOf(e)
      PROVE  w[2] \in RolesOf(c) /\ w[2] \notin Gone(r)
  <2>1. CASE w[2] \in RolesOf(c) \ Gone(r)
    BY <2>1
  <2>2. CASE w[2] \in Founded
    <3>1. w[2] \in RolesOf(c0) \ (LegacyRoles \cup {"owner"})
      BY <1>2, <2>2, FoundedStay
    <3> QED BY <1>0, <3>1 DEF Kept
  <2> QED BY <1>2, <2>1, <2>2
<1>3. ASSUME NEW u \in Acting(q)
      PROVE  u \in Acting(p) /\ WaysAt(r, q, u) \subseteq WaysAt(m, p0, u)
  BY <1>3 DEF Kept, Remain
<1>4. ASSUME NEW u \in Acting(q), r <= 57, NEW w \in WaysAt(m, p0, u), w[2] \in RolesOf(e)
      PROVE  w \in WaysAt(r - 1, p, u) /\ w[2] \notin Gone(r)
  <2>1. w[2] \in RolesOf(c) /\ w[2] \notin Gone(r)
    BY <1>2, <1>4
  <2>2. u \in Acting(p) /\ r - 1 < 57
    BY <1>3, <1>4
  <2> QED BY <2>1, <2>2 DEF Kept
<1>5. ASSUME NEW u \in Acting(q), r < 57, NEW w \in WaysAt(m, p0, u), w[2] \in RolesOf(e)
      PROVE  w \in WaysAt(r, q, u)
  BY <1>4, <1>5 DEF Remain
<1>6. ASSUME NEW u \in Acting(q), r >= 57, NEW w \in WaysAt(m, p0, u), w[2] \in RolesOf(e)
      PROVE  WaysAt(r, q, u) # {}
  <2>1. CASE r = 57
    <3>1. WaysAt(r - 1, p, u) # {}
      BY <1>4, <1>6, <2>1
    <3> QED BY <1>6, <2>1, <3>1 DEF Remain
  <2>2. CASE r > 57
    <3>1. u \in Acting(p) /\ w[2] \in RolesOf(c) /\ r - 1 >= 57
      BY <1>2, <1>3, <1>6, <2>2
    <3>2. PICK v : v \in WaysAt(r - 1, p, u)
      BY <3>1 DEF Kept
    <3>3. v[2] \notin Gone(r)
      BY <1>0, <2>2
    <3> QED BY <1>6, <2>2, <3>2, <3>3 DEF Remain
  <2> QED BY <1>6, <2>1, <2>2
<1> QED BY <1>1, <1>3, <1>5, <1>6 DEF Kept

(* 0011 takes the organizations' roles from the memberships.                       *)
LEMMA V0011Backfills ==
    ASSUME NEW p, Placed(p), NEW q, q = PeopleUp(11, p)
    PROVE  Backfilled(q)
<1> DEFINE O == {<<m.org, m.role>> : m \in {x \in p.member : x.role # "none"}}
<1>1. q = [p EXCEPT !.orole = O]
  BY DEF PeopleUp, V0011
<1> HIDE DEF O
<1>2. q.orole = O /\ q.member = p.member
  BY <1>1 DEF Placed, IsPopulation
<1> QED BY <1>2 DEF Backfilled, O

(* A script of an upgrade.                                                        *)
LEMMA UpToFacts ==
    ASSUME NEW r \in 1..73, NEW x, DatabaseInv(r - 1, x), NEW y \in UpTo(r, x), y.ok
    PROVE  /\ RolesOf(x.cat) \ Gone(r) \subseteq RolesOf(y.cat)
           /\ RolesOf(y.cat) \subseteq (RolesOf(x.cat) \ Gone(r)) \cup Founded
           /\ y.people = PeopleUp(r, x.people)
<1> DEFINE m == SchemaUp(r, x.schema)
           q == PeopleUp(r, x.people)
           yes == TRUE
<1>1. PICK e \in CatalogueUp(r, x.cat) : y = Script(x, m, e, q, x.rows, yes)
  BY DEF UpTo
<1>2. y.cat = e /\ y.people = q /\ (y.ok => e.ok)
  <2> HIDE DEF m, q, yes
  <2> QED BY <1>1, ScriptFacts
<1>3. CatalogueInv(r - 1, x.cat)
  BY DEF DatabaseInv
<1> QED BY <1>2, <1>3, CatalogueUpKeeps

-------------------------------------------------------------------------------
(* What is kept, in every reachable state.                                       *)

UpInv ==
    Climbs /\ run.db.ok =>
      /\ Kept(rev, people, cat, run.at, run.db.people, run.db.cat)
      /\ run.at = 11 => Backfilled(run.db.people)

LEMMA BeginClimbs ==
    ASSUME 11 \notin Stops, IInv, NEW r \in Stops, Begin(r) PROVE UpInv'
<1> DEFINE x == Current
<1>1. run' = [at |-> rev, to |-> r, db |-> x] /\ UNCHANGED <<rev, people, cat>>
  BY DEF Begin, database
<1>2. x.people = people /\ x.cat = cat
  BY DEF Current
<1> HIDE DEF x
<1>3. run'.at = rev /\ run'.db = x /\ rev # 11
  BY <1>1 DEF IInv, BoundsInv
<1>4. Kept(rev, people, cat, rev, people, cat)
  BY KeptSelf
<1> QED BY <1>1, <1>2, <1>3, <1>4 DEF UpInv

LEMMA UpgradeClimbs == ASSUME IInv, UpInv, Upgrade PROVE UpInv'
<1>1. run # None /\ run.at < run.to /\ run.db.ok
  BY DEF Upgrade
<1>2. /\ run = [at |-> run.at, to |-> run.to, db |-> run.db]
      /\ run.at \in 0..73 /\ run.to \in Stops /\ run.at \in run.to..rev \cup rev..run.to
      /\ DatabaseInv(run.at, run.db)
  BY <1>1 DEF IInv, RunInv, HeadRevision
<1>3. rev \in 0..73 /\ run.to \in 0..73
  BY <1>2, StopsFacts DEF IInv, BoundsInv
<1>4. Climbs
  BY <1>1, <1>2, <1>3 DEF Climbs
<1>5. /\ Kept(rev, people, cat, run.at, run.db.people, run.db.cat)
      /\ run.at = 11 => Backfilled(run.db.people)
  BY <1>1, <1>4 DEF UpInv
<1> DEFINE r == run.at + 1
           db == run.db
<1>6. r \in 1..73 /\ r - 1 = run.at
  BY <1>1, <1>2, <1>3
<1>7. PICK y \in UpTo(r, db) : Execute(r, y)
  BY DEF Upgrade
<1>8. DatabaseInv(r - 1, db) /\ Placed(db.people) /\ (r = 12 => Backfilled(db.people))
  BY <1>2, <1>5, <1>6 DEF DatabaseInv, PeopleInv
<1>9. run'.at = r /\ run'.db = y /\ UNCHANGED <<rev, people, cat>>
  BY <1>2, <1>7 DEF Execute, database
<1>10. Kept(rev, people, cat, r - 1, db.people, db.cat)
  BY <1>5, <1>6
<1>11. \A u : \A w \in WaysAt(rev, people, u) : w[2] = "none" \/ w[2] \in RolesOf(cat)
  BY <1>3, WaysHaveRoles DEF IInv, RowsInv
<1> HIDE DEF r, db
<1>12. ASSUME y.ok
       PROVE  Kept(rev, people, cat, r, y.people, y.cat) /\ (r = 11 => Backfilled(y.people))
  <2>1. /\ RolesOf(db.cat) \ Gone(r) \subseteq RolesOf(y.cat)
        /\ RolesOf(y.cat) \subseteq (RolesOf(db.cat) \ Gone(r)) \cup Founded
        /\ y.people = PeopleUp(r, db.people)
    BY <1>6, <1>8, <1>12, UpToFacts
  <2>2. Remain(r, db.people, y.people)
    BY <1>6, <1>8, <2>1, PeopleUpRemain
  <2>3. r = 11 => Backfilled(y.people)
    BY <1>8, <2>1, V0011Backfills
  <2>4. Kept(rev, people, cat, r, y.people, y.cat)
    BY <1>6, <1>10, <1>11, <2>1, <2>2, KeptStep
  <2> QED BY <2>3, <2>4
<1> QED BY <1>9, <1>12 DEF UpInv

LEMMA DowngradeClimbs == ASSUME IInv, Downgrade PROVE UpInv'
<1>1. run # None /\ run.at > run.to
  BY DEF Downgrade
<1>2. /\ run = [at |-> run.at, to |-> run.to, db |-> run.db]
      /\ run.at \in 0..73 /\ run.to \in Stops /\ run.at \in run.to..rev \cup rev..run.to
  BY <1>1 DEF IInv, RunInv, HeadRevision
<1>3. rev \in 0..73 /\ run.to \in 0..73
  BY <1>2, StopsFacts DEF IInv, BoundsInv
<1>4. ~(run.to > rev)
  BY <1>1, <1>2, <1>3
<1>5. PICK n, y : run' = [run EXCEPT !.at = n, !.db = y] /\ rev' = rev
  BY DEF Downgrade, Execute, database
<1>6. run'.to = run.to
  BY <1>2, <1>5
<1> QED BY <1>4, <1>5, <1>6 DEF UpInv, Climbs

(* Every other step leaves no run open, or leaves it as it is.                     *)
LEMMA NoRunClimbs == ASSUME run' = None PROVE UpInv'
BY DEF UpInv, Climbs

LEMMA NextClimbs ==
    ASSUME 11 \notin Stops, IInv, UpInv, [Next]_vars PROVE UpInv'
<1>1. CASE UNCHANGED vars
  BY <1>1 DEF vars, UpInv, Climbs
<1>2. ASSUME NEW r \in Stops, Begin(r) PROVE UpInv'
  BY <1>2, BeginClimbs
<1>3. CASE Upgrade
  BY <1>3, UpgradeClimbs
<1>4. CASE Downgrade
  BY <1>4, DowngradeClimbs
<1>5. CASE Commit \/ Abort
  <2>1. run' = None
    BY <1>5 DEF Commit, Abort
  <2> QED BY <2>1, NoRunClimbs
<1>6. ASSUME NEW first, NEW last, Edit(first, last) PROVE UpInv'
  <2>1. run' = None
    BY <1>6 DEF Edit
  <2> QED BY <2>1, NoRunClimbs
<1> QED BY <1>1, <1>2, <1>3, <1>4, <1>5, <1>6
        DEF Next, AddRole, Join, Assign, CreateUser, CreateSuper, UpdateSuper, UpdateMember,
            SetLifecycle, EditTemplate, Derive, Customise, AddRow

(* An upgrade gives nobody a role, and leaves who had a role that still exists     *)
(* with one, whichever stops it makes: through the roles of an organization (0011, *)
(* 0012), the assignments that replace memberships' roles (0016), the roles 0040    *)
(* and 0043 delete, and the one organization 0057 leaves a user.  A stop at 0011   *)
(* is excepted: the application of that revision adds memberships whose role 0012  *)
(* would not find among the organization's.                                     *)
THEOREM UpgradesKeepAccess == ASSUME 11 \notin Stops PROVE Spec => AccessKept
<1>1. Init => UpInv
  BY DEF Init, UpInv, Climbs
<1>2. IInv /\ UpInv /\ [Next]_vars => UpInv'
  BY NextClimbs
<1>3. ASSUME IInv, UpInv, [Next]_vars, rev' > rev
      PROVE  \A u \in DOMAIN people'.user \ Supers(people') :
               /\ Ways(u)' \subseteq Ways(u)
               /\ (\E w \in Ways(u) : w[2] \in RolesOf(cat')) => Ways(u)' # {}
  <2>0. rev \in 0..73
    BY <1>3, StopsFacts DEF IInv, BoundsInv
  <2>1. Commit
    <3>1. rev' = rev => FALSE
      BY <1>3, <2>0
    <3>2. ~(\E first, last : Edit(first, last))
      BY <3>1 DEF Edit
    <3> QED BY <1>3, <3>1, <3>2
            DEF vars, Next, Begin, Upgrade, Downgrade, Execute, Abort, database, AddRole, Join,
                Assign, CreateUser, CreateSuper, UpdateSuper, UpdateMember, SetLifecycle,
                EditTemplate, Derive, Customise, AddRow
  <2>2. /\ run # None /\ run.at = run.to /\ run.db.ok /\ rev' = run.to
        /\ people' = run.db.people /\ cat' = run.db.cat
    BY <2>1 DEF Commit
  <2>3. Climbs
    BY <1>3, <2>2 DEF Climbs
  <2>4. Kept(rev, people, cat, rev', people', cat')
    BY <1>3, <2>2, <2>3 DEF UpInv
  <2>5. rev' \in 0..73
    BY <1>3, <2>2, StopsFacts DEF IInv, RunInv
  <2> TAKE u \in DOMAIN people'.user \ Supers(people')
  <2>6. u \in Acting(people')
    BY DEF Acting
  <2>7. Ways(u) = WaysAt(rev, people, u) /\ Ways(u)' = WaysAt(rev', people', u)
    BY DEF Ways, WaysAt
  <2> QED BY <2>4, <2>5, <2>6, <2>7 DEF Kept
<1> QED BY <1>1, <1>2, <1>3, InvariantHolds, PTL DEF Spec, AccessKept

===============================================================================
