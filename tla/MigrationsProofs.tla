--------------------------- MODULE MigrationsProofs ---------------------------
(* What holds of a database whichever way the scripts took it, for every set of  *)
(* stops, people, organizations and edits, and after every script.              *)
EXTENDS Migrations, FiniteSetTheorems, SequenceTheorems, WellFoundedInduction, TLAPS

-------------------------------------------------------------------------------
(* The invariant of a catalogue d at revision n.                                *)

IsCatalogue(d) ==
    d = [group |-> d.group, perm |-> d.perm, role |-> d.role, grant |-> d.grant,
         excl |-> d.excl, trig |-> d.trig, cascade |-> d.cascade, ok |-> d.ok]
IsPermission(p) ==
    /\ p = [group |-> p.group, state |-> p.state, assignable |-> p.assignable,
            scope |-> p.scope]
    /\ p.scope \in {"organization", "system"}
IsRole(r) ==
    r = [kind |-> r.kind, org |-> r.org, src |-> r.src, ver |-> r.ver,
         srcver |-> r.srcver, cust |-> r.cust, auto |-> r.auto]
Shaped(d) ==
    /\ IsCatalogue(d)
    /\ \A c \in Codes(d) : IsPermission(d.perm[c])
    /\ \A r \in RolesOf(d) : IsRole(d.role[r])

(* No row refers to one that is not there.                                      *)
Sound(d) ==
    /\ \A c \in Codes(d) : d.perm[c].group \in Groups_(d)
    /\ d.grant \cup d.excl \subseteq RolesOf(d) \X Codes(d)

(* Before governance: no trigger, no exclusion, plain rows; and before 0039,    *)
(* which no downgrade passes, only permissions seeded so far.                   *)
Mailboxes == P("fair_crm.email_accounts", Crud)
Sown(n, c) ==
    \/ n >= 18 /\ c \in Audits
    \/ n >= 20 /\ c \in SettingsPerms
    \/ n >= 22 /\ c \in JobsPerms
    \/ n >= 24 /\ c \in NotesPerms
    \/ n >= 25 /\ c \in Customers
    \/ n >= 26 /\ c \in CatalogueCodes(Products0026)
    \/ n >= 27 /\ c \in MailTemplates[2]
    \/ n >= 28 /\ c \in {TestSend}
    \/ n >= 29 /\ c \in FairEmails[2]
    \/ n >= 30 /\ c \in CatalogueCodes(Todos \cup {Dashboard})
    \/ n >= 31 /\ c \in Operations[2]
    \/ n >= 32 /\ c \in Mailboxes
    \/ n >= 33 /\ c \in QuoteTemplates[2]
    \/ n >= 34 /\ c \in Contents[2]
    \/ n >= 35 /\ c \in MoreContents
    \/ n >= 36 /\ c \in Quotes[2]
    \/ n >= 37 /\ c \in OrganizationPerms
Plain(d) ==
    /\ d.trig = "none" /\ d.excl = {}
    /\ \A c \in Codes(d) : d.perm[c] = Org(d.perm[c].group)
    /\ \A r \in RolesOf(d) : d.role[r] = PlainRole
Early(n, d) == Plain(d) /\ (n < 39 => \A c \in Codes(d) : Sown(n, c))

(* From 0046: a role holds only what the triggers take for live, and excludes   *)
(* nothing of the platform's; the administrators' role includes new permissions *)
(* and follows no template.                                                     *)
IsAdministrators(r) ==
    r.kind = "protected_global" /\ r.org = FALSE /\ r.auto = TRUE /\ r.src = "none"
Triggers == {"legacy", "noregrant", "scoped"}
Ruled(d) ==
    /\ d.trig \in Triggers
    /\ \A p \in d.grant : Live(d, p[2])
    /\ d.trig = "scoped" => \A p \in d.excl : d.perm[p[2]].scope = "organization"
    /\ Admin \in RolesOf(d) => IsAdministrators(d.role[Admin])
(* From 0047: the administrators hold every live permission of organizations.    *)
Complete(d) ==
    /\ d.trig # "noregrant"
    /\ Admin \in RolesOf(d) => \A c \in OfOrg(d) : <<Admin, c>> \in d.grant

CatalogueInv(n, d) ==
    /\ d.ok /\ Shaped(d) /\ Sound(d)
    /\ n < 46 => Early(n, d)
    /\ n >= 46 => Ruled(d)
    /\ n >= 47 => Complete(d) /\ (n >= 55 <=> d.trig = "scoped")
    /\ n \in {46, 47, 48, 49, 50, 51, 52, 53, 54} => d.trig # "scoped"
    /\ n >= 52 => Admin \in RolesOf(d)

-------------------------------------------------------------------------------
(* The invariant of a population p beside the catalogue d at revision n.         *)

IsPopulation(p) ==
    p = [user |-> p.user, member |-> p.member, orole |-> p.orole, assign |-> p.assign,
         owner |-> p.owner, last |-> p.last, valid |-> p.valid, ok |-> p.ok]
IsMember(m) == m = [user |-> m.user, org |-> m.org, status |-> m.status,
                    role |-> m.role, at |-> m.at]
IsAssignment(a) == a = [user |-> a.user, org |-> a.org, role |-> a.role,
                        status |-> a.status, at |-> a.at]
Placed(p) ==
    /\ IsPopulation(p)
    /\ IsFiniteSet(p.member) /\ IsFiniteSet(p.assign) /\ IsFiniteSet(DOMAIN p.user)
    /\ \A u \in DOMAIN p.user : p.user[u] = [super |-> p.user[u].super, org |-> p.user[u].org]
    /\ \A m \in p.member :
         IsMember(m) /\ m.at \in Nat /\ m.org # "none" /\ m.user \in DOMAIN p.user
    /\ \A a \in p.assign :
         IsAssignment(a) /\ a.at \in Nat /\ a.org # "none" /\ a.user \in DOMAIN p.user

(* Super admins keep what roles they had when they were made so, all in one         *)
(* organization; anybody else acts at home.                                     *)
SupersAgree(p) == \A a, b \in Assigned(p) :
                    a.user = b.user /\ a.user \in Supers(p) => a.org = b.org
MembersHome(p) == \A a \in Assigned(p) : a.user \notin Supers(p) => p.user[a.user].org = a.org

PeopleInv(n, p, d) ==
    /\ p.ok /\ Placed(p)
    /\ \A m \in p.member : m.role # "none" => n < 16 /\ m.role \in RolesOf(d)
    /\ \A a \in p.assign : n >= 12 /\ (a.role # "none" => a.role \in RolesOf(d))
    /\ n >= 47 => SupersAgree(p)
    /\ n >= 57 => MembersHome(p)

-------------------------------------------------------------------------------
(* The invariant of a database x at revision n.                                  *)

Releasing(s) == \A f \in Fks(s) : f[5] \in {"CASCADE", "SET NULL"}
IsDatabase(x) == x = [ok |-> x.ok, schema |-> x.schema, cat |-> x.cat,
                      people |-> x.people, rows |-> x.rows]
DatabaseInv(n, x) ==
    /\ CatalogueInv(n, x.cat)
    /\ PeopleInv(n, x.people, x.cat)
    /\ n >= 39 => Releasing(x.schema)
    /\ x.rows \subseteq RowKinds

-------------------------------------------------------------------------------
(* The idioms of the scripts.                                                    *)

(* e is d after statements that leave the roles and the triggers, and keep what   *)
(* holds of the rest unless one of them raises.                                  *)
Keeps(d, e) ==
    /\ Shaped(e) /\ (e.ok => d.ok)
    /\ RolesOf(e) = RolesOf(d) /\ e.trig = d.trig
    /\ e.ok /\ Sound(d) => Sound(e)
    /\ e.ok /\ Sound(d) /\ Plain(d) => Plain(e)
    /\ e.ok /\ Sound(d) /\ Ruled(d) => Ruled(e)
    /\ e.ok /\ Sound(d) /\ Ruled(d) /\ Complete(d) => Complete(e)

LEMMA KeepsAll ==
    ASSUME NEW d, NEW e, NEW f, Keeps(d, e), Keeps(e, f)
    PROVE  Keeps(d, f)
BY DEF Keeps

LEMMA KeepsSelf ==
    ASSUME NEW d, Shaped(d)
    PROVE  Keeps(d, d)
BY DEF Keeps

LEMMA KeepsShaped ==
    ASSUME NEW d, NEW e, Keeps(d, e)
    PROVE  Shaped(e) /\ RolesOf(e) = RolesOf(d) /\ e.trig = d.trig /\ (e.ok => d.ok)
BY DEF Keeps

LEMMA NeedFacts ==
    ASSUME NEW d, IsCatalogue(d), NEW p
    PROVE  LET e == Need(d, p)
           IN  /\ IsCatalogue(e)
               /\ e.perm = d.perm /\ e.role = d.role /\ e.group = d.group
               /\ e.grant = d.grant /\ e.excl = d.excl
               /\ e.trig = d.trig /\ e.cascade = d.cascade
               /\ e.ok = (d.ok /\ p)
BY DEF IsCatalogue, Need

LEMMA GrantAllKeeps ==
    ASSUME NEW d, Shaped(d), NEW pairs,
           d.ok /\ Sound(d) => pairs \subseteq RolesOf(d) \X Codes(d)
    PROVE  LET e == GrantAll(d, pairs)
           IN  /\ Keeps(d, e) /\ e.perm = d.perm /\ e.role = d.role /\ e.group = d.group
               /\ e.grant = d.grant \cup pairs /\ e.excl = d.excl
<1> DEFINE e == GrantAll(d, pairs)
           h == [d EXCEPT !.grant = @ \cup pairs]
           b == d.trig = "none" \/ \A p \in pairs : Live(d, p[2])
<1>0. /\ IsCatalogue(h)
      /\ h.perm = d.perm /\ h.role = d.role /\ h.group = d.group /\ h.excl = d.excl
      /\ h.trig = d.trig /\ h.grant = d.grant \cup pairs /\ h.ok = d.ok
  BY DEF Shaped, IsCatalogue
<1>1. /\ IsCatalogue(e)
      /\ e.perm = d.perm /\ e.role = d.role /\ e.group = d.group /\ e.excl = d.excl
      /\ e.trig = d.trig /\ e.grant = d.grant \cup pairs
      /\ e.ok => d.ok /\ (d.trig = "none" \/ \A p \in pairs : Live(d, p[2]))
  <2>1. e = Need(h, b)
    BY DEF GrantAll
  <2> HIDE DEF e, h, b
  <2>2. /\ IsCatalogue(e) /\ e.perm = h.perm /\ e.role = h.role /\ e.group = h.group
        /\ e.grant = h.grant /\ e.excl = h.excl /\ e.trig = h.trig /\ e.ok = (h.ok /\ b)
    BY <1>0, <2>1, NeedFacts
  <2>3. e.ok => d.ok /\ b
    BY <1>0, <2>2, Zenon
  <2> QED BY <1>0, <2>2, <2>3 DEF b
<1>2. Shaped(e)
  BY <1>1 DEF Shaped, Codes, RolesOf
<1>3. \A c : Live(e, c) <=> Live(d, c)
  BY <1>1 DEF Live
<1>4. e.ok /\ Sound(d) => Sound(e)
  BY <1>1 DEF Sound, Codes, RolesOf, Groups_
<1>5. e.ok /\ Ruled(d) => Ruled(e)
  BY <1>1, <1>3 DEF Ruled, RolesOf, Triggers
<1>6. Complete(d) => Complete(e)
  BY <1>1 DEF Complete, OfOrg, Active, Codes, RolesOf
<1>7. Plain(d) => Plain(e)
  BY <1>1 DEF Plain, Codes, RolesOf
<1> QED BY <1>1, <1>2, <1>4, <1>5, <1>6, <1>7 DEF Keeps, RolesOf

LEMMA InsertKeeps ==
    ASSUME NEW d, Shaped(d), NEW f,
           \A c \in DOMAIN f \ Codes(d) : IsPermission(f[c]),
           d.ok /\ Sound(d) => \A c \in DOMAIN f \ Codes(d) : f[c].group \in Groups_(d),
           d.trig = "none" => \A c \in DOMAIN f : f[c] = Org(f[c].group)
    PROVE  LET e == Insert(d, f)
           IN  /\ Keeps(d, e)
               /\ Codes(e) = Codes(d) \cup DOMAIN f
               /\ e.role = d.role /\ e.group = d.group /\ e.ok = d.ok /\ e.excl = d.excl
               /\ \A c \in Codes(d) : e.perm[c] = d.perm[c]
               /\ \A c \in DOMAIN f \ Codes(d) : e.perm[c] = f[c]
               /\ d.grant \subseteq e.grant
<1> DEFINE e == Insert(d, f)
           new == DOMAIN f \ Codes(d)
           g == IF d.trig = "none" THEN {} ELSE AutoRoles(d) \X {c \in new : Live(e, c)}
<1>1. /\ IsCatalogue(e)
      /\ e.perm = Over(d.perm, f) /\ e.role = d.role /\ e.group = d.group
      /\ e.excl = d.excl /\ e.trig = d.trig /\ e.ok = d.ok
      /\ e.grant = d.grant \cup g
  BY DEF Insert, Shaped, IsCatalogue, Live, AutoRoles, RolesOf, Codes
<1>2. /\ Codes(e) = Codes(d) \cup DOMAIN f
      /\ \A c \in Codes(d) : e.perm[c] = d.perm[c]
      /\ \A c \in new : e.perm[c] = f[c]
  BY <1>1 DEF Codes, Over
<1>3. \A c \in Codes(d) : Live(e, c) <=> Live(d, c)
  BY <1>1, <1>2 DEF Live
<1>4. Shaped(e)
  BY <1>1, <1>2 DEF Shaped, RolesOf
<1>5. \A p \in g : p[1] \in AutoRoles(d) /\ p[2] \in new /\ Live(e, p[2]) /\ p = <<p[1], p[2]>>
  OBVIOUS
<1>6. e.ok /\ Sound(d) => Sound(e)
  <2>1. g \subseteq RolesOf(e) \X Codes(e)
    BY <1>1, <1>2, <1>5 DEF AutoRoles, RolesOf
  <2> QED BY <1>1, <1>2, <2>1 DEF Sound, RolesOf, Groups_
<1>7. Sound(d) /\ Plain(d) => Plain(e)
  BY <1>1, <1>2 DEF Plain, RolesOf
<1>8. Sound(d) /\ Ruled(d) => Ruled(e)
  <2>1. Sound(d) => \A p \in d.grant \cup d.excl : p[2] \in Codes(d)
    BY DEF Sound
  <2>2. Sound(d) /\ Ruled(d) => \A p \in e.grant : Live(e, p[2])
    BY <1>1, <1>3, <1>5, <2>1 DEF Ruled
  <2> QED BY <1>1, <1>2, <2>1, <2>2 DEF Ruled, RolesOf
<1>9. Ruled(d) /\ Complete(d) => Complete(e)
  <2>1. SUFFICES ASSUME Ruled(d), Complete(d), Admin \in RolesOf(d), NEW c \in OfOrg(e)
                 PROVE  <<Admin, c>> \in e.grant
    BY <1>1 DEF Complete, RolesOf
  <2>2. CASE c \in Codes(d)
    BY <1>1, <1>2, <2>1, <2>2 DEF Complete, OfOrg, Active
  <2>3. CASE c \in new
    <3>1. Admin \in AutoRoles(d) /\ d.trig # "none"
      BY <2>1 DEF Ruled, IsAdministrators, AutoRoles, Triggers
    <3>2. Live(e, c)
      BY <2>1 DEF OfOrg, Active, Live
    <3> QED BY <1>1, <2>3, <3>1, <3>2
  <2> QED BY <1>2, <2>1, <2>2, <2>3 DEF OfOrg, Active
<1> QED BY <1>1, <1>2, <1>4, <1>6, <1>7, <1>8, <1>9 DEF Keeps, RolesOf

(* An UPDATE of existing permissions, all but its effect on exclusions.           *)
LEMMA RewriteFacts ==
    ASSUME NEW d, Shaped(d), NEW f, DOMAIN f \subseteq Codes(d), d.trig \in Triggers,
           \A c \in DOMAIN f : IsPermission(f[c])
    PROVE  LET e == Rewrite(d, f)
           IN  /\ Shaped(e) /\ Codes(e) = Codes(d)
               /\ e.role = d.role /\ e.group = d.group /\ e.ok = d.ok
               /\ e.excl = d.excl /\ e.trig = d.trig
               /\ \A c \in DOMAIN f : e.perm[c] = f[c]
               /\ \A c \in Codes(d) \ DOMAIN f : e.perm[c] = d.perm[c]
               /\ Sound(d) /\ (\A c \in DOMAIN f : f[c].group \in Groups_(d)) => Sound(e)
               /\ Sound(d) /\ Ruled(d) => \A p \in e.grant : Live(e, p[2])
               /\ Ruled(d) /\ Complete(d) => Complete(e)
<1> DEFINE e == Rewrite(d, f)
           live == {c \in DOMAIN f : Live(e, c)}
           g == IF d.trig = "noregrant" THEN {} ELSE AutoRoles(d) \X live
<1>1. /\ IsCatalogue(e)
      /\ e.perm = Over(f, d.perm) /\ e.role = d.role /\ e.group = d.group
      /\ e.excl = d.excl /\ e.trig = d.trig /\ e.ok = d.ok
  BY DEF Rewrite, Shaped, IsCatalogue, Triggers
<1>2. /\ Codes(e) = Codes(d)
      /\ \A c \in DOMAIN f : e.perm[c] = f[c]
      /\ \A c \in Codes(d) \ DOMAIN f : e.perm[c] = d.perm[c]
  BY <1>1 DEF Codes, Over
<1>3. e.grant = {p \in d.grant : p[2] \notin DOMAIN f \ live} \cup g
  <2> DEFINE h == [d EXCEPT !.perm = Over(f, @)]
  <2>1. \A c : Live(h, c) <=> Live(e, c)
    BY <1>1 DEF Live, Shaped, IsCatalogue
  <2>2. DOMAIN f \cap Codes(d) = DOMAIN f /\ {c \in DOMAIN f : Live(h, c)} = live
    BY <2>1
  <2>3. h.grant = d.grant /\ h.trig = d.trig
    BY DEF Shaped, IsCatalogue
  <2> HIDE DEF live
  <2> QED BY <2>2, <2>3 DEF Rewrite, Triggers, Shaped, IsCatalogue
<1>4. \A c \in Codes(d) \ DOMAIN f : Live(e, c) <=> Live(d, c)
  BY <1>1, <1>2 DEF Live
<1>5. Shaped(e)
  BY <1>1, <1>2 DEF Shaped, RolesOf
<1>6. \A p \in g : p[1] \in AutoRoles(d) /\ p[2] \in live /\ p = <<p[1], p[2]>>
  OBVIOUS
<1>7. Sound(d) /\ (\A c \in DOMAIN f : f[c].group \in Groups_(d)) => Sound(e)
  <2>1. g \subseteq RolesOf(e) \X Codes(e)
    BY <1>1, <1>2, <1>6 DEF AutoRoles, RolesOf
  <2> QED BY <1>1, <1>2, <1>3, <2>1 DEF Sound, RolesOf, Groups_
<1>8. Sound(d) /\ Ruled(d) => \A p \in e.grant : Live(e, p[2])
  <2>1. Sound(d) => \A p \in d.grant : p[2] \in Codes(d)
    BY DEF Sound
  <2> QED BY <1>3, <1>4, <1>6, <2>1 DEF Ruled
<1>9. Ruled(d) /\ Complete(d) => Complete(e)
  <2>1. SUFFICES ASSUME Ruled(d), Complete(d), Admin \in RolesOf(d), NEW c \in OfOrg(e)
                 PROVE  <<Admin, c>> \in e.grant
    BY <1>1 DEF Complete, RolesOf
  <2>2. CASE c \notin DOMAIN f
    <3>1. c \in OfOrg(d)
      BY <1>2, <2>1, <2>2 DEF OfOrg, Active
    <3> QED BY <1>3, <2>1, <2>2, <3>1 DEF Complete
  <2>3. CASE c \in DOMAIN f
    <3>1. Admin \in AutoRoles(d) /\ d.trig # "noregrant"
      BY <2>1 DEF Ruled, IsAdministrators, AutoRoles, Complete
    <3>2. Live(e, c)
      BY <2>1 DEF OfOrg, Active, Live
    <3> QED BY <1>3, <2>3, <3>1, <3>2
  <2> QED BY <2>2, <2>3
<1> QED BY <1>1, <1>2, <1>5, <1>7, <1>8, <1>9

LEMMA RewriteKeeps ==
    ASSUME NEW d, Shaped(d), NEW f, DOMAIN f \subseteq Codes(d), d.trig \in Triggers,
           \A c \in DOMAIN f :
              IsPermission(f[c]) /\ f[c].scope \in {"organization", d.perm[c].scope},
           d.ok /\ Sound(d) => \A c \in DOMAIN f : f[c].group \in Groups_(d)
    PROVE  LET e == Rewrite(d, f)
           IN  /\ Keeps(d, e) /\ Codes(e) = Codes(d) /\ e.role = d.role /\ e.group = d.group
               /\ \A c \in DOMAIN f : e.perm[c] = f[c]
<1> DEFINE e == Rewrite(d, f)
<1>1. /\ Shaped(e) /\ Codes(e) = Codes(d)
      /\ e.role = d.role /\ e.group = d.group /\ e.ok = d.ok
      /\ e.excl = d.excl /\ e.trig = d.trig
      /\ \A c \in DOMAIN f : e.perm[c] = f[c]
      /\ \A c \in Codes(d) \ DOMAIN f : e.perm[c] = d.perm[c]
      /\ Sound(d) /\ (\A c \in DOMAIN f : f[c].group \in Groups_(d)) => Sound(e)
      /\ Sound(d) /\ Ruled(d) => \A p \in e.grant : Live(e, p[2])
      /\ Ruled(d) /\ Complete(d) => Complete(e)
  BY RewriteFacts
<1> HIDE DEF e
<1>2. Sound(d) => \A p \in d.excl : p[2] \in Codes(d)
  BY DEF Sound
<1>3. Sound(d) /\ Ruled(d) => Ruled(e)
  BY <1>1, <1>2 DEF Ruled, RolesOf
<1>4. Keeps(d, e)
  BY <1>1, <1>3 DEF Keeps, RolesOf, Plain, Triggers
<1> QED BY <1>1, <1>4 DEF e

(* What deleting the permissions cs leaves.                                       *)
LEMMA LessKeeps ==
    ASSUME NEW d, Shaped(d), NEW cs, NEW e, IsCatalogue(e),
           e.perm = Without(d.perm, cs), e.role = d.role, e.group = d.group,
           e.grant = {p \in d.grant : p[2] \notin cs}, e.excl = {p \in d.excl : p[2] \notin cs},
           e.trig = d.trig, e.ok => d.ok
    PROVE  /\ Keeps(d, e) /\ Codes(e) = Codes(d) \ cs
           /\ \A c \in Codes(e) : e.perm[c] = d.perm[c]
<1>1. Codes(e) = Codes(d) \ cs /\ \A c \in Codes(e) : e.perm[c] = d.perm[c]
  BY DEF Codes, Without
<1>2. Shaped(e)
  BY <1>1 DEF Shaped, RolesOf
<1>3. Sound(d) => Sound(e)
  BY <1>1 DEF Sound, RolesOf, Groups_
<1>4. Plain(d) => Plain(e)
  BY <1>1 DEF Plain, RolesOf
<1>5. Sound(d) /\ Ruled(d) => Ruled(e)
  <2>1. Sound(d) => \A p \in d.grant \cup d.excl : p[2] \in Codes(d)
    BY DEF Sound
  <2>2. \A c \in Codes(e) : Live(e, c) <=> Live(d, c)
    BY <1>1 DEF Live
  <2> QED BY <1>1, <2>1, <2>2 DEF Ruled, RolesOf
<1>6. Complete(d) => Complete(e)
  BY <1>1 DEF Complete, OfOrg, Active, RolesOf
<1> QED BY <1>1, <1>2, <1>3, <1>4, <1>5, <1>6 DEF Keeps, RolesOf

LEMMA RevokeFacts ==
    ASSUME NEW d, IsCatalogue(d), NEW cs
    PROVE  LET e == Revoke(d, cs)
           IN  /\ IsCatalogue(e)
               /\ e.perm = d.perm /\ e.role = d.role /\ e.group = d.group
               /\ e.grant = {p \in d.grant : p[2] \notin cs}
               /\ e.excl = {p \in d.excl : p[2] \notin cs}
               /\ e.trig = d.trig /\ e.cascade = d.cascade /\ e.ok = d.ok
<1> DEFINE G == {p \in d.grant : p[2] \notin cs}
           X == {p \in d.excl : p[2] \notin cs}
           e == Revoke(d, cs)
<1>1. e = [d EXCEPT !.grant = G, !.excl = X]
  BY DEF Revoke
<1> HIDE DEF G, X, e
<1>2. /\ IsCatalogue(e)
      /\ e.perm = d.perm /\ e.role = d.role /\ e.group = d.group
      /\ e.grant = G /\ e.excl = X
      /\ e.trig = d.trig /\ e.cascade = d.cascade /\ e.ok = d.ok
  BY <1>1 DEF IsCatalogue
<1> QED BY <1>2 DEF G, X, e

LEMMA DropFacts ==
    ASSUME NEW d, IsCatalogue(d), NEW cs
    PROVE  LET e == Drop(d, cs)
           IN  /\ IsCatalogue(e)
               /\ e.perm = Without(d.perm, cs) /\ e.role = d.role /\ e.group = d.group
               /\ e.grant = {p \in d.grant : p[2] \notin cs}
               /\ e.excl = {p \in d.excl : p[2] \notin cs}
               /\ e.trig = d.trig /\ e.cascade = d.cascade /\ (e.ok => d.ok)
<1> DEFINE e == Drop(d, cs)
           h == [d EXCEPT !.perm = Without(@, cs),
                          !.grant = {p \in @ : p[2] \notin cs},
                          !.excl = {p \in @ : p[2] \notin cs}]
           c == d.cascade \/ \A p \in d.grant : p[2] \notin cs
           W == Without(d.perm, cs)
           G == {p \in d.grant : p[2] \notin cs}
           X == {p \in d.excl : p[2] \notin cs}
<1>1. /\ IsCatalogue(h)
      /\ h.perm = W /\ h.role = d.role /\ h.group = d.group
      /\ h.grant = G /\ h.excl = X
      /\ h.trig = d.trig /\ h.cascade = d.cascade /\ h.ok = d.ok
  <2> HIDE DEF W, G, X
  <2>1. h = [d EXCEPT !.perm = W, !.grant = G, !.excl = X]
    BY DEF W, G, X
  <2> HIDE DEF h
  <2> QED BY <2>1 DEF IsCatalogue
<1>2. e = Need(h, c)
  BY DEF Drop
<1> HIDE DEF e, h, c
<1>3. /\ IsCatalogue(e) /\ e.perm = h.perm /\ e.role = h.role /\ e.group = h.group
      /\ e.grant = h.grant /\ e.excl = h.excl /\ e.trig = h.trig
      /\ e.cascade = h.cascade /\ e.ok = (h.ok /\ c)
  BY <1>1, <1>2, NeedFacts
<1>4. e.ok => d.ok
  BY <1>1, <1>3, Zenon
<1> QED BY <1>1, <1>3, <1>4 DEF e

LEMMA DropKeeps ==
    ASSUME NEW d, Shaped(d), NEW cs
    PROVE  LET e == Drop(d, cs)
           IN  /\ Keeps(d, e) /\ Codes(e) = Codes(d) \ cs
               /\ e.group = d.group /\ e.role = d.role /\ e.cascade = d.cascade
               /\ \A c \in Codes(d) \ cs : e.perm[c] = d.perm[c]
<1> DEFINE e == Drop(d, cs)
<1>1. /\ IsCatalogue(e)
      /\ e.perm = Without(d.perm, cs) /\ e.role = d.role /\ e.group = d.group
      /\ e.grant = {p \in d.grant : p[2] \notin cs} /\ e.excl = {p \in d.excl : p[2] \notin cs}
      /\ e.trig = d.trig /\ e.cascade = d.cascade /\ (e.ok => d.ok)
  BY DropFacts DEF Shaped
<1> HIDE DEF e
<1>2. Keeps(d, e) /\ Codes(e) = Codes(d) \ cs /\ \A c \in Codes(e) : e.perm[c] = d.perm[c]
  BY <1>1, LessKeeps
<1> QED BY <1>1, <1>2 DEF e

LEMMA PurgeKeeps ==
    ASSUME NEW d, Shaped(d), NEW cs
    PROVE  LET e == Purge(d, cs)
           IN  /\ Keeps(d, e) /\ Codes(e) = Codes(d) \ cs
               /\ e.group = d.group /\ e.role = d.role /\ e.cascade = d.cascade
               /\ \A c \in Codes(d) \ cs : e.perm[c] = d.perm[c]
<1> DEFINE r == Revoke(d, cs)
           e == Drop(r, cs)
<1>1. IsCatalogue(d)
  BY DEF Shaped
<1>2. /\ IsCatalogue(r) /\ r.perm = d.perm /\ r.role = d.role /\ r.group = d.group
      /\ r.grant = {p \in d.grant : p[2] \notin cs} /\ r.excl = {p \in d.excl : p[2] \notin cs}
      /\ r.trig = d.trig /\ r.cascade = d.cascade /\ r.ok = d.ok
  BY <1>1, RevokeFacts
<1> HIDE DEF r
<1>3. /\ IsCatalogue(e) /\ e.perm = Without(d.perm, cs) /\ e.role = d.role /\ e.group = d.group
      /\ e.grant = {p \in r.grant : p[2] \notin cs} /\ e.excl = {p \in r.excl : p[2] \notin cs}
      /\ e.trig = d.trig /\ e.cascade = d.cascade /\ (e.ok => d.ok)
  BY <1>2, DropFacts
<1>4. e.grant = {p \in d.grant : p[2] \notin cs} /\ e.excl = {p \in d.excl : p[2] \notin cs}
  BY <1>2, <1>3
<1>5. Purge(d, cs) = e
  BY DEF Purge, r
<1> HIDE DEF e
<1>6. Keeps(d, e) /\ Codes(e) = Codes(d) \ cs /\ \A c \in Codes(e) : e.perm[c] = d.perm[c]
  BY <1>3, <1>4, LessKeeps
<1> QED BY <1>3, <1>5, <1>6
LEMMA NeedKeeps ==
    ASSUME NEW d, Shaped(d), NEW p
    PROVE  LET e == Need(d, p)
           IN  /\ Keeps(d, e) /\ e.ok = (d.ok /\ p) /\ IsCatalogue(e)
               /\ e.perm = d.perm /\ e.role = d.role /\ e.group = d.group
               /\ e.grant = d.grant /\ e.excl = d.excl /\ e.trig = d.trig
<1> DEFINE e == Need(d, p)
<1>1. /\ IsCatalogue(e)
      /\ e.perm = d.perm /\ e.role = d.role /\ e.group = d.group
      /\ e.grant = d.grant /\ e.excl = d.excl
      /\ e.trig = d.trig /\ e.cascade = d.cascade
      /\ e.ok = (d.ok /\ p)
  BY NeedFacts DEF Shaped
<1> HIDE DEF e
<1>2. e.ok => d.ok
  BY <1>1, Zenon
<1>3. Shaped(e) /\ (Sound(d) => Sound(e)) /\ (Plain(d) => Plain(e))
  BY <1>1 DEF Shaped, Sound, Plain, Codes, RolesOf, Groups_
<1>4. (Ruled(d) => Ruled(e)) /\ (Complete(d) => Complete(e))
  BY <1>1 DEF Ruled, Complete, Codes, RolesOf, Live, OfOrg, Active
<1>5. Keeps(d, e)
  BY <1>1, <1>2, <1>3, <1>4 DEF Keeps, RolesOf
<1> QED BY <1>1, <1>5 DEF e

LEMMA GroupsKeep ==
    ASSUME NEW d, Shaped(d), NEW F,
           d.ok /\ Sound(d) => \A c \in Codes(d) : d.perm[c].group \in DOMAIN F
    PROVE  LET e == [d EXCEPT !.group = F]
           IN  /\ Keeps(d, e) /\ e.group = F /\ e.perm = d.perm /\ e.role = d.role
               /\ e.grant = d.grant /\ e.excl = d.excl /\ e.ok = d.ok
<1> DEFINE e == [d EXCEPT !.group = F]
<1>1. /\ IsCatalogue(e) /\ e.group = F
      /\ e.perm = d.perm /\ e.role = d.role /\ e.grant = d.grant /\ e.excl = d.excl
      /\ e.trig = d.trig /\ e.ok = d.ok
  BY DEF Shaped, IsCatalogue
<1> HIDE DEF e
<1>2. Shaped(e) /\ (e.ok /\ Sound(d) => Sound(e)) /\ (Plain(d) => Plain(e))
  BY <1>1 DEF Shaped, Sound, Plain, Codes, RolesOf, Groups_
<1>3. (Ruled(d) => Ruled(e)) /\ (Complete(d) => Complete(e))
  BY <1>1 DEF Ruled, Complete, Codes, RolesOf, Live, OfOrg, Active
<1>4. Keeps(d, e)
  BY <1>1, <1>2, <1>3 DEF Keeps, RolesOf
<1> QED BY <1>1, <1>4 DEF e

LEMMA EnsureGroupKeeps ==
    ASSUME NEW d, Shaped(d), NEW g, NEW module
    PROVE  LET e == EnsureGroup(d, g, module)
           IN  /\ Keeps(d, e) /\ Groups_(e) = Groups_(d) \cup {g}
               /\ e.perm = d.perm /\ e.role = d.role /\ e.ok = d.ok
<1> DEFINE F == Over(d.group, Only(g, module))
           e == [d EXCEPT !.group = F]
<1>1. DOMAIN F = Groups_(d) \cup {g}
  BY DEF Over, Only, Groups_
<1>2. Sound(d) => \A c \in Codes(d) : d.perm[c].group \in DOMAIN F
  BY <1>1 DEF Sound
<1>3. EnsureGroup(d, g, module) = e
  BY DEF EnsureGroup
<1> HIDE DEF F
<1>4. Keeps(d, e) /\ e.group = F /\ e.perm = d.perm /\ e.role = d.role /\ e.ok = d.ok
  BY <1>2, GroupsKeep
<1> HIDE DEF e
<1> QED BY <1>1, <1>3, <1>4 DEF Groups_

LEMMA PermissionFacts ==
    ASSUME NEW g
    PROVE  /\ IsPermission(Org(g)) /\ Org(g).group = g /\ Org(g).scope = "organization"
           /\ Org(g).state = "active"
           /\ IsPermission(Sys(g)) /\ Sys(g).group = g /\ Sys(g).scope = "system"
           /\ Sys(g).state = "active"
<1> DEFINE o == Org(g)
           s == Sys(g)
<1>1. IsPermission(o) /\ o.group = g /\ o.scope = "organization" /\ o.state = "active"
  BY DEF Org, IsPermission
<1>2. s = [o EXCEPT !.assignable = FALSE, !.scope = "system"]
  BY DEF Sys
<1> HIDE DEF o, s
<1>3. IsPermission(s) /\ s.group = g /\ s.scope = "system" /\ s.state = "active"
  BY <1>1, <1>2 DEF IsPermission
<1> QED BY <1>1, <1>3 DEF o, s

LEMMA SeedKeeps ==
    ASSUME NEW d, Shaped(d), NEW g, NEW module, NEW cs
    PROVE  LET e == Seed(d, g, module, cs)
           IN  Keeps(d, e) /\ Codes(e) = Codes(d) \cup cs /\ e.role = d.role
<1> DEFINE a == EnsureGroup(d, g, module)
           f == [c \in cs |-> Org(g)]
           e == Insert(a, f)
<1>1. Keeps(d, a) /\ Groups_(a) = Groups_(d) \cup {g} /\ a.perm = d.perm /\ a.role = d.role
  BY EnsureGroupKeeps
<1>2. Seed(d, g, module, cs) = e
  BY DEF Seed
<1> HIDE DEF a
<1>3. Shaped(a) /\ Codes(a) = Codes(d)
  BY <1>1, KeepsShaped DEF Codes
<1>4. \A c \in DOMAIN f : /\ IsPermission(f[c]) /\ f[c].group \in Groups_(a)
                          /\ f[c] = Org(f[c].group)
  BY <1>1, PermissionFacts
<1>5. DOMAIN f = cs
  OBVIOUS
<1> HIDE DEF f
<1>6. Keeps(a, e) /\ Codes(e) = Codes(a) \cup DOMAIN f /\ e.role = a.role
  BY <1>3, <1>4, InsertKeeps
<1> HIDE DEF e
<1>7. Keeps(d, e)
  BY <1>1, <1>6, KeepsAll
<1> QED BY <1>1, <1>2, <1>3, <1>5, <1>6, <1>7

LEMMA DropGroupKeeps ==
    ASSUME NEW d, Shaped(d), NEW g
    PROVE  LET e == DropGroup(d, g)
           IN  Keeps(d, e) /\ Codes(e) \subseteq Codes(d) /\ e.role = d.role
<1> DEFINE drop == Drop(d, Members(d, g))
           need == Need(d, Members(d, g) = {})
           a == IF d.cascade THEN drop ELSE need
           F == Without(a.group, {g})
           e == [a EXCEPT !.group = F]
<1>1. DropGroup(d, g) = e
  BY DEF DropGroup
<1>2. /\ Keeps(d, drop) /\ Codes(drop) = Codes(d) \ Members(d, g) /\ drop.role = d.role
      /\ \A c \in Codes(drop) : drop.perm[c] = d.perm[c]
  <2> HIDE DEF drop
  <2> QED BY DropKeeps DEF drop
<1>3. /\ Keeps(d, need) /\ Codes(need) = Codes(d) /\ need.role = d.role /\ need.perm = d.perm
      /\ (need.ok => Members(d, g) = {})
  <2>1. /\ Keeps(d, need) /\ need.ok = (d.ok /\ Members(d, g) = {})
        /\ need.perm = d.perm /\ need.role = d.role
    BY NeedKeeps
  <2> HIDE DEF need
  <2>2. need.ok => Members(d, g) = {}
    BY <2>1, Zenon
  <2> QED BY <2>1, <2>2 DEF Codes
<1> HIDE DEF drop, need
<1>4. /\ Keeps(d, a) /\ Codes(a) \subseteq Codes(d) /\ a.role = d.role
      /\ \A c \in Codes(a) : a.perm[c] = d.perm[c]
      /\ a.ok => Codes(a) \cap Members(d, g) = {}
  <2>1. CASE d.cascade
    BY <1>2, <2>1
  <2>2. CASE ~d.cascade
    BY <1>3, <2>2
  <2> QED BY <2>1, <2>2
<1> HIDE DEF a
<1>5. Shaped(a)
  BY <1>4, KeepsShaped
<1>6. a.ok /\ Sound(a) => \A c \in Codes(a) : a.perm[c].group \in DOMAIN F
  BY <1>4 DEF Sound, Members, Groups_, Without
<1> HIDE DEF F
<1>7. Keeps(a, e) /\ e.perm = a.perm /\ e.role = a.role
  BY <1>5, <1>6, GroupsKeep
<1> HIDE DEF e
<1>8. Keeps(d, e)
  BY <1>4, <1>7, KeepsAll
<1> QED BY <1>1, <1>4, <1>7, <1>8 DEF Codes

LEMMA DropGroupIfEmptyKeeps ==
    ASSUME NEW d, Shaped(d), NEW g
    PROVE  LET e == DropGroupIfEmpty(d, g)
           IN  Keeps(d, e) /\ Codes(e) \subseteq Codes(d) /\ e.role = d.role
<1>1. CASE Members(d, g) = {}
  BY <1>1, DropGroupKeeps DEF DropGroupIfEmpty
<1>2. CASE Members(d, g) # {}
  BY <1>2, KeepsSelf DEF DropGroupIfEmpty
<1> QED BY <1>1, <1>2

LEMMA SeedAllKeeps ==
    ASSUME NEW d, Shaped(d), NEW catalogue
    PROVE  LET e == SeedAll(d, catalogue)
           IN  /\ Keeps(d, e) /\ Codes(e) = Codes(d) \cup CatalogueCodes(catalogue)
               /\ e.role = d.role
<1> DEFINE F == Over(d.group, [g \in {x[1] : x \in catalogue} |-> "fair_crm"])
           a == [d EXCEPT !.group = F]
           f == [c \in UNION {x[2] : x \in catalogue} |->
                   Org((CHOOSE x \in catalogue : c \in x[2])[1])]
           e == Insert(a, f)
<1>1. SeedAll(d, catalogue) = e
  BY DEF SeedAll
<1>2. DOMAIN F = Groups_(d) \cup {x[1] : x \in catalogue}
  BY DEF Over, Groups_
<1>3. DOMAIN f = CatalogueCodes(catalogue)
  BY DEF CatalogueCodes
<1>4. \A c \in DOMAIN f : /\ IsPermission(f[c]) /\ f[c].group \in DOMAIN F
                          /\ f[c] = Org(f[c].group)
  <2> SUFFICES ASSUME NEW c \in DOMAIN f
               PROVE  /\ IsPermission(f[c]) /\ f[c].group \in DOMAIN F
                      /\ f[c] = Org(f[c].group)
    OBVIOUS
  <2> DEFINE x == CHOOSE y \in catalogue : c \in y[2]
  <2>1. \E y \in catalogue : c \in y[2]
    OBVIOUS
  <2>2. x \in catalogue
    BY <2>1
  <2>3. f[c] = Org(x[1])
    OBVIOUS
  <2> HIDE DEF x, f
  <2> QED BY <1>2, <2>2, <2>3, PermissionFacts
<1>5. Sound(d) => \A c \in Codes(d) : d.perm[c].group \in DOMAIN F
  BY <1>2 DEF Sound
<1> HIDE DEF F, f
<1>6. Keeps(d, a) /\ a.group = F /\ a.perm = d.perm /\ a.role = d.role
  BY <1>5, GroupsKeep
<1> HIDE DEF a
<1>7. Shaped(a) /\ Codes(a) = Codes(d) /\ Groups_(a) = DOMAIN F
  BY <1>6, KeepsShaped DEF Codes, Groups_
<1>8. Keeps(a, e) /\ Codes(e) = Codes(a) \cup DOMAIN f /\ e.role = a.role
  BY <1>4, <1>7, InsertKeeps
<1> HIDE DEF e
<1>9. Keeps(d, e)
  BY <1>6, <1>8, KeepsAll
<1> QED BY <1>1, <1>3, <1>6, <1>7, <1>8, <1>9

(* A permission takes a code that is free.                                        *)
LEMMA RenamePermissionKeeps ==
    ASSUME NEW d, Shaped(d), NEW old, NEW new
    PROVE  LET e == RenamePermission(d, old, new)
           IN  /\ Keeps(d, e) /\ e.role = d.role
               /\ Codes(e) \subseteq (Codes(d) \ {old}) \cup {new}
<1>1. CASE old \notin Codes(d)
  BY <1>1, KeepsSelf DEF RenamePermission
<1>2. CASE old \in Codes(d)
  <2> DEFINE swap(S) == {IF p[2] = old THEN <<p[1], new>> ELSE p : p \in S}
             W == Over(Only(new, d.perm[old]), Without(d.perm, {old}))
             G == swap(d.grant)
             X == swap(d.excl)
             h == [d EXCEPT !.perm = W, !.grant = G, !.excl = X]
             free == new \notin Codes(d)
             e == Need(h, free)
  <2>1. RenamePermission(d, old, new) = e
    BY <1>2 DEF RenamePermission
  <2>2. /\ DOMAIN W = (Codes(d) \ {old}) \cup {new} /\ W[new] = d.perm[old]
        /\ \A c \in Codes(d) \ {old, new} : W[c] = d.perm[c]
    BY DEF Over, Only, Without, Codes
  <2>3. \A p \in G : \/ p \in d.grant /\ p[2] # old
                     \/ \E q \in d.grant : q[2] = old /\ p = <<q[1], new>>
    OBVIOUS
  <2>4. \A p \in d.grant : (p[2] # old => p \in G) /\ (p[2] = old => <<p[1], new>> \in G)
    OBVIOUS
  <2>5. \A p \in X : \/ p \in d.excl /\ p[2] # old
                     \/ \E q \in d.excl : q[2] = old /\ p = <<q[1], new>>
    OBVIOUS
  <2>6. d.excl = {} => X = {}
    OBVIOUS
  <2> HIDE DEF W, G, X
  <2>7. /\ IsCatalogue(h) /\ h.perm = W /\ h.grant = G /\ h.excl = X
        /\ h.role = d.role /\ h.group = d.group /\ h.trig = d.trig /\ h.ok = d.ok
    <3>1. IsCatalogue(d)
      BY DEF Shaped
    <3>2. h = [d EXCEPT !.perm = W, !.grant = G, !.excl = X]
      OBVIOUS
    <3> HIDE DEF h
    <3> QED BY <3>1, <3>2 DEF IsCatalogue
  <2> HIDE DEF h
  <2>8. Shaped(h)
    BY <1>2, <2>2, <2>7 DEF Shaped, Codes, RolesOf
  <2>9. Keeps(h, e) /\ e.ok = (h.ok /\ free) /\ e.perm = W /\ e.role = d.role
    <3> HIDE DEF free
    <3>1. Keeps(h, e) /\ e.ok = (h.ok /\ free) /\ e.perm = h.perm /\ e.role = h.role
      BY <2>8, NeedKeeps
    <3> HIDE DEF e
    <3> QED BY <2>7, <3>1, Zenon
  <2> HIDE DEF e
  <2>10. e.ok => d.ok /\ free
    BY <2>7, <2>9, Zenon
  <2>11. \A c \in Codes(d) \ {old} : free => c # new /\ (Live(h, c) <=> Live(d, c))
    BY <2>2, <2>7 DEF Live
  <2>12. Live(h, new) <=> Live(d, old)
    BY <2>2, <2>7 DEF Live
  <2>13. ASSUME free, Sound(d)
         PROVE  Sound(h)
    <3>1. \A p \in d.grant \cup d.excl : p = <<p[1], p[2]>> /\ p[1] \in RolesOf(d)
                                        /\ p[2] \in Codes(d)
      BY <2>13 DEF Sound
    <3>2. h.grant \cup h.excl \subseteq RolesOf(h) \X Codes(h)
      BY <2>2, <2>3, <2>5, <2>7, <3>1 DEF Codes, RolesOf
    <3> QED BY <1>2, <2>2, <2>7, <2>13, <3>2 DEF Sound, Codes, Groups_
  <2>14. ASSUME free, Plain(d)
         PROVE  Plain(h)
    BY <1>2, <2>2, <2>6, <2>7, <2>14 DEF Plain, Codes, RolesOf
  <2>15. ASSUME free, Sound(d), Ruled(d)
         PROVE  Ruled(h)
    <3>1. \A p \in d.grant \cup d.excl : p[2] \in Codes(d)
      BY <2>15 DEF Sound
    <3>2. \A p \in h.grant : Live(h, p[2])
      BY <2>3, <2>7, <2>11, <2>12, <2>15, <3>1 DEF Ruled
    <3>3. h.trig = "scoped" => \A p \in h.excl : h.perm[p[2]].scope = "organization"
      BY <2>2, <2>5, <2>7, <2>15, <3>1 DEF Ruled
    <3> QED BY <2>7, <2>15, <3>2, <3>3 DEF Ruled, RolesOf
  <2>16. ASSUME free, Complete(d)
         PROVE  Complete(h)
    <3> SUFFICES ASSUME Admin \in RolesOf(d), NEW c \in OfOrg(h)
                 PROVE  <<Admin, c>> \in G
      BY <2>7, <2>16 DEF Complete, RolesOf
    <3>1. CASE c = new
      <4>1. old \in OfOrg(d)
        BY <1>2, <2>2, <2>7, <3>1 DEF OfOrg, Active
      <4>2. <<Admin, old>> \in d.grant
        BY <2>16, <4>1 DEF Complete
      <4> QED BY <2>4, <3>1, <4>2
    <3>2. CASE c # new
      <4>1. c # old /\ c \in OfOrg(d)
        BY <2>2, <2>7, <3>2 DEF OfOrg, Active, Codes
      <4>2. <<Admin, c>> \in d.grant
        BY <2>16, <4>1 DEF Complete
      <4> QED BY <2>4, <4>1, <4>2
    <3> QED BY <3>1, <3>2
  <2>17. Keeps(d, e)
    BY <2>7, <2>9, <2>10, <2>13, <2>14, <2>15, <2>16 DEF Keeps, RolesOf
  <2> QED BY <2>1, <2>2, <2>9, <2>17 DEF Codes
<1> QED BY <1>1, <1>2

LEMMA RenameGroupKeeps ==
    ASSUME NEW d, Shaped(d), NEW old, NEW new
    PROVE  LET e == RenameGroup(d, old, new)
           IN  Keeps(d, e) /\ e.role = d.role /\ Codes(e) = Codes(d)
<1>1. CASE old \notin Groups_(d)
  BY <1>1, KeepsSelf DEF RenameGroup
<1>2. CASE old \in Groups_(d)
  <2> DEFINE F == Over(Only(new, d.group[old]), Without(d.group, {old}))
             W == [c \in Codes(d) |-> IF d.perm[c].group = old
                                      THEN [d.perm[c] EXCEPT !.group = new]
                                      ELSE d.perm[c]]
             h == [d EXCEPT !.group = F, !.perm = W]
             free == new \notin Groups_(d)
             e == Need(h, free)
  <2>1. RenameGroup(d, old, new) = e
    BY <1>2 DEF RenameGroup
  <2>2. DOMAIN F = (Groups_(d) \ {old}) \cup {new}
    BY DEF Over, Only, Without, Groups_
  <2>3. /\ DOMAIN W = Codes(d)
        /\ \A c \in Codes(d) :
             /\ IsPermission(W[c]) /\ W[c].state = d.perm[c].state
             /\ W[c].scope = d.perm[c].scope
             /\ W[c].group = IF d.perm[c].group = old THEN new ELSE d.perm[c].group
             /\ d.perm[c] = Org(d.perm[c].group) => W[c] = Org(W[c].group)
    <3> SUFFICES ASSUME NEW c \in Codes(d)
                 PROVE  /\ IsPermission(W[c]) /\ W[c].state = d.perm[c].state
                        /\ W[c].scope = d.perm[c].scope
                        /\ W[c].group = IF d.perm[c].group = old THEN new ELSE d.perm[c].group
                        /\ d.perm[c] = Org(d.perm[c].group) => W[c] = Org(W[c].group)
      OBVIOUS
    <3> DEFINE x == d.perm[c]
               y == [x EXCEPT !.group = new]
    <3>1. W[c] = IF x.group = old THEN y ELSE x
      OBVIOUS
    <3>2. IsPermission(x)
      BY DEF Shaped
    <3>3. y = [x EXCEPT !.group = new]
      OBVIOUS
    <3> HIDE DEF x, y, W
    <3>4. IsPermission(y) /\ y.state = x.state /\ y.scope = x.scope /\ y.group = new
      BY <3>2, <3>3 DEF IsPermission
    <3>5. ASSUME NEW g, x = Org(g)
          PROVE  y = Org(new)
      <4>1. y = [Org(g) EXCEPT !.group = new]
        BY <3>3, <3>5
      <4> QED BY <4>1 DEF Org
    <3> QED BY <3>1, <3>2, <3>4, <3>5 DEF x
  <2> HIDE DEF F, W
  <2>4. /\ IsCatalogue(h) /\ h.perm = W /\ h.group = F /\ h.grant = d.grant /\ h.excl = d.excl
        /\ h.role = d.role /\ h.trig = d.trig /\ h.ok = d.ok
    <3>1. IsCatalogue(d)
      BY DEF Shaped
    <3>2. h = [d EXCEPT !.group = F, !.perm = W]
      OBVIOUS
    <3> HIDE DEF h
    <3> QED BY <3>1, <3>2 DEF IsCatalogue
  <2> HIDE DEF h
  <2>5. Shaped(h)
    BY <2>3, <2>4 DEF Shaped, Codes, RolesOf
  <2>6. Keeps(h, e) /\ e.perm = W /\ e.role = d.role
    BY <2>4, <2>5, NeedKeeps
  <2>7. (Sound(d) => Sound(h)) /\ (Plain(d) => Plain(h))
    BY <2>2, <2>3, <2>4 DEF Sound, Plain, Codes, RolesOf, Groups_
  <2>8. \A c \in Codes(d) : Live(h, c) <=> Live(d, c)
    BY <2>3, <2>4 DEF Live
  <2>9. Sound(d) /\ Ruled(d) => Ruled(h)
    <3>1. Sound(d) => \A p \in d.grant \cup d.excl : p[2] \in Codes(d)
      BY DEF Sound
    <3> QED BY <2>3, <2>4, <2>8, <3>1 DEF Ruled, RolesOf
  <2>10. Complete(d) => Complete(h)
    BY <2>3, <2>4 DEF Complete, OfOrg, Active, Codes, RolesOf
  <2>11. Keeps(d, h)
    BY <2>4, <2>5, <2>7, <2>9, <2>10 DEF Keeps, RolesOf
  <2> HIDE DEF e
  <2>12. Keeps(d, e)
    BY <2>6, <2>11, KeepsAll
  <2> QED BY <2>1, <2>3, <2>6, <2>12 DEF Codes
<1> QED BY <1>1, <1>2

LEMMA RenameResourceKeeps ==
    ASSUME NEW d, Shaped(d), NEW old, NEW new, new # old
    PROVE  LET e == RenameResource(d, old, new)
           IN  /\ Keeps(d, e)
               /\ Codes(e) \subseteq (Codes(d) \ P(old, Crud)) \cup P(new, Crud)
<1> DEFINE a == RenameGroup(d, old, new)
           b == RenamePermission(a, <<old, "delete">>, <<new, "delete">>)
           c == RenamePermission(b, <<old, "update">>, <<new, "update">>)
           f == RenamePermission(c, <<old, "create">>, <<new, "create">>)
           e == RenamePermission(f, <<old, "read">>, <<new, "read">>)
<1>1. RenameResource(d, old, new) = e
  BY DEF RenameResource
<1>2. Keeps(d, a) /\ Codes(a) = Codes(d)
  BY RenameGroupKeeps
<1> HIDE DEF a
<1>3. /\ Keeps(a, b)
      /\ Codes(b) \subseteq (Codes(a) \ {<<old, "delete">>}) \cup {<<new, "delete">>}
  BY <1>2, KeepsShaped, RenamePermissionKeeps
<1> HIDE DEF b
<1>4. /\ Keeps(b, c)
      /\ Codes(c) \subseteq (Codes(b) \ {<<old, "update">>}) \cup {<<new, "update">>}
  BY <1>3, KeepsShaped, RenamePermissionKeeps
<1> HIDE DEF c
<1>5. /\ Keeps(c, f)
      /\ Codes(f) \subseteq (Codes(c) \ {<<old, "create">>}) \cup {<<new, "create">>}
  BY <1>4, KeepsShaped, RenamePermissionKeeps
<1> HIDE DEF f
<1>6. /\ Keeps(f, e)
      /\ Codes(e) \subseteq (Codes(f) \ {<<old, "read">>}) \cup {<<new, "read">>}
  BY <1>5, KeepsShaped, RenamePermissionKeeps
<1> HIDE DEF e
<1>7. Keeps(d, e)
  BY <1>2, <1>3, <1>4, <1>5, <1>6, KeepsAll
<1>8. \A v : v \in Crud <=> v \in {"create", "read", "update", "delete"}
  BY DEF Crud
<1>9. ASSUME NEW x \in Codes(e)
      PROVE  x \in (Codes(d) \ P(old, Crud)) \cup P(new, Crud)
  <2>1. CASE \E v \in Crud : x = <<new, v>>
    BY <2>1 DEF P
  <2>2. CASE \A v \in Crud : x # <<new, v>>
    <3>1. x \in Codes(d) /\ x \notin {<<old, "delete">>, <<old, "update">>, <<old, "create">>,
                                     <<old, "read">>}
      BY <1>2, <1>3, <1>4, <1>5, <1>6, <1>8, <1>9, <2>2
    <3> QED BY <1>8, <3>1 DEF P
  <2> QED BY <2>1, <2>2
<1> QED BY <1>1, <1>7, <1>9

LEMMA GrantKeeps ==
    ASSUME NEW d, Shaped(d), NEW rs, rs \subseteq RolesOf(d), NEW cs,
           d.ok /\ Sound(d) => cs \subseteq Codes(d)
    PROVE  LET e == Grant(d, rs, cs)
           IN  /\ Keeps(d, e) /\ e.perm = d.perm /\ e.role = d.role /\ e.group = d.group
               /\ e.grant = d.grant \cup (rs \X cs) /\ e.excl = d.excl
<1> DEFINE pairs == rs \X cs
<1>1. d.ok /\ Sound(d) => pairs \subseteq RolesOf(d) \X Codes(d)
  OBVIOUS
<1>2. Grant(d, rs, cs) = GrantAll(d, pairs)
  BY DEF Grant
<1> HIDE DEF pairs
<1>3. LET e == GrantAll(d, pairs)
      IN  /\ Keeps(d, e) /\ e.perm = d.perm /\ e.role = d.role /\ e.group = d.group
          /\ e.grant = d.grant \cup pairs /\ e.excl = d.excl
  BY <1>1, GrantAllKeeps
<1> QED BY <1>2, <1>3 DEF pairs

Grantable(d, rs, cs) == rs \subseteq RolesOf(d) /\ (d.ok /\ Sound(d) => cs \subseteq Codes(d))

LEMMA GrantFacts ==
    ASSUME NEW d, Shaped(d), NEW rs, NEW cs, Grantable(d, rs, cs)
    PROVE  LET e == Grant(d, rs, cs)
           IN  /\ Keeps(d, e) /\ e.perm = d.perm /\ e.role = d.role /\ e.group = d.group
               /\ e.grant = d.grant \cup (rs \X cs) /\ e.excl = d.excl
BY GrantKeeps DEF Grantable

(* Fewer grants, the administrators' apart.                                       *)
LEMMA GrantsKeep ==
    ASSUME NEW d, Shaped(d), NEW G, G \subseteq d.grant,
           \A c \in OfOrg(d) : <<Admin, c>> \in d.grant => <<Admin, c>> \in G
    PROVE  LET e == [d EXCEPT !.grant = G]
           IN  /\ Keeps(d, e) /\ e.grant = G
               /\ e.perm = d.perm /\ e.role = d.role /\ e.group = d.group
<1> DEFINE e == [d EXCEPT !.grant = G]
<1>1. /\ IsCatalogue(e) /\ e.grant = G
      /\ e.perm = d.perm /\ e.role = d.role /\ e.group = d.group /\ e.excl = d.excl
      /\ e.trig = d.trig /\ e.ok = d.ok
  BY DEF Shaped, IsCatalogue
<1> HIDE DEF e
<1>2. Shaped(e) /\ (Sound(d) => Sound(e)) /\ (Plain(d) => Plain(e))
  BY <1>1 DEF Shaped, Sound, Plain, Codes, RolesOf, Groups_
<1>3. (Ruled(d) => Ruled(e)) /\ (Complete(d) => Complete(e))
  BY <1>1 DEF Ruled, Complete, Codes, RolesOf, Live, OfOrg, Active
<1>4. Keeps(d, e)
  BY <1>1, <1>2, <1>3 DEF Keeps, RolesOf
<1> QED BY <1>1, <1>4 DEF e

LEMMA ExclusionsKeep ==
    ASSUME NEW d, Shaped(d), NEW X,
           d.ok /\ Sound(d) => X \subseteq RolesOf(d) \X Codes(d),
           d.excl = {} => X = {},
           d.ok /\ Sound(d) /\ Ruled(d) /\ d.trig = "scoped" =>
             \A p \in X : d.perm[p[2]].scope = "organization"
    PROVE  LET e == [d EXCEPT !.excl = X]
           IN  /\ Keeps(d, e) /\ e.excl = X
               /\ e.perm = d.perm /\ e.role = d.role /\ e.group = d.group /\ e.grant = d.grant
               /\ e.ok = d.ok /\ e.trig = d.trig
<1> DEFINE e == [d EXCEPT !.excl = X]
<1>1. /\ IsCatalogue(e) /\ e.excl = X
      /\ e.perm = d.perm /\ e.role = d.role /\ e.group = d.group /\ e.grant = d.grant
      /\ e.trig = d.trig /\ e.ok = d.ok
  BY DEF Shaped, IsCatalogue
<1> HIDE DEF e
<1>2. Shaped(e) /\ (e.ok /\ Sound(d) => Sound(e)) /\ (Plain(d) => Plain(e))
  BY <1>1 DEF Shaped, Sound, Plain, Codes, RolesOf, Groups_
<1>3. (e.ok /\ Sound(d) /\ Ruled(d) => Ruled(e)) /\ (Complete(d) => Complete(e))
  BY <1>1 DEF Ruled, Complete, Codes, RolesOf, Live, OfOrg, Active
<1>4. Keeps(d, e)
  BY <1>1, <1>2, <1>3 DEF Keeps, RolesOf
<1> QED BY <1>1, <1>4 DEF e

(* Other roles of the same names; the administrators' stays one.                   *)
LEMMA RolesKeep ==
    ASSUME NEW d, Shaped(d), NEW R, DOMAIN R = RolesOf(d), d.trig # "none",
           \A r \in RolesOf(d) : IsRole(R[r]),
           Ruled(d) /\ Admin \in RolesOf(d) => IsAdministrators(R[Admin])
    PROVE  LET e == [d EXCEPT !.role = R]
           IN  /\ Keeps(d, e) /\ e.role = R
               /\ e.perm = d.perm /\ e.group = d.group /\ e.grant = d.grant /\ e.ok = d.ok
<1> DEFINE e == [d EXCEPT !.role = R]
<1>1. /\ IsCatalogue(e) /\ e.role = R
      /\ e.perm = d.perm /\ e.group = d.group /\ e.grant = d.grant /\ e.excl = d.excl
      /\ e.trig = d.trig /\ e.ok = d.ok
  BY DEF Shaped, IsCatalogue
<1> HIDE DEF e
<1>2. Shaped(e) /\ (Sound(d) => Sound(e)) /\ ~Plain(d)
  BY <1>1 DEF Shaped, Sound, Plain, Codes, RolesOf, Groups_
<1>3. (Ruled(d) => Ruled(e)) /\ (Complete(d) => Complete(e))
  BY <1>1 DEF Ruled, Complete, Codes, RolesOf, Live, OfOrg, Active
<1>4. Keeps(d, e)
  BY <1>1, <1>2, <1>3 DEF Keeps, RolesOf
<1> QED BY <1>1, <1>4 DEF e

LEMMA NewVersionKeeps ==
    ASSUME NEW d, Shaped(d), d.trig # "none", NEW slugs
    PROVE  LET e == NewVersion(d, slugs)
           IN  /\ Keeps(d, e) /\ e.perm = d.perm /\ e.grant = d.grant /\ e.group = d.group
<1> DEFINE R == [r \in RolesOf(d) |-> IF r \in Templates(d) \cap slugs
                                    THEN [d.role[r] EXCEPT !.ver = @ + 1] ELSE d.role[r]]
<1>1. NewVersion(d, slugs) = [d EXCEPT !.role = R]
  BY DEF NewVersion
<1>2. DOMAIN R = RolesOf(d)
  OBVIOUS
<1>3. ASSUME NEW r \in RolesOf(d)
      PROVE  /\ IsRole(R[r]) /\ R[r].kind = d.role[r].kind
             /\ R[r].org = d.role[r].org /\ R[r].auto = d.role[r].auto
             /\ R[r].src = d.role[r].src
  <2> DEFINE x == d.role[r]
             y == [x EXCEPT !.ver = @ + 1]
  <2>1. R[r] = y \/ R[r] = x
    BY <1>3
  <2>2. IsRole(x)
    BY <1>3 DEF Shaped
  <2>3. y = [x EXCEPT !.ver = @ + 1]
    OBVIOUS
  <2> HIDE DEF x, y, R
  <2>4. /\ IsRole(y) /\ y.kind = x.kind /\ y.org = x.org /\ y.auto = x.auto
        /\ y.src = x.src
    BY <2>2, <2>3 DEF IsRole
  <2> QED BY <2>1, <2>2, <2>4 DEF x
<1> HIDE DEF R
<1>4. Ruled(d) /\ Admin \in RolesOf(d) => IsAdministrators(R[Admin])
  BY <1>3 DEF Ruled, IsAdministrators
<1> DEFINE e == [d EXCEPT !.role = R]
<1>5. Keeps(d, e) /\ e.perm = d.perm /\ e.grant = d.grant /\ e.group = d.group
  BY <1>2, <1>3, <1>4, RolesKeep
<1> HIDE DEF e
<1> QED BY <1>1, <1>5 DEF e

LEMMA StampKeeps ==
    ASSUME NEW d, Shaped(d), d.trig # "none", NEW slugs
    PROVE  LET e == Stamp(d, slugs)
           IN  /\ Keeps(d, e) /\ e.perm = d.perm /\ e.grant = d.grant /\ e.group = d.group
<1> DEFINE R == [r \in RolesOf(d) |-> IF r \in Followers(d, slugs)
                                    THEN [d.role[r] EXCEPT !.srcver = d.role[d.role[r].src].ver]
                                    ELSE d.role[r]]
<1>1. Stamp(d, slugs) = [d EXCEPT !.role = R]
  BY DEF Stamp
<1>2. DOMAIN R = RolesOf(d)
  OBVIOUS
<1>3. ASSUME NEW r \in RolesOf(d)
      PROVE  /\ IsRole(R[r]) /\ R[r].kind = d.role[r].kind
             /\ R[r].org = d.role[r].org /\ R[r].auto = d.role[r].auto
             /\ R[r].src = d.role[r].src
  <2> DEFINE x == d.role[r]
             v == d.role[d.role[r].src].ver
             y == [x EXCEPT !.srcver = v]
  <2>1. R[r] = y \/ R[r] = x
    BY <1>3
  <2>2. IsRole(x)
    BY <1>3 DEF Shaped
  <2>3. y = [x EXCEPT !.srcver = v]
    OBVIOUS
  <2> HIDE DEF x, y, v, R
  <2>4. /\ IsRole(y) /\ y.kind = x.kind /\ y.org = x.org /\ y.auto = x.auto
        /\ y.src = x.src
    BY <2>2, <2>3 DEF IsRole
  <2> QED BY <2>1, <2>2, <2>4 DEF x
<1> HIDE DEF R
<1>4. Ruled(d) /\ Admin \in RolesOf(d) => IsAdministrators(R[Admin])
  BY <1>3 DEF Ruled, IsAdministrators
<1> DEFINE e == [d EXCEPT !.role = R]
<1>5. Keeps(d, e) /\ e.perm = d.perm /\ e.grant = d.grant /\ e.group = d.group
  BY <1>2, <1>3, <1>4, RolesKeep
<1> HIDE DEF e
<1> QED BY <1>1, <1>5 DEF e

LEMMA CopyDownKeeps ==
    ASSUME NEW d, Shaped(d), NEW slugs, NEW cs
    PROVE  LET e == CopyDown(d, slugs, cs)
           IN  /\ Keeps(d, e) /\ e.perm = d.perm /\ e.role = d.role /\ e.group = d.group
               /\ d.grant \subseteq e.grant
<1> DEFINE pairs == {p \in Followers(d, slugs) \X cs : <<d.role[p[1]].src, p[2]>> \in d.grant}
<1>1. Sound(d) => pairs \subseteq RolesOf(d) \X Codes(d)
  BY DEF Sound, Followers
<1>2. CopyDown(d, slugs, cs) = GrantAll(d, pairs)
  BY DEF CopyDown
<1> HIDE DEF pairs
<1>3. LET e == GrantAll(d, pairs)
      IN  /\ Keeps(d, e) /\ e.perm = d.perm /\ e.role = d.role /\ e.group = d.group
          /\ e.grant = d.grant \cup pairs
  BY <1>1, GrantAllKeeps
<1> QED BY <1>2, <1>3

LEMMA CopyStateKeeps ==
    ASSUME NEW d, Shaped(d), NEW from, NEW to, d.ok /\ Sound(d) => to \in Codes(d),
           d.trig = "scoped" => d.perm[to].scope = "organization"
    PROVE  LET e == CopyState(d, from, to)
           IN  /\ Keeps(d, e) /\ e.perm = d.perm /\ e.role = d.role /\ e.group = d.group
               /\ d.grant \subseteq e.grant
<1> DEFINE X == d.excl \cup {<<p[1], to>> : p \in {x \in d.excl : x[2] = from}}
           G == {<<p[1], to>> : p \in {x \in d.grant : x[2] = from}}
           h == [d EXCEPT !.excl = X]
           e == GrantAll(h, G)
<1>1. CopyState(d, from, to) = e
  BY DEF CopyState
<1>2. d.ok /\ Sound(d) => /\ X \subseteq RolesOf(d) \X Codes(d)
                          /\ G \subseteq RolesOf(d) \X Codes(d)
  BY DEF Sound
<1>3. d.excl = {} => X = {}
  OBVIOUS
<1>4. Ruled(d) /\ d.trig = "scoped" => \A p \in X : d.perm[p[2]].scope = "organization"
  BY DEF Ruled
<1>5. d.excl \subseteq X
  OBVIOUS
<1> HIDE DEF X, G
<1>6. /\ Keeps(d, h) /\ h.perm = d.perm /\ h.role = d.role /\ h.group = d.group
      /\ h.grant = d.grant /\ h.excl = X /\ h.ok = d.ok
  BY <1>2, <1>3, <1>4, ExclusionsKeep
<1> HIDE DEF h
<1>7. Shaped(h)
  BY <1>6, KeepsShaped
<1>8. h.ok /\ Sound(h) => G \subseteq RolesOf(h) \X Codes(h)
  <2>1. Sound(h) => Sound(d)
    BY <1>6, <1>5 DEF Sound, RolesOf, Codes, Groups_
  <2> QED BY <1>2, <1>6, <2>1 DEF RolesOf, Codes
<1>9. /\ Keeps(h, e) /\ e.perm = h.perm /\ e.role = h.role /\ e.group = h.group
      /\ e.grant = h.grant \cup G
  BY <1>7, <1>8, GrantAllKeeps
<1> HIDE DEF e
<1>10. Keeps(d, e)
  BY <1>6, <1>9, KeepsAll
<1> QED BY <1>1, <1>6, <1>9, <1>10

(* Merges and their undoing: the permissions are not scoped yet.                  *)
LEMMA MergeKeeps ==
    ASSUME NEW x, NEW d, Keeps(x, d), x.trig # "scoped", NEW old, NEW new
    PROVE  Keeps(x, Merge(d, old, new))
<1> DEFINE a == CopyState(d, old, new)
           e == Purge(a, {old})
<1>1. Shaped(d) /\ d.trig # "scoped"
  BY KeepsShaped
<1>2. CASE old \notin Codes(d)
  BY <1>2 DEF Merge
<1>3. CASE old \in Codes(d) /\ new \notin Codes(d)
  <2>1. Merge(d, old, new) = RenamePermission(d, old, new)
    BY <1>3 DEF Merge
  <2> QED BY <1>1, <2>1, RenamePermissionKeeps, KeepsAll
<1>4. CASE old \in Codes(d) /\ new \in Codes(d)
  <2>1. Merge(d, old, new) = e
    BY <1>4 DEF Merge
  <2>2. Keeps(d, a)
    BY <1>1, <1>4, CopyStateKeeps
  <2> HIDE DEF a
  <2>3. Keeps(a, e)
    BY <2>2, KeepsShaped, PurgeKeeps
  <2> HIDE DEF e
  <2>4. Keeps(d, e)
    BY <2>2, <2>3, KeepsAll
  <2> QED BY <2>1, <2>4, KeepsAll
<1> QED BY <1>2, <1>3, <1>4

LEMMA MergeVerbKeeps ==
    ASSUME NEW x, NEW d, Keeps(x, d), x.trig # "scoped", NEW resource, NEW old, NEW new
    PROVE  Keeps(x, MergeVerb(d, resource, old, new))
BY MergeKeeps DEF MergeVerb

LEMMA RenameBackKeeps ==
    ASSUME NEW x, NEW d, Keeps(x, d), NEW resource, NEW new, NEW old
    PROVE  Keeps(x, RenameBack(d, resource, new, old))
<1> DEFINE e == RenamePermission(d, <<resource, new>>, <<resource, old>>)
<1>1. Keeps(d, e)
  BY KeepsShaped, RenamePermissionKeeps
<1> HIDE DEF e
<1>2. Keeps(x, e)
  BY <1>1, KeepsAll
<1>3. RenameBack(d, resource, new, old) \in {d, e}
  BY DEF RenameBack, e
<1> QED BY <1>2, <1>3

LEMMA ClonedKeeps ==
    ASSUME NEW d, Shaped(d), d.trig # "none", NEW from \in Codes(d), NEW to
    PROVE  LET e == Cloned(d, from, to)
           IN  /\ Keeps(d, e) /\ e.role = d.role /\ to \in Codes(e)
               /\ \A c \in Codes(d) : e.perm[c] = d.perm[c]
<1> DEFINE p == d.perm[from]
           q == [p EXCEPT !.scope = "organization"]
           f == Only(to, q)
           e == Insert(d, f)
<1>1. Cloned(d, from, to) = e
  BY DEF Cloned
<1>2. IsPermission(p) /\ (Sound(d) => p.group \in Groups_(d))
  BY DEF Shaped, Sound
<1>3. IsPermission(q) /\ q.group = p.group
  <2> HIDE DEF p
  <2>1. q = [p EXCEPT !.scope = "organization"]
    OBVIOUS
  <2> HIDE DEF q
  <2> QED BY <1>2, <2>1 DEF IsPermission
<1> HIDE DEF p, q
<1>4. DOMAIN f = {to} /\ f[to] = q
  BY DEF Only
<1> HIDE DEF f
<1>5. /\ \A c \in DOMAIN f \ Codes(d) : IsPermission(f[c])
      /\ d.ok /\ Sound(d) => \A c \in DOMAIN f \ Codes(d) : f[c].group \in Groups_(d)
  BY <1>2, <1>3, <1>4
<1>6. /\ Keeps(d, e) /\ e.role = d.role /\ Codes(e) = Codes(d) \cup DOMAIN f
      /\ \A c \in Codes(d) : e.perm[c] = d.perm[c]
  BY <1>5, InsertKeeps
<1> HIDE DEF e
<1> QED BY <1>1, <1>4, <1>6

LEMMA CloneKeeps ==
    ASSUME NEW x, NEW d, Keeps(x, d), x.trig = "legacy", NEW from, NEW to
    PROVE  Keeps(x, Clone(d, from, to))
<1> DEFINE a == Cloned(d, from, to)
           e == CopyState(a, from, to)
<1>1. Shaped(d) /\ d.trig = "legacy"
  BY KeepsShaped
<1>2. CASE from \notin Codes(d) \/ to \in Codes(d)
  BY <1>2 DEF Clone
<1>3. CASE from \in Codes(d) /\ to \notin Codes(d)
  <2>1. Clone(d, from, to) = e
    BY <1>3 DEF Clone
  <2>2. Keeps(d, a) /\ to \in Codes(a)
    BY <1>1, <1>3, ClonedKeeps
  <2> HIDE DEF a
  <2>3. Keeps(a, e)
    BY <1>1, <2>2, KeepsShaped, CopyStateKeeps
  <2> HIDE DEF e
  <2>4. Keeps(d, e)
    BY <2>2, <2>3, KeepsAll
  <2> QED BY <2>1, <2>4, KeepsAll
<1> QED BY <1>2, <1>3

LEMMA CloneGrantsKeeps ==
    ASSUME NEW x, NEW d, Keeps(x, d), x.trig = "legacy", NEW from, NEW to
    PROVE  Keeps(x, CloneGrants(d, from, to))
<1> DEFINE a == Cloned(d, from, to)
           G == {<<p[1], to>> : p \in {y \in d.grant : y[2] = from}}
           e == GrantAll(a, G)
<1>1. Shaped(d) /\ d.trig = "legacy"
  BY KeepsShaped
<1>2. CASE from \notin Codes(d) \/ to \in Codes(d)
  BY <1>2 DEF CloneGrants
<1>3. CASE from \in Codes(d) /\ to \notin Codes(d)
  <2>1. CloneGrants(d, from, to) = e
    BY <1>3 DEF CloneGrants
  <2>2. /\ Keeps(d, a) /\ to \in Codes(a) /\ Shaped(a) /\ RolesOf(a) = RolesOf(d)
        /\ (a.ok /\ Sound(a) => a.ok)
    BY <1>1, <1>3, ClonedKeeps, KeepsShaped
  <2>3. \A p \in G : \E y \in d.grant : p = <<y[1], to>>
    OBVIOUS
  <2>4. d.grant \subseteq a.grant
    <3>1. /\ \A c \in DOMAIN Only(to, [d.perm[from] EXCEPT !.scope = "organization"]) : c = to
      BY DEF Only
    <3> QED BY <1>1 DEF Cloned, Insert, Shaped, IsCatalogue
  <2> HIDE DEF a, G
  <2>5. a.ok /\ Sound(a) => G \subseteq RolesOf(a) \X Codes(a)
    BY <2>2, <2>3, <2>4 DEF Sound
  <2>6. Keeps(a, e)
    BY <2>2, <2>5, GrantAllKeeps
  <2> HIDE DEF e
  <2>7. Keeps(d, e)
    BY <2>2, <2>6, KeepsAll
  <2> QED BY <2>1, <2>7, KeepsAll
<1> QED BY <1>2, <1>3

-------------------------------------------------------------------------------
(* The seeds of the governed catalogue.                                           *)

LEMMA ReseedKeeps ==
    ASSUME NEW d, Shaped(d), d.trig \in Triggers, NEW g, NEW cs
    PROVE  LET e == Reseed(d, g, cs)
           IN  /\ Keeps(d, e) /\ Codes(e) = Codes(d) \cup cs /\ e.role = d.role
               /\ \A c \in cs : e.perm[c] = Org(g)
<1> DEFINE f == [c \in cs |-> Org(g)]
           a == EnsureGroup(d, g, "fair_crm")
           b == Insert(a, f)
           e == Rewrite(b, f)
<1>1. Reseed(d, g, cs) = e
  BY DEF Reseed
<1>2. DOMAIN f = cs /\ \A c \in cs : f[c] = Org(g)
  OBVIOUS
<1>3. \A c \in cs : /\ IsPermission(f[c]) /\ f[c].group = g
                    /\ f[c].scope = "organization"
  BY <1>2, PermissionFacts
<1>4. Keeps(d, a) /\ g \in Groups_(a) /\ a.perm = d.perm /\ a.role = d.role
  BY EnsureGroupKeeps
<1> HIDE DEF f, a
<1>5. Shaped(a) /\ a.trig \in Triggers /\ Codes(a) = Codes(d)
  BY <1>4, KeepsShaped DEF Codes
<1>6. Keeps(a, b) /\ Codes(b) = Codes(a) \cup DOMAIN f /\ b.role = a.role /\ b.group = a.group
  BY <1>2, <1>3, <1>4, <1>5, InsertKeeps DEF Triggers
<1> HIDE DEF b
<1>7. Shaped(b) /\ b.trig \in Triggers /\ g \in Groups_(b)
  BY <1>4, <1>5, <1>6, KeepsShaped DEF Groups_
<1>8. /\ Keeps(b, e) /\ Codes(e) = Codes(b) /\ e.role = b.role
      /\ \A c \in DOMAIN f : e.perm[c] = f[c]
  BY <1>2, <1>3, <1>6, <1>7, RewriteKeeps
<1> HIDE DEF e
<1>9. Keeps(d, e)
  BY <1>4, <1>6, <1>8, KeepsAll
<1> QED BY <1>1, <1>2, <1>4, <1>5, <1>6, <1>8, <1>9

LEMMA SeedGovernedKeeps ==
    ASSUME NEW d, Shaped(d), d.trig \in Triggers, NEW g, NEW cs
    PROVE  Keeps(d, SeedGoverned(d, g, cs))
<1> DEFINE a == Reseed(d, g, cs)
           made == {p \in ((TemplateSlugs \cup {Admin}) \cap Globals(a)) \X cs :
                      p[1] = Admin \/ MadeFor(p[1], p[2])}
           b == GrantAll(a, made)
           c == NewVersion(b, TemplateSlugs)
           f == CopyDown(c, RolesOf(a), cs)
           e == Stamp(f, TemplateSlugs)
<1>1. SeedGoverned(d, g, cs) = e
  BY DEF SeedGoverned
<1>2. Keeps(d, a) /\ Codes(a) = Codes(d) \cup cs
  BY ReseedKeeps
<1>3. made \subseteq RolesOf(a) \X Codes(a)
  <2> HIDE DEF a
  <2> QED BY <1>2 DEF Globals
<1> HIDE DEF a, made
<1>4. Shaped(a) /\ a.trig \in Triggers
  BY <1>2, KeepsShaped
<1>5. Keeps(a, b)
  BY <1>3, <1>4, GrantAllKeeps
<1> HIDE DEF b
<1>6. Shaped(b) /\ b.trig \in Triggers
  BY <1>4, <1>5, KeepsShaped
<1>7. Keeps(b, c)
  BY <1>6, NewVersionKeeps DEF Triggers
<1> HIDE DEF c
<1>8. Shaped(c) /\ c.trig \in Triggers
  BY <1>6, <1>7, KeepsShaped
<1>9. Keeps(c, f)
  BY <1>8, CopyDownKeeps
<1> HIDE DEF f
<1>10. Shaped(f) /\ f.trig \in Triggers
  BY <1>8, <1>9, KeepsShaped
<1>11. Keeps(f, e)
  BY <1>10, StampKeeps DEF Triggers
<1> HIDE DEF e
<1>12. Keeps(d, e)
  BY <1>2, <1>5, <1>7, <1>9, <1>11, KeepsAll
<1> QED BY <1>1, <1>12

LEMMA SeedSystemKeeps ==
    ASSUME NEW d, Shaped(d), d.trig = "scoped", NEW g, d.ok /\ Sound(d) => g \in Groups_(d),
           NEW cs
    PROVE  Keeps(d, SeedSystem(d, g, cs))
<1> DEFINE f == [c \in cs |-> Sys(g)]
           a == Insert(d, f)
           b == Rewrite(a, f)
           e == Revoke(b, cs)
<1>1. SeedSystem(d, g, cs) = e
  BY DEF SeedSystem
<1>2. DOMAIN f = cs /\ \A c \in cs : f[c] = Sys(g)
  OBVIOUS
<1>3. \A c \in cs : IsPermission(f[c]) /\ f[c].group = g /\ f[c].scope = "system"
  BY <1>2, PermissionFacts
<1> HIDE DEF f
<1>4. /\ Keeps(d, a) /\ Codes(a) = Codes(d) \cup cs /\ a.role = d.role /\ a.group = d.group
      /\ a.ok = d.ok /\ a.excl = d.excl
  BY <1>2, <1>3, InsertKeeps
<1> HIDE DEF a
<1>5. /\ Shaped(a) /\ a.trig = "scoped" /\ RolesOf(a) = RolesOf(d)
      /\ DOMAIN f \subseteq Codes(a) /\ a.trig \in Triggers
  BY <1>2, <1>4, KeepsShaped DEF Triggers
<1>6. /\ Shaped(b) /\ Codes(b) = Codes(a)
      /\ b.role = a.role /\ b.group = a.group /\ b.ok = a.ok
      /\ b.excl = a.excl /\ b.trig = a.trig
      /\ \A c \in DOMAIN f : b.perm[c] = f[c]
      /\ \A c \in Codes(a) \ DOMAIN f : b.perm[c] = a.perm[c]
      /\ Sound(a) /\ (\A c \in DOMAIN f : f[c].group \in Groups_(a)) => Sound(b)
      /\ Sound(a) /\ Ruled(a) => \A p \in b.grant : Live(b, p[2])
      /\ Ruled(a) /\ Complete(a) => Complete(b)
  BY <1>2, <1>3, <1>5, RewriteFacts
<1> HIDE DEF b
<1>7. IsCatalogue(b)
  BY <1>6 DEF Shaped
<1>8. /\ IsCatalogue(e) /\ e.perm = b.perm /\ e.role = b.role /\ e.group = b.group
      /\ e.grant = {p \in b.grant : p[2] \notin cs}
      /\ e.excl = {p \in b.excl : p[2] \notin cs}
      /\ e.trig = b.trig /\ e.ok = b.ok
  BY <1>7, RevokeFacts
<1> HIDE DEF e
<1>9. Shaped(e)
  BY <1>6, <1>8 DEF Shaped, Codes, RolesOf
<1>10. ASSUME d.ok, Sound(d)
       PROVE  Sound(a) /\ Sound(e)
  <2>1. Sound(a)
    BY <1>4, <1>10 DEF Keeps
  <2>2. Sound(b)
    BY <1>2, <1>3, <1>4, <1>6, <1>10, <2>1 DEF Groups_
  <2> QED BY <1>8, <2>1, <2>2 DEF Sound, Codes, RolesOf, Groups_
<1>11. ASSUME d.ok, Sound(d), Ruled(d)
       PROVE  Ruled(a) /\ Ruled(e)
  <2>1. Sound(a) /\ Ruled(a)
    BY <1>4, <1>10, <1>11 DEF Keeps
  <2>2. \A p \in e.grant : Live(e, p[2])
    BY <1>6, <1>8, <2>1 DEF Live
  <2>3. \A p \in e.excl : e.perm[p[2]].scope = "organization"
    <3>1. \A p \in a.excl : p[2] \in Codes(a) /\ a.perm[p[2]].scope = "organization"
      BY <1>5, <2>1 DEF Sound, Ruled
    <3> QED BY <1>2, <1>6, <1>8, <3>1
  <2> QED BY <1>4, <1>5, <1>6, <1>8, <2>1, <2>2, <2>3 DEF Ruled, RolesOf
<1>12. ASSUME d.ok, Sound(d), Ruled(d), Complete(d)
       PROVE  Complete(e)
  <2>1. Complete(b)
    BY <1>4, <1>6, <1>10, <1>11, <1>12 DEF Keeps
  <2>2. \A c \in OfOrg(e) : c \in OfOrg(b) /\ c \notin cs
    BY <1>2, <1>3, <1>6, <1>8 DEF OfOrg, Active, Codes
  <2> QED BY <1>8, <2>1, <2>2 DEF Complete, RolesOf
<1>13. Keeps(d, e)
  BY <1>4, <1>5, <1>6, <1>8, <1>9, <1>10, <1>11, <1>12 DEF Keeps, RolesOf, Plain
<1> QED BY <1>1, <1>13

LEMMA SeedStandKeeps ==
    ASSUME NEW d, Shaped(d), d.trig = "scoped", NEW cs
    PROVE  Keeps(d, SeedStand(d, cs))
<1> DEFINE a == EnsureGroup(d, StandGroup, "fair_crm")
           e == SeedSystem(a, StandGroup, cs)
<1>1. SeedStand(d, cs) = e
  BY DEF SeedStand
<1>2. Keeps(d, a) /\ StandGroup \in Groups_(a)
  BY EnsureGroupKeeps
<1> HIDE DEF a
<1>3. Keeps(a, e)
  BY <1>2, KeepsShaped, SeedSystemKeeps
<1> HIDE DEF e
<1> QED BY <1>1, <1>2, <1>3, KeepsAll

LEMMA PurgeGroupKeeps ==
    ASSUME NEW d, Shaped(d), NEW cs, NEW g
    PROVE  /\ LET e == DropGroupIfEmpty(Purge(d, cs), g)
              IN  Keeps(d, e) /\ Codes(e) \subseteq Codes(d) \ cs
           /\ LET e == DropGroup(Purge(d, cs), g)
              IN  Keeps(d, e) /\ Codes(e) \subseteq Codes(d) \ cs
<1> DEFINE a == Purge(d, cs)
           e == DropGroupIfEmpty(a, g)
           f == DropGroup(a, g)
<1>1. Keeps(d, a) /\ Codes(a) = Codes(d) \ cs
  BY PurgeKeeps
<1> HIDE DEF a
<1>2. /\ Keeps(a, e) /\ Codes(e) \subseteq Codes(a)
      /\ Keeps(a, f) /\ Codes(f) \subseteq Codes(a)
  BY <1>1, KeepsShaped, DropGroupKeeps, DropGroupIfEmptyKeeps
<1> HIDE DEF e, f
<1>3. Keeps(d, e) /\ Keeps(d, f)
  BY <1>1, <1>2, KeepsAll
<1> QED BY <1>1, <1>2, <1>3 DEF a, e, f

LEMMA DropGroupsKeep ==
    ASSUME NEW x, NEW d, Keeps(x, d), NEW g
    PROVE  LET e == DropGroup(d, g)
           IN  Keeps(x, e) /\ Codes(e) \subseteq Codes(d)
<1> DEFINE e == DropGroup(d, g)
<1>1. Keeps(d, e) /\ Codes(e) \subseteq Codes(d)
  BY KeepsShaped, DropGroupKeeps
<1> HIDE DEF e
<1>2. Keeps(x, e)
  BY <1>1, KeepsAll
<1> QED BY <1>1, <1>2 DEF e

LEMMA InsertIntoKeeps ==
    ASSUME NEW d, Shaped(d), NEW g, NEW f, \A c \in DOMAIN f : f[c] = Org(g)
    PROVE  LET e == Insert(Need(d, g \in Groups_(d)), f)
           IN  Keeps(d, e) /\ Codes(e) = Codes(d) \cup DOMAIN f
<1> DEFINE there == g \in Groups_(d)
           a == Need(d, there)
           e == Insert(a, f)
<1>1. \A c \in DOMAIN f : IsPermission(f[c]) /\ f[c].group = g /\ f[c] = Org(f[c].group)
  BY PermissionFacts
<1>2. Keeps(d, a) /\ a.ok = (d.ok /\ there) /\ a.perm = d.perm /\ a.group = d.group
  BY NeedKeeps
<1> HIDE DEF a
<1>3. a.ok => there
  BY <1>2, Zenon
<1>4. Shaped(a) /\ Codes(a) = Codes(d) /\ (a.ok => g \in Groups_(a))
  BY <1>2, <1>3, KeepsShaped DEF Codes, Groups_
<1> HIDE DEF there
<1>5. Keeps(a, e) /\ Codes(e) = Codes(a) \cup DOMAIN f
  BY <1>1, <1>4, InsertKeeps
<1> HIDE DEF e
<1>6. Keeps(d, e)
  BY <1>2, <1>5, KeepsAll
<1> QED BY <1>4, <1>5, <1>6 DEF e, a, there

LEMMA SeedIdentityKeeps ==
    ASSUME NEW d, Shaped(d), NEW cs, NEW slug
    PROVE  LET e == SeedIdentity(d, cs, slug)
           IN  Keeps(d, e) /\ Codes(e) = Codes(d) \cup cs
<1> DEFINE f == [c \in cs |-> Org("identity")]
           b == Insert(Need(d, "identity" \in Groups_(d)), f)
           rs == {slug} \cap RolesOf(d)
           e == Grant(b, rs, cs)
<1>1. SeedIdentity(d, cs, slug) = e
  BY DEF SeedIdentity
<1>2. DOMAIN f = cs /\ \A c \in DOMAIN f : f[c] = Org("identity")
  OBVIOUS
<1> HIDE DEF f
<1>3. Keeps(d, b) /\ Codes(b) = Codes(d) \cup cs
  BY <1>2, InsertIntoKeeps
<1> HIDE DEF b
<1>4. Shaped(b) /\ Grantable(b, rs, cs)
  BY <1>3, KeepsShaped DEF Grantable
<1> HIDE DEF rs
<1>5. Keeps(b, e) /\ e.perm = b.perm
  BY <1>4, GrantFacts
<1> HIDE DEF e
<1>6. Keeps(d, e)
  BY <1>3, <1>5, KeepsAll
<1> QED BY <1>1, <1>3, <1>5, <1>6 DEF Codes

LEMMA CascadeKeeps ==
    ASSUME NEW d, Shaped(d), NEW b
    PROVE  LET e == [d EXCEPT !.cascade = b]
           IN  Keeps(d, e) /\ e.perm = d.perm
<1> DEFINE e == [d EXCEPT !.cascade = b]
<1>1. /\ IsCatalogue(e) /\ e.grant = d.grant /\ e.excl = d.excl
      /\ e.perm = d.perm /\ e.role = d.role /\ e.group = d.group
      /\ e.trig = d.trig /\ e.ok = d.ok
  BY DEF Shaped, IsCatalogue
<1> HIDE DEF e
<1>2. Shaped(e) /\ (Sound(d) => Sound(e)) /\ (Plain(d) => Plain(e))
  BY <1>1 DEF Shaped, Sound, Plain, Codes, RolesOf, Groups_
<1>3. (Ruled(d) => Ruled(e)) /\ (Complete(d) => Complete(e))
  BY <1>1 DEF Ruled, Complete, Codes, RolesOf, Live, OfOrg, Active
<1>4. Keeps(d, e)
  BY <1>1, <1>2, <1>3 DEF Keeps, RolesOf
<1> QED BY <1>1, <1>4 DEF e

LEMMA DropRolesFacts ==
    ASSUME NEW d, Shaped(d), NEW rs
    PROVE  LET e == DropRoles(d, rs)
           IN  /\ Shaped(e) /\ e.ok = d.ok /\ e.perm = d.perm /\ RolesOf(e) = RolesOf(d) \ rs
               /\ (Sound(d) => Sound(e)) /\ (Plain(d) => Plain(e))
<1> DEFINE e == DropRoles(d, rs)
           R == Without(d.role, rs)
           G == {p \in d.grant : p[1] \notin rs}
           X == {p \in d.excl : p[1] \notin rs}
<1>1. e = [d EXCEPT !.role = R, !.grant = G, !.excl = X]
  BY DEF DropRoles
<1>2. /\ DOMAIN R = RolesOf(d) \ rs /\ \A r \in DOMAIN R : R[r] = d.role[r]
      /\ \A p \in G : p \in d.grant /\ p[1] \notin rs
      /\ \A p \in X : p \in d.excl /\ p[1] \notin rs
  BY DEF Without, RolesOf
<1>3. IsCatalogue(d)
  BY DEF Shaped
<1> HIDE DEF e, R, G, X
<1>4. /\ IsCatalogue(e) /\ e.role = R /\ e.grant = G /\ e.excl = X
      /\ e.perm = d.perm /\ e.group = d.group /\ e.trig = d.trig /\ e.ok = d.ok
  BY <1>1, <1>3 DEF IsCatalogue
<1>5. Shaped(e) /\ RolesOf(e) = RolesOf(d) \ rs
  BY <1>2, <1>4 DEF Shaped, Codes, RolesOf
<1>6. Sound(d) => Sound(e)
  BY <1>2, <1>4, <1>5 DEF Sound, Codes, Groups_
<1>7. Plain(d) => Plain(e)
  BY <1>2, <1>4, <1>5 DEF Plain, Codes, RolesOf
<1> QED BY <1>4, <1>5, <1>6, <1>7 DEF e

-------------------------------------------------------------------------------
(* The scripts up to 0045.                                                        *)

LEMMA EarlyKept ==
    ASSUME NEW m \in 0..45, NEW n \in 0..45, NEW d, CatalogueInv(m, d),
           NEW e, Keeps(d, e), e.ok, n < 39 => \A c \in Codes(e) : Sown(n, c)
    PROVE  CatalogueInv(n, e) /\ RolesOf(e) = RolesOf(d)
<1>1. ~(n >= 46) /\ ~(n >= 47) /\ ~(n >= 52) /\ n \notin {46, 47, 48, 49, 50, 51, 52, 53, 54}
  OBVIOUS
<1>2. m < 46
  OBVIOUS
<1>3. Sound(d) /\ Plain(d)
  BY <1>2 DEF CatalogueInv, Early
<1>4. Shaped(e) /\ Sound(e) /\ Plain(e) /\ RolesOf(e) = RolesOf(d)
  BY <1>3 DEF Keeps
<1> QED BY <1>1, <1>4 DEF CatalogueInv, Early

LEMMA SownMore ==
    ASSUME NEW m \in Nat, NEW n \in Nat, m <= n, NEW c, Sown(m, c)
    PROVE  Sown(n, c)
BY DEF Sown

LEMMA EarlyUp ==
    ASSUME NEW r \in 1..45, NEW d, CatalogueInv(r - 1, d), NEW e, Keeps(d, e), e.ok,
           NEW S, Codes(e) \subseteq Codes(d) \cup S, r < 39 => \A c \in S : Sown(r, c)
    PROVE  CatalogueInv(r, e) /\ RolesOf(e) = RolesOf(d)
<1>1. r - 1 \in 0..45 /\ r \in 0..45 /\ (r < 39 => r - 1 < 46 /\ r - 1 < 39 /\ r - 1 <= r)
  OBVIOUS
<1>2. ASSUME r < 39, NEW c \in Codes(d)
      PROVE  Sown(r, c)
  <2>1. Sown(r - 1, c)
    BY <1>1, <1>2 DEF CatalogueInv, Early
  <2> QED BY <1>1, <1>2, <2>1, SownMore
<1>3. r < 39 => \A c \in Codes(e) : Sown(r, c)
  BY <1>2
<1> QED BY <1>1, <1>3, EarlyKept

(* The roles a script deletes, and those that scripts create.                     *)
Founded == TemplateSlugs \cup {Admin}
Gone(r) == IF r = 40 THEN LegacyRoles ELSE IF r = 43 THEN {"owner"} ELSE {}

LEMMA CatalogueUpEarly ==
    ASSUME NEW r \in 1..45, NEW d, CatalogueInv(r - 1, d), NEW e \in CatalogueUp(r, d), e.ok
    PROVE  CatalogueInv(r, e) /\ RolesOf(e) = RolesOf(d) \ Gone(r)
<1> USE DEF CatalogueUp
<1>0. Shaped(d)
  BY DEF CatalogueInv
<1>A. \A S : /\ Keeps(d, e) /\ Codes(e) \subseteq Codes(d) \cup S
             /\ r < 39 => \A c \in S : Sown(r, c)
            /\ r \notin {40, 43}
            => CatalogueInv(r, e) /\ RolesOf(e) = RolesOf(d) \ Gone(r)
  <2> HIDE DEF CatalogueUp
  <2> QED BY EarlyUp DEF Gone
<1>8. CASE r = 8
  <2> DEFINE F == [g \in {"audit", "core", "identity", "settings"} |-> g]
  <2>1. e = [d EXCEPT !.group = F]
    BY <1>8 DEF U0008
  <2> HIDE DEF CatalogueUp, F
  <2>2. Codes(d) = {}
    BY <1>8 DEF CatalogueInv, Early, Sown
  <2>3. Keeps(d, e) /\ e.perm = d.perm
    BY <1>0, <2>1, <2>2, GroupsKeep
  <2> QED BY <1>A, <1>8, <2>2, <2>3 DEF Codes
<1>18. CASE r = 18
  <2>1. \E g : e = Seed(d, g, "audit", Audits)
    BY <1>18 DEF U0018
  <2> HIDE DEF CatalogueUp
  <2>2. Keeps(d, e) /\ Codes(e) \subseteq Codes(d) \cup Audits
    BY <1>0, <2>1, SeedKeeps
  <2>3. \A c \in Audits : Sown(18, c)
    BY DEF Sown
  <2> QED BY <1>A, <1>18, <2>2, <2>3
<1>20. CASE r = 20
  <2>1. \E g : e = Seed(d, g, "settings", SettingsPerms)
    BY <1>20 DEF U0020
  <2> HIDE DEF CatalogueUp
  <2>2. Keeps(d, e) /\ Codes(e) \subseteq Codes(d) \cup SettingsPerms
    BY <1>0, <2>1, SeedKeeps
  <2>3. \A c \in SettingsPerms : Sown(20, c)
    BY DEF Sown
  <2> QED BY <1>A, <1>20, <2>2, <2>3
<1>22. CASE r = 22
  <2>1. \E g : e = Seed(d, g, "jobs", JobsPerms)
    BY <1>22 DEF U0022
  <2> HIDE DEF CatalogueUp
  <2>2. Keeps(d, e) /\ Codes(e) \subseteq Codes(d) \cup JobsPerms
    BY <1>0, <2>1, SeedKeeps
  <2>3. \A c \in JobsPerms : Sown(22, c)
    BY DEF Sown
  <2> QED BY <1>A, <1>22, <2>2, <2>3
<1>24. CASE r = 24
  <2>1. \E g : e = Seed(d, g, "notifications", NotesPerms)
    BY <1>24 DEF U0024
  <2> HIDE DEF CatalogueUp
  <2>2. Keeps(d, e) /\ Codes(e) \subseteq Codes(d) \cup NotesPerms
    BY <1>0, <2>1, SeedKeeps
  <2>3. \A c \in NotesPerms : Sown(24, c)
    BY DEF Sown
  <2> QED BY <1>A, <1>24, <2>2, <2>3
<1>25. CASE r = 25
  <2>1. \E g : e = Seed(d, g, "fair_crm", Customers)
    BY <1>25 DEF U0025
  <2> HIDE DEF CatalogueUp
  <2>2. Keeps(d, e) /\ Codes(e) \subseteq Codes(d) \cup Customers
    BY <1>0, <2>1, SeedKeeps
  <2>3. \A c \in Customers : Sown(25, c)
    BY DEF Sown
  <2> QED BY <1>A, <1>25, <2>2, <2>3
<1>26. CASE r = 26
  <2>1. e = SeedAll(d, Products0026)
    BY <1>26 DEF U0026
  <2> HIDE DEF CatalogueUp
  <2>2. Keeps(d, e) /\ Codes(e) \subseteq Codes(d) \cup CatalogueCodes(Products0026)
    BY <1>0, <2>1, SeedAllKeeps
  <2>3. \A c \in CatalogueCodes(Products0026) : Sown(26, c)
    BY DEF Sown
  <2> QED BY <1>A, <1>26, <2>2, <2>3
<1>27. CASE r = 27
  <2>1. e = SeedAll(d, {MailTemplates})
    BY <1>27 DEF U0027
  <2> HIDE DEF CatalogueUp
  <2>2. Keeps(d, e) /\ Codes(e) \subseteq Codes(d) \cup MailTemplates[2]
    BY <1>0, <2>1, SeedAllKeeps DEF CatalogueCodes
  <2>3. \A c \in MailTemplates[2] : Sown(27, c)
    BY DEF Sown
  <2> QED BY <1>A, <1>27, <2>2, <2>3
<1>28. CASE r = 28
  <2> DEFINE f == Only(TestSend, Org(MailTemplates[1]))
  <2>1. e = Insert(Need(d, MailTemplates[1] \in Groups_(d)), f)
    BY <1>28 DEF U0028
  <2>2. DOMAIN f = {TestSend} /\ \A c \in DOMAIN f : f[c] = Org(MailTemplates[1])
    BY DEF Only
  <2> HIDE DEF CatalogueUp, f
  <2> DEFINE S == {TestSend}
  <2>3. Keeps(d, e) /\ Codes(e) \subseteq Codes(d) \cup S
    BY <1>0, <2>1, <2>2, InsertIntoKeeps
  <2>4. \A c \in S : Sown(28, c)
    BY DEF Sown
  <2> HIDE DEF S
  <2> QED BY <1>A, <1>28, <2>3, <2>4
<1>29. CASE r = 29
  <2>1. e = SeedAll(d, {FairEmails})
    BY <1>29 DEF U0029
  <2> HIDE DEF CatalogueUp
  <2>2. Keeps(d, e) /\ Codes(e) \subseteq Codes(d) \cup FairEmails[2]
    BY <1>0, <2>1, SeedAllKeeps DEF CatalogueCodes
  <2>3. \A c \in FairEmails[2] : Sown(29, c)
    BY DEF Sown
  <2> QED BY <1>A, <1>29, <2>2, <2>3
<1>30. CASE r = 30
  <2>1. e = SeedAll(d, Todos \cup {Dashboard})
    BY <1>30 DEF U0030
  <2> HIDE DEF CatalogueUp
  <2>2. Keeps(d, e) /\ Codes(e) \subseteq Codes(d) \cup CatalogueCodes(Todos \cup {Dashboard})
    BY <1>0, <2>1, SeedAllKeeps
  <2>3. \A c \in CatalogueCodes(Todos \cup {Dashboard}) : Sown(30, c)
    BY DEF Sown
  <2> QED BY <1>A, <1>30, <2>2, <2>3
<1>31. CASE r = 31
  <2>1. e = SeedAll(d, {Operations})
    BY <1>31 DEF U0031
  <2> HIDE DEF CatalogueUp
  <2>2. Keeps(d, e) /\ Codes(e) \subseteq Codes(d) \cup Operations[2]
    BY <1>0, <2>1, SeedAllKeeps DEF CatalogueCodes
  <2>3. \A c \in Operations[2] : Sown(31, c)
    BY DEF Sown
  <2> QED BY <1>A, <1>31, <2>2, <2>3
<1>32. CASE r = 32
  <2>1. e = RenameResource(d, "fair_crm.smtp", "fair_crm.email_accounts")
    BY <1>32 DEF U0032
  <2> HIDE DEF CatalogueUp
  <2>2. Keeps(d, e) /\ Codes(e) \subseteq Codes(d) \cup Mailboxes
    BY <1>0, <2>1, RenameResourceKeeps DEF Mailboxes
  <2>3. \A c \in Mailboxes : Sown(32, c)
    BY DEF Sown
  <2> QED BY <1>A, <1>32, <2>2, <2>3
<1>33. CASE r = 33
  <2>1. e = SeedAll(d, {QuoteTemplates})
    BY <1>33 DEF U0033
  <2> HIDE DEF CatalogueUp
  <2>2. Keeps(d, e) /\ Codes(e) \subseteq Codes(d) \cup QuoteTemplates[2]
    BY <1>0, <2>1, SeedAllKeeps DEF CatalogueCodes
  <2>3. \A c \in QuoteTemplates[2] : Sown(33, c)
    BY DEF Sown
  <2> QED BY <1>A, <1>33, <2>2, <2>3
<1>34. CASE r = 34
  <2>1. e = SeedAll(d, {Contents})
    BY <1>34 DEF U0034
  <2> HIDE DEF CatalogueUp
  <2>2. Keeps(d, e) /\ Codes(e) \subseteq Codes(d) \cup Contents[2]
    BY <1>0, <2>1, SeedAllKeeps DEF CatalogueCodes
  <2>3. \A c \in Contents[2] : Sown(34, c)
    BY DEF Sown
  <2> QED BY <1>A, <1>34, <2>2, <2>3
<1>35. CASE r = 35
  <2> DEFINE f == [c \in MoreContents |-> Org(Contents[1])]
  <2>1. e = Insert(Need(d, Contents[1] \in Groups_(d)), f)
    BY <1>35 DEF U0035
  <2>2. DOMAIN f = MoreContents /\ \A c \in DOMAIN f : f[c] = Org(Contents[1])
    OBVIOUS
  <2> HIDE DEF CatalogueUp, f
  <2>3. Keeps(d, e) /\ Codes(e) \subseteq Codes(d) \cup MoreContents
    BY <1>0, <2>1, <2>2, InsertIntoKeeps
  <2>4. \A c \in MoreContents : Sown(35, c)
    BY DEF Sown
  <2> QED BY <1>A, <1>35, <2>3, <2>4
<1>36. CASE r = 36
  <2>1. e = SeedAll(d, {Quotes})
    BY <1>36 DEF U0036
  <2> HIDE DEF CatalogueUp
  <2>2. Keeps(d, e) /\ Codes(e) \subseteq Codes(d) \cup Quotes[2]
    BY <1>0, <2>1, SeedAllKeeps DEF CatalogueCodes
  <2>3. \A c \in Quotes[2] : Sown(36, c)
    BY DEF Sown
  <2> QED BY <1>A, <1>36, <2>2, <2>3
<1>37. CASE r = 37
  <2>1. e = SeedIdentity(d, OrganizationPerms, "owner")
    BY <1>37 DEF U0037
  <2> HIDE DEF CatalogueUp
  <2>2. Keeps(d, e) /\ Codes(e) \subseteq Codes(d) \cup OrganizationPerms
    BY <1>0, <2>1, SeedIdentityKeeps
  <2>3. \A c \in OrganizationPerms : Sown(37, c)
    BY DEF Sown
  <2> QED BY <1>A, <1>37, <2>2, <2>3
<1>38. CASE r = 38
  <2>1. e = SeedIdentity(d, OrganizationPerms, "owner")
    BY <1>38 DEF U0038
  <2> HIDE DEF CatalogueUp
  <2>2. Keeps(d, e) /\ Codes(e) \subseteq Codes(d) \cup OrganizationPerms
    BY <1>0, <2>1, SeedIdentityKeeps
  <2>3. \A c \in OrganizationPerms : Sown(38, c)
    BY DEF Sown
  <2> QED BY <1>A, <1>38, <2>2, <2>3
<1>44. CASE r = 44
  <2>1. e = SeedIdentity(d, UserPerms, "organization_admin")
    BY <1>44 DEF U0044
  <2> HIDE DEF CatalogueUp
  <2>2. Keeps(d, e) /\ Codes(e) \subseteq Codes(d) \cup UserPerms
    BY <1>0, <2>1, SeedIdentityKeeps
  <2> QED BY <1>A, <1>44, <2>2
<1>39. CASE r = 39
  <2>1. e = [d EXCEPT !.cascade = TRUE]
    BY <1>39 DEF U0039
  <2> HIDE DEF CatalogueUp
  <2>2. Keeps(d, e) /\ e.perm = d.perm
    BY <1>0, <2>1, CascadeKeeps
  <2> QED BY <1>A, <1>39, <2>2 DEF Codes
<1>40. CASE r \in {40, 43}
  <2>1. e = DropRoles(d, Gone(r))
    BY <1>40 DEF U0040, U0043, Gone
  <2> HIDE DEF CatalogueUp
  <2>2. r >= 39 /\ r < 46 /\ r - 1 < 46
    BY <1>40
  <2>3. Sound(d) /\ Plain(d)
    BY <2>2 DEF CatalogueInv, Early
  <2>4. Shaped(e) /\ e.ok = d.ok /\ RolesOf(e) = RolesOf(d) \ Gone(r) /\ Sound(e) /\ Plain(e)
    BY <1>0, <2>1, <2>3, DropRolesFacts
  <2> QED BY <1>40, <2>2, <2>4 DEF CatalogueInv, Early
<1>50. CASE r \notin {8, 18, 20, 22, 24, 25, 26, 27, 28, 29, 30, 31, 32, 33, 34, 35, 36, 37, 38,
                      39, 40, 43, 44}
  <2>1. e = d
    BY <1>50
  <2> HIDE DEF CatalogueUp
  <2> DEFINE S == {}
  <2>2. Keeps(d, e) /\ Codes(e) \subseteq Codes(d) \cup S
    BY <1>0, <2>1, KeepsSelf
  <2>3. \A c \in S : Sown(r, c)
    OBVIOUS
  <2> HIDE DEF S
  <2> QED BY <1>A, <1>50, <2>2, <2>3
<1> HIDE DEF CatalogueUp
<1> QED BY <1>8, <1>18, <1>20, <1>22, <1>24, <1>25, <1>26, <1>27, <1>28, <1>29, <1>30,
           <1>31, <1>32, <1>33, <1>34, <1>35, <1>36, <1>37, <1>38, <1>39, <1>40, <1>44,
           <1>50
LEMMA EarlyDown ==
    ASSUME NEW r \in 1..45, r # 39, NEW d, CatalogueInv(r, d), NEW e, Keeps(d, e), e.ok,
           NEW S, Codes(e) \subseteq Codes(d) \ S,
           r < 39 => \A c : Sown(r, c) => c \in S \/ Sown(r - 1, c)
    PROVE  CatalogueInv(r - 1, e) /\ RolesOf(e) = RolesOf(d)
<1>1. r - 1 \in 0..45 /\ r \in 0..45 /\ (r - 1 < 39 => r < 46 /\ r < 39)
  OBVIOUS
<1>2. ASSUME r - 1 < 39, NEW c \in Codes(e)
      PROVE  Sown(r - 1, c)
  <2>1. Sown(r, c)
    BY <1>1, <1>2 DEF CatalogueInv, Early
  <2> QED BY <1>1, <1>2, <2>1
<1> DEFINE n == r - 1
<1>3. n \in 0..45 /\ (n < 39 => \A c \in Codes(e) : Sown(n, c))
  BY <1>1, <1>2
<1> HIDE DEF n
<1>4. CatalogueInv(n, e) /\ RolesOf(e) = RolesOf(d)
  BY <1>1, <1>3, EarlyKept
<1> QED BY <1>4 DEF n

LEMMA RaiseFacts ==
    ASSUME NEW d, Shaped(d), NEW e, e = Need(d, FALSE)
    PROVE  ~e.ok
<1> DEFINE p == FALSE
           f == Need(d, p)
<1>1. e = f /\ ~p
  OBVIOUS
<1> HIDE DEF p
<1>2. f.ok = (d.ok /\ p)
  BY NeedKeeps
<1> HIDE DEF f
<1> QED BY <1>1, <1>2, Zenon

(* Where no script touches the catalogue, up to 0045.                             *)
LEMMA NothingDown ==
    ASSUME NEW r \in 1..45, NEW d, r \notin Irreversible,
           r \notin {4, 8, 18, 20, 22, 24, 25, 26, 27, 28, 29, 30, 31, 32, 33, 34, 35, 36, 37, 38,
                    44},
           NEW e, e = CatalogueDown(r, d)
    PROVE  e = d
BY DEF CatalogueDown

LEMMA CatalogueDownEarly ==
    ASSUME NEW r \in 1..45, NEW d, CatalogueInv(r, d), NEW e, e = CatalogueDown(r, d), e.ok
    PROVE  /\ CatalogueInv(r - 1, e)
           /\ r # 4 => RolesOf(d) \subseteq RolesOf(e)
<1>0. Shaped(d) /\ e.ok
  BY DEF CatalogueInv
<1>A. \A S : /\ r # 39 /\ Keeps(d, e) /\ Codes(e) \subseteq Codes(d) \ S
             /\ r < 39 => \A c : Sown(r, c) => c \in S \/ Sown(r - 1, c)
             => CatalogueInv(r - 1, e) /\ RolesOf(e) = RolesOf(d)
  BY <1>0, EarlyDown
<1>4. CASE r = 4
  <2>1. e = [d EXCEPT !.perm = <<>>, !.role = <<>>, !.grant = {}]
    BY <1>4 DEF CatalogueDown, Irreversible, D0004
  <2>2. Plain(d) /\ d.ok
    BY <1>4 DEF CatalogueInv, Early
  <2>3. /\ IsCatalogue(e) /\ e.perm = <<>> /\ e.role = <<>> /\ e.grant = {}
        /\ e.excl = d.excl /\ e.trig = d.trig
    BY <1>0, <2>1 DEF Shaped, IsCatalogue
  <2>4. Codes(e) = {} /\ RolesOf(e) = {}
    BY <2>3 DEF Codes, RolesOf
  <2>5. Shaped(e) /\ Sound(e) /\ Plain(e)
    BY <2>2, <2>3, <2>4 DEF Shaped, Sound, Plain
  <2>6. CatalogueInv(3, e)
    BY <1>0, <2>4, <2>5 DEF CatalogueInv, Early
  <2> QED BY <1>4, <2>6
<1>8. CASE r = 8
  <2> DEFINE F == <<>>
  <2>1. e = [d EXCEPT !.group = F]
    BY <1>8 DEF CatalogueDown, Irreversible, D0008
  <2> HIDE DEF F
  <2>2. Codes(d) = {}
    BY <1>8 DEF CatalogueInv, Early, Sown
  <2>3. Keeps(d, e) /\ e.perm = d.perm
    BY <1>0, <2>1, <2>2, GroupsKeep
  <2>4. Codes(e) \subseteq Codes(d) \ Audits
    BY <2>2, <2>3 DEF Codes
  <2>5. \A c : Sown(8, c) => c \in Audits \/ Sown(8 - 1, c)
    BY DEF Sown
  <2> QED BY <1>A, <1>8, <2>3, <2>4, <2>5
<1>18. CASE r = 18
  <2>1. e = Drop(d, Audits)
    BY <1>18 DEF CatalogueDown, Irreversible, D0018
  <2>2. Keeps(d, e) /\ Codes(e) \subseteq Codes(d) \ Audits
    BY <1>0, <2>1, DropKeeps
  <2>3. \A c : Sown(18, c) => c \in Audits \/ Sown(18 - 1, c)
    BY DEF Sown
  <2> QED BY <1>A, <1>18, <2>2, <2>3
<1>20. CASE r = 20
  <2>1. e = Drop(d, SettingsPerms)
    BY <1>20 DEF CatalogueDown, Irreversible, D0020
  <2>2. Keeps(d, e) /\ Codes(e) \subseteq Codes(d) \ SettingsPerms
    BY <1>0, <2>1, DropKeeps
  <2>3. \A c : Sown(20, c) => c \in SettingsPerms \/ Sown(20 - 1, c)
    BY DEF Sown
  <2> QED BY <1>A, <1>20, <2>2, <2>3
<1>22. CASE r = 22
  <2>1. e = Drop(d, JobsPerms)
    BY <1>22 DEF CatalogueDown, Irreversible, D0022
  <2>2. Keeps(d, e) /\ Codes(e) \subseteq Codes(d) \ JobsPerms
    BY <1>0, <2>1, DropKeeps
  <2>3. \A c : Sown(22, c) => c \in JobsPerms \/ Sown(22 - 1, c)
    BY DEF Sown
  <2> QED BY <1>A, <1>22, <2>2, <2>3
<1>24. CASE r = 24
  <2>1. e = Drop(d, NotesPerms)
    BY <1>24 DEF CatalogueDown, Irreversible, D0024
  <2>2. Keeps(d, e) /\ Codes(e) \subseteq Codes(d) \ NotesPerms
    BY <1>0, <2>1, DropKeeps
  <2>3. \A c : Sown(24, c) => c \in NotesPerms \/ Sown(24 - 1, c)
    BY DEF Sown
  <2> QED BY <1>A, <1>24, <2>2, <2>3
<1>25. CASE r = 25
  <2>1. e = Drop(d, Customers)
    BY <1>25 DEF CatalogueDown, Irreversible, D0025
  <2>2. Keeps(d, e) /\ Codes(e) \subseteq Codes(d) \ Customers
    BY <1>0, <2>1, DropKeeps
  <2>3. \A c : Sown(25, c) => c \in Customers \/ Sown(25 - 1, c)
    BY DEF Sown
  <2> QED BY <1>A, <1>25, <2>2, <2>3
<1>26. CASE r = 26
  <2>1. e = Drop(d, CatalogueCodes(Products0026))
    BY <1>26 DEF CatalogueDown, Irreversible, D0026
  <2>2. Keeps(d, e) /\ Codes(e) \subseteq Codes(d) \ CatalogueCodes(Products0026)
    BY <1>0, <2>1, DropKeeps
  <2>3. \A c : Sown(26, c) => c \in CatalogueCodes(Products0026) \/ Sown(26 - 1, c)
    BY DEF Sown
  <2> QED BY <1>A, <1>26, <2>2, <2>3
<1>27. CASE r = 27
  <2>1. e = DropGroup(Drop(d, MailTemplates[2]), MailTemplates[1])
    BY <1>27 DEF CatalogueDown, Irreversible, D0027
  <2>2. Keeps(d, e) /\ Codes(e) \subseteq Codes(d) \ MailTemplates[2]
    BY <1>0, <2>1, DropKeeps, DropGroupsKeep
  <2>3. \A c : Sown(27, c) => c \in MailTemplates[2] \/ Sown(27 - 1, c)
    BY DEF Sown
  <2> QED BY <1>A, <1>27, <2>2, <2>3
<1>28. CASE r = 28
  <2>1. e = Drop(d, {TestSend})
    BY <1>28 DEF CatalogueDown, Irreversible, D0028
  <2> DEFINE S == {TestSend}
  <2>2. Keeps(d, e) /\ Codes(e) \subseteq Codes(d) \ S
    BY <1>0, <2>1, DropKeeps
  <2>3. \A c : Sown(28, c) => c \in S \/ Sown(28 - 1, c)
    BY DEF Sown
  <2> HIDE DEF S
  <2> QED BY <1>A, <1>28, <2>2, <2>3
<1>29. CASE r = 29
  <2>1. e = DropGroup(Drop(d, FairEmails[2]), FairEmails[1])
    BY <1>29 DEF CatalogueDown, Irreversible, D0029
  <2>2. Keeps(d, e) /\ Codes(e) \subseteq Codes(d) \ FairEmails[2]
    BY <1>0, <2>1, DropKeeps, DropGroupsKeep
  <2>3. \A c : Sown(29, c) => c \in FairEmails[2] \/ Sown(29 - 1, c)
    BY DEF Sown
  <2> QED BY <1>A, <1>29, <2>2, <2>3
<1>30. CASE r = 30
  <2>1. e = DropGroup(DropGroup(DropGroup(
                 Drop(d, CatalogueCodes(Todos \cup {Dashboard})),
                 "fair_crm.dashboard"), "fair_crm.todos"), "fair_crm.todos.outcomes")
    BY <1>30 DEF CatalogueDown, Irreversible, D0030
  <2>2. Keeps(d, e) /\ Codes(e) \subseteq Codes(d) \ CatalogueCodes(Todos \cup {Dashboard})
    BY <1>0, <2>1, DropKeeps, DropGroupsKeep
  <2>3. \A c : Sown(30, c) => c \in CatalogueCodes(Todos \cup {Dashboard}) \/ Sown(30 - 1, c)
    BY DEF Sown
  <2> QED BY <1>A, <1>30, <2>2, <2>3
<1>31. CASE r = 31
  <2>1. e = DropGroup(Drop(d, Operations[2]), Operations[1])
    BY <1>31 DEF CatalogueDown, Irreversible, D0031
  <2>2. Keeps(d, e) /\ Codes(e) \subseteq Codes(d) \ Operations[2]
    BY <1>0, <2>1, DropKeeps, DropGroupsKeep
  <2>3. \A c : Sown(31, c) => c \in Operations[2] \/ Sown(31 - 1, c)
    BY DEF Sown
  <2> QED BY <1>A, <1>31, <2>2, <2>3
<1>33. CASE r = 33
  <2>1. e = DropGroup(Drop(d, QuoteTemplates[2]), QuoteTemplates[1])
    BY <1>33 DEF CatalogueDown, Irreversible, D0033
  <2>2. Keeps(d, e) /\ Codes(e) \subseteq Codes(d) \ QuoteTemplates[2]
    BY <1>0, <2>1, DropKeeps, DropGroupsKeep
  <2>3. \A c : Sown(33, c) => c \in QuoteTemplates[2] \/ Sown(33 - 1, c)
    BY DEF Sown
  <2> QED BY <1>A, <1>33, <2>2, <2>3
<1>34. CASE r = 34
  <2>1. e = DropGroup(Purge(d, Contents[2]), Contents[1])
    BY <1>34 DEF CatalogueDown, Irreversible, D0034
  <2>2. Keeps(d, e) /\ Codes(e) \subseteq Codes(d) \ Contents[2]
    BY <1>0, <2>1, PurgeGroupKeeps
  <2>3. \A c : Sown(34, c) => c \in Contents[2] \/ Sown(34 - 1, c)
    BY DEF Sown
  <2> QED BY <1>A, <1>34, <2>2, <2>3
<1>35. CASE r = 35
  <2>1. e = Purge(d, MoreContents)
    BY <1>35 DEF CatalogueDown, Irreversible, D0035
  <2>2. Keeps(d, e) /\ Codes(e) \subseteq Codes(d) \ MoreContents
    BY <1>0, <2>1, PurgeKeeps
  <2>3. \A c : Sown(35, c) => c \in MoreContents \/ Sown(35 - 1, c)
    BY DEF Sown
  <2> QED BY <1>A, <1>35, <2>2, <2>3
<1>36. CASE r = 36
  <2>1. e = DropGroup(Purge(d, Quotes[2]), Quotes[1])
    BY <1>36 DEF CatalogueDown, Irreversible, D0036
  <2>2. Keeps(d, e) /\ Codes(e) \subseteq Codes(d) \ Quotes[2]
    BY <1>0, <2>1, PurgeGroupKeeps
  <2>3. \A c : Sown(36, c) => c \in Quotes[2] \/ Sown(36 - 1, c)
    BY DEF Sown
  <2> QED BY <1>A, <1>36, <2>2, <2>3
<1>37. CASE r = 37
  <2>1. e = Purge(d, OrganizationPerms)
    BY <1>37 DEF CatalogueDown, Irreversible, D0037
  <2>2. Keeps(d, e) /\ Codes(e) \subseteq Codes(d) \ OrganizationPerms
    BY <1>0, <2>1, PurgeKeeps
  <2>3. \A c : Sown(37, c) => c \in OrganizationPerms \/ Sown(37 - 1, c)
    BY DEF Sown
  <2> QED BY <1>A, <1>37, <2>2, <2>3
<1>44. CASE r = 44
  <2>1. e = Purge(d, UserPerms)
    BY <1>44 DEF CatalogueDown, Irreversible, D0044
  <2>2. Keeps(d, e) /\ Codes(e) \subseteq Codes(d) \ UserPerms
    BY <1>0, <2>1, PurgeKeeps
  <2> QED BY <1>A, <1>44, <2>2
<1>32. CASE r = 32
  <2>1. e = RenameResource(d, "fair_crm.email_accounts", "fair_crm.smtp")
    BY <1>32 DEF CatalogueDown, Irreversible, D0032
  <2>2. /\ Keeps(d, e)
        /\ Codes(e) \subseteq (Codes(d) \ Mailboxes) \cup P("fair_crm.smtp", Crud)
    BY <1>0, <2>1, RenameResourceKeeps DEF Mailboxes
  <2>3. P("fair_crm.smtp", Crud) \subseteq CatalogueCodes(Products0026)
    BY DEF CatalogueCodes, Products0026, Product
  <2>4. \A c \in Codes(d) : Sown(32, c)
    BY <1>32 DEF CatalogueInv, Early
  <2>5. \A c : /\ Sown(32, c) => c \in Mailboxes \/ Sown(31, c)
               /\ c \in CatalogueCodes(Products0026) => Sown(31, c)
    BY DEF Sown
  <2>6. \A c \in Codes(e) : Sown(31, c)
    BY <2>2, <2>3, <2>4, <2>5
  <2>7. CatalogueInv(31, e) /\ RolesOf(e) = RolesOf(d)
    BY <1>0, <1>32, <2>2, <2>6, EarlyKept
  <2> QED BY <1>32, <2>7
<1>39. CASE r \in {39, 40, 43}
  <2>1. e = Need(d, FALSE)
    BY <1>39 DEF CatalogueDown, Irreversible
  <2> QED BY <1>0, <2>1, RaiseFacts
<1>50. CASE r \notin {4, 8, 18, 20, 22, 24, 25, 26, 27, 28, 29, 30, 31, 32, 33, 34, 35, 36, 37,
                      39, 40, 43, 44}
  <2>1. e = d
    <3>1. CASE r = 38
      BY <3>1 DEF CatalogueDown, Irreversible, D0038
    <3>2. CASE r # 38
      <4>1. r \notin Irreversible
        BY <1>50 DEF Irreversible
      <4> QED BY <1>50, <3>2, <4>1, NothingDown
    <3> QED BY <3>1, <3>2
  <2> DEFINE S == {}
  <2>2. Keeps(d, e) /\ Codes(e) \subseteq Codes(d) \ S
    BY <1>0, <2>1, KeepsSelf
  <2>3. r < 39 => \A c : Sown(r, c) => c \in S \/ Sown(r - 1, c)
    BY <1>50 DEF Sown
  <2> HIDE DEF S
  <2> QED BY <1>A, <1>50, <2>2, <2>3
<1> QED BY <1>4, <1>8, <1>18, <1>20, <1>22, <1>24, <1>25, <1>26, <1>27, <1>28, <1>29, <1>30,
           <1>31, <1>32, <1>33, <1>34, <1>35, <1>36, <1>37, <1>39, <1>44, <1>50

-------------------------------------------------------------------------------
(* The scripts from 0046 on.                                                      *)

LEMMA RuledKept ==
    ASSUME NEW m \in 47..73, NEW n \in 47..73, m >= 55 <=> n >= 55, n >= 52 => m >= 52,
           NEW d, CatalogueInv(m, d), NEW e, Keeps(d, e), e.ok
    PROVE  CatalogueInv(n, e) /\ RolesOf(e) = RolesOf(d)
<1>1. ~(n < 46) /\ n >= 46 /\ n >= 47 /\ m >= 46 /\ m >= 47
  OBVIOUS
<1>2. Sound(d) /\ Ruled(d) /\ Complete(d) /\ (m >= 55 <=> d.trig = "scoped")
  BY <1>1 DEF CatalogueInv
<1>3. /\ Shaped(e) /\ Sound(e) /\ Ruled(e) /\ Complete(e)
      /\ RolesOf(e) = RolesOf(d) /\ e.trig = d.trig
  BY <1>2 DEF Keeps
<1>4. n \in {46, 47, 48, 49, 50, 51, 52, 53, 54} => e.trig # "scoped"
  BY <1>2, <1>3
<1>5. n >= 52 => Admin \in RolesOf(e)
  BY <1>3 DEF CatalogueInv
<1>6. n >= 55 <=> e.trig = "scoped"
  BY <1>2, <1>3
<1> QED BY <1>1, <1>3, <1>4, <1>5, <1>6 DEF CatalogueInv

LEMMA MergesKeep ==
    ASSUME NEW d, Shaped(d), d.trig # "scoped"
    PROVE  /\ Keeps(d, U0048(d)) /\ Keeps(d, U0049(d))
           /\ Keeps(d, U0050(d)) /\ Keeps(d, U0051(d)) /\ Keeps(d, D0051(d))
<1>1. Keeps(d, d)
  BY KeepsSelf
<1>2. Keeps(d, U0048(d))
  BY <1>1, MergeVerbKeeps DEF U0048
<1>3. Keeps(d, U0049(d))
  BY <1>1, MergeVerbKeeps DEF U0049
<1>4. Keeps(d, U0050(d))
  BY <1>1, MergeVerbKeeps DEF U0050
<1>5. Keeps(d, U0051(d)) /\ Keeps(d, D0051(d))
  BY <1>1, MergeVerbKeeps DEF U0051, D0051
<1> QED BY <1>2, <1>3, <1>4, <1>5

LEMMA UnmergesKeep ==
    ASSUME NEW d, Shaped(d), d.trig = "legacy"
    PROVE  Keeps(d, D0048(d)) /\ Keeps(d, D0049(d)) /\ Keeps(d, D0050(d))
<1>1. Keeps(d, d)
  BY KeepsSelf
<1>2. Keeps(d, D0048(d))
  BY <1>1, RenameBackKeeps, CloneGrantsKeeps DEF D0048
<1>3. Keeps(d, D0049(d))
  BY <1>1, RenameBackKeeps, CloneKeeps DEF D0049
<1>4. Keeps(d, D0050(d))
  BY <1>1, RenameBackKeeps, CloneKeeps DEF D0050
<1> QED BY <1>2, <1>3, <1>4

(* 0053: the administrators follow no template, and lose nothing.                 *)
LEMMA U0053Keeps ==
    ASSUME NEW d, Shaped(d), d.trig = "legacy", Ruled(d), U0053(d).ok
    PROVE  Keeps(d, U0053(d))
<1>1. CASE UpdateUsers \notin Codes(d)
  <2>1. U0053(d) = Need(d, FALSE)
    BY <1>1 DEF U0053
  <2> QED BY <2>1, RaiseFacts
<1>2. CASE UpdateUsers \in Codes(d)
  <2> DEFINE p == d.perm[UpdateUsers]
             h == Only(DeleteUsers, p)
             a == Insert(d, h)
             e == CopyState(a, UpdateUsers, DeleteUsers)
             lose == IF "create_update_user" \notin Templates(d) THEN {}
                     ELSE {"create_update_user"}
                            \cup {r \in RolesOf(d) : /\ d.role[r].src = "create_update_user"
                                                     /\ ~d.role[r].cust}
             G == e.grant \ (lose \X {DeleteUsers})
             f == [e EXCEPT !.grant = G]
             u == Grant(f, {Admin, "full_user"} \cap Globals(d), {DeleteUsers})
  <2>1. U0053(d) = u
    BY <1>2 DEF U0053
  <2>2. DOMAIN h = {DeleteUsers} /\ h[DeleteUsers] = p
    BY DEF Only
  <2>3. IsPermission(p) /\ (Sound(d) => p.group \in Groups_(d))
    BY <1>2 DEF Shaped, Sound
  <2> HIDE DEF p, h
  <2>4. Keeps(d, a) /\ DeleteUsers \in Codes(a) /\ a.role = d.role
    BY <2>2, <2>3, InsertKeeps
  <2> HIDE DEF a
  <2>5. Keeps(a, e) /\ e.perm = a.perm /\ e.role = a.role
    BY <2>4, KeepsShaped, CopyStateKeeps
  <2> HIDE DEF e
  <2>6. Shaped(e) /\ DeleteUsers \in Codes(e)
    BY <2>4, <2>5, KeepsShaped DEF Codes
  <2>7. Admin \notin lose
    BY DEF Ruled, IsAdministrators, Admin, Templates
  <2> HIDE DEF lose
  <2>8. G \subseteq e.grant /\ \A c : <<Admin, c>> \in e.grant => <<Admin, c>> \in G
    BY <2>7
  <2> HIDE DEF G
  <2>9. Keeps(e, f) /\ f.perm = e.perm
    BY <2>6, <2>8, GrantsKeep
  <2> HIDE DEF f
  <2>10. Shaped(f) /\ {DeleteUsers} \subseteq Codes(f)
    BY <2>6, <2>9, KeepsShaped DEF Codes
  <2>11. {Admin, "full_user"} \cap Globals(d) \subseteq RolesOf(f)
    BY <2>4, <2>5, <2>9, KeepsShaped DEF Globals
  <2>12. Keeps(f, u)
    BY <2>10, <2>11, GrantKeeps
  <2> HIDE DEF u
  <2>13. Keeps(d, u)
    BY <2>4, <2>5, <2>9, <2>12, KeepsAll
  <2> QED BY <2>1, <2>13
<1> QED BY <1>1, <1>2

LEMMA D0054Keeps ==
    ASSUME NEW d, Shaped(d)
    PROVE  Keeps(d, D0054(d))
<1> DEFINE e == SeedAll(d, {Dashboard})
           rs == (({Admin} \cup TemplateSlugs) \cap Globals(d))
                   \cup {r \in RolesOf(d) : /\ ~d.role[r].cust
                                            /\ d.role[r].src \in TemplateSlugs \cap Globals(d)}
           f == Grant(e, rs, Dashboard[2])
<1>1. D0054(d) = f
  BY DEF D0054
<1>2. Keeps(d, e) /\ Dashboard[2] \subseteq Codes(e)
  BY SeedAllKeeps DEF CatalogueCodes
<1> HIDE DEF e
<1>3. Shaped(e) /\ rs \subseteq RolesOf(e)
  BY <1>2, KeepsShaped DEF Globals
<1> HIDE DEF rs
<1>4. Keeps(e, f)
  BY <1>2, <1>3, GrantKeeps
<1> HIDE DEF f
<1> QED BY <1>1, <1>2, <1>4, KeepsAll

LEMMA NormalisedKeeps ==
    ASSUME NEW d, Shaped(d), d.trig # "none", Ruled(d), Admin \in RolesOf(d), NEW fresh
    PROVE  LET e == Normalised(d, fresh)
           IN  Keeps(d, e) /\ e.perm = d.perm /\ e.grant = d.grant
<1> DEFINE R == [d.role EXCEPT ![Admin].kind = "protected_global", ![Admin].org = FALSE,
                               ![Admin].cust = FALSE, ![Admin].auto = TRUE]
           x == d.role[Admin]
           y == [x EXCEPT !.kind = "protected_global", !.org = FALSE,
                          !.cust = FALSE, !.auto = TRUE]
           e == [d EXCEPT !.role = R]
<1>1. Normalised(d, fresh) = e
  BY DEF Normalised, RolesOf
<1>2. R = [d.role EXCEPT ![Admin] = y]
  OBVIOUS
<1>3. IsRole(x) /\ x.src = "none"
  BY DEF Shaped, Ruled, IsAdministrators
<1>4. y = [x EXCEPT !.kind = "protected_global", !.org = FALSE,
                    !.cust = FALSE, !.auto = TRUE]
  OBVIOUS
<1> HIDE DEF R, x, y
<1>5. IsRole(y) /\ IsAdministrators(y)
  BY <1>3, <1>4 DEF IsRole, IsAdministrators
<1>6. /\ DOMAIN R = RolesOf(d) /\ R[Admin] = y
      /\ \A r \in RolesOf(d) \ {Admin} : R[r] = d.role[r]
  BY <1>2 DEF RolesOf
<1>7. \A r \in RolesOf(d) : IsRole(R[r])
  BY <1>5, <1>6 DEF Shaped
<1>8. Keeps(d, e) /\ e.perm = d.perm /\ e.grant = d.grant
  BY <1>5, <1>6, <1>7, RolesKeep
<1> QED BY <1>1, <1>8
(* 0059: the repair of the administrators.                                        *)
LEMMA U0059Keeps ==
    ASSUME NEW d, Shaped(d), d.ok, Sound(d), d.trig = "scoped", Ruled(d), Admin \in RolesOf(d)
    PROVE  Keeps(d, U0059(d))
<1> DEFINE ops == Operations[2] \cap Codes(d)
           F == [c \in ops |-> [d.perm[c] EXCEPT !.assignable = TRUE, !.scope = "organization"]]
           a == Rewrite(d, F)
           e == Normalised(a, <<>>)
           f == Grant(e, {Admin} \cap Globals(e), OfOrg(e))
           G == {p \in f.grant : p[1] = Admin => f.perm[p[2]].scope # "system"}
           w == [f EXCEPT !.grant = G]
<1>1. U0059(d) = w
  BY DEF U0059
<1>2. \A c \in DOMAIN F : /\ IsPermission(F[c]) /\ F[c].scope = "organization"
                          /\ F[c].group = d.perm[c].group
  <2>1. SUFFICES ASSUME NEW c \in ops
                 PROVE  /\ IsPermission(F[c]) /\ F[c].scope = "organization"
                        /\ F[c].group = d.perm[c].group
    OBVIOUS
  <2> DEFINE p == d.perm[c]
  <2>2. IsPermission(p) /\ F[c] = [p EXCEPT !.assignable = TRUE, !.scope = "organization"]
    BY DEF Shaped
  <2> HIDE DEF p, F
  <2>3. IsPermission(F[c]) /\ F[c].scope = "organization" /\ F[c].group = p.group
    BY <2>2 DEF IsPermission
  <2> QED BY <2>3 DEF p
<1>3. DOMAIN F \subseteq Codes(d)
  OBVIOUS
<1> HIDE DEF F
<1>4. Keeps(d, a) /\ a.role = d.role
  BY <1>2, <1>3, RewriteKeeps DEF Sound, Triggers
<1>5. a.ok
  BY <1>2, <1>3, RewriteFacts DEF Triggers
<1> HIDE DEF a
<1>6. Shaped(a) /\ Ruled(a) /\ a.trig = "scoped" /\ Admin \in RolesOf(a)
  BY <1>4, <1>5 DEF Keeps
<1>7. Keeps(a, e)
  BY <1>6, NormalisedKeeps
<1> HIDE DEF e
<1>8. Shaped(e)
  BY <1>7, KeepsShaped
<1>9. Keeps(e, f)
  BY <1>8, GrantKeeps DEF Globals, OfOrg, Active
<1> HIDE DEF f
<1>10. Shaped(f)
  BY <1>9, KeepsShaped
<1>11. G \subseteq f.grant /\ \A c \in OfOrg(f) : <<Admin, c>> \in f.grant => <<Admin, c>> \in G
  BY DEF OfOrg
<1> HIDE DEF G
<1>12. Keeps(f, w)
  BY <1>10, <1>11, GrantsKeep
<1> HIDE DEF w
<1> QED BY <1>1, <1>4, <1>7, <1>9, <1>12, KeepsAll

LEMMA U0060Keeps ==
    ASSUME NEW d, Shaped(d), d.trig = "scoped"
    PROVE  Keeps(d, U0060(d))
<1> DEFINE g == CustomerGroup(d)
           cs == {ExecuteCustomers}
           a == Reseed(d, g, cs)
           rs == {Admin, "full_user"} \cap Globals(a)
           b == Grant(a, rs, cs)
           f == NewVersion(b, {"full_user"})
           h == Grant(f, Followers(f, {"full_user"}), cs)
           w == Stamp(h, {"full_user"})
<1>1. U0060(d) = w
  BY DEF U0060
<1> HIDE DEF g, cs
<1>2. Keeps(d, a) /\ cs \subseteq Codes(a)
  BY ReseedKeeps DEF Triggers
<1> HIDE DEF a
<1>3. Shaped(a) /\ a.trig = "scoped" /\ rs \subseteq RolesOf(a)
  BY <1>2, KeepsShaped DEF Globals
<1>4. Grantable(a, rs, cs)
  BY <1>2, <1>3 DEF Grantable
<1> HIDE DEF rs
<1>5. Keeps(a, b) /\ b.perm = a.perm
  BY <1>3, <1>4, GrantFacts
<1> HIDE DEF b
<1>6. Shaped(b) /\ b.trig = "scoped" /\ cs \subseteq Codes(b)
  BY <1>2, <1>3, <1>5, KeepsShaped DEF Codes
<1>7. Keeps(b, f) /\ f.perm = b.perm
  BY <1>6, NewVersionKeeps
<1> HIDE DEF f
<1>8. Shaped(f) /\ f.trig = "scoped" /\ cs \subseteq Codes(f)
  BY <1>6, <1>7, KeepsShaped DEF Codes
<1>9. Keeps(f, h)
  BY <1>8, GrantKeeps DEF Followers
<1> HIDE DEF h
<1>10. Shaped(h) /\ h.trig = "scoped"
  BY <1>8, <1>9, KeepsShaped
<1>11. Keeps(h, w)
  BY <1>10, StampKeeps
<1> HIDE DEF w
<1> QED BY <1>1, <1>2, <1>5, <1>7, <1>9, <1>11, KeepsAll

LEMMA U0062Keeps ==
    ASSUME NEW d, Shaped(d), d.trig = "scoped"
    PROVE  Keeps(d, U0062(d))
<1> DEFINE read == <<MailSend, "read">>
           exec == <<MailSend, "execute">>
           from == <<"fair_crm.email_accounts", "read">>
           also == <<"fair_crm.email_accounts", "update">>
           cs == P(MailSend, {"read", "execute"})
           a == Reseed(d, MailSend, cs)
           b == CopyState(a, from, read)
           e == CopyState(b, also, exec)
<1>1. U0062(d) = e
  BY DEF U0062
<1>2. read \in cs /\ exec \in cs
  BY DEF P
<1> HIDE DEF cs, read, exec, from, also
<1>3. /\ Keeps(d, a) /\ read \in Codes(a) /\ exec \in Codes(a)
      /\ a.perm[read] = Org(MailSend) /\ a.perm[exec] = Org(MailSend)
  BY <1>2, ReseedKeeps DEF Triggers
<1> HIDE DEF a
<1>4. /\ Shaped(a) /\ a.perm[read].scope = "organization"
      /\ a.perm[exec].scope = "organization"
  BY <1>3, KeepsShaped, PermissionFacts
<1>5. Keeps(a, b) /\ b.perm = a.perm
  BY <1>3, <1>4, CopyStateKeeps
<1> HIDE DEF b
<1>6. Shaped(b) /\ exec \in Codes(b) /\ b.perm[exec].scope = "organization"
  BY <1>3, <1>4, <1>5, KeepsShaped DEF Codes
<1>7. Keeps(b, e)
  BY <1>6, CopyStateKeeps
<1> HIDE DEF e
<1> QED BY <1>1, <1>3, <1>5, <1>7, KeepsAll

LEMMA D0072Keeps ==
    ASSUME NEW d, Shaped(d), d.trig = "scoped"
    PROVE  Keeps(d, D0072(d))
<1>1. CASE StandGroup \notin Groups_(d)
  BY <1>1, KeepsSelf DEF D0072
<1>2. CASE StandGroup \in Groups_(d)
  <2> DEFINE f == [c \in StandPreviews |-> Sys(StandGroup)]
             e == Insert(d, f)
  <2>1. D0072(d) = e
    BY <1>2 DEF D0072
  <2>2. \A c \in DOMAIN f : IsPermission(f[c]) /\ f[c].group = StandGroup
    BY PermissionFacts
  <2> HIDE DEF f
  <2>3. Keeps(d, e)
    BY <1>2, <2>2, InsertKeeps
  <2> HIDE DEF e
  <2> QED BY <2>1, <2>3
<1> QED BY <1>1, <1>2

LEMMA U0061Keeps ==
    ASSUME NEW d, Shaped(d), d.trig = "scoped", NEW e, e = U0061(d), e.ok
    PROVE  Keeps(d, e)
<1>1. CASE ReadBackups \notin Codes(d)
  <2>1. e = Need(d, FALSE)
    BY <1>1 DEF U0061
  <2> QED BY <2>1, RaiseFacts
<1>2. CASE ReadBackups \in Codes(d)
  <2> DEFINE g == d.perm[ReadBackups].group
             cs == {BackupsDelete}
  <2>1. e = SeedSystem(d, g, cs)
    BY <1>2 DEF U0061
  <2>2. Sound(d) => g \in Groups_(d)
    BY <1>2 DEF Sound
  <2> HIDE DEF g, cs
  <2> QED BY <2>1, <2>2, SeedSystemKeeps
<1> QED BY <1>1, <1>2

LEMMA U0065Keeps ==
    ASSUME NEW d, Shaped(d), d.trig = "scoped", NEW e, e = U0065(d), e.ok
    PROVE  Keeps(d, e)
<1>1. CASE UpdateOrganization \notin Codes(d)
  <2>1. e = Need(d, FALSE)
    BY <1>1 DEF U0065
  <2> QED BY <2>1, RaiseFacts
<1>2. CASE UpdateOrganization \in Codes(d)
  <2> DEFINE g == d.perm[UpdateOrganization].group
             cs == {Reactivate}
  <2>1. e = SeedSystem(d, g, cs)
    BY <1>2 DEF U0065
  <2>2. Sound(d) => g \in Groups_(d)
    BY <1>2 DEF Sound
  <2> HIDE DEF g, cs
  <2> QED BY <2>1, <2>2, SeedSystemKeeps
<1> QED BY <1>1, <1>2

(* UPDATE ... SET permission_scope or assignable, before permissions have a       *)
(* trigger on their scope.                                                      *)
LEMMA PermissionsKeep ==
    ASSUME NEW d, Shaped(d), d.trig = "legacy", NEW Q, DOMAIN Q = Codes(d),
           \A c \in Codes(d) : /\ IsPermission(Q[c]) /\ Q[c].group = d.perm[c].group
                               /\ Q[c].state = d.perm[c].state
    PROVE  LET e == [d EXCEPT !.perm = Q]
           IN  /\ Shaped(e) /\ e.perm = Q /\ e.role = d.role /\ e.group = d.group
               /\ e.grant = d.grant /\ e.excl = d.excl /\ e.trig = d.trig /\ e.ok = d.ok
               /\ Sound(d) => Sound(e)
               /\ Sound(d) /\ Ruled(d) => Ruled(e)
<1> DEFINE e == [d EXCEPT !.perm = Q]
<1>1. /\ IsCatalogue(e) /\ e.perm = Q /\ e.role = d.role /\ e.group = d.group
      /\ e.grant = d.grant /\ e.excl = d.excl /\ e.trig = d.trig /\ e.ok = d.ok
  BY DEF Shaped, IsCatalogue
<1> HIDE DEF e
<1>2. Shaped(e)
  BY <1>1 DEF Shaped, Codes, RolesOf
<1>3. Sound(d) => Sound(e)
  BY <1>1 DEF Sound, Codes, RolesOf, Groups_
<1>4. Sound(d) /\ Ruled(d) => Ruled(e)
  BY <1>1 DEF Sound, Ruled, Live, RolesOf, Codes
<1> QED BY <1>1, <1>2, <1>3, <1>4 DEF e

LEMMA RoleFacts ==
    IsRole(AdminRole) /\ IsRole(PlainRole) /\ IsRole(Template) /\ IsAdministrators(AdminRole)
<1>1. IsRole(PlainRole) /\ PlainRole.org = FALSE /\ PlainRole.src = "none"
  BY DEF IsRole, PlainRole
<1>2. AdminRole = [PlainRole EXCEPT !.kind = "protected_global", !.auto = TRUE]
  BY DEF AdminRole
<1>3. Template = [PlainRole EXCEPT !.kind = "template"]
  BY DEF Template
<1>4. IsRole(AdminRole) /\ IsAdministrators(AdminRole)
  BY <1>1, <1>2 DEF IsRole, IsAdministrators
<1>5. IsRole(Template)
  BY <1>1, <1>3 DEF IsRole
<1> QED BY <1>1, <1>4, <1>5

(* 0046: the catalogue comes under the triggers.                                  *)
LEMMA U0046Rules ==
    ASSUME NEW d, Shaped(d), d.ok, Sound(d), Plain(d), NEW u, u = U0046(d), u.ok
    PROVE  /\ u.ok /\ Shaped(u) /\ Sound(u) /\ Ruled(u) /\ u.trig = "legacy"
           /\ RolesOf(d) \subseteq RolesOf(u) /\ RolesOf(u) \subseteq RolesOf(d) \cup Founded
<1> DEFINE b == "identity" \in Groups_(d)
           n == Need(d, b)
           F == GovernancePerms
           R == Over([r \in RolesOf(d) |-> IF r = Admin THEN AdminRole ELSE d.role[r]],
                     [r \in TemplateSlugs |-> Template])
           Q == [c \in Codes(d) \cap DOMAIN F |->
                   [d.perm[c] EXCEPT !.assignable = F[c].assignable]]
           x == [n EXCEPT !.role = R, !.perm = Over(Q, @)]
           y == Insert(x, F)
           rs == {Admin} \cap RolesOf(y)
           g == Grant(y, rs, Active(y))
           made == {p \in Templates(y) \X Assignable(y) : MadeFor(p[1], p[2])}
           h == GrantAll(g, made)
           w == [h EXCEPT !.trig = "legacy"]
<1>1. u = w
  BY DEF U0046
<1>2. \A c \in DOMAIN F : /\ IsPermission(F[c]) /\ F[c].group = "identity"
                          /\ F[c].state = "active"
  <2> DEFINE o == Org("identity")
             q == [o EXCEPT !.assignable = FALSE]
  <2>1. \A c \in DOMAIN F : F[c] = o \/ F[c] = q
    BY DEF GovernancePerms, Over
  <2>2. IsPermission(o) /\ o.group = "identity" /\ o.state = "active"
    BY PermissionFacts
  <2>3. q = [o EXCEPT !.assignable = FALSE]
    OBVIOUS
  <2> HIDE DEF F, o, q
  <2>4. IsPermission(q) /\ q.group = "identity" /\ q.state = "active"
    BY <2>2, <2>3 DEF IsPermission
  <2> QED BY <2>1, <2>2, <2>4
<1>3. /\ DOMAIN R = RolesOf(d) \cup TemplateSlugs
      /\ \A r \in DOMAIN R : R[r] \in {AdminRole, PlainRole, Template}
      /\ Admin \in DOMAIN R => R[Admin] = AdminRole
  BY DEF Plain, Over, TemplateSlugs, Admin
<1>4. IsRole(AdminRole) /\ IsRole(PlainRole) /\ IsRole(Template) /\ IsAdministrators(AdminRole)
  BY RoleFacts
<1>5. \A c \in DOMAIN Q : /\ c \in Codes(d) /\ IsPermission(Q[c])
                          /\ Q[c].group = d.perm[c].group /\ Q[c].state = "active"
  <2>1. SUFFICES ASSUME NEW c \in DOMAIN Q
                 PROVE  /\ c \in Codes(d) /\ IsPermission(Q[c])
                        /\ Q[c].group = d.perm[c].group /\ Q[c].state = "active"
    OBVIOUS
  <2> DEFINE p == d.perm[c]
             v == F[c].assignable
  <2>2. p = Org(p.group)
    BY DEF Plain
  <2>3. IsPermission(p) /\ p.state = "active"
    BY <2>2, PermissionFacts
  <2>4. Q[c] = [p EXCEPT !.assignable = v]
    OBVIOUS
  <2> HIDE DEF p, v, Q
  <2>5. IsPermission(Q[c]) /\ Q[c].group = p.group /\ Q[c].state = "active"
    BY <2>3, <2>4 DEF IsPermission
  <2> QED BY <2>5 DEF p, Q
<1>6. DOMAIN Q \subseteq Codes(d)
  OBVIOUS
<1>7. /\ IsCatalogue(n) /\ n.perm = d.perm /\ n.role = d.role /\ n.group = d.group
      /\ n.grant = d.grant /\ n.excl = d.excl /\ n.trig = d.trig /\ (n.ok => d.ok /\ b)
  <2> HIDE DEF b
  <2>1. /\ IsCatalogue(n) /\ n.perm = d.perm /\ n.role = d.role /\ n.group = d.group
        /\ n.grant = d.grant /\ n.excl = d.excl /\ n.trig = d.trig /\ n.ok = (d.ok /\ b)
    BY NeedFacts DEF Shaped
  <2> HIDE DEF n
  <2>2. n.ok => d.ok /\ b
    BY <2>1, Zenon
  <2> QED BY <2>1, <2>2
<1>8. d.trig = "none" /\ d.excl = {}
  BY DEF Plain
<1> HIDE DEF n, F, R, Q, b
<1>9. /\ IsCatalogue(x) /\ x.perm = Over(Q, d.perm) /\ x.role = R /\ x.group = d.group
      /\ x.grant = d.grant /\ x.excl = {} /\ x.trig = "none" /\ (x.ok => b)
  <2>1. x = [n EXCEPT !.role = R, !.perm = Over(Q, n.perm)]
    OBVIOUS
  <2> HIDE DEF x
  <2>2. /\ IsCatalogue(x) /\ x.perm = Over(Q, n.perm) /\ x.role = R /\ x.group = n.group
        /\ x.grant = n.grant /\ x.excl = n.excl /\ x.trig = n.trig /\ x.ok = n.ok
    BY <1>7, <2>1 DEF IsCatalogue
  <2>3. x.ok => b
    BY <1>7, <2>2
  <2> QED BY <1>7, <1>8, <2>2, <2>3
<1> HIDE DEF x
<1>10. /\ IsCatalogue(y) /\ y.perm = Over(x.perm, F) /\ y.role = R /\ y.group = d.group
       /\ y.grant = d.grant /\ y.excl = {} /\ y.trig = "none" /\ (y.ok => b)
  BY <1>9 DEF IsCatalogue, Insert
<1> HIDE DEF y
<1>11. /\ Codes(y) = Codes(d) \cup DOMAIN F
       /\ \A c \in Codes(y) : /\ IsPermission(y.perm[c]) /\ y.perm[c].state = "active"
                              /\ y.perm[c].group \in {d.perm[c].group, "identity"}
                              /\ c \notin Codes(d) => y.perm[c].group = "identity"
  <2>1. /\ DOMAIN x.perm = Codes(d)
        /\ \A c \in Codes(d) : x.perm[c] = IF c \in DOMAIN Q THEN Q[c] ELSE d.perm[c]
    BY <1>6, <1>9 DEF Over, Codes
  <2>2. /\ Codes(y) = Codes(d) \cup DOMAIN F
        /\ \A c \in Codes(y) : y.perm[c] = IF c \in Codes(d) THEN x.perm[c] ELSE F[c]
    BY <1>10, <2>1 DEF Over, Codes
  <2>3. \A c \in Codes(d) : IsPermission(d.perm[c]) /\ d.perm[c].state = "active"
    BY PermissionFacts DEF Plain
  <2> QED BY <1>2, <1>5, <2>1, <2>2, <2>3
<1>12. Shaped(y)
  BY <1>3, <1>4, <1>10, <1>11 DEF Shaped, RolesOf
<1>13. y.ok => Sound(y)
  <2>1. ASSUME y.ok, NEW c \in Codes(y)
        PROVE  y.perm[c].group \in Groups_(d)
    BY <1>10, <1>11, <2>1 DEF Sound, b
  <2>2. d.grant \subseteq RolesOf(y) \X Codes(y)
    BY <1>3, <1>10, <1>11 DEF Sound, RolesOf
  <2> QED BY <1>10, <2>1, <2>2 DEF Sound, Groups_
<1>14. g = Grant(y, rs, Active(y)) /\ Grantable(y, rs, Active(y))
  BY DEF Active, Grantable
<1> HIDE DEF g, rs
<1>15. Keeps(y, g) /\ g.perm = y.perm /\ g.role = y.role /\ g.excl = y.excl
  BY <1>12, <1>14, GrantFacts
<1>16. h = GrantAll(g, made) /\ made \subseteq RolesOf(y) \X Codes(y)
  BY DEF Templates, Assignable, Active
<1> HIDE DEF made, h
<1>17. Shaped(g) /\ made \subseteq RolesOf(g) \X Codes(g)
  BY <1>15, <1>16, KeepsShaped DEF Codes, RolesOf
<1>18. Keeps(g, h) /\ h.perm = g.perm /\ h.role = g.role /\ h.excl = g.excl
  BY <1>16, <1>17, GrantAllKeeps
<1>19. Shaped(h) /\ h.perm = y.perm /\ h.role = R /\ (h.ok => y.ok)
  BY <1>10, <1>15, <1>18 DEF Keeps
<1>20. h.ok => Sound(h) /\ h.excl = {}
  <2>1. h.ok => Sound(h)
    BY <1>13, <1>15, <1>18 DEF Keeps
  <2> QED BY <1>10, <1>15, <1>18, <2>1
<1>21. /\ IsCatalogue(w) /\ w.perm = h.perm /\ w.role = h.role /\ w.group = h.group
       /\ w.grant = h.grant /\ w.excl = h.excl /\ w.trig = "legacy" /\ w.ok = h.ok
  BY <1>19 DEF Shaped, IsCatalogue
<1> HIDE DEF w
<1>22. h.ok
  BY <1>1, <1>21
<1>23. Shaped(w) /\ Sound(w)
  BY <1>19, <1>20, <1>21, <1>22 DEF Shaped, Sound, Codes, RolesOf, Groups_
<1>24. Ruled(w)
  <2>1. \A p \in w.grant : p[2] \in Codes(y)
    BY <1>19, <1>20, <1>21, <1>22 DEF Sound, Codes
  <2>2. \A p \in w.grant : Live(w, p[2])
    BY <1>11, <1>19, <1>21, <2>1 DEF Live
  <2>3. Admin \in RolesOf(w) => IsAdministrators(w.role[Admin])
    BY <1>3, <1>4, <1>19, <1>21 DEF RolesOf
  <2> QED BY <1>20, <1>21, <1>22, <2>2, <2>3 DEF Ruled, Triggers
<1>25. RolesOf(d) \subseteq RolesOf(w) /\ RolesOf(w) \subseteq RolesOf(d) \cup Founded
  BY <1>3, <1>19, <1>21 DEF RolesOf, Founded
<1> QED BY <1>1, <1>21, <1>22, <1>23, <1>24, <1>25

LEMMA D0046Plain ==
    ASSUME NEW d, Shaped(d), d.ok, Sound(d), NEW e, e = D0046(d)
    PROVE  e.ok /\ Shaped(e) /\ Sound(e) /\ Plain(e) /\ RolesOf(e) = RolesOf(d)
<1> DEFINE R == [r \in RolesOf(d) |-> PlainRole]
           Q == [c \in Codes(d) |-> Org(d.perm[c].group)]
<1>1. e = [d EXCEPT !.trig = "none", !.excl = {}, !.role = R, !.perm = Q]
  BY DEF D0046, RolesOf, Codes
<1>2. DOMAIN R = RolesOf(d) /\ \A r \in RolesOf(d) : R[r] = PlainRole
  OBVIOUS
<1>3. /\ DOMAIN Q = Codes(d)
      /\ \A c \in Codes(d) : Q[c] = Org(d.perm[c].group)
  OBVIOUS
<1> HIDE DEF R, Q
<1>4. /\ IsCatalogue(e) /\ e.perm = Q /\ e.role = R /\ e.group = d.group
      /\ e.grant = d.grant /\ e.excl = {} /\ e.trig = "none" /\ e.ok = d.ok
  BY <1>1 DEF Shaped, IsCatalogue
<1>5. \A c \in Codes(d) : IsPermission(Q[c]) /\ Q[c].group = d.perm[c].group
  BY <1>3, PermissionFacts
<1>6. IsRole(PlainRole)
  BY DEF IsRole, PlainRole
<1>7. Shaped(e)
  BY <1>2, <1>3, <1>4, <1>5, <1>6 DEF Shaped, Codes, RolesOf
<1>8. Sound(e)
  BY <1>2, <1>3, <1>4, <1>5 DEF Sound, Codes, RolesOf, Groups_
<1>9. Plain(e)
  BY <1>2, <1>3, <1>4, <1>5 DEF Plain, Codes, RolesOf
<1> QED BY <1>2, <1>4, <1>7, <1>8, <1>9 DEF RolesOf

(* A catalogue under one of the triggers that ask for an active permission alone. *)
LEMMA TriggerFacts ==
    ASSUME NEW d, Shaped(d), Sound(d), Ruled(d), NEW t \in {"legacy", "noregrant"}
    PROVE  LET e == [d EXCEPT !.trig = t]
           IN  /\ Shaped(e) /\ Sound(e) /\ Ruled(e)
               /\ e.perm = d.perm /\ e.role = d.role /\ e.group = d.group
               /\ e.grant = d.grant /\ e.trig = t /\ e.ok = d.ok
<1> DEFINE e == [d EXCEPT !.trig = t]
<1>1. /\ IsCatalogue(e) /\ e.perm = d.perm /\ e.role = d.role /\ e.group = d.group
      /\ e.grant = d.grant /\ e.excl = d.excl /\ e.trig = t /\ e.ok = d.ok
  BY DEF Shaped, IsCatalogue
<1> HIDE DEF e
<1>2. Shaped(e) /\ Sound(e)
  BY <1>1 DEF Shaped, Sound, Codes, RolesOf, Groups_
<1>3. Ruled(e)
  BY <1>1 DEF Ruled, Live, Triggers, RolesOf
<1> QED BY <1>1, <1>2, <1>3 DEF e

LEMMA U0047Completes ==
    ASSUME NEW d, Shaped(d), d.ok, Sound(d), Ruled(d), d.trig # "scoped",
           NEW u, u = U0047(d), u.ok
    PROVE  /\ u.ok /\ Shaped(u) /\ Sound(u) /\ Ruled(u) /\ Complete(u) /\ u.trig = "legacy"
           /\ RolesOf(u) = RolesOf(d)
<1> DEFINE rs == AutoRoles(d)
           cs == Active(d)
           e == Grant(d, rs, cs)
           f == [e EXCEPT !.trig = "legacy"]
           b == \A r \in RolesOf(d) : KindFits(d.role[r])
           w == Need(f, b)
<1>1. u = w
  BY DEF U0047
<1>2. Grantable(d, rs, cs) /\ e = Grant(d, rs, cs)
  BY DEF AutoRoles, Active, Grantable
<1>3. Admin \in RolesOf(d) => Admin \in rs
  BY DEF AutoRoles, Ruled, IsAdministrators
<1> HIDE DEF rs, cs, e, b
<1>4. /\ Keeps(d, e) /\ e.perm = d.perm /\ e.role = d.role
      /\ e.grant = d.grant \cup (rs \X cs)
  BY <1>2, GrantFacts
<1>5. IsCatalogue(f) /\ f.ok = e.ok
  <2>1. IsCatalogue(e)
    BY <1>4 DEF Keeps, Shaped
  <2> QED BY <2>1 DEF IsCatalogue
<1>6. w.ok = (f.ok /\ b)
  <2> HIDE DEF f
  <2> QED BY <1>5, NeedFacts
<1>7. e.ok
  <2> HIDE DEF f, w
  <2>1. f.ok
    BY <1>1, <1>6, Zenon
  <2> QED BY <1>5, <2>1
<1>8. Shaped(e) /\ Sound(e) /\ Ruled(e)
  BY <1>4, <1>7 DEF Keeps
<1>9. /\ Shaped(f) /\ Sound(f) /\ Ruled(f) /\ f.perm = e.perm /\ f.role = e.role
      /\ f.grant = e.grant /\ f.trig = "legacy"
  BY <1>8, TriggerFacts
<1> HIDE DEF f
<1>10. Complete(f)
  BY <1>3, <1>4, <1>9 DEF Complete, OfOrg, Active, Codes, RolesOf, cs
<1>11. Keeps(f, w)
  BY <1>9, NeedKeeps
<1> HIDE DEF w
<1>12. Shaped(w) /\ Sound(w) /\ Ruled(w) /\ Complete(w) /\ w.trig = "legacy"
       /\ RolesOf(w) = RolesOf(f)
  BY <1>1, <1>9, <1>10, <1>11 DEF Keeps
<1> QED BY <1>1, <1>4, <1>9, <1>12 DEF RolesOf

(* 0052: the administrators' role, there from now on, and holding everything.      *)
LEMMA U0052Completes ==
    ASSUME NEW d, Shaped(d), d.ok, Sound(d), Ruled(d), d.trig = "legacy",
           NEW u, u = U0052(d), u.ok
    PROVE  /\ u.ok /\ Shaped(u) /\ Sound(u) /\ Ruled(u) /\ Complete(u) /\ u.trig = "legacy"
           /\ RolesOf(d) \subseteq RolesOf(u) /\ RolesOf(u) \subseteq RolesOf(d) \cup Founded
           /\ Admin \in RolesOf(u)
<1> DEFINE fresh == Only(Admin, AdminRole)
           e == Normalised(d, fresh)
           rs == {Admin}
           cs == Active(d)
           w == Grant(e, rs, cs)
<1>1. u = w
  BY DEF U0052
<1>2. /\ Shaped(e) /\ Sound(e) /\ Ruled(e) /\ e.perm = d.perm /\ e.trig = "legacy"
      /\ RolesOf(d) \subseteq RolesOf(e) /\ RolesOf(e) \subseteq RolesOf(d) \cup Founded
      /\ Admin \in RolesOf(e)
  <2>1. CASE Admin \in RolesOf(d)
    <3> HIDE DEF fresh
    <3>1. Keeps(d, e) /\ e.perm = d.perm /\ (d.ok => e.ok)
      <4>1. Keeps(d, e) /\ e.perm = d.perm
        BY <2>1, NormalisedKeeps
      <4>2. e.ok = d.ok
        BY <2>1 DEF Normalised, Shaped, IsCatalogue
      <4> QED BY <4>1, <4>2
    <3> HIDE DEF e
    <3> QED BY <2>1, <3>1 DEF Keeps
  <2>2. CASE Admin \notin RolesOf(d)
    <3> DEFINE R == Over(fresh, d.role)
    <3>1. e = [d EXCEPT !.role = R]
      BY <2>2 DEF Normalised, RolesOf
    <3>2. /\ DOMAIN R = RolesOf(d) \cup {Admin} /\ R[Admin] = AdminRole
          /\ \A r \in RolesOf(d) : R[r] = d.role[r]
      BY <2>2 DEF Over, Only, RolesOf
    <3> HIDE DEF R, e
    <3>3. /\ IsCatalogue(e) /\ e.perm = d.perm /\ e.role = R /\ e.group = d.group
          /\ e.grant = d.grant /\ e.excl = d.excl /\ e.trig = d.trig /\ e.ok = d.ok
      BY <3>1 DEF Shaped, IsCatalogue
    <3>4. Shaped(e)
      BY <3>2, <3>3, RoleFacts DEF Shaped, Codes, RolesOf
    <3>5. Sound(e)
      BY <3>2, <3>3 DEF Sound, Codes, RolesOf, Groups_
    <3>6. Ruled(e)
      BY <3>2, <3>3, RoleFacts DEF Ruled, Live, RolesOf
    <3> QED BY <3>2, <3>3, <3>4, <3>5, <3>6 DEF RolesOf, Founded
  <2> QED BY <2>1, <2>2
<1> HIDE DEF e
<1>3. Grantable(e, rs, cs)
  BY <1>2 DEF Grantable, Active, Codes
<1>4. Admin \in rs /\ \A c \in OfOrg(e) : c \in cs
  BY <1>2 DEF OfOrg, Active, Codes
<1> HIDE DEF rs, cs
<1>5. Keeps(e, w) /\ w.perm = e.perm /\ w.role = e.role /\ w.grant = e.grant \cup (rs \X cs)
  BY <1>2, <1>3, GrantFacts
<1> HIDE DEF w
<1>6. Shaped(w) /\ Sound(w) /\ Ruled(w) /\ w.trig = "legacy" /\ RolesOf(w) = RolesOf(e)
  BY <1>1, <1>2, <1>5 DEF Keeps
<1>7. Complete(w)
  BY <1>4, <1>5, <1>6 DEF Complete, OfOrg, Active, Codes
<1> QED BY <1>1, <1>2, <1>6, <1>7

(* 0055: permissions have a scope, and a role holds nothing of the platform's.     *)
LEMMA U0055Scopes ==
    ASSUME NEW d, Shaped(d), d.ok, Sound(d), Ruled(d), Complete(d), d.trig = "legacy",
           NEW u, u = U0055(d), u.ok
    PROVE  /\ u.ok /\ Shaped(u) /\ Sound(u) /\ Ruled(u) /\ Complete(u) /\ u.trig = "scoped"
           /\ RolesOf(u) = RolesOf(d)
<1> DEFINE b == SystemPerms \cup {UpdateOrganization} \subseteq Codes(d)
           n == Need(d, b)
           F == [c \in SystemPerms \cap Codes(d) |->
                   [d.perm[c] EXCEPT !.assignable = FALSE, !.scope = "system"]]
           Q == Over(F, d.perm)
           e == [n EXCEPT !.perm = Over(F, @)]
           g == IF UpdateOrganization \in Codes(d) THEN d.perm[UpdateOrganization].group
                ELSE "identity"
           X == Only(Suspend, Sys(g))
           f == Insert(e, X)
           cs == {c \in Codes(f) : f.perm[c].scope = "system"}
           h == Revoke(f, cs)
           w == [h EXCEPT !.trig = "scoped"]
<1>1. /\ Shaped(n) /\ Sound(n) /\ Ruled(n) /\ n.perm = d.perm /\ n.role = d.role
      /\ n.group = d.group /\ n.grant = d.grant /\ n.trig = "legacy" /\ n.ok = (d.ok /\ b)
  <2> HIDE DEF b
  <2>1. /\ Keeps(d, n) /\ n.perm = d.perm /\ n.role = d.role /\ n.group = d.group
        /\ n.grant = d.grant /\ n.excl = d.excl /\ n.trig = d.trig /\ n.ok = (d.ok /\ b)
    BY NeedKeeps
  <2> HIDE DEF n
  <2>2. Shaped(n) /\ Sound(n) /\ Ruled(n)
    BY <2>1 DEF Keeps, Shaped, Sound, Ruled, Live, Codes, RolesOf, Groups_
  <2> QED BY <2>1, <2>2
<1>2. u = w
  BY DEF U0055
<1>3. n.ok => b
  <2> HIDE DEF b, n
  <2> QED BY <1>1, Zenon
<1>4. /\ DOMAIN Q = Codes(d)
      /\ \A c \in Codes(d) : /\ IsPermission(Q[c]) /\ Q[c].group = d.perm[c].group
                             /\ Q[c].state = d.perm[c].state
                             /\ Q[c].scope = "organization" => d.perm[c].scope = "organization"
  <2>1. ASSUME NEW c \in DOMAIN F
        PROVE  /\ IsPermission(F[c]) /\ F[c].group = d.perm[c].group
               /\ F[c].state = d.perm[c].state /\ F[c].scope = "system"
    <3> DEFINE p == d.perm[c]
    <3>1. IsPermission(p) /\ F[c] = [p EXCEPT !.assignable = FALSE, !.scope = "system"]
      BY <2>1 DEF Shaped
    <3> HIDE DEF p, F
    <3>2. /\ IsPermission(F[c]) /\ F[c].scope = "system" /\ F[c].group = p.group
          /\ F[c].state = p.state
      BY <3>1 DEF IsPermission
    <3> QED BY <3>2 DEF p
  <2>2. DOMAIN F \subseteq Codes(d)
    OBVIOUS
  <2> HIDE DEF F
  <2>3. /\ DOMAIN Q = Codes(d)
        /\ \A c \in Codes(d) : Q[c] = IF c \in DOMAIN F THEN F[c] ELSE d.perm[c]
    BY <2>2 DEF Over, Codes
  <2> HIDE DEF Q
  <2> QED BY <2>1, <2>3 DEF Shaped
<1>5. g \in Groups_(d) \/ ~b
  BY DEF Sound
<1>6. e = [n EXCEPT !.perm = Q]
  <2> HIDE DEF n, F
  <2> QED BY <1>1
<1>7. DOMAIN X = {Suspend} /\ X[Suspend] = Sys(g)
  BY DEF Only
<1> HIDE DEF b, n, Q, g, X, e
<1>8. /\ Shaped(e) /\ Sound(e) /\ Ruled(e) /\ e.perm = Q /\ e.role = n.role
      /\ e.group = n.group /\ e.grant = n.grant /\ e.trig = n.trig /\ e.ok = n.ok
  BY <1>1, <1>4, <1>6, PermissionsKeep DEF Codes
<1>9. Complete(e)
  BY <1>1, <1>4, <1>8 DEF Complete, OfOrg, Active, Codes, RolesOf
<1>10. e.ok => g \in Groups_(e)
  BY <1>1, <1>3, <1>5, <1>8 DEF Groups_
<1>11. IsPermission(X[Suspend]) /\ X[Suspend].group = g
  BY <1>7, PermissionFacts
<1>12. Keeps(e, f) /\ f.role = e.role /\ f.ok = e.ok
  BY <1>1, <1>7, <1>8, <1>10, <1>11, InsertKeeps
<1> HIDE DEF f
<1>13. Shaped(f) /\ IsCatalogue(f) /\ f.trig = "legacy"
  BY <1>1, <1>8, <1>12, KeepsShaped DEF Shaped
<1>14. cs = {c \in Codes(f) : f.perm[c].scope = "system"}
  OBVIOUS
<1> HIDE DEF cs
<1>15. /\ IsCatalogue(h) /\ h.perm = f.perm /\ h.role = f.role /\ h.group = f.group
       /\ h.grant = {p \in f.grant : p[2] \notin cs}
       /\ h.excl = {p \in f.excl : p[2] \notin cs} /\ h.ok = f.ok
  BY <1>13, RevokeFacts
<1> HIDE DEF h
<1>16. /\ IsCatalogue(w) /\ w.perm = f.perm /\ w.role = f.role /\ w.group = f.group
       /\ w.grant = {p \in f.grant : p[2] \notin cs}
       /\ w.excl = {p \in f.excl : p[2] \notin cs} /\ w.ok = f.ok /\ w.trig = "scoped"
  BY <1>15 DEF IsCatalogue
<1> HIDE DEF w
<1>17. w.ok /\ f.ok /\ e.ok
  BY <1>2, <1>12, <1>16
<1>18. Sound(f) /\ Ruled(f) /\ Complete(f)
  BY <1>8, <1>9, <1>12, <1>17 DEF Keeps
<1>19. Shaped(w) /\ Sound(w)
  BY <1>13, <1>16, <1>18 DEF Shaped, Sound, Codes, RolesOf, Groups_
<1>20. \A c \in Codes(f) : c \notin cs => f.perm[c].scope = "organization"
  BY <1>13, <1>14 DEF Shaped, IsPermission
<1>21. Ruled(w)
  <2>1. \A p \in f.grant \cup f.excl : p[2] \in Codes(f)
    BY <1>18 DEF Sound
  <2>2. \A p \in w.grant : Live(w, p[2])
    BY <1>13, <1>16, <1>18, <1>20, <2>1 DEF Ruled, Live
  <2>3. \A p \in w.excl : w.perm[p[2]].scope = "organization"
    BY <1>16, <1>20, <2>1
  <2> QED BY <1>16, <1>18, <2>2, <2>3 DEF Ruled, Triggers, RolesOf
<1>22. Complete(w)
  BY <1>14, <1>16, <1>18 DEF Complete, OfOrg, Active, Codes, RolesOf
<1>23. RolesOf(w) = RolesOf(d)
  BY <1>1, <1>8, <1>12, <1>16 DEF RolesOf
<1> QED BY <1>2, <1>16, <1>17, <1>19, <1>21, <1>22, <1>23

(* Back before 0055, the administrators hold the platform's permissions again.     *)
LEMMA D0055Unscopes ==
    ASSUME NEW d, Shaped(d), d.ok, Sound(d), Ruled(d), Complete(d),
           NEW u, u = D0055(d), u.ok
    PROVE  /\ u.ok /\ Shaped(u) /\ Sound(u) /\ Ruled(u) /\ Complete(u) /\ u.trig = "legacy"
           /\ RolesOf(u) = RolesOf(d)
<1> DEFINE a == [d EXCEPT !.trig = "legacy"]
           cs == {Suspend}
           e == Purge(a, cs)
           back == SystemPerms \cap Codes(e)
           free == P(Backups, {"read", "create", "execute"})
                     \cup {<<"identity.organizations", "delete">>}
           F == [c \in back |-> [e.perm[c] EXCEPT !.scope = "organization",
                                                  !.assignable = @ \/ c \in free]]
           Q == Over(F, e.perm)
           f == [e EXCEPT !.perm = Q]
           rs == {Admin} \cap Globals(f)
           live == back \cap Active(f)
           g == Grant(f, rs, live)
           made == {p \in Templates(g) \X Assignable(g) : MadeFor(p[1], p[2])}
           h == GrantAll(g, made)
           w == CopyDown(h, Templates(g), Codes(g))
<1>1. u = w
  BY DEF D0055
<1>2. /\ Shaped(a) /\ Sound(a) /\ Ruled(a) /\ a.perm = d.perm /\ a.role = d.role
      /\ a.grant = d.grant /\ a.trig = "legacy" /\ a.ok = d.ok
  BY TriggerFacts
<1> HIDE DEF a, cs
<1>3. Complete(a)
  BY <1>2 DEF Complete, OfOrg, Active, Codes, RolesOf
<1>4. Keeps(a, e)
  BY <1>2, PurgeKeeps
<1> HIDE DEF e, free
<1>5. Shaped(e) /\ e.trig = "legacy" /\ RolesOf(e) = RolesOf(d)
  BY <1>2, <1>4, KeepsShaped DEF RolesOf
<1>6. e.ok => Sound(e) /\ Ruled(e) /\ Complete(e)
  BY <1>2, <1>3, <1>4 DEF Keeps
<1>7. /\ DOMAIN Q = Codes(e)
      /\ \A c \in Codes(e) : /\ IsPermission(Q[c]) /\ Q[c].group = e.perm[c].group
                             /\ Q[c].state = e.perm[c].state
                             /\ c \notin back => Q[c] = e.perm[c]
  <2>1. ASSUME NEW c \in back
        PROVE  /\ IsPermission(F[c]) /\ F[c].group = e.perm[c].group
               /\ F[c].state = e.perm[c].state
    <3> DEFINE p == e.perm[c]
               v == p.assignable \/ c \in free
    <3>1. IsPermission(p) /\ F[c] = [p EXCEPT !.scope = "organization", !.assignable = v]
      BY <1>5, <2>1 DEF Shaped
    <3> HIDE DEF p, F, v
    <3>2. IsPermission(F[c]) /\ F[c].group = p.group /\ F[c].state = p.state
      BY <3>1 DEF IsPermission
    <3> QED BY <3>2 DEF p
  <2>2. DOMAIN F = back /\ back \subseteq Codes(e)
    OBVIOUS
  <2> HIDE DEF F, back
  <2>3. /\ DOMAIN Q = Codes(e)
        /\ \A c \in Codes(e) : Q[c] = IF c \in back THEN F[c] ELSE e.perm[c]
    BY <2>2 DEF Over, Codes
  <2> HIDE DEF Q
  <2> QED BY <1>5, <2>1, <2>3 DEF Shaped
<1> HIDE DEF Q, back
<1>8. /\ Shaped(f) /\ f.perm = Q /\ f.role = e.role /\ f.grant = e.grant /\ f.trig = "legacy"
      /\ f.ok = e.ok /\ (Sound(e) => Sound(f)) /\ (Sound(e) /\ Ruled(e) => Ruled(f))
  BY <1>5, <1>7, PermissionsKeep
<1> HIDE DEF f
<1>9. Grantable(f, rs, live) /\ g = Grant(f, rs, live)
  BY DEF Grantable, Globals, Active
<1> HIDE DEF g
<1>10. /\ Keeps(f, g) /\ g.perm = f.perm /\ g.role = f.role
       /\ g.grant = f.grant \cup (rs \X live)
  <2> HIDE DEF rs, live
  <2> QED BY <1>8, <1>9, GrantFacts
<1>11. Shaped(g) /\ g.trig = "legacy"
  BY <1>8, <1>10, KeepsShaped
<1>12. h = GrantAll(g, made) /\ made \subseteq RolesOf(g) \X Codes(g)
  BY DEF Templates, Assignable, Active
<1> HIDE DEF made, h
<1>13. Keeps(g, h)
  BY <1>11, <1>12, GrantAllKeeps
<1> DEFINE slugs == Templates(g)
           all == Codes(g)
<1> HIDE DEF slugs, all
<1>14. w = CopyDown(h, slugs, all)
  BY DEF slugs, all
<1> HIDE DEF w
<1>15. Shaped(h)
  BY <1>13, KeepsShaped
<1>16. Keeps(h, w)
  BY <1>14, <1>15, CopyDownKeeps
<1>17. h.ok /\ g.ok /\ f.ok /\ e.ok /\ w.ok
  BY <1>1, <1>8, <1>10, <1>13, <1>16 DEF Keeps
<1>18. Sound(g) /\ Ruled(g)
  BY <1>6, <1>8, <1>10, <1>17 DEF Keeps
<1>19. Complete(g)
  <2>1. SUFFICES ASSUME Admin \in RolesOf(g), NEW c \in OfOrg(g)
                 PROVE  <<Admin, c>> \in g.grant
    BY <1>11 DEF Complete
  <2>2. Admin \in RolesOf(f) /\ Admin \in rs
    <3>1. Admin \in RolesOf(f) /\ IsAdministrators(f.role[Admin])
      BY <1>10, <1>18, <2>1 DEF Ruled, RolesOf
    <3> QED BY <3>1 DEF IsAdministrators, Globals
  <2>3. c \in Codes(e) /\ c \in Active(f)
    BY <1>7, <1>8, <1>10, <2>1 DEF OfOrg, Active, Codes
  <2>4. CASE c \in back
    BY <1>10, <2>2, <2>3, <2>4
  <2>5. CASE c \notin back
    <3>1. c \in OfOrg(e)
      BY <1>7, <1>8, <1>10, <2>1, <2>3, <2>5 DEF OfOrg, Active, Codes
    <3>2. <<Admin, c>> \in e.grant
      BY <1>6, <1>8, <1>17, <2>2, <3>1 DEF Complete, RolesOf
    <3> QED BY <1>8, <1>10, <3>2
  <2> QED BY <2>4, <2>5
<1>20. Shaped(w) /\ Sound(w) /\ Ruled(w) /\ Complete(w) /\ w.trig = "legacy"
  BY <1>11, <1>13, <1>16, <1>17, <1>18, <1>19 DEF Keeps
<1>21. RolesOf(w) = RolesOf(d)
  BY <1>5, <1>8, <1>10, <1>13, <1>16, KeepsShaped DEF RolesOf
<1> QED BY <1>1, <1>17, <1>20, <1>21

LEMMA CatalogueUpLate ==
    ASSUME NEW r \in 46..73, NEW d, CatalogueInv(r - 1, d), NEW e \in CatalogueUp(r, d), e.ok
    PROVE  /\ CatalogueInv(r, e) /\ RolesOf(d) \subseteq RolesOf(e)
           /\ RolesOf(e) \subseteq RolesOf(d) \cup Founded
<1>0. /\ Shaped(d) /\ d.ok /\ Sound(d) /\ e.ok
      /\ r = 46 => Plain(d)
      /\ r >= 47 => Ruled(d)
      /\ r = 47 => d.trig # "scoped"
      /\ r >= 48 => Complete(d)
      /\ r \in 48..55 => d.trig = "legacy"
      /\ r >= 56 => d.trig = "scoped"
      /\ r >= 53 => Admin \in RolesOf(d)
  BY DEF CatalogueInv, Early, Ruled, Complete, Triggers
<1>A. r \in 48..73 \ {52, 55} /\ Keeps(d, e) =>
        CatalogueInv(r, e) /\ RolesOf(e) = RolesOf(d)
  BY <1>0, RuledKept
<1>46. CASE r = 46
  <2>1. e = U0046(d)
    BY <1>46 DEF CatalogueUp
  <2>2. /\ Shaped(e) /\ Sound(e) /\ Ruled(e) /\ e.trig = "legacy"
        /\ RolesOf(d) \subseteq RolesOf(e) /\ RolesOf(e) \subseteq RolesOf(d) \cup Founded
    BY <1>0, <1>46, <2>1, U0046Rules
  <2> QED BY <1>0, <1>46, <2>2 DEF CatalogueInv
<1>47. CASE r = 47
  <2>1. e = U0047(d)
    BY <1>47 DEF CatalogueUp
  <2>2. /\ Shaped(e) /\ Sound(e) /\ Ruled(e) /\ Complete(e) /\ e.trig = "legacy"
        /\ RolesOf(e) = RolesOf(d)
    BY <1>0, <1>47, <2>1, U0047Completes
  <2> QED BY <1>0, <1>47, <2>2 DEF CatalogueInv
<1>52. CASE r = 52
  <2>1. e = U0052(d)
    BY <1>52 DEF CatalogueUp
  <2>2. /\ Shaped(e) /\ Sound(e) /\ Ruled(e) /\ Complete(e) /\ e.trig = "legacy"
        /\ RolesOf(d) \subseteq RolesOf(e) /\ RolesOf(e) \subseteq RolesOf(d) \cup Founded
        /\ Admin \in RolesOf(e)
    BY <1>0, <1>52, <2>1, U0052Completes
  <2> QED BY <1>0, <1>52, <2>2 DEF CatalogueInv
<1>55. CASE r = 55
  <2>1. e = U0055(d)
    BY <1>55 DEF CatalogueUp
  <2>2. /\ Shaped(e) /\ Sound(e) /\ Ruled(e) /\ Complete(e) /\ e.trig = "scoped"
        /\ RolesOf(e) = RolesOf(d)
    BY <1>0, <1>55, <2>1, U0055Scopes
  <2> QED BY <1>0, <1>55, <2>2 DEF CatalogueInv
<1>48. CASE r = 48
  <2>1. e = U0048(d)
    BY <1>48 DEF CatalogueUp
  <2>2. Keeps(d, e)
    BY <1>0, <1>48, <2>1, MergesKeep
  <2> QED BY <1>A, <1>48, <2>2
<1>49. CASE r = 49
  <2>1. e = U0049(d)
    BY <1>49 DEF CatalogueUp
  <2>2. Keeps(d, e)
    BY <1>0, <1>49, <2>1, MergesKeep
  <2> QED BY <1>A, <1>49, <2>2
<1>50. CASE r = 50
  <2>1. e = U0050(d)
    BY <1>50 DEF CatalogueUp
  <2>2. Keeps(d, e)
    BY <1>0, <1>50, <2>1, MergesKeep
  <2> QED BY <1>A, <1>50, <2>2
<1>51. CASE r = 51
  <2>1. e = U0051(d)
    BY <1>51 DEF CatalogueUp
  <2>2. Keeps(d, e)
    BY <1>0, <1>51, <2>1, MergesKeep
  <2> QED BY <1>A, <1>51, <2>2
<1>53. CASE r = 53
  <2>1. e = U0053(d)
    BY <1>53 DEF CatalogueUp
  <2>2. Keeps(d, e)
    BY <1>0, <1>53, <2>1, U0053Keeps
  <2> QED BY <1>A, <1>53, <2>2
<1>54. CASE r = 54
  <2>1. e = U0054(d)
    BY <1>54 DEF CatalogueUp
  <2>2. Keeps(d, e)
    BY <1>0, <1>54, <2>1, PurgeGroupKeeps DEF U0054
  <2> QED BY <1>A, <1>54, <2>2
<1>56. CASE r = 56
  <2>1. e = U0056(d)
    BY <1>56 DEF CatalogueUp
  <2>2. Keeps(d, e)
    BY <1>0, <1>56, <2>1, SeedGovernedKeeps DEF U0056, Triggers
  <2> QED BY <1>A, <1>56, <2>2
<1>57. CASE r = 57
  <2>1. e = U0057(d)
    BY <1>57 DEF CatalogueUp
  <2>2. Keeps(d, e)
    BY <1>0, <1>57, <2>1, PurgeKeeps DEF U0057
  <2> QED BY <1>A, <1>57, <2>2
<1>59. CASE r = 59
  <2>1. e = U0059(d)
    BY <1>59 DEF CatalogueUp
  <2>2. Keeps(d, e)
    BY <1>0, <1>59, <2>1, U0059Keeps
  <2> QED BY <1>A, <1>59, <2>2
<1>60. CASE r = 60
  <2>1. e = U0060(d)
    BY <1>60 DEF CatalogueUp
  <2>2. Keeps(d, e)
    BY <1>0, <1>60, <2>1, U0060Keeps
  <2> QED BY <1>A, <1>60, <2>2
<1>61. CASE r = 61
  <2>1. e = U0061(d)
    BY <1>61 DEF CatalogueUp
  <2>2. Keeps(d, e)
    BY <1>0, <1>61, <2>1, U0061Keeps
  <2> QED BY <1>A, <1>61, <2>2
<1>62. CASE r = 62
  <2>1. e = U0062(d)
    BY <1>62 DEF CatalogueUp
  <2>2. Keeps(d, e)
    BY <1>0, <1>62, <2>1, U0062Keeps
  <2> QED BY <1>A, <1>62, <2>2
<1>65. CASE r = 65
  <2>1. e = U0065(d)
    BY <1>65 DEF CatalogueUp
  <2>2. Keeps(d, e)
    BY <1>0, <1>65, <2>1, U0065Keeps
  <2> QED BY <1>A, <1>65, <2>2
<1>66. CASE r = 66
  <2>1. e = U0066(d)
    BY <1>66 DEF CatalogueUp
  <2>2. Keeps(d, e)
    BY <1>0, <1>66, <2>1, SeedStandKeeps DEF U0066
  <2> QED BY <1>A, <1>66, <2>2
<1>67. CASE r = 67
  <2>1. e = U0067(d)
    BY <1>67 DEF CatalogueUp
  <2>2. Keeps(d, e)
    BY <1>0, <1>67, <2>1, SeedGovernedKeeps DEF U0067, Triggers
  <2> QED BY <1>A, <1>67, <2>2
<1>68. CASE r = 68
  <2>1. e = U0068(d)
    BY <1>68 DEF CatalogueUp
  <2>2. Keeps(d, e)
    BY <1>0, <1>68, <2>1, SeedStandKeeps DEF U0068
  <2> QED BY <1>A, <1>68, <2>2
<1>69. CASE r = 69
  <2>1. e = U0069(d)
    BY <1>69 DEF CatalogueUp
  <2>2. Keeps(d, e)
    BY <1>0, <1>69, <2>1, SeedStandKeeps DEF U0069
  <2> QED BY <1>A, <1>69, <2>2
<1>70. CASE r = 70
  <2>1. e = U0070(d)
    BY <1>70 DEF CatalogueUp
  <2>2. Keeps(d, e)
    BY <1>0, <1>70, <2>1, SeedGovernedKeeps DEF U0070, Triggers
  <2> QED BY <1>A, <1>70, <2>2
<1>71. CASE r = 71
  <2>1. e = U0071(d)
    BY <1>71 DEF CatalogueUp
  <2>2. Keeps(d, e)
    BY <1>0, <1>71, <2>1, RenameResourceKeeps DEF U0071, ItemPrices, CostItems
  <2> QED BY <1>A, <1>71, <2>2
<1>72. CASE r = 72
  <2>1. e = U0072(d)
    BY <1>72 DEF CatalogueUp
  <2>2. Keeps(d, e)
    BY <1>0, <1>72, <2>1, PurgeKeeps DEF U0072
  <2> QED BY <1>A, <1>72, <2>2
<1>73. CASE r \in {58, 63, 64, 73}
  <2>1. e = d
    BY <1>73 DEF CatalogueUp
  <2>2. Keeps(d, e)
    BY <1>0, <2>1, KeepsSelf
  <2> QED BY <1>A, <1>73, <2>2
<1> QED BY <1>46, <1>47, <1>48, <1>49, <1>50, <1>51, <1>52, <1>53, <1>54, <1>55, <1>56,
           <1>57, <1>59, <1>60, <1>61, <1>62, <1>65, <1>66, <1>67, <1>68, <1>69, <1>70,
           <1>71, <1>72, <1>73

LEMMA CatalogueDownLate ==
    ASSUME NEW r \in 46..73, NEW d, CatalogueInv(r, d), NEW e, e = CatalogueDown(r, d), e.ok
    PROVE  CatalogueInv(r - 1, e) /\ RolesOf(d) \subseteq RolesOf(e)
<1>0. /\ Shaped(d) /\ d.ok /\ Sound(d) /\ e.ok /\ Ruled(d)
      /\ r >= 47 => Complete(d)
      /\ r \in 47..54 => d.trig = "legacy"
      /\ r >= 55 => d.trig = "scoped"
  BY DEF CatalogueInv, Ruled, Complete, Triggers
<1>A. r \in 48..73 \ {55} /\ Keeps(d, e) =>
        CatalogueInv(r - 1, e) /\ RolesOf(d) \subseteq RolesOf(e)
  BY <1>0, RuledKept
<1>46. CASE r = 46
  <2>1. e = D0046(d)
    BY <1>46 DEF CatalogueDown, Irreversible
  <2>2. Shaped(e) /\ Sound(e) /\ Plain(e) /\ RolesOf(e) = RolesOf(d)
    BY <1>0, <2>1, D0046Plain
  <2> QED BY <1>0, <1>46, <2>2 DEF CatalogueInv, Early
<1>47. CASE r = 47
  <2> DEFINE t == "noregrant"
  <2>1. e = [d EXCEPT !.trig = t]
    BY <1>47 DEF CatalogueDown, Irreversible, D0047
  <2>2. t \in {"legacy", "noregrant"} /\ t # "scoped"
    OBVIOUS
  <2> DEFINE f == [d EXCEPT !.trig = t]
  <2> HIDE DEF t
  <2>3. e = f
    BY <2>1
  <2>4. Shaped(f) /\ Sound(f) /\ Ruled(f) /\ f.role = d.role /\ f.trig = t
    BY <1>0, <1>47, <2>2, TriggerFacts
  <2> HIDE DEF f
  <2> QED BY <1>0, <1>47, <2>2, <2>3, <2>4 DEF CatalogueInv, RolesOf
<1>55. CASE r = 55
  <2>1. e = D0055(d)
    BY <1>55 DEF CatalogueDown, Irreversible
  <2>2. /\ Shaped(e) /\ Sound(e) /\ Ruled(e) /\ Complete(e) /\ e.trig = "legacy"
        /\ RolesOf(e) = RolesOf(d)
    BY <1>0, <1>55, <2>1, D0055Unscopes
  <2>3. Admin \in RolesOf(d)
    BY <1>55 DEF CatalogueInv
  <2> QED BY <1>0, <1>55, <2>2, <2>3 DEF CatalogueInv
<1>48. CASE r = 48
  <2>1. e = D0048(d)
    BY <1>48 DEF CatalogueDown, Irreversible
  <2>2. Keeps(d, e)
    BY <1>0, <1>48, <2>1, UnmergesKeep
  <2> QED BY <1>A, <1>48, <2>2
<1>49. CASE r = 49
  <2>1. e = D0049(d)
    BY <1>49 DEF CatalogueDown, Irreversible
  <2>2. Keeps(d, e)
    BY <1>0, <1>49, <2>1, UnmergesKeep
  <2> QED BY <1>A, <1>49, <2>2
<1>50. CASE r = 50
  <2>1. e = D0050(d)
    BY <1>50 DEF CatalogueDown, Irreversible
  <2>2. Keeps(d, e)
    BY <1>0, <1>50, <2>1, UnmergesKeep
  <2> QED BY <1>A, <1>50, <2>2
<1>51. CASE r = 51
  <2>1. e = D0051(d)
    BY <1>51 DEF CatalogueDown, Irreversible
  <2>2. Keeps(d, e)
    BY <1>0, <1>51, <2>1, MergesKeep
  <2> QED BY <1>A, <1>51, <2>2
<1>53. CASE r = 53
  <2>1. e = D0053(d)
    BY <1>53 DEF CatalogueDown, Irreversible
  <2>2. Keeps(d, e)
    BY <1>0, <1>53, <2>1, PurgeKeeps DEF D0053
  <2> QED BY <1>A, <1>53, <2>2
<1>54. CASE r = 54
  <2>1. e = D0054(d)
    BY <1>54 DEF CatalogueDown, Irreversible
  <2>2. Keeps(d, e)
    BY <1>0, <1>54, <2>1, D0054Keeps
  <2> QED BY <1>A, <1>54, <2>2
<1>56. CASE r = 56
  <2>1. e = D0056(d)
    BY <1>56 DEF CatalogueDown, Irreversible
  <2>2. Keeps(d, e)
    BY <1>0, <1>56, <2>1, PurgeGroupKeeps DEF D0056
  <2> QED BY <1>A, <1>56, <2>2
<1>60. CASE r = 60
  <2>1. e = D0060(d)
    BY <1>60 DEF CatalogueDown, Irreversible
  <2>2. Keeps(d, e)
    BY <1>0, <1>60, <2>1, PurgeKeeps DEF D0060
  <2> QED BY <1>A, <1>60, <2>2
<1>61. CASE r = 61
  <2>1. e = D0061(d)
    BY <1>61 DEF CatalogueDown, Irreversible
  <2>2. Keeps(d, e)
    BY <1>0, <1>61, <2>1, PurgeKeeps DEF D0061
  <2> QED BY <1>A, <1>61, <2>2
<1>62. CASE r = 62
  <2>1. e = D0062(d)
    BY <1>62 DEF CatalogueDown, Irreversible
  <2>2. Keeps(d, e)
    BY <1>0, <1>62, <2>1, PurgeGroupKeeps DEF D0062
  <2> QED BY <1>A, <1>62, <2>2
<1>65. CASE r = 65
  <2>1. e = D0065(d)
    BY <1>65 DEF CatalogueDown, Irreversible
  <2>2. Keeps(d, e)
    BY <1>0, <1>65, <2>1, PurgeKeeps DEF D0065
  <2> QED BY <1>A, <1>65, <2>2
<1>66. CASE r = 66
  <2>1. e = D0066(d)
    BY <1>66 DEF CatalogueDown, Irreversible
  <2>2. Keeps(d, e)
    BY <1>0, <1>66, <2>1, PurgeGroupKeeps DEF D0066, DropStand
  <2> QED BY <1>A, <1>66, <2>2
<1>67. CASE r = 67
  <2>1. e = D0067(d)
    BY <1>67 DEF CatalogueDown, Irreversible
  <2>2. Keeps(d, e)
    BY <1>0, <1>67, <2>1, PurgeGroupKeeps DEF D0067
  <2> QED BY <1>A, <1>67, <2>2
<1>68. CASE r = 68
  <2>1. e = D0068(d)
    BY <1>68 DEF CatalogueDown, Irreversible
  <2>2. Keeps(d, e)
    BY <1>0, <1>68, <2>1, PurgeKeeps DEF D0068
  <2> QED BY <1>A, <1>68, <2>2
<1>69. CASE r = 69
  <2>1. e = D0069(d)
    BY <1>69 DEF CatalogueDown, Irreversible
  <2>2. Keeps(d, e)
    BY <1>0, <1>69, <2>1, PurgeKeeps DEF D0069
  <2> QED BY <1>A, <1>69, <2>2
<1>70. CASE r = 70
  <2>1. e = D0070(d)
    BY <1>70 DEF CatalogueDown, Irreversible
  <2>2. Keeps(d, e)
    BY <1>0, <1>70, <2>1, PurgeGroupKeeps DEF D0070
  <2> QED BY <1>A, <1>70, <2>2
<1>71. CASE r = 71
  <2>1. e = D0071(d)
    BY <1>71 DEF CatalogueDown, Irreversible
  <2>2. Keeps(d, e)
    BY <1>0, <1>71, <2>1, RenameResourceKeeps DEF D0071, ItemPrices, CostItems
  <2> QED BY <1>A, <1>71, <2>2
<1>72. CASE r = 72
  <2>1. e = D0072(d)
    BY <1>72 DEF CatalogueDown, Irreversible
  <2>2. Keeps(d, e)
    BY <1>0, <1>72, <2>1, D0072Keeps
  <2> QED BY <1>A, <1>72, <2>2
<1>73. CASE r \in {52, 57, 58, 59, 63, 64, 73}
  <2>1. e = d
    <3>1. CASE r = 52
      BY <3>1 DEF CatalogueDown, Irreversible, D0052
    <3>2. CASE r = 59
      BY <3>2 DEF CatalogueDown, Irreversible, D0059
    <3>3. CASE r = 57
      BY <3>3 DEF CatalogueDown, Irreversible
    <3>4. CASE r = 58
      BY <3>4 DEF CatalogueDown, Irreversible
    <3>5. CASE r = 63
      BY <3>5 DEF CatalogueDown, Irreversible
    <3>6. CASE r = 64
      BY <3>6 DEF CatalogueDown, Irreversible
    <3>7. CASE r = 73
      BY <3>7 DEF CatalogueDown, Irreversible
    <3> QED BY <1>73, <3>1, <3>2, <3>3, <3>4, <3>5, <3>6, <3>7
  <2>2. Keeps(d, e)
    BY <1>0, <2>1, KeepsSelf
  <2> QED BY <1>A, <1>73, <2>2
<1> QED BY <1>46, <1>47, <1>48, <1>49, <1>50, <1>51, <1>53, <1>54, <1>55, <1>56, <1>60,
           <1>61, <1>62, <1>65, <1>66, <1>67, <1>68, <1>69, <1>70, <1>71, <1>72, <1>73

LEMMA CatalogueUpKeeps ==
    ASSUME NEW r \in 1..73, NEW d, CatalogueInv(r - 1, d), NEW e \in CatalogueUp(r, d), e.ok
    PROVE  /\ CatalogueInv(r, e) /\ RolesOf(d) \ Gone(r) \subseteq RolesOf(e)
           /\ RolesOf(e) \subseteq (RolesOf(d) \ Gone(r)) \cup Founded
<1>1. CASE r \in 1..45
  BY <1>1, CatalogueUpEarly
<1>2. CASE r \in 46..73
  <2>1. Gone(r) = {}
    BY <1>2 DEF Gone
  <2> QED BY <1>2, <2>1, CatalogueUpLate
<1> QED BY <1>1, <1>2

LEMMA CatalogueDownKeeps ==
    ASSUME NEW r \in 1..73, NEW d, CatalogueInv(r, d), NEW e, e = CatalogueDown(r, d), e.ok
    PROVE  CatalogueInv(r - 1, e) /\ (r # 4 => RolesOf(d) \subseteq RolesOf(e))
<1>1. CASE r \in 1..45
  BY <1>1, CatalogueDownEarly
<1>2. CASE r \in 46..73
  BY <1>2, CatalogueDownLate
<1> QED BY <1>1, <1>2

-------------------------------------------------------------------------------
(* The people.                                                                   *)

LEMMA LatestFacts ==
    ASSUME NEW S, IsFiniteSet(S), S # {}, \A r \in S : r.at \in Nat
    PROVE  Latest(S) \in S
<1> DEFINE From(r) == {s \in S : r.at <= s.at}
           D == {From(r) : r \in S}
           R == StrictSubsetOrdering(S)
<1>1. IsWellFoundedOn(R, FiniteSubsetsOf(S))
  BY FS_StrictSubsetOrderingWellFounded
<1>2. D \subseteq FiniteSubsetsOf(S) /\ D # {}
  <2>1. D \subseteq SUBSET S /\ D # {}
    OBVIOUS
  <2>2. FiniteSubsetsOf(S) = SUBSET S
    BY FS_FiniteSubsetsOfFinite
  <2> QED BY <2>1, <2>2
<1>3. \E T \in D : \A U \in D : <<U, T>> \notin R
  <2> HIDE DEF D, R
  <2> QED BY <1>1, <1>2, WFMin
<1>4. PICK r \in S : \A U \in D : <<U, From(r)>> \notin R
  BY <1>3
<1>5. ASSUME NEW s \in S, ~(s.at <= r.at)
      PROVE  FALSE
  <2>1. From(s) \in D /\ From(s) \subseteq From(r) /\ r \in From(r) /\ r \notin From(s)
    BY <1>5
  <2>2. <<From(s), From(r)>> \in R
    BY <2>1 DEF StrictSubsetOrdering
  <2> QED BY <1>4, <2>1, <2>2
<1>6. \A s \in S : s.at <= r.at
  BY <1>5
<1> QED BY <1>6 DEF Latest

LEMMA ImageFinite ==
    ASSUME NEW S, IsFiniteSet(S), NEW f
    PROVE  IsFiniteSet({f[s] : s \in S})
<1> DEFINE T == {f[s] : s \in S}
           g == [s \in S |-> f[s]]
<1>1. g \in Surjection(S, T)
  BY DEF Surjection
<1> QED BY <1>1, FS_Surjection

(* The statements about people leave where everybody is when they take rows away,  *)
(* or change what nothing here depends on.                                      *)
LEMMA FewerPlaced ==
    ASSUME NEW p, Placed(p), NEW q, IsPopulation(q),
           DOMAIN q.user \subseteq DOMAIN p.user,
           \A u \in DOMAIN q.user :
              q.user[u] = [super |-> q.user[u].super, org |-> q.user[u].org],
           q.member \subseteq p.member, q.assign \subseteq p.assign,
           \A x \in q.member \cup q.assign : x.user \in DOMAIN q.user
    PROVE  Placed(q)
<1>1. IsFiniteSet(q.member) /\ IsFiniteSet(q.assign) /\ IsFiniteSet(DOMAIN q.user)
  BY FS_Subset DEF Placed
<1> QED BY <1>1 DEF Placed

LEMMA ForgetRolesFacts ==
    ASSUME NEW p, Placed(p), NEW rs, NEW q, q = ForgetRoles(p, rs)
    PROVE  /\ Placed(q) /\ q.ok = p.ok /\ q.user = p.user /\ q.member = p.member
           /\ \A a : a \in q.assign <=> a \in p.assign /\ a.role \notin rs
<1>1. /\ IsPopulation(q) /\ q.ok = p.ok /\ q.user = p.user /\ q.member = p.member
      /\ q.assign = {a \in p.assign : a.role \notin rs}
  <2> DEFINE O == {x \in p.orole : x[2] \notin rs}
             A == {a \in p.assign : a.role \notin rs}
  <2>1. q = [p EXCEPT !.orole = O, !.assign = A]
    BY DEF ForgetRoles
  <2> HIDE DEF O
  <2> QED BY <2>1 DEF Placed, IsPopulation
<1>2. Placed(q)
  <2>1. \A x \in q.member \cup q.assign : x.user \in DOMAIN q.user
    BY <1>1 DEF Placed
  <2>2. \A u \in DOMAIN q.user :
           q.user[u] = [super |-> q.user[u].super, org |-> q.user[u].org]
    BY <1>1 DEF Placed
  <2>3. q.member \subseteq p.member /\ q.assign \subseteq p.assign
    BY <1>1
  <2> QED BY <1>1, <2>1, <2>2, <2>3, FewerPlaced
<1> QED BY <1>1, <1>2

(* What a role is named in the catalogue does not change where the people are.     *)
LEMMA PeopleKept ==
    ASSUME NEW m \in 0..73, NEW n \in 0..73, NEW p, NEW d, PeopleInv(m, p, d),
           NEW q, q.ok, Placed(q), NEW e,
           q.member \subseteq p.member, q.assign \subseteq p.assign,
           \A x \in q.member : x.role # "none" => n < 16 /\ x.role \in RolesOf(e),
           \A x \in q.assign : n >= 12 /\ (x.role # "none" => x.role \in RolesOf(e)),
           n >= 47 => SupersAgree(q), n >= 57 => MembersHome(q)
    PROVE  PeopleInv(n, q, e)
BY DEF PeopleInv

(* A statement that leaves the users, the memberships and the assignments.         *)
LEMMA SameRows ==
    ASSUME NEW p, NEW q, IsPopulation(q), Placed(p),
           q.user = p.user, q.member = p.member, q.assign = p.assign
    PROVE  Placed(q) /\ Assigned(q) = Assigned(p) /\ Supers(q) = Supers(p)
BY DEF Placed, Assigned, Supers

(* Every membership as it was, but for its role.                                  *)
LEMMA NamelessMembers ==
    ASSUME NEW p, Placed(p), NEW M, M = {[m EXCEPT !.role = "none"] : m \in p.member}
    PROVE  /\ IsFiniteSet(M)
           /\ \A m \in M : /\ IsMember(m) /\ m.role = "none" /\ m.at \in Nat
                           /\ m.org # "none" /\ m.user \in DOMAIN p.user
<1> DEFINE f == [m \in p.member |-> [m EXCEPT !.role = "none"]]
<1>1. M = {f[m] : m \in p.member}
  OBVIOUS
<1>2. IsFiniteSet(M)
  <2> HIDE DEF f
  <2> QED BY <1>1, ImageFinite DEF Placed
<1>3. ASSUME NEW x \in p.member, NEW m, m = [x EXCEPT !.role = "none"]
      PROVE  /\ IsMember(m) /\ m.role = "none" /\ m.at \in Nat
             /\ m.org # "none" /\ m.user \in DOMAIN p.user
  <2>1. IsMember(x) /\ x.at \in Nat /\ x.org # "none" /\ x.user \in DOMAIN p.user
    BY DEF Placed
  <2>2. /\ IsMember(m) /\ m.role = "none" /\ m.at = x.at /\ m.org = x.org /\ m.user = x.user
    BY <1>3, <2>1 DEF IsMember
  <2> QED BY <2>1, <2>2
<1> QED BY <1>2, <1>3

(* 0012: the active memberships become assignments.                               *)
LEMMA V0012Placed ==
    ASSUME NEW p, NEW d, NEW e, PeopleInv(11, p, d), RolesOf(d) \subseteq RolesOf(e)
    PROVE  PeopleInv(12, V0012(p), e)
<1> DEFINE M == {x \in p.member : x.status = "active" /\ <<x.org, x.role>> \in p.orole}
           f == [m \in M |-> [user |-> m.user, org |-> m.org, role |-> m.role,
                              status |-> "active", at |-> m.at]]
           A == {f[m] : m \in M}
           q == [p EXCEPT !.assign = A]
<1>1. V0012(p) = q
  BY DEF V0012
<1>2. Placed(p) /\ p.ok
  BY DEF PeopleInv
<1>3. IsFiniteSet(A)
  <2>1. IsFiniteSet(M)
    BY <1>2, FS_Subset DEF Placed
  <2> HIDE DEF M, f
  <2> QED BY <2>1, ImageFinite
<1>4. \A a \in A : /\ IsAssignment(a) /\ a.at \in Nat /\ a.org # "none" /\ a.user \in DOMAIN p.user
                   /\ a.role # "none" => a.role \in RolesOf(e)
  <2>1. SUFFICES ASSUME NEW m \in M
                 PROVE  /\ IsAssignment(f[m]) /\ f[m].at \in Nat /\ f[m].org # "none"
                        /\ f[m].user \in DOMAIN p.user
                        /\ f[m].role # "none" => f[m].role \in RolesOf(e)
    OBVIOUS
  <2>2. m.at \in Nat /\ m.org # "none" /\ m.user \in DOMAIN p.user
    BY <1>2 DEF Placed
  <2>3. m.role # "none" => m.role \in RolesOf(e)
    BY DEF PeopleInv
  <2> QED BY <2>2, <2>3 DEF IsAssignment
<1> HIDE DEF A
<1>5. /\ IsPopulation(q) /\ q.ok = p.ok /\ q.user = p.user /\ q.member = p.member
      /\ q.assign = A
  <2>1. IsPopulation(p) /\ q = [p EXCEPT !.assign = A]
    BY <1>2 DEF Placed
  <2> HIDE DEF q
  <2> QED BY <2>1 DEF IsPopulation
<1> HIDE DEF q
<1>6. Placed(q)
  BY <1>2, <1>3, <1>4, <1>5 DEF Placed
<1>7. \A m \in q.member : m.role # "none" => m.role \in RolesOf(e)
  BY <1>5 DEF PeopleInv
<1>8. PeopleInv(12, q, e)
  BY <1>2, <1>4, <1>5, <1>6, <1>7 DEF PeopleInv
<1> QED BY <1>1, <1>8

LEMMA V0016Placed ==
    ASSUME NEW p, NEW d, NEW e, PeopleInv(15, p, d), RolesOf(d) \subseteq RolesOf(e),
           NEW q, q = V0016(p), q.ok
    PROVE  PeopleInv(16, q, e)
<1> DEFINE b == \A m \in p.member : m.role # "none" =>
                  \E a \in Assigned(p) : a.user = m.user /\ a.org = m.org
           M == {[m EXCEPT !.role = "none"] : m \in p.member}
<1>1. Placed(p) /\ p.ok
  BY DEF PeopleInv
<1>2. /\ IsFiniteSet(M)
      /\ \A m \in M : /\ IsMember(m) /\ m.role = "none" /\ m.at \in Nat
                      /\ m.org # "none" /\ m.user \in DOMAIN p.user
  BY <1>1, NamelessMembers
<1>3. q = [p EXCEPT !.ok = @ /\ b, !.member = M]
  BY DEF V0016
<1> HIDE DEF b, M
<1>4. /\ IsPopulation(q) /\ q.user = p.user /\ q.member = M /\ q.assign = p.assign
  BY <1>1, <1>3 DEF Placed, IsPopulation
<1>5. Placed(q)
  BY <1>1, <1>2, <1>4 DEF Placed
<1> QED BY <1>2, <1>4, <1>5 DEF PeopleInv

(* 0040 and 0043: roles go, and what refers to them; 0040 takes users with it.     *)
LEMMA V0040Placed ==
    ASSUME NEW p, NEW d, NEW e, PeopleInv(39, p, d), RolesOf(d) \ LegacyRoles \subseteq RolesOf(e)
    PROVE  PeopleInv(40, V0040(p, LegacyRoles), e)
<1> DEFINE rs == LegacyRoles
           x == ForgetRoles(p, rs)
           U == [u \in DOMAIN x.user \ LegacyDevEmails |-> x.user[u]]
           M == {m \in x.member : m.user \notin LegacyDevEmails}
           A == {a \in x.assign : a.user \notin LegacyDevEmails}
           q == [x EXCEPT !.user = U, !.member = M, !.assign = A]
<1>1. V0040(p, LegacyRoles) = q
  BY DEF V0040
<1>2. Placed(p) /\ p.ok
  BY DEF PeopleInv
<1>3. /\ Placed(x) /\ x.ok = p.ok /\ x.user = p.user /\ x.member = p.member
      /\ \A a : a \in x.assign <=> a \in p.assign /\ a.role \notin rs
  <2>1. x = ForgetRoles(p, rs)
    OBVIOUS
  <2> HIDE DEF rs, x
  <2> QED BY <1>2, <2>1, ForgetRolesFacts
<1> HIDE DEF x
<1>4. /\ DOMAIN U = DOMAIN p.user \ LegacyDevEmails
      /\ \A u \in DOMAIN U : U[u] = p.user[u]
  BY <1>3
<1>5. /\ M = {m \in p.member : m.user \notin LegacyDevEmails}
      /\ A \subseteq p.assign /\ \A a \in A : a.user \notin LegacyDevEmails /\ a.role \notin LegacyRoles
  BY <1>3
<1> HIDE DEF U, M, A
<1>6. /\ IsPopulation(q) /\ q.ok = p.ok /\ q.user = U /\ q.member = M /\ q.assign = A
  <2>1. IsPopulation(x) /\ q = [x EXCEPT !.user = U, !.member = M, !.assign = A]
    BY <1>3 DEF Placed
  <2> HIDE DEF q
  <2> QED BY <1>3, <2>1 DEF IsPopulation
<1> HIDE DEF q
<1>7. Placed(q)
  <2>1. /\ DOMAIN q.user \subseteq DOMAIN p.user
        /\ q.member \subseteq p.member /\ q.assign \subseteq p.assign
    BY <1>4, <1>5, <1>6
  <2>2. \A u \in DOMAIN q.user :
           q.user[u] = [super |-> q.user[u].super, org |-> q.user[u].org]
    BY <1>2, <1>4, <1>6 DEF Placed
  <2>3. \A y \in q.member \cup q.assign : y.user \in DOMAIN q.user
    BY <1>2, <1>4, <1>5, <1>6 DEF Placed
  <2> QED BY <1>2, <1>6, <2>1, <2>2, <2>3, FewerPlaced
<1>8. \A m \in q.member : m.role = "none"
  BY <1>5, <1>6 DEF PeopleInv
<1>9. \A a \in q.assign : a.role # "none" => a.role \in RolesOf(e)
  BY <1>5, <1>6 DEF PeopleInv
<1>10. PeopleInv(40, q, e)
  BY <1>2, <1>6, <1>7, <1>8, <1>9 DEF PeopleInv
<1> QED BY <1>1, <1>10

LEMMA OwnerFacts ==
    ASSUME NEW p, Placed(p), NEW yes
    PROVE  LET q == SetOwner(p, yes)
           IN  /\ Placed(q) /\ q.ok = p.ok /\ q.member = p.member /\ q.assign = p.assign
<1> DEFINE U == [u \in DOMAIN p.user |-> IF u = Owner THEN [p.user[u] EXCEPT !.super = yes]
                                         ELSE p.user[u]]
           q == SetOwner(p, yes)
<1>1. q = [p EXCEPT !.owner = yes, !.user = U]
  BY DEF SetOwner
<1>2. DOMAIN U = DOMAIN p.user
  OBVIOUS
<1>3. ASSUME NEW u \in DOMAIN p.user
      PROVE  U[u] = [super |-> U[u].super, org |-> U[u].org]
  <2> DEFINE x == p.user[u]
             y == [x EXCEPT !.super = yes]
  <2>1. U[u] = y \/ U[u] = x
    BY <1>3
  <2>2. x = [super |-> x.super, org |-> x.org]
    BY <1>3 DEF Placed
  <2>3. y = [x EXCEPT !.super = yes]
    OBVIOUS
  <2> HIDE DEF U, x, y
  <2>4. y = [super |-> y.super, org |-> y.org]
    BY <2>2, <2>3
  <2> QED BY <2>1, <2>2, <2>4
<1> HIDE DEF U, q
<1>4. /\ IsPopulation(q) /\ q.ok = p.ok /\ q.user = U /\ q.member = p.member
      /\ q.assign = p.assign
  BY <1>1 DEF Placed, IsPopulation
<1>5. Placed(q)
  BY <1>2, <1>3, <1>4 DEF Placed
<1> QED BY <1>4, <1>5 DEF q

(* 0057: everybody gets one organization, and assignments elsewhere are revoked.   *)
LEMMA HomeFacts ==
    ASSUME NEW p, Placed(p), NEW a \in Assigned(p), a.user \notin Supers(p)
    PROVE  HomeOf(p, a.user) # "none"
<1> DEFINE S == {x \in Assigned(p) : x.user = a.user}
<1>1. a \in S
  OBVIOUS
<1>2. IsFiniteSet(S) /\ \A x \in S : x.at \in Nat /\ x.org # "none"
  BY FS_Subset DEF Placed, Assigned
<1>3. HomeOf(p, a.user) = Latest(S).org
  BY <1>1 DEF HomeOf
<1> HIDE DEF S
<1>4. Latest(S) \in S
  BY <1>1, <1>2, LatestFacts
<1> QED BY <1>2, <1>3, <1>4

LEMMA RevokedElsewhere ==
    ASSUME NEW p, Placed(p), NEW H,
           NEW A, A = {IF Elsewhere(H, a) THEN [a EXCEPT !.status = "revoked"] ELSE a :
                         a \in p.assign}
    PROVE  /\ IsFiniteSet(A)
           /\ \A x \in A : \E a \in p.assign :
                /\ IsAssignment(x) /\ x.at = a.at /\ x.org = a.org /\ x.user = a.user
                /\ x.role = a.role
                /\ x.status = "active" => x = a /\ ~Elsewhere(H, a)
<1> DEFINE f == [a \in p.assign |-> IF Elsewhere(H, a) THEN [a EXCEPT !.status = "revoked"] ELSE a]
<1>1. A = {f[a] : a \in p.assign}
  OBVIOUS
<1>2. IsFiniteSet(A)
  <2> DEFINE S == p.assign
  <2>1. IsFiniteSet(S)
    BY DEF Placed
  <2>2. A = {f[a] : a \in S}
    BY <1>1
  <2> HIDE DEF f, S
  <2> QED BY <2>1, <2>2, ImageFinite
<1>3. ASSUME NEW a \in p.assign, NEW x, x = IF Elsewhere(H, a) THEN [a EXCEPT !.status = "revoked"]
                                            ELSE a
      PROVE  /\ IsAssignment(x) /\ x.at = a.at /\ x.org = a.org /\ x.user = a.user
             /\ x.role = a.role
             /\ x.status = "active" => x = a /\ ~Elsewhere(H, a)
  <2>1. IsAssignment(a)
    BY DEF Placed
  <2>2. CASE Elsewhere(H, a)
    <3>1. x = [a EXCEPT !.status = "revoked"]
      BY <1>3, <2>2
    <3> QED BY <2>1, <3>1 DEF IsAssignment
  <2>3. CASE ~Elsewhere(H, a)
    BY <1>3, <2>1, <2>3
  <2> QED BY <2>2, <2>3
<1> QED BY <1>2, <1>3

LEMMA V0057Placed ==
    ASSUME NEW p, NEW d, NEW e, PeopleInv(56, p, d), RolesOf(d) \subseteq RolesOf(e)
    PROVE  PeopleInv(57, V0057(p), e)
<1> DEFINE H == [u \in DOMAIN p.user |-> [p.user[u] EXCEPT !.org = HomeOf(p, u)]]
           A == {IF Elsewhere(H, a) THEN [a EXCEPT !.status = "revoked"] ELSE a : a \in p.assign}
           M == {}
           q == [p EXCEPT !.user = H, !.member = M, !.assign = A]
<1>1. V0057(p) = q
  BY DEF V0057
<1>2. Placed(p) /\ p.ok
  BY DEF PeopleInv
<1>3. /\ DOMAIN H = DOMAIN p.user
      /\ \A u \in DOMAIN p.user : /\ H[u] = [super |-> H[u].super, org |-> H[u].org]
                                  /\ H[u].super = p.user[u].super
                                  /\ H[u].org = HomeOf(p, u)
  <2>1. SUFFICES ASSUME NEW u \in DOMAIN p.user
                 PROVE  /\ H[u] = [super |-> H[u].super, org |-> H[u].org]
                        /\ H[u].super = p.user[u].super
                        /\ H[u].org = HomeOf(p, u)
    OBVIOUS
  <2> DEFINE x == p.user[u]
             h == HomeOf(p, u)
  <2>2. H[u] = [x EXCEPT !.org = h] /\ x = [super |-> x.super, org |-> x.org]
    BY <1>2 DEF Placed
  <2> HIDE DEF x, h, H
  <2> QED BY <2>2 DEF x, h
<1> HIDE DEF H
<1>4. /\ IsFiniteSet(A)
      /\ \A x \in A : \E a \in p.assign :
           /\ IsAssignment(x) /\ x.at = a.at /\ x.org = a.org /\ x.user = a.user
           /\ x.role = a.role
           /\ x.status = "active" => x = a /\ ~Elsewhere(H, a)
  BY <1>2, RevokedElsewhere
<1>5. M = {} /\ IsFiniteSet(M)
  BY FS_EmptySet
<1> HIDE DEF A, M
<1>6. /\ IsPopulation(q) /\ q.ok = p.ok /\ q.user = H /\ q.member = M /\ q.assign = A
  <2>1. IsPopulation(p) /\ q = [p EXCEPT !.user = H, !.member = M, !.assign = A]
    BY <1>2 DEF Placed
  <2> HIDE DEF q
  <2> QED BY <2>1 DEF IsPopulation
<1> HIDE DEF q
<1>7. Placed(q)
  <2>1. \A x \in A : IsAssignment(x) /\ x.at \in Nat /\ x.org # "none" /\ x.user \in DOMAIN H
    BY <1>2, <1>3, <1>4 DEF Placed
  <2> QED BY <1>2, <1>3, <1>4, <1>5, <1>6, <2>1 DEF Placed
<1>8. Supers(q) = Supers(p)
  BY <1>3, <1>6 DEF Supers
<1>9. ASSUME NEW x \in Assigned(q)
      PROVE  /\ x \in Assigned(p) /\ x.user \in DOMAIN p.user /\ ~Elsewhere(H, x)
             /\ x.status = "active"
  <2>1. x \in A /\ x.status = "active"
    BY <1>6 DEF Assigned
  <2>2. x \in p.assign /\ ~Elsewhere(H, x)
    BY <1>4, <2>1
  <2> QED BY <1>2, <2>1, <2>2 DEF Assigned, Placed
<1>10. SupersAgree(q)
  <2>1. SupersAgree(p)
    BY DEF PeopleInv
  <2> QED BY <1>8, <1>9, <2>1 DEF SupersAgree
<1>11. ASSUME NEW x \in Assigned(q), x.user \notin Supers(q)
       PROVE  H[x.user].org = x.org
  <2>1. x \in Assigned(p) /\ x.user \in DOMAIN p.user /\ x.user \notin Supers(p)
    BY <1>8, <1>9, <1>11
  <2>2. ~H[x.user].super
    BY <1>3, <2>1 DEF Supers
  <2>3. H[x.user].org \in {"none", x.org}
    BY <1>9, <1>11, <2>2 DEF Elsewhere
  <2>4. HomeOf(p, x.user) # "none"
    BY <1>2, <2>1, HomeFacts
  <2>5. H[x.user].org # "none"
    BY <1>3, <2>1, <2>4
  <2> QED BY <2>3, <2>5
<1>12. MembersHome(q)
  BY <1>6, <1>11 DEF MembersHome
<1>13. \A x \in q.assign : x.role # "none" => x.role \in RolesOf(e)
  BY <1>4, <1>6 DEF PeopleInv
<1>14. PeopleInv(57, q, e)
  BY <1>2, <1>5, <1>6, <1>7, <1>10, <1>12, <1>13 DEF PeopleInv
<1> QED BY <1>1, <1>14

(* Back before 0057, the users of an organization are its members.                *)
LEMMA X0057Placed ==
    ASSUME NEW p, NEW d, NEW e, PeopleInv(57, p, d), RolesOf(d) \subseteq RolesOf(e)
    PROVE  PeopleInv(56, X0057(p), e)
<1> DEFINE H == [u \in DOMAIN p.user |-> [p.user[u] EXCEPT !.org = "none"]]
           S == {x \in DOMAIN p.user : p.user[x].org # "none"}
           f == [u \in S |-> [user |-> u, org |-> p.user[u].org, status |-> "active",
                              role |-> "none", at |-> 0]]
           M == {f[u] : u \in S}
           q == [p EXCEPT !.user = H, !.member = M]
<1>1. X0057(p) = q
  BY DEF X0057
<1>2. Placed(p) /\ p.ok
  BY DEF PeopleInv
<1>3. /\ DOMAIN H = DOMAIN p.user
      /\ \A u \in DOMAIN p.user : /\ H[u] = [super |-> H[u].super, org |-> H[u].org]
                                  /\ H[u].super = p.user[u].super
  <2>1. SUFFICES ASSUME NEW u \in DOMAIN p.user
                 PROVE  /\ H[u] = [super |-> H[u].super, org |-> H[u].org]
                        /\ H[u].super = p.user[u].super
    OBVIOUS
  <2> DEFINE x == p.user[u]
  <2>2. H[u] = [x EXCEPT !.org = "none"] /\ x = [super |-> x.super, org |-> x.org]
    BY <1>2 DEF Placed
  <2> HIDE DEF x, H
  <2> QED BY <2>2 DEF x
<1> HIDE DEF H
<1>4. IsFiniteSet(M)
  <2>1. IsFiniteSet(S)
    BY <1>2, FS_Subset DEF Placed
  <2> HIDE DEF S, f
  <2> QED BY <2>1, ImageFinite
<1>5. \A m \in M : /\ IsMember(m) /\ m.at \in Nat /\ m.org # "none" /\ m.role = "none"
                   /\ m.user \in DOMAIN p.user
  <2>1. \A u \in S : /\ IsMember(f[u]) /\ f[u].at \in Nat /\ f[u].org # "none"
                     /\ f[u].role = "none" /\ f[u].user \in DOMAIN p.user
    BY DEF IsMember
  <2> HIDE DEF S, f
  <2> QED BY <2>1
<1> HIDE DEF M
<1>6. /\ IsPopulation(q) /\ q.ok = p.ok /\ q.user = H /\ q.member = M /\ q.assign = p.assign
  <2>1. IsPopulation(p) /\ q = [p EXCEPT !.user = H, !.member = M]
    BY <1>2 DEF Placed
  <2> HIDE DEF q
  <2> QED BY <2>1 DEF IsPopulation
<1> HIDE DEF q
<1>7. Placed(q)
  BY <1>2, <1>3, <1>4, <1>5, <1>6 DEF Placed
<1>8. SupersAgree(q)
  <2>1. Supers(q) = Supers(p) /\ Assigned(q) = Assigned(p)
    BY <1>3, <1>6 DEF Supers, Assigned
  <2>2. SupersAgree(p)
    BY DEF PeopleInv
  <2> QED BY <2>1, <2>2 DEF SupersAgree
<1>9. \A x \in q.assign : x.role # "none" => x.role \in RolesOf(e)
  BY <1>6 DEF PeopleInv
<1>10. PeopleInv(56, q, e)
  BY <1>2, <1>5, <1>6, <1>7, <1>8, <1>9 DEF PeopleInv
<1> QED BY <1>1, <1>10

(* A script that leaves users, members and assignments, beside roles that stay,    *)
(* at a revision that asks no more of them.                                      *)
Alike(p, q) ==
    /\ IsPopulation(q)
    /\ q.ok = p.ok /\ q.user = p.user /\ q.member = p.member /\ q.assign = p.assign
NoStricter(m, n) ==
    /\ m \in 0..73 /\ n \in 0..73
    /\ (m < 16 => n < 16) /\ (m >= 12 => n >= 12) /\ (n >= 47 => m >= 47) /\ (n >= 57 => m >= 57)
LEMMA SamePeople ==
    ASSUME NEW m, NEW n, NoStricter(m, n), NEW p, NEW d, PeopleInv(m, p, d),
           NEW e, RolesOf(d) \subseteq RolesOf(e), NEW q, Alike(p, q)
    PROVE  PeopleInv(n, q, e)
<1>0. /\ IsPopulation(q) /\ q.ok = p.ok
      /\ q.user = p.user /\ q.member = p.member /\ q.assign = p.assign
  BY DEF Alike
<1>1. Placed(q) /\ Assigned(q) = Assigned(p) /\ Supers(q) = Supers(p)
  BY <1>0, SameRows DEF PeopleInv
<1>2. \A x \in q.member : x.role # "none" => n < 16 /\ x.role \in RolesOf(e)
  BY <1>0 DEF PeopleInv, NoStricter
<1>3. \A x \in q.assign : n >= 12 /\ (x.role # "none" => x.role \in RolesOf(e))
  BY <1>0 DEF PeopleInv, NoStricter
<1>4. (n >= 47 => SupersAgree(q)) /\ (n >= 57 => MembersHome(q))
  <2>1. SupersAgree(p) => SupersAgree(q)
    BY <1>1 DEF SupersAgree
  <2>2. MembersHome(p) => MembersHome(q)
    BY <1>0, <1>1 DEF MembersHome
  <2> QED BY <2>1, <2>2 DEF PeopleInv, NoStricter
<1>5. q.ok
  BY <1>0, Zenon DEF PeopleInv
<1> QED BY <1>1, <1>2, <1>3, <1>4, <1>5 DEF PeopleInv

LEMMA OwnerKept ==
    ASSUME NEW m \in 16..46, NEW n \in 16..46, NEW p, NEW d, PeopleInv(m, p, d),
           NEW e, RolesOf(d) \subseteq RolesOf(e), NEW yes
    PROVE  PeopleInv(n, SetOwner(p, yes), e)
<1> DEFINE q == SetOwner(p, yes)
<1>1. Placed(q) /\ q.ok = p.ok /\ q.member = p.member /\ q.assign = p.assign
  BY OwnerFacts DEF PeopleInv
<1> HIDE DEF q
<1>2. PeopleInv(n, q, e)
  BY <1>1 DEF PeopleInv
<1> QED BY <1>2 DEF q

LEMMA V0043Placed ==
    ASSUME NEW p, NEW d, NEW e, PeopleInv(42, p, d), RolesOf(d) \ {"owner"} \subseteq RolesOf(e)
    PROVE  PeopleInv(43, ForgetRoles(p, {"owner"}), e)
<1> DEFINE rs == {"owner"}
           q == ForgetRoles(p, rs)
<1>1. /\ Placed(q) /\ q.ok = p.ok /\ q.user = p.user /\ q.member = p.member
      /\ \A a : a \in q.assign <=> a \in p.assign /\ a.role \notin rs
  <2>1. Placed(p) /\ q = ForgetRoles(p, rs)
    BY DEF PeopleInv
  <2> HIDE DEF rs, q
  <2> QED BY <2>1, ForgetRolesFacts
<1> HIDE DEF q
<1>2. PeopleInv(43, q, e)
  BY <1>1 DEF PeopleInv
<1> QED BY <1>2 DEF q

(* 0047: the super admins of the time act through no role.                        *)
LEMMA V0047Placed ==
    ASSUME NEW p, NEW d, NEW e, PeopleInv(46, p, d), RolesOf(d) \subseteq RolesOf(e)
    PROVE  PeopleInv(47, V0047(p), e)
<1> DEFINE A == {a \in p.assign : a.user \notin Supers(p)}
           q == [p EXCEPT !.assign = A, !.valid = "member"]
<1>1. V0047(p) = q
  BY DEF V0047
<1>2. Placed(p) /\ p.ok
  BY DEF PeopleInv
<1>3. A \subseteq p.assign /\ \A a \in A : a.user \notin Supers(p)
  OBVIOUS
<1> HIDE DEF A
<1>4. /\ IsPopulation(q) /\ q.ok = p.ok /\ q.user = p.user /\ q.member = p.member
      /\ q.assign = A
  <2>1. IsPopulation(p) /\ q = [p EXCEPT !.assign = A, !.valid = "member"]
    BY <1>2 DEF Placed
  <2> HIDE DEF q
  <2> QED BY <2>1 DEF IsPopulation
<1> HIDE DEF q
<1>5. Placed(q)
  <2>1. \A x \in q.member \cup q.assign : x.user \in DOMAIN q.user
    BY <1>2, <1>3, <1>4 DEF Placed
  <2>2. \A u \in DOMAIN q.user :
           q.user[u] = [super |-> q.user[u].super, org |-> q.user[u].org]
    BY <1>2, <1>4 DEF Placed
  <2> QED BY <1>2, <1>3, <1>4, <2>1, <2>2, FewerPlaced
<1>6. Supers(q) = Supers(p)
  BY <1>4 DEF Supers
<1>7. SupersAgree(q)
  BY <1>3, <1>4, <1>6 DEF Assigned, SupersAgree
<1>8. PeopleInv(47, q, e)
  BY <1>2, <1>3, <1>4, <1>5, <1>7 DEF PeopleInv
<1> QED BY <1>1, <1>8

LEMMA X0002Placed ==
    ASSUME NEW p, NEW d, NEW e, PeopleInv(2, p, d)
    PROVE  PeopleInv(1, X0002(p), e)
<1> DEFINE U == <<>>
           M == {}
           q == [p EXCEPT !.user = U, !.member = M]
<1>1. X0002(p) = q
  BY DEF X0002
<1>2. Placed(p) /\ p.ok /\ p.assign = {}
  BY DEF PeopleInv
<1>3. DOMAIN U = {} /\ IsFiniteSet(DOMAIN U) /\ M = {} /\ IsFiniteSet(M)
  BY FS_EmptySet
<1> HIDE DEF U, M
<1>4. /\ IsPopulation(q) /\ q.ok = p.ok /\ q.user = U /\ q.member = M /\ q.assign = {}
  <2>1. IsPopulation(p) /\ q = [p EXCEPT !.user = U, !.member = M]
    BY <1>2 DEF Placed
  <2> HIDE DEF q
  <2> QED BY <1>2, <2>1 DEF IsPopulation
<1> HIDE DEF q
<1>5. Placed(q)
  BY <1>2, <1>3, <1>4 DEF Placed
<1>6. PeopleInv(1, q, e)
  BY <1>2, <1>3, <1>4, <1>5 DEF PeopleInv
<1> QED BY <1>1, <1>6

LEMMA X0004Placed ==
    ASSUME NEW p, NEW d, NEW e, PeopleInv(4, p, d)
    PROVE  PeopleInv(3, X0004(p), e)
<1> DEFINE M == {[m EXCEPT !.role = "none"] : m \in p.member}
           q == [p EXCEPT !.member = M]
<1>1. X0004(p) = q
  BY DEF X0004
<1>2. Placed(p) /\ p.ok /\ p.assign = {}
  BY DEF PeopleInv
<1>3. /\ IsFiniteSet(M)
      /\ \A m \in M : /\ IsMember(m) /\ m.role = "none" /\ m.at \in Nat
                      /\ m.org # "none" /\ m.user \in DOMAIN p.user
  BY <1>2, NamelessMembers
<1> HIDE DEF M
<1>4. /\ IsPopulation(q) /\ q.ok = p.ok /\ q.user = p.user /\ q.member = M /\ q.assign = {}
  <2>1. IsPopulation(p) /\ q = [p EXCEPT !.member = M]
    BY <1>2 DEF Placed
  <2> HIDE DEF q
  <2> QED BY <1>2, <2>1 DEF IsPopulation
<1> HIDE DEF q
<1>5. Placed(q)
  BY <1>2, <1>3, <1>4 DEF Placed
<1>6. PeopleInv(3, q, e)
  BY <1>2, <1>3, <1>4, <1>5 DEF PeopleInv
<1> QED BY <1>1, <1>6

LEMMA X0012Placed ==
    ASSUME NEW p, NEW d, NEW e, PeopleInv(12, p, d), RolesOf(d) \subseteq RolesOf(e)
    PROVE  PeopleInv(11, X0012(p), e)
<1> DEFINE A == {}
           q == [p EXCEPT !.assign = A]
<1>1. X0012(p) = q
  BY DEF X0012
<1>2. Placed(p) /\ p.ok
  BY DEF PeopleInv
<1>3. A = {} /\ IsFiniteSet(A)
  BY FS_EmptySet
<1> HIDE DEF A
<1>4. /\ IsPopulation(q) /\ q.ok = p.ok /\ q.user = p.user /\ q.member = p.member
      /\ q.assign = A
  <2>1. IsPopulation(p) /\ q = [p EXCEPT !.assign = A]
    BY <1>2 DEF Placed
  <2> HIDE DEF q
  <2> QED BY <2>1 DEF IsPopulation
<1> HIDE DEF q
<1>5. Placed(q) /\ Assigned(q) = {}
  BY <1>2, <1>3, <1>4 DEF Placed, Assigned
<1>6. PeopleInv(11, q, e)
  BY <1>2, <1>3, <1>4, <1>5 DEF PeopleInv
<1> QED BY <1>1, <1>6

(* What only concerns triggers and organization_roles leaves the rest as it is.    *)
LEMMA Aside ==
    ASSUME NEW p, Placed(p), NEW O, NEW q,
           q \in {[p EXCEPT !.orole = O], [p EXCEPT !.last = O], [p EXCEPT !.valid = O]}
    PROVE  Alike(p, q)
BY DEF Placed, IsPopulation, Alike

PeopleAside == {11, 42, 45, 46, 58}
LEMMA PeopleAsideUp ==
    ASSUME NEW r \in PeopleAside, NEW p, Placed(p), NEW q, q = PeopleUp(r, p)
    PROVE  Alike(p, q)
<1> DEFINE O == {<<m.org, m.role>> : m \in {x \in p.member : x.role # "none"}}
           N == {}
<1>1. r = 11 => q = [p EXCEPT !.orole = O]
  BY DEF PeopleUp, V0011
<1>2. r = 42 => q = [p EXCEPT !.last = "count"]
  BY DEF PeopleUp, V0042
<1>3. r = 45 => q = [p EXCEPT !.last = "serial"]
  BY DEF PeopleUp, V0045
<1>4. r = 46 => q = [p EXCEPT !.orole = N]
  BY DEF PeopleUp, V0046
<1>5. r = 58 => q = [p EXCEPT !.valid = "direct"]
  BY DEF PeopleUp, V0058
<1> HIDE DEF O, N
<1> QED BY <1>1, <1>2, <1>3, <1>4, <1>5, Aside DEF PeopleAside

LEMMA PeopleAsideDown ==
    ASSUME NEW r \in PeopleAside \cup {47}, NEW p, Placed(p), NEW q, q = PeopleDown(r, p)
    PROVE  Alike(p, q)
<1> DEFINE O == {<<a.org, a.role>> : a \in p.assign}
           N == {}
<1>1. r = 11 => q = [p EXCEPT !.orole = N]
  BY DEF PeopleDown, X0011
<1>2. r = 42 => q = [p EXCEPT !.last = "none"]
  BY DEF PeopleDown, X0042
<1>3. r = 45 => q = [p EXCEPT !.last = "count"]
  BY DEF PeopleDown, X0045
<1>4. r = 46 => q = [p EXCEPT !.orole = O]
  BY DEF PeopleDown, X0046
<1>5. r \in {47, 58} => q = [p EXCEPT !.valid = "none"]
  BY DEF PeopleDown, X0047, X0058
<1> HIDE DEF O, N
<1> QED BY <1>1, <1>2, <1>3, <1>4, <1>5, Aside DEF PeopleAside

(* A script up from revision r - 1 takes the invariant on, when the roles it      *)
(* finds stay but for those 0040 and 0043 delete.                                *)
LEMMA PeopleUpKeeps ==
    ASSUME NEW r \in 1..73, NEW p, NEW d, PeopleInv(r - 1, p, d), NEW q, q = PeopleUp(r, p), q.ok,
           NEW e, RolesOf(d) \ Gone(r) \subseteq RolesOf(e)
    PROVE  PeopleInv(r, q, e)
<1>1. Placed(p) /\ p.ok
  BY DEF PeopleInv
<1>2. r \notin {40, 43} => RolesOf(d) \subseteq RolesOf(e)
  BY DEF Gone
<1>3. r \notin {12, 16, 40, 43, 47, 57} => NoStricter(r - 1, r)
  BY DEF NoStricter
<1>4. CASE r \in PeopleAside \/ r \notin PeopleAside \cup {12, 16, 40, 41, 43, 47, 57}
  <2>1. ASSUME r \in PeopleAside PROVE Alike(p, q)
    BY <1>1, <2>1, PeopleAsideUp
  <2>2. ASSUME r \notin PeopleAside \cup {12, 16, 40, 41, 43, 47, 57} PROVE Alike(p, q)
    <3>1. q = p
      BY <2>2 DEF PeopleUp, PeopleAside
    <3> QED BY <1>1, <3>1 DEF Alike, Placed
  <2>3. Alike(p, q)
    BY <1>1, <1>4, <2>1, <2>2
  <2>4. NoStricter(r - 1, r) /\ RolesOf(d) \subseteq RolesOf(e)
    BY <1>2, <1>3, <1>4 DEF PeopleAside
  <2> DEFINE m == r - 1
  <2>5. NoStricter(m, r) /\ PeopleInv(m, p, d)
    BY <2>4
  <2> HIDE DEF m
  <2> QED BY <2>3, <2>4, <2>5, SamePeople
<1>5. CASE r = 12
  BY <1>2, <1>5, V0012Placed DEF PeopleUp
<1>6. CASE r = 16
  BY <1>2, <1>6, V0016Placed DEF PeopleUp
<1>7. CASE r = 40
  <2>1. RolesOf(d) \ LegacyRoles \subseteq RolesOf(e)
    BY <1>7 DEF Gone
  <2> QED BY <1>7, <2>1, V0040Placed DEF PeopleUp
<1>8. CASE r = 41
  <2> DEFINE yes == TRUE
  <2>1. q = SetOwner(p, yes) /\ PeopleInv(40, p, d) /\ RolesOf(d) \subseteq RolesOf(e)
    BY <1>2, <1>8 DEF PeopleUp, V0041
  <2> HIDE DEF yes
  <2>2. 40 \in 16..46 /\ 41 \in 16..46
    OBVIOUS
  <2>3. PeopleInv(41, SetOwner(p, yes), e)
    BY ONLY <2>1, <2>2, OwnerKept
  <2> QED BY <1>8, <2>1, <2>3
<1>9. CASE r = 43
  <2>1. RolesOf(d) \ {"owner"} \subseteq RolesOf(e)
    BY <1>9 DEF Gone
  <2> QED BY <1>9, <2>1, V0043Placed DEF PeopleUp
<1>10. CASE r = 47
  BY <1>2, <1>10, V0047Placed DEF PeopleUp
<1>11. CASE r = 57
  BY <1>2, <1>11, V0057Placed DEF PeopleUp
<1> QED BY <1>4, <1>5, <1>6, <1>7, <1>8, <1>9, <1>10, <1>11

LEMMA PeopleDownKeeps ==
    ASSUME NEW r \in 1..73 \ Irreversible, NEW p, NEW d, PeopleInv(r, p, d),
           NEW q, q = PeopleDown(r, p), q.ok,
           NEW e, r # 4 => RolesOf(d) \subseteq RolesOf(e)
    PROVE  PeopleInv(r - 1, q, e)
<1>1. Placed(p) /\ p.ok
  BY DEF PeopleInv
<1>2. CASE r \in PeopleAside \cup {47} \/ r \notin PeopleAside \cup {2, 4, 12, 41, 47, 57}
  <2>1. ASSUME r \in PeopleAside \cup {47} PROVE Alike(p, q)
    BY <1>1, <2>1, PeopleAsideDown
  <2>2. ASSUME r \notin PeopleAside \cup {2, 4, 12, 41, 47, 57} PROVE Alike(p, q)
    <3>1. q = p
      BY <2>2 DEF PeopleDown, PeopleAside
    <3> QED BY <1>1, <3>1 DEF Alike, Placed
  <2>3. Alike(p, q)
    BY <1>1, <1>2, <2>1, <2>2
  <2>4. r \notin {4, 12}
    BY <1>2 DEF PeopleAside
  <2> DEFINE m == r - 1
  <2>5. NoStricter(r, m)
    BY <2>4 DEF NoStricter
  <2> HIDE DEF m
  <2>6. PeopleInv(m, q, e)
    BY <2>3, <2>4, <2>5, SamePeople
  <2> QED BY <2>6 DEF m
<1>3. CASE r = 2
  BY <1>3, X0002Placed DEF PeopleDown
<1>4. CASE r = 4
  BY <1>4, X0004Placed DEF PeopleDown
<1>5. CASE r = 12
  BY <1>5, X0012Placed DEF PeopleDown
<1>6. CASE r = 41
  <2> DEFINE yes == FALSE
  <2>1. q = SetOwner(p, yes) /\ PeopleInv(41, p, d) /\ RolesOf(d) \subseteq RolesOf(e)
    BY <1>6 DEF PeopleDown, X0041
  <2> HIDE DEF yes
  <2>2. PeopleInv(40, SetOwner(p, yes), e)
    BY <2>1, OwnerKept
  <2> QED BY <1>6, <2>1, <2>2
<1>7. CASE r = 57
  BY <1>7, X0057Placed DEF PeopleDown
<1> QED BY <1>2, <1>3, <1>4, <1>5, <1>6, <1>7

-------------------------------------------------------------------------------
(* The foreign keys: from 0039 on every one that is added releases what refers    *)
(* to a deleted row.                                                            *)
LEMMA ObjectsRelease ==
    ASSUME NEW t, NEW ns
    PROVE  /\ Releasing(Table(t, ns)) /\ Releasing(Columns(t, ns)) /\ Releasing(Indexes(t, ns))
           /\ Releasing(Uniques(t, ns)) /\ Releasing(Checks(t, ns))
<1>1. ASSUME NEW kind, kind # "fk"
      PROVE  \A x \in Names(kind, t, ns) : x[1] # "fk"
  BY <1>1 DEF Names
<1>2. \A x \in Table(t, ns) : x[1] # "fk"
  <2>1. \A x \in Table(t, ns) : x = <<"table", t>> \/ x \in Names("column", t, ns)
    BY DEF Table
  <2>2. <<"table", t>>[1] = "table" /\ "table" # "fk" /\ "column" # "fk"
    OBVIOUS
  <2> QED BY <1>1, <2>1, <2>2
<1>3. "column" # "fk" /\ "index" # "fk" /\ "unique" # "fk" /\ "check" # "fk"
  OBVIOUS
<1>4. /\ \A x \in Columns(t, ns) : x[1] # "fk"
      /\ \A x \in Indexes(t, ns) : x[1] # "fk"
      /\ \A x \in Uniques(t, ns) : x[1] # "fk"
      /\ \A x \in Checks(t, ns) : x[1] # "fk"
  BY <1>1, <1>3, Zenon DEF Columns, Indexes, Uniques, Checks
<1> QED BY <1>2, <1>4 DEF Releasing, Fks

LEMMA FkReleases ==
    ASSUME NEW t, NEW c, NEW u, NEW rule \in {"CASCADE", "SET NULL"}
    PROVE  Releasing(Fk(t, c, u, rule))
<1> DEFINE f == <<"fk", t, c, u, rule>>
<1>1. f[5] = rule
  OBVIOUS
<1> HIDE DEF f
<1>2. Fk(t, c, u, rule) = {f}
  BY DEF Fk, f
<1> QED BY <1>1, <1>2 DEF Releasing, Fks

LEMMA BothRelease ==
    ASSUME NEW s, NEW t, Releasing(s), Releasing(t)
    PROVE  Releasing(s \cup t)
BY DEF Releasing, Fks

LEMMA NothingReleases == Releasing({})
BY DEF Releasing, Fks

LEMMA ChangeFacts ==
    ASSUME NEW drop, NEW add
    PROVE  /\ Change(drop, add).drop = drop /\ Change(drop, add).add = add
           /\ Create(add).add = add /\ Create(add).drop = {}
           /\ Undo(Change(drop, add)).add = drop /\ Undo(Create(add)).add = {}
BY DEF Change, Create, Undo

LEMMA S0046Releases ==
    ASSUME NEW s PROVE Releasing(S0046(s).add)
<1>1. Releasing(Columns(Roles, RoleColumns)) /\ Releasing(Columns(Perms, LifecycleColumns))
      /\ Releasing(Columns(UserRoles, {"role_id"})) /\ Releasing(Indexes(UserRoles, {"role_id"}))
      /\ Releasing(Uniques(Roles, {"global_slug", "organization_slug"}))
      /\ Releasing(Table(Excls, {"role_id", "permission_id"}))
  BY ObjectsRelease
<1>2. /\ Releasing(Fk(Roles, "organization_id", Orgs, "CASCADE"))
      /\ Releasing(Fk(Roles, "source_template_role_id", Roles, "SET NULL"))
      /\ Releasing(Fk(Perms, "lifecycle_changed_by", Users, "SET NULL"))
      /\ Releasing(Fk(UserRoles, "role_id", Roles, "CASCADE"))
      /\ Releasing(Fk(Excls, "role_id", Roles, "CASCADE"))
      /\ Releasing(Fk(Excls, "permission_id", Perms, "CASCADE"))
  BY FkReleases
<1>3. Releasing(ExclusionTable)
  BY <1>1, <1>2, BothRelease DEF ExclusionTable
<1> DEFINE add ==
        Columns(Roles, RoleColumns) \cup Fk(Roles, "organization_id", Orgs, "CASCADE")
          \cup Fk(Roles, "source_template_role_id", Roles, "SET NULL")
          \cup Columns(Perms, LifecycleColumns)
          \cup Fk(Perms, "lifecycle_changed_by", Users, "SET NULL")
          \cup Columns(UserRoles, {"role_id"}) \cup Fk(UserRoles, "role_id", Roles, "CASCADE")
          \cup Indexes(UserRoles, {"role_id"}) \cup ExclusionTable
          \cup Uniques(Roles, {"global_slug", "organization_slug"})
<1>4. S0046(s).add = add
  <2>1. \E drop : S0046(s) = Change(drop, add)
    BY Zenon DEF S0046
  <2> HIDE DEF add
  <2> QED BY <2>1, ChangeFacts
<1>5. Releasing(Columns(Roles, RoleColumns)
                  \cup Fk(Roles, "organization_id", Orgs, "CASCADE")
                  \cup Fk(Roles, "source_template_role_id", Roles, "SET NULL")
                  \cup Columns(Perms, LifecycleColumns)
                  \cup Fk(Perms, "lifecycle_changed_by", Users, "SET NULL"))
  BY <1>1, <1>2, BothRelease
<1>6. Releasing(add)
  BY <1>1, <1>2, <1>3, <1>5, BothRelease
<1> QED BY <1>4, <1>6

LEMMA T0046Releases ==
    ASSUME NEW s PROVE Releasing(T0046(s).add)
<1> DEFINE cs == Stamped \cup {"organization_id", "role_id", "status", "is_default"}
<1>1. /\ Releasing(Table(OrgRoles, cs)) /\ Releasing(Uniques(OrgRoles, {"organization_role"}))
      /\ Releasing(Columns(UserRoles, {"organization_role_id"}))
      /\ Releasing(Indexes(UserRoles, {"organization_role_id"}))
      /\ Releasing(Uniques(Roles, {"scope_slug"}))
  BY ObjectsRelease
<1>2. /\ Releasing(Fk(OrgRoles, "organization_id", Orgs, "CASCADE"))
      /\ Releasing(Fk(OrgRoles, "role_id", Roles, "CASCADE"))
      /\ Releasing(Fk(UserRoles, "organization_role_id", OrgRoles, "CASCADE"))
  BY FkReleases
<1> DEFINE add ==
        Table(OrgRoles, cs)
          \cup Fk(OrgRoles, "organization_id", Orgs, "CASCADE")
          \cup Fk(OrgRoles, "role_id", Roles, "CASCADE")
          \cup Uniques(OrgRoles, {"organization_role"})
          \cup Columns(UserRoles, {"organization_role_id"})
          \cup Fk(UserRoles, "organization_role_id", OrgRoles, "CASCADE")
          \cup Indexes(UserRoles, {"organization_role_id"}) \cup Uniques(Roles, {"scope_slug"})
<1>3. T0046(s).add = add
  <2>1. \E drop : T0046(s) = Change(drop, add)
    BY Zenon DEF T0046
  <2> HIDE DEF add
  <2> QED BY <2>1, ChangeFacts
<1> HIDE DEF cs
<1> QED BY <1>1, <1>2, <1>3, BothRelease

LEMMA S0057Releases ==
    ASSUME NEW s PROVE Releasing(S0057(s).add)
<1>1. /\ Releasing(Columns(Users, {"organization_id"}))
      /\ Releasing(Indexes(Users, {"organization_id"}))
  BY ObjectsRelease
<1>2. Releasing(Fk(Users, "organization_id", Orgs, "CASCADE"))
  BY FkReleases
<1>3. S0057(s).add = Columns(Users, {"organization_id"})
                       \cup Fk(Users, "organization_id", Orgs, "CASCADE")
                       \cup Indexes(Users, {"organization_id"})
  BY ChangeFacts DEF S0057
<1> QED BY <1>1, <1>2, <1>3, BothRelease

LEMMA T0057Releases == Releasing(T0057.add)
<1> DEFINE cs == Stamped \cup {"user_id", "organization_id", "status", "invited_at", "joined_at"}
           ds == {"id", "organization_id", "email", "token_hash", "invited_by_user_id",
                  "expires_at", "accepted_at", "revoked_at", "created_at"}
           ixs == {"user_id", "organization_id", "org_effective"}
<1>1. /\ Releasing(Table(Mems, cs)) /\ Releasing(Uniques(Mems, {"user_organization"}))
      /\ Releasing(Indexes(Mems, ixs)) /\ Releasing(Table(Invites, ds))
      /\ Releasing(Uniques(Invites, {"token_hash"}))
      /\ Releasing(Indexes(Invites, {"organization_id"}))
  BY ObjectsRelease
<1>2. /\ Releasing(Fk(Mems, "user_id", Users, "CASCADE"))
      /\ Releasing(Fk(Mems, "organization_id", Orgs, "CASCADE"))
      /\ Releasing(Fk(Invites, "organization_id", Orgs, "CASCADE"))
      /\ Releasing(Fk(Invites, "invited_by_user_id", Users, "CASCADE"))
  BY FkReleases
<1> DEFINE add ==
        Table(Mems, cs) \cup Fk(Mems, "user_id", Users, "CASCADE")
          \cup Fk(Mems, "organization_id", Orgs, "CASCADE")
          \cup Uniques(Mems, {"user_organization"}) \cup Indexes(Mems, ixs)
          \cup Table(Invites, ds) \cup Fk(Invites, "organization_id", Orgs, "CASCADE")
          \cup Fk(Invites, "invited_by_user_id", Users, "CASCADE")
          \cup Uniques(Invites, {"token_hash"}) \cup Indexes(Invites, {"organization_id"})
<1>3. T0057.add = add
  <2>1. \E drop : T0057 = Change(drop, add)
    BY Zenon DEF T0057
  <2> HIDE DEF add
  <2> QED BY <2>1, ChangeFacts
<1> HIDE DEF cs, ds, ixs
<1>4. Releasing(Table(Mems, cs) \cup Fk(Mems, "user_id", Users, "CASCADE")
                  \cup Fk(Mems, "organization_id", Orgs, "CASCADE")
                  \cup Uniques(Mems, {"user_organization"}) \cup Indexes(Mems, ixs))
  BY <1>1, <1>2, BothRelease
<1>5. Releasing(add)
  BY <1>1, <1>2, <1>4, BothRelease
<1> QED BY <1>3, <1>5

LEMMA S0063Releases == Releasing(S0063.add)
<1> DEFINE cs == {"id", "user_id", "purpose", "token_hash", "expires_at",
                  "consumed_at", "invalidated_at", "created_at"}
<1>1. /\ Releasing(Table(Actions, cs)) /\ Releasing(Uniques(Actions, {"token_hash"}))
      /\ Releasing(Indexes(Actions, {"user_purpose"}))
  BY ObjectsRelease
<1>2. Releasing(Fk(Actions, "user_id", Users, "CASCADE"))
  BY FkReleases
<1>3. S0063.add = Table(Actions, cs) \cup Fk(Actions, "user_id", Users, "CASCADE")
                    \cup Uniques(Actions, {"token_hash"}) \cup Indexes(Actions, {"user_purpose"})
  BY ChangeFacts DEF S0063
<1> HIDE DEF cs
<1> QED BY <1>1, <1>2, <1>3, BothRelease

LEMMA SchemaUpReleases ==
    ASSUME NEW r \in 40..73, NEW s
    PROVE  Releasing(SchemaUp(r, s).add)
<1>1. CASE r = 46
  BY <1>1, S0046Releases DEF SchemaUp
<1>2. CASE r = 57
  BY <1>2, S0057Releases DEF SchemaUp
<1>3. CASE r = 63
  <2>1. SchemaUp(r, s) = S0063
    BY <1>3 DEF SchemaUp
  <2> QED BY <2>1, S0063Releases
<1>4. CASE r = 47
  <2>1. SchemaUp(r, s).add = Checks(Roles, {"kind_scope"})
    BY <1>4, ChangeFacts DEF SchemaUp, S0047
  <2> QED BY <2>1, ObjectsRelease
<1>5. CASE r = 55
  <2>1. SchemaUp(r, s).add = Columns(Perms, {"permission_scope"}) \cup Checks(Perms, {"scope"})
    BY <1>5, ChangeFacts DEF SchemaUp, S0055
  <2> QED BY <2>1, ObjectsRelease, BothRelease
<1>6. CASE r = 64
  <2>1. SchemaUp(r, s).add = Uniques(Jobs, {"platform_type_idempotency"})
                               \cup Uniques(Notes, {"platform_idempotency"})
    BY <1>6, ChangeFacts DEF SchemaUp, S0064
  <2> QED BY <2>1, ObjectsRelease, BothRelease
<1>7. CASE r = 73
  <2>1. SchemaUp(r, s) = S0073
    BY <1>7 DEF SchemaUp
  <2>2. \A drop, add : Change(drop, add).add = add
    BY ChangeFacts
  <2>3. S0073.add = Checks(Notes, {"channel: email, in_app"})
    BY <2>2 DEF S0073
  <2> QED BY <2>1, <2>3, ObjectsRelease
<1>8. CASE r \notin {46, 47, 55, 57, 63, 64, 73}
  <2>1. SchemaUp(r, s) = Create({})
    BY <1>8 DEF SchemaUp
  <2> QED BY <2>1, ChangeFacts, NothingReleases
<1> QED BY <1>1, <1>2, <1>3, <1>4, <1>5, <1>6, <1>7, <1>8

LEMMA SchemaDownReleases ==
    ASSUME NEW r \in 40..73, NEW s
    PROVE  Releasing(SchemaDown(r, s).add)
<1>1. CASE r = 46
  BY <1>1, T0046Releases DEF SchemaDown
<1>2. CASE r = 57
  BY <1>2, T0057Releases DEF SchemaDown
<1>3. CASE r \in {47, 55, 63, 64}
  <2>1. \A add : Undo(Create(add)).add = {}
    BY ChangeFacts
  <2>2. T0047.add = {} /\ T0055.add = {} /\ T0063.add = {} /\ T0064.add = {}
    BY <2>1 DEF T0047, T0055, T0063, T0064, S0047, S0055, S0063, S0064
  <2>3. SchemaDown(r, s) \in {T0047, T0055, T0063, T0064}
    BY <1>3 DEF SchemaDown
  <2> QED BY <2>2, <2>3, NothingReleases
<1>4. CASE r = 73
  <2>1. SchemaDown(r, s) = T0073
    BY <1>4 DEF SchemaDown
  <2>2. \A drop, add : Undo(Change(drop, add)).add = drop
    BY ChangeFacts
  <2>3. T0073.add = Checks(Notes, {"channel: email"})
    BY <2>2 DEF T0073, S0073
  <2> QED BY <2>1, <2>3, ObjectsRelease
<1>5. CASE r \notin {46, 47, 55, 57, 63, 64, 73}
  <2>1. SchemaDown(r, s) = Create({})
    BY <1>5 DEF SchemaDown
  <2> QED BY <2>1, ChangeFacts, NothingReleases
<1> QED BY <1>1, <1>2, <1>3, <1>4, <1>5

(* The schema a script leaves.                                                   *)
Changed(s, m) == IF m = Create({}) THEN s ELSE Apply(s, m)
LEMMA ChangedReleases ==
    ASSUME NEW s, Releasing(s), NEW m, Releasing(m.add)
    PROVE  Releasing(Changed(s, m))
<1>1. \A f \in Changed(s, m) : f \in s \/ f \in m.add
  BY DEF Changed, Apply
<1> QED BY <1>1 DEF Releasing, Fks

LEMMA S0039Releases ==
    ASSUME NEW s
    PROVE  Releasing(Changed(s, S0039(s)))
<1> DEFINE drop == {f \in Fks(s) : f # ReplaceFk(f)}
           m == S0039(s)
<1>1. m.drop = drop /\ m.add = {ReplaceFk(f) : f \in Fks(s)} \ s
  BY ChangeFacts DEF S0039
<1>2. Create({}).drop = {}
  BY ChangeFacts
<1>3. \A f \in Changed(s, m) : f \in s \ m.drop \/ f \in m.add
  BY <1>2 DEF Changed, Apply
<1>4. \A f : ReplaceFk(f)[5] = "CASCADE"
  BY DEF ReplaceFk
<1> HIDE DEF m
<1>5. \A f \in Fks(Changed(s, m)) : f[5] = "CASCADE"
  BY <1>1, <1>3, <1>4 DEF Fks
<1> QED BY <1>5 DEF Releasing, m

-------------------------------------------------------------------------------
(* A script that does not raise takes the invariant of a database from its        *)
(* revision to the next, or to the one before.                                   *)
LEMMA ScriptFacts ==
    ASSUME NEW x, NEW m, NEW d, NEW p, NEW rs, NEW runs,
           NEW y, y = Script(x, m, d, p, rs, runs)
    PROVE  /\ IsDatabase(y) /\ y.schema = Changed(x.schema, m)
           /\ y.cat = d /\ y.people = p /\ y.rows = rs
           /\ y.ok => d.ok /\ p.ok
<1> DEFINE ok == x.ok /\ runs /\ d.ok /\ p.ok /\ (m = Create({}) \/ Runs(x.schema, m))
           sc == Changed(x.schema, m)
<1>1. y = [ok |-> ok, schema |-> sc, cat |-> d, people |-> p, rows |-> rs]
  BY DEF Script, Changed
<1>2. ok => d.ok /\ p.ok
  BY Zenon
<1> HIDE DEF ok, sc
<1>3. IsDatabase(y) /\ y.schema = sc /\ y.cat = d /\ y.people = p /\ y.rows = rs
  BY <1>1 DEF IsDatabase
<1>4. y.ok = ok
  BY <1>1
<1>5. y.ok => d.ok /\ p.ok
  BY <1>2, <1>4, Zenon
<1> QED BY <1>3, <1>5 DEF sc

LEMMA UpToKeeps ==
    ASSUME NEW r \in 1..73, NEW x, DatabaseInv(r - 1, x), NEW y \in UpTo(r, x)
    PROVE  IsDatabase(y) /\ (y.ok => DatabaseInv(r, y))
<1> DEFINE m == SchemaUp(r, x.schema)
           q == PeopleUp(r, x.people)
           yes == TRUE
<1>1. PICK e \in CatalogueUp(r, x.cat) : y = Script(x, m, e, q, x.rows, yes)
  BY DEF UpTo
<1>2. /\ IsDatabase(y) /\ y.schema = Changed(x.schema, m)
      /\ y.cat = e /\ y.people = q /\ y.rows = x.rows
      /\ y.ok => e.ok /\ q.ok
  <2> HIDE DEF m, q, yes
  <2> QED BY <1>1, ScriptFacts
<1>3. ASSUME y.ok PROVE DatabaseInv(r, y)
  <2>1. e.ok /\ q.ok
    BY <1>2, <1>3
  <2>2. CatalogueInv(r - 1, x.cat) /\ PeopleInv(r - 1, x.people, x.cat)
    BY DEF DatabaseInv
  <2>3. CatalogueInv(r, e) /\ RolesOf(x.cat) \ Gone(r) \subseteq RolesOf(e)
    BY <2>1, <2>2, CatalogueUpKeeps
  <2>4. PeopleInv(r, q, e)
    BY <2>1, <2>2, <2>3, PeopleUpKeeps
  <2>5. r >= 39 => Releasing(Changed(x.schema, m))
    <3>1. CASE r = 39
      <4>1. m = S0039(x.schema)
        BY <3>1 DEF SchemaUp
      <4> QED BY <4>1, S0039Releases
    <3>2. CASE r \in 40..73
      <4>1. Releasing(x.schema)
        BY <3>2 DEF DatabaseInv
      <4>2. Releasing(m.add)
        BY <3>2, SchemaUpReleases
      <4> QED BY <4>1, <4>2, ChangedReleases
    <3> QED BY <3>1, <3>2
  <2>6. x.rows \subseteq RowKinds
    BY DEF DatabaseInv
  <2> QED BY <1>2, <2>3, <2>4, <2>5, <2>6 DEF DatabaseInv
<1> QED BY <1>2, <1>3

LEMMA DownFromKeeps ==
    ASSUME NEW r \in 1..73, NEW x, DatabaseInv(r, x), NEW y \in DownFrom(r, x)
    PROVE  IsDatabase(y) /\ (y.ok => DatabaseInv(r - 1, y))
<1> DEFINE m == SchemaDown(r, x.schema)
           e == CatalogueDown(r, x.cat)
           q == PeopleDown(r, x.people)
           rs == IF r = 64 THEN {} ELSE x.rows
           runs == r = 73 => "inbox note" \notin x.rows
<1>1. y = Script(x, m, e, q, rs, runs)
  BY DEF DownFrom
<1>2. /\ IsDatabase(y) /\ y.schema = Changed(x.schema, m)
      /\ y.cat = e /\ y.people = q /\ y.rows = rs
      /\ y.ok => e.ok /\ q.ok
  <2> HIDE DEF m, e, q, rs, runs
  <2> QED BY <1>1, ScriptFacts
<1>3. ASSUME y.ok PROVE DatabaseInv(r - 1, y)
  <2>1. e.ok /\ q.ok
    BY <1>2, <1>3
  <2>2. CatalogueInv(r, x.cat) /\ PeopleInv(r, x.people, x.cat)
    BY DEF DatabaseInv
  <2>3. CatalogueInv(r - 1, e) /\ (r # 4 => RolesOf(x.cat) \subseteq RolesOf(e))
    BY <2>1, <2>2, CatalogueDownKeeps
  <2>4. r \notin Irreversible
    <3>1. ASSUME r \in Irreversible PROVE FALSE
      <4> DEFINE d == x.cat
                 no == FALSE
      <4>1. e = Need(d, no)
        BY <3>1 DEF CatalogueDown, Irreversible
      <4>2. IsCatalogue(d)
        BY <2>2 DEF CatalogueInv, Shaped
      <4> HIDE DEF d, e, no
      <4>3. e.ok = (d.ok /\ no)
        BY <4>1, <4>2, NeedFacts
      <4>4. no
        BY <2>1, <4>3, Zenon
      <4> QED BY <4>4 DEF no
    <3> QED BY <3>1
  <2>5. PeopleInv(r - 1, q, e)
    BY <2>1, <2>2, <2>3, <2>4, PeopleDownKeeps
  <2>6. r - 1 >= 39 => Releasing(Changed(x.schema, m))
    <3>1. ASSUME r - 1 >= 39 PROVE Releasing(x.schema) /\ r \in 40..73
      BY <3>1 DEF DatabaseInv
    <3> QED BY <3>1, SchemaDownReleases, ChangedReleases
  <2>7. rs \subseteq RowKinds
    BY DEF DatabaseInv
  <2> QED BY <1>2, <2>3, <2>5, <2>6, <2>7 DEF DatabaseInv
<1> QED BY <1>2, <1>3

-------------------------------------------------------------------------------
(* What the edits of the application leave.                                      *)
RoleAdded(d, s) == Grant([d EXCEPT !.role = Over(Only(s, PlainRole), @)], {s}, Codes(d))
StateSet(d, c, state) == Rewrite(d, Only(c, [d.perm[c] EXCEPT !.state = state]))
TemplateEdited(d, t, G) == [d EXCEPT !.grant = G, !.role[t].ver = @ + 1]
RoleDerived(d, t, new) ==
    [d EXCEPT !.role = Over(@, Only(Derived, new)),
              !.grant = @ \cup ({Derived} \X Holds(d, t))]
RoleCustomised(d, G, lost) ==
    [d EXCEPT !.grant = G, !.role[Derived].cust = TRUE,
              !.excl = {p \in @ : p[1] # Derived} \cup ({Derived} \X lost)]
UserJoined(p, u, row, js, s) ==
    [p EXCEPT !.user = Over(@, Only(u, row)),
              !.member = @ \cup {[user |-> u, org |-> js[i][1], status |-> js[i][2], role |-> s,
                                  at |-> i] : i \in DOMAIN js}]

LEMMA AddRoleKeeps ==
    ASSUME NEW n \in 10..45, NEW d, CatalogueInv(n, d), NEW s, s \notin RolesOf(d),
           NEW e, e = RoleAdded(d, s)
    PROVE  CatalogueInv(n, e) /\ RolesOf(d) \subseteq RolesOf(e)
<1> DEFINE R == Over(Only(s, PlainRole), d.role)
           h == [d EXCEPT !.role = R]
           rs == {s}
           cs == Codes(d)
<1>1. /\ DOMAIN R = RolesOf(d) \cup {s} /\ R[s] = PlainRole
      /\ \A r \in RolesOf(d) : R[r] = d.role[r]
  BY DEF Over, Only, RolesOf
<1>2. e = Grant(h, rs, cs) /\ s \in rs /\ rs \subseteq {s}
  BY DEF RoleAdded
<1> HIDE DEF R
<1>3. d.ok /\ Shaped(d) /\ Sound(d) /\ Early(n, d)
  BY DEF CatalogueInv
<1>4. /\ IsCatalogue(h) /\ h.role = R /\ h.perm = d.perm /\ h.group = d.group
      /\ h.grant = d.grant /\ h.excl = d.excl /\ h.trig = d.trig /\ h.ok = d.ok
  <2>1. IsCatalogue(d) /\ h = [d EXCEPT !.role = R]
    BY <1>3 DEF Shaped
  <2> HIDE DEF h
  <2> QED BY <2>1 DEF IsCatalogue
<1> HIDE DEF h
<1>5. Shaped(h)
  BY <1>1, <1>3, <1>4, RoleFacts DEF Shaped, RolesOf, Codes
<1>6. Sound(h)
  BY <1>1, <1>3, <1>4 DEF Sound, RolesOf, Codes, Groups_
<1>7. Plain(h)
  BY <1>1, <1>3, <1>4 DEF Early, Plain, RolesOf, Codes
<1>8. Grantable(h, rs, cs)
  BY <1>1, <1>2, <1>4 DEF Grantable, RolesOf, Codes
<1> HIDE DEF rs, cs
<1>9. Keeps(h, e) /\ e.perm = h.perm /\ e.role = h.role
  BY <1>2, <1>5, <1>8, GrantFacts
<1>10. e.ok
  <2> DEFINE pairs == rs \X cs
             g == [h EXCEPT !.grant = @ \cup pairs]
             b == h.trig = "none" \/ \A p \in pairs : Live(h, p[2])
  <2>1. e = Need(g, b)
    BY <1>2 DEF Grant, GrantAll
  <2> HIDE DEF pairs
  <2>2. IsCatalogue(g) /\ g.ok = h.ok
    BY <1>4 DEF IsCatalogue
  <2>3. b
    BY <1>7 DEF Plain
  <2> HIDE DEF g, b
  <2>4. e.ok = (g.ok /\ b)
    BY <2>1, <2>2, NeedFacts
  <2>5. g.ok
    BY <1>3, <1>4, <2>2
  <2> QED BY <2>3, <2>4, <2>5, Zenon
<1>11. Shaped(e) /\ Sound(e) /\ Plain(e)
  BY <1>6, <1>7, <1>9, <1>10 DEF Keeps
<1>12. Early(n, e)
  BY <1>3, <1>4, <1>9, <1>11 DEF Early, Codes
<1>13. RolesOf(d) \subseteq RolesOf(e)
  BY <1>1, <1>4, <1>9 DEF RolesOf
<1> QED BY <1>10, <1>11, <1>12, <1>13 DEF CatalogueInv

LEMMA GovernedEdit ==
    ASSUME NEW n \in 46..73, NEW d, CatalogueInv(n, d), NEW e, e.ok, Shaped(e), Sound(e), Ruled(e),
           Complete(d) => Complete(e), e.trig = d.trig, RolesOf(d) \subseteq RolesOf(e)
    PROVE  CatalogueInv(n, e)
BY DEF CatalogueInv

LEMMA SetLifecycleKeeps ==
    ASSUME NEW n \in 46..73, NEW d, CatalogueInv(n, d), NEW c \in Codes(d), NEW state,
           NEW e, e = StateSet(d, c, state)
    PROVE  CatalogueInv(n, e) /\ RolesOf(d) \subseteq RolesOf(e)
<1> DEFINE x == d.perm[c]
           y == [x EXCEPT !.state = state]
           f == Only(c, y)
<1>1. d.ok /\ Shaped(d) /\ Sound(d) /\ Ruled(d) /\ d.trig \in Triggers
  BY DEF CatalogueInv, Ruled
<1>2. IsPermission(x)
  BY <1>1 DEF Shaped
<1>3. IsPermission(y) /\ y.scope = x.scope /\ y.group = x.group
  <2> HIDE DEF x
  <2> QED BY <1>2 DEF IsPermission
<1> HIDE DEF y
<1>4. DOMAIN f = {c} /\ f[c] = y
  BY DEF Only
<1>5. e = Rewrite(d, f)
  BY DEF y, StateSet
<1> HIDE DEF f
<1>6. /\ DOMAIN f \subseteq Codes(d)
      /\ \A b \in DOMAIN f : IsPermission(f[b]) /\ f[b].scope \in {"organization", d.perm[b].scope}
      /\ \A b \in DOMAIN f : f[b].group \in Groups_(d)
  BY <1>1, <1>3, <1>4 DEF Sound
<1>7. Keeps(d, e)
  BY <1>1, <1>5, <1>6, RewriteKeeps
<1>8. e.ok = d.ok
  <2> DEFINE w == Rewrite(d, f)
  <2>1. DOMAIN f \subseteq Codes(d) /\ \A b \in DOMAIN f : IsPermission(f[b])
    BY <1>6
  <2>2. w.ok = d.ok
    BY <1>1, <2>1, RewriteFacts
  <2> QED BY <1>5, <2>2
<1>9. e.ok /\ Shaped(e) /\ Sound(e) /\ Ruled(e) /\ e.trig = d.trig /\ RolesOf(e) = RolesOf(d)
  BY <1>1, <1>7, <1>8 DEF Keeps
<1>10. Complete(d) => Complete(e)
  BY <1>1, <1>7, <1>9 DEF Keeps
<1> QED BY <1>9, <1>10, GovernedEdit

(* A role other than the administrators' that changes what it holds.             *)
Regranted(d, r, G) == /\ \A p \in d.grant : p[1] # r => p \in G
                      /\ \A p \in G : p \in d.grant \/ p[1] = r
LEMMA EditTemplateKeeps ==
    ASSUME NEW n \in 46..73, NEW d, CatalogueInv(n, d), NEW t \in Templates(d),
           NEW c \in Codes(d), Live(d, c), NEW G, Regranted(d, t, G),
           \A p \in G : p \in d.grant \/ p = <<t, c>>,
           NEW e, e = TemplateEdited(d, t, G)
    PROVE  CatalogueInv(n, e) /\ RolesOf(d) \subseteq RolesOf(e)
<1> DEFINE x == d.role[t]
           y == [x EXCEPT !.ver = @ + 1]
           R == [d.role EXCEPT ![t] = y]
<1>1. d.ok /\ Shaped(d) /\ Sound(d) /\ Ruled(d)
  BY DEF CatalogueInv
<1>2. t \in RolesOf(d) /\ IsRole(x) /\ x.kind = "template"
  BY <1>1 DEF Templates, Shaped
<1>3. IsRole(y)
  <2> HIDE DEF x
  <2> QED BY <1>2 DEF IsRole
<1> HIDE DEF y
<1>4. DOMAIN R = RolesOf(d) /\ R[t] = y /\ \A r \in RolesOf(d) \ {t} : R[r] = d.role[r]
  BY <1>2 DEF RolesOf
<1>5. /\ IsCatalogue(e) /\ e.role = R /\ e.perm = d.perm /\ e.group = d.group
      /\ e.grant = G /\ e.excl = d.excl /\ e.trig = d.trig /\ e.ok = d.ok
  BY <1>1 DEF Shaped, IsCatalogue, TemplateEdited, y
<1> HIDE DEF R
<1>6. t # Admin
  BY <1>1, <1>2 DEF Ruled, IsAdministrators
<1>7. Shaped(e)
  BY <1>1, <1>3, <1>4, <1>5 DEF Shaped, RolesOf, Codes
<1>8. Sound(e)
  BY <1>1, <1>2, <1>4, <1>5 DEF Sound, RolesOf, Codes, Groups_
<1>9. \A b : Live(e, b) <=> Live(d, b)
  BY <1>5 DEF Live
<1>10. Ruled(e)
  BY <1>1, <1>4, <1>5, <1>6, <1>9 DEF Ruled, RolesOf
<1>11. Complete(d) => Complete(e)
  BY <1>4, <1>5, <1>6 DEF Complete, Regranted, OfOrg, Active, Codes, RolesOf
<1>12. RolesOf(e) = RolesOf(d)
  BY <1>4, <1>5 DEF RolesOf
<1> QED BY <1>1, <1>5, <1>7, <1>8, <1>10, <1>11, <1>12, GovernedEdit

LEMMA HoldsFacts ==
    ASSUME NEW d, Sound(d), Ruled(d), NEW r
    PROVE  \A c \in Holds(d, r) : c \in Codes(d) /\ Live(d, c)
BY DEF Holds, Sound, Ruled

LEMMA DeriveKeeps ==
    ASSUME NEW n \in 46..73, NEW d, CatalogueInv(n, d), NEW t \in Templates(d),
           Derived \notin RolesOf(d), NEW new, IsRole(new),
           NEW e, e = RoleDerived(d, t, new)
    PROVE  CatalogueInv(n, e) /\ RolesOf(d) \subseteq RolesOf(e)
<1> DEFINE R == Over(d.role, Only(Derived, new))
           g == {Derived} \X Holds(d, t)
<1>1. d.ok /\ Shaped(d) /\ Sound(d) /\ Ruled(d)
  BY DEF CatalogueInv
<1>2. /\ DOMAIN R = RolesOf(d) \cup {Derived} /\ R[Derived] = new
      /\ \A r \in RolesOf(d) : R[r] = d.role[r]
  BY DEF Over, Only, RolesOf
<1>3. \A p \in g : p = <<Derived, p[2]>> /\ p[1] = Derived /\ p[2] \in Codes(d) /\ Live(d, p[2])
  BY <1>1, HoldsFacts
<1> HIDE DEF R, g
<1>4. /\ IsCatalogue(e) /\ e.role = R /\ e.perm = d.perm /\ e.group = d.group
      /\ e.grant = d.grant \cup g /\ e.excl = d.excl /\ e.trig = d.trig /\ e.ok = d.ok
  BY <1>1 DEF Shaped, IsCatalogue, RoleDerived, R, g
<1>5. Derived # Admin
  BY DEF Derived, Admin
<1>6. Shaped(e)
  BY <1>1, <1>2, <1>4 DEF Shaped, RolesOf, Codes
<1>7. Sound(e)
  <2>1. g \subseteq (RolesOf(d) \cup {Derived}) \X Codes(d)
    BY <1>3
  <2> QED BY <1>1, <1>2, <1>4, <2>1 DEF Sound, RolesOf, Codes, Groups_
<1>8. \A b : Live(e, b) <=> Live(d, b)
  BY <1>4 DEF Live
<1>9. Ruled(e)
  BY <1>1, <1>2, <1>3, <1>4, <1>5, <1>8 DEF Ruled, RolesOf
<1>10. Complete(d) => Complete(e)
  BY <1>2, <1>4, <1>5 DEF Complete, OfOrg, Active, Codes, RolesOf
<1>11. RolesOf(d) \subseteq RolesOf(e)
  BY <1>2, <1>4 DEF RolesOf
<1> QED BY <1>1, <1>4, <1>6, <1>7, <1>9, <1>10, <1>11, GovernedEdit

LEMMA CustomiseKeeps ==
    ASSUME NEW n \in 46..73, NEW d, CatalogueInv(n, d), Derived \in RolesOf(d),
           NEW c \in Codes(d), Live(d, c), NEW G, Regranted(d, Derived, G),
           \A p \in G : p \in d.grant \/ p = <<Derived, c>>,
           NEW lost, NEW src, lost \subseteq Holds(d, src),
           NEW e, e = RoleCustomised(d, G, lost)
    PROVE  CatalogueInv(n, e) /\ RolesOf(d) \subseteq RolesOf(e)
<1> DEFINE x == d.role[Derived]
           yes == TRUE
           y == [x EXCEPT !.cust = yes]
           R == [d.role EXCEPT ![Derived] = y]
           X == {p \in d.excl : p[1] # Derived} \cup ({Derived} \X lost)
<1>1. d.ok /\ Shaped(d) /\ Sound(d) /\ Ruled(d)
  BY DEF CatalogueInv
<1>2. IsRole(x)
  BY <1>1 DEF Shaped
<1>3. IsRole(y)
  <2> HIDE DEF x, yes
  <2> QED BY <1>2 DEF IsRole
<1> HIDE DEF y
<1>4. DOMAIN R = RolesOf(d) /\ R[Derived] = y /\ \A r \in RolesOf(d) \ {Derived} : R[r] = d.role[r]
  BY DEF RolesOf
<1>5. \A p \in X : \/ p \in d.excl
                   \/ p = <<Derived, p[2]>> /\ p[2] \in Codes(d) /\ Live(d, p[2])
  BY <1>1, HoldsFacts
<1> HIDE DEF X
<1>6. /\ IsCatalogue(e) /\ e.role = R /\ e.perm = d.perm /\ e.group = d.group
      /\ e.grant = G /\ e.excl = X /\ e.trig = d.trig /\ e.ok = d.ok
  BY <1>1 DEF Shaped, IsCatalogue, RoleCustomised, y, X
<1> HIDE DEF R
<1>7. Derived # Admin
  BY DEF Derived, Admin
<1>8. Shaped(e)
  BY <1>1, <1>3, <1>4, <1>6 DEF Shaped, RolesOf, Codes
<1>9. Sound(e)
  BY <1>1, <1>4, <1>5, <1>6 DEF Sound, RolesOf, Codes, Groups_
<1>10. \A b : Live(e, b) <=> Live(d, b)
  BY <1>6 DEF Live
<1>11. Ruled(e)
  <2>1. d.trig = "scoped" => \A p \in X : d.perm[p[2]].scope = "organization"
    BY <1>1, <1>5 DEF Ruled, Live
  <2>2. ASSUME NEW p \in G PROVE Live(e, p[2])
    <3>1. CASE p \in d.grant
      BY <1>1, <1>10, <3>1 DEF Ruled
    <3>2. CASE p = <<Derived, c>>
      <4>1. p[2] = c
        BY <3>2
      <4> QED BY <1>10, <4>1
    <3> QED BY <3>1, <3>2
  <2>3. Admin \in RolesOf(e) => IsAdministrators(e.role[Admin])
    BY <1>1, <1>4, <1>6, <1>7 DEF Ruled, RolesOf
  <2> QED BY <1>1, <1>6, <2>1, <2>2, <2>3 DEF Ruled
<1>12. Complete(d) => Complete(e)
  BY <1>4, <1>6, <1>7 DEF Complete, Regranted, OfOrg, Active, Codes, RolesOf
<1>13. RolesOf(e) = RolesOf(d)
  BY <1>4, <1>6 DEF RolesOf
<1> QED BY <1>1, <1>6, <1>8, <1>9, <1>11, <1>12, <1>13, GovernedEdit

IsUser(x) == x = [super |-> x.super, org |-> x.org]
LEMMA UserAdded ==
    ASSUME NEW p, Placed(p), NEW u, NEW row, IsUser(row), NEW U, U = Over(p.user, Only(u, row))
    PROVE  /\ DOMAIN U = DOMAIN p.user \cup {u} /\ IsFiniteSet(DOMAIN U)
           /\ \A v \in DOMAIN p.user : U[v] = p.user[v]
           /\ \A v \in DOMAIN U : IsUser(U[v])
<1>1. /\ DOMAIN U = DOMAIN p.user \cup {u}
      /\ u \notin DOMAIN p.user => U[u] = row
      /\ \A v \in DOMAIN p.user : U[v] = p.user[v]
  BY DEF Over, Only
<1>2. IsFiniteSet(DOMAIN p.user) /\ \A v \in DOMAIN p.user : IsUser(p.user[v])
  BY DEF Placed, IsUser
<1>3. IsFiniteSet(DOMAIN p.user \cup {u})
  BY <1>2, FS_AddElement
<1> QED BY <1>1, <1>2, <1>3

LEMMA JoinKeeps ==
    ASSUME NEW n \in 4..56, NEW p, NEW d, PeopleInv(n, p, d), NEW u, NEW row, IsUser(row),
           NEW js \in Joins, NEW s, s # "none" => n < 16 /\ s \in RolesOf(d),
           NEW q, q = UserJoined(p, u, row, js, s)
    PROVE  PeopleInv(n, q, d)
<1> DEFINE U == Over(p.user, Only(u, row))
           S == DOMAIN js
           f == [i \in S |-> [user |-> u, org |-> js[i][1], status |-> js[i][2], role |-> s,
                              at |-> i]]
           N == {f[i] : i \in S}
           M == p.member \cup N
<1>1. q = [p EXCEPT !.user = U, !.member = M]
  BY DEF UserJoined
<1>2. Placed(p) /\ p.ok
  BY DEF PeopleInv
<1>3. /\ DOMAIN U = DOMAIN p.user \cup {u} /\ IsFiniteSet(DOMAIN U)
      /\ \A v \in DOMAIN p.user : U[v] = p.user[v]
      /\ \A v \in DOMAIN U : IsUser(U[v])
  BY <1>2, UserAdded
<1>4. js \in Seq(Tenants \X {"active", "suspended"}) /\ "none" \notin Tenants
  BY JoinsAssumption
<1>5. S = 1..Len(js) /\ Len(js) \in Nat /\ \A i \in S : js[i][1] \in Tenants
  BY <1>4
<1>6. \A m \in N : /\ IsMember(m) /\ m.user = u /\ m.org # "none" /\ m.role = s /\ m.at \in Nat
  <2>1. \A i \in S : /\ IsMember(f[i]) /\ f[i].user = u /\ f[i].org # "none" /\ f[i].role = s
                     /\ f[i].at \in Nat
    BY <1>4, <1>5 DEF IsMember
  <2> HIDE DEF S, f
  <2> QED BY <2>1
<1>7. IsFiniteSet(M)
  <2>1. 1 \in Int /\ Len(js) \in Int
    BY <1>5
  <2> HIDE DEF S, f
  <2>2. IsFiniteSet(S)
    BY <1>5, <2>1, FS_Interval
  <2>3. IsFiniteSet(N)
    BY <2>2, ImageFinite
  <2>4. IsFiniteSet(p.member)
    BY <1>2 DEF Placed
  <2> QED BY <2>3, <2>4, FS_Union
<1> HIDE DEF U, N
<1>8. /\ IsPopulation(q) /\ q.ok = p.ok /\ q.user = U /\ q.member = M /\ q.assign = p.assign
  <2>1. IsPopulation(p)
    BY <1>2 DEF Placed
  <2> HIDE DEF M
  <2> QED BY <1>1, <2>1 DEF IsPopulation
<1>9. Placed(q)
  <2>1. \A v \in DOMAIN q.user : q.user[v] = [super |-> q.user[v].super, org |-> q.user[v].org]
    BY <1>3, <1>8 DEF IsUser
  <2>2. \A m \in M : IsMember(m) /\ m.at \in Nat /\ m.org # "none" /\ m.user \in DOMAIN U
    BY <1>2, <1>3, <1>6 DEF Placed
  <2> HIDE DEF M
  <2> QED BY <1>2, <1>3, <1>7, <1>8, <2>1, <2>2 DEF Placed
<1>10. \A m \in q.member : m.role # "none" => n < 16 /\ m.role \in RolesOf(d)
  BY <1>6, <1>8 DEF PeopleInv
<1>11. \A a \in q.assign : n >= 12 /\ (a.role # "none" => a.role \in RolesOf(d))
  BY <1>8 DEF PeopleInv
<1>12. ASSUME SupersAgree(p) PROVE SupersAgree(q)
  <2>1. ASSUME NEW a \in Assigned(q)
        PROVE  a \in Assigned(p) /\ (a.user \in Supers(q) => a.user \in Supers(p))
    <3>1. a \in Assigned(p) /\ a.user \in DOMAIN p.user
      BY <1>2, <1>8 DEF Assigned, Placed
    <3> QED BY <1>3, <1>8, <3>1 DEF Supers
  <2> QED BY <1>12, <2>1 DEF SupersAgree
<1>13. q.ok /\ ~(n >= 57) /\ (n >= 47 => SupersAgree(q))
  <2>1. q.ok
    BY <1>2, <1>8
  <2>2. ~(n >= 57)
    OBVIOUS
  <2>3. n >= 47 => SupersAgree(q)
    BY <1>12 DEF PeopleInv
  <2> QED BY <2>1, <2>2, <2>3
<1> QED BY <1>9, <1>10, <1>11, <1>13 DEF PeopleInv

(* What users and assignments are like where users have an organization: everybody's *)
(* active assignments are in one, the user's own but for super admins.          *)
Settled(U, A) ==
    \A a, b \in A :
      a.status = "active" /\ b.status = "active" /\ a.user = b.user =>
        a.org = b.org /\ (~U[a.user].super => U[a.user].org = a.org)
LEMMA SettledFacts ==
    ASSUME NEW n \in 57..73, NEW p, NEW d, PeopleInv(n, p, d)
    PROVE  Settled(p.user, p.assign)
<1>1. SupersAgree(p) /\ MembersHome(p) /\ Placed(p)
  BY DEF PeopleInv
<1>2. ASSUME NEW a \in p.assign, a.status = "active"
      PROVE  /\ a \in Assigned(p)
             /\ a.user \in Supers(p) <=> p.user[a.user].super
             /\ ~p.user[a.user].super => p.user[a.user].org = a.org
  <2>1. a \in Assigned(p) /\ a.user \in DOMAIN p.user
    BY <1>1, <1>2 DEF Assigned, Placed
  <2> QED BY <1>1, <2>1 DEF Supers, MembersHome
<1>3. ASSUME NEW a \in p.assign, NEW b \in p.assign, a.status = "active", b.status = "active",
             a.user = b.user
      PROVE  a.org = b.org
  <2>1. CASE p.user[a.user].super
    BY <1>1, <1>2, <1>3, <2>1 DEF SupersAgree
  <2>2. CASE ~p.user[a.user].super
    BY <1>2, <1>3, <2>2
  <2> QED BY <2>1, <2>2
<1> QED BY <1>2, <1>3 DEF Settled

LEMMA UsersKeep ==
    ASSUME NEW n \in 57..73, NEW p, NEW d, PeopleInv(n, p, d),
           NEW U, NEW A, NEW q, q = [p EXCEPT !.user = U, !.assign = A],
           DOMAIN p.user \subseteq DOMAIN U, IsFiniteSet(DOMAIN U),
           \A v \in DOMAIN U : IsUser(U[v]),
           IsFiniteSet(A),
           \A a \in A : /\ IsAssignment(a) /\ a.at \in Nat /\ a.org # "none"
                        /\ a.user \in DOMAIN U /\ (a.role # "none" => a.role \in RolesOf(d)),
           Settled(U, A)
    PROVE  PeopleInv(n, q, d)
<1>1. Placed(p) /\ p.ok
  BY DEF PeopleInv
<1>2. /\ IsPopulation(q) /\ q.ok = p.ok /\ q.user = U /\ q.member = p.member
      /\ q.assign = A
  <2>1. IsPopulation(p)
    BY <1>1 DEF Placed
  <2> QED BY <2>1 DEF IsPopulation
<1>3. Placed(q)
  <2>1. \A v \in DOMAIN q.user : q.user[v] = [super |-> q.user[v].super, org |-> q.user[v].org]
    BY <1>2 DEF IsUser
  <2>2. /\ IsFiniteSet(q.member)
        /\ \A m \in q.member :
             IsMember(m) /\ m.at \in Nat /\ m.org # "none" /\ m.user \in DOMAIN q.user
    BY <1>1, <1>2 DEF Placed
  <2> QED BY <1>2, <2>1, <2>2 DEF Placed
<1>4. /\ \A m \in q.member : m.role # "none" => n < 16 /\ m.role \in RolesOf(d)
      /\ \A a \in q.assign : n >= 12 /\ (a.role # "none" => a.role \in RolesOf(d))
  BY <1>2 DEF PeopleInv
<1>5. SupersAgree(q)
  BY <1>2 DEF SupersAgree, Assigned, Settled
<1>6. MembersHome(q)
  <2>1. SUFFICES ASSUME NEW a \in Assigned(q), a.user \notin Supers(q)
                 PROVE  q.user[a.user].org = a.org
    BY DEF MembersHome
  <2>2. a \in A /\ a.status = "active" /\ a.user \in DOMAIN U
    BY <1>2, <2>1 DEF Assigned
  <2>3. ~U[a.user].super
    BY <1>2, <2>1, <2>2 DEF Supers
  <2> QED BY <1>2, <2>2, <2>3 DEF Settled
<1> QED BY <1>1, <1>2, <1>3, <1>4, <1>5, <1>6 DEF PeopleInv

(* The assignments there are suit any users who are there.                        *)
LEMMA AssignmentsPlaced ==
    ASSUME NEW n, NEW p, NEW d, PeopleInv(n, p, d), NEW D, DOMAIN p.user \subseteq D
    PROVE  /\ IsFiniteSet(p.assign)
           /\ \A a \in p.assign :
                /\ IsAssignment(a) /\ a.at \in Nat /\ a.org # "none"
                /\ a.user \in D /\ (a.role # "none" => a.role \in RolesOf(d))
BY DEF PeopleInv, Placed

(* A new user, with an assignment or none.                                         *)
LEMMA CreateKeeps ==
    ASSUME NEW n \in 57..73, NEW p, NEW d, PeopleInv(n, p, d), NEW u, u \notin DOMAIN p.user,
           NEW row, IsUser(row), NEW N, IsFiniteSet(N),
           \A a \in N : /\ IsAssignment(a) /\ a.at \in Nat /\ a.org # "none"
                        /\ a.user = u /\ a.org = row.org
                        /\ a.role # "none" => a.role \in RolesOf(d),
           NEW q, q = [p EXCEPT !.user = Over(@, Only(u, row)), !.assign = @ \cup N]
    PROVE  PeopleInv(n, q, d)
<1> DEFINE U == Over(p.user, Only(u, row))
           A == p.assign \cup N
<1>1. q = [p EXCEPT !.user = U, !.assign = A]
  OBVIOUS
<1>2. Placed(p) /\ Settled(p.user, p.assign)
  BY SettledFacts DEF PeopleInv
<1>3. /\ DOMAIN U = DOMAIN p.user \cup {u} /\ IsFiniteSet(DOMAIN U)
      /\ \A v \in DOMAIN p.user : U[v] = p.user[v]
      /\ \A v \in DOMAIN U : IsUser(U[v])
  BY <1>2, UserAdded
<1>4. U[u] = row
  BY DEF Over, Only
<1> HIDE DEF U
<1>5. /\ IsFiniteSet(p.assign)
      /\ \A a \in p.assign :
           /\ IsAssignment(a) /\ a.at \in Nat /\ a.org # "none"
           /\ a.user \in DOMAIN p.user /\ (a.role # "none" => a.role \in RolesOf(d))
  BY AssignmentsPlaced
<1>6. IsFiniteSet(A)
  BY <1>5, FS_Union
<1>7. \A a \in A : /\ IsAssignment(a) /\ a.at \in Nat /\ a.org # "none"
                   /\ a.user \in DOMAIN U /\ (a.role # "none" => a.role \in RolesOf(d))
  BY <1>3, <1>5
<1>8. Settled(U, A)
  <2>1. SUFFICES ASSUME NEW a \in A, NEW b \in A, a.status = "active", b.status = "active",
                        a.user = b.user
                 PROVE  a.org = b.org /\ (~U[a.user].super => U[a.user].org = a.org)
    BY DEF Settled
  <2>2. CASE a.user = u
    <3>1. a \in N /\ b \in N
      BY <1>5, <2>1, <2>2
    <3> QED BY <1>4, <2>2, <3>1
  <2>3. CASE a.user # u
    <3>1. a \in p.assign /\ b \in p.assign /\ U[a.user] = p.user[a.user]
      BY <1>3, <1>5, <2>1, <2>3
    <3> QED BY <1>2, <2>1, <3>1 DEF Settled
  <2> QED BY <2>2, <2>3
<1> HIDE DEF A
<1> QED BY <1>1, <1>3, <1>6, <1>7, <1>8, UsersKeep

(* A user who is there becomes row, with assignments A instead.                    *)
LEMMA UserChanged ==
    ASSUME NEW p, Placed(p), NEW u \in DOMAIN p.user, NEW row, IsUser(row),
           NEW U, U = [p.user EXCEPT ![u] = row]
    PROVE  /\ DOMAIN U = DOMAIN p.user /\ IsFiniteSet(DOMAIN U)
           /\ U[u] = row /\ \A v \in DOMAIN U : IsUser(U[v])
           /\ \A v \in DOMAIN p.user \ {u} : U[v] = p.user[v]
BY DEF Placed, IsUser

LEMMA PromotionKeeps ==
    ASSUME NEW n \in 57..73, NEW p, NEW d, PeopleInv(n, p, d), NEW u \in DOMAIN p.user,
           NEW row, IsUser(row), row.super,
           NEW q, q = [p EXCEPT !.user[u] = row]
    PROVE  PeopleInv(n, q, d)
<1> DEFINE U == [p.user EXCEPT ![u] = row]
           A == p.assign
<1>1. Placed(p) /\ Settled(p.user, A)
  BY SettledFacts DEF PeopleInv
<1>2. q = [p EXCEPT !.user = U, !.assign = A]
  <2>1. IsPopulation(p)
    BY <1>1 DEF Placed
  <2> HIDE DEF U
  <2>2. q = [p EXCEPT !.user = U]
    BY DEF U
  <2> QED BY <2>1, <2>2 DEF IsPopulation
<1>3. /\ DOMAIN U = DOMAIN p.user /\ IsFiniteSet(DOMAIN U)
      /\ U[u] = row /\ \A v \in DOMAIN U : IsUser(U[v])
      /\ \A v \in DOMAIN p.user \ {u} : U[v] = p.user[v]
  <2>1. U = [p.user EXCEPT ![u] = row]
    OBVIOUS
  <2> HIDE DEF U
  <2> QED BY <1>1, <2>1, UserChanged
<1> HIDE DEF U
<1>4. /\ IsFiniteSet(A)
      /\ \A a \in A : /\ IsAssignment(a) /\ a.at \in Nat /\ a.org # "none"
                      /\ a.user \in DOMAIN U /\ (a.role # "none" => a.role \in RolesOf(d))
  BY <1>3, AssignmentsPlaced
<1> HIDE DEF A
<1>5. Settled(U, A)
  BY <1>1, <1>3, <1>4 DEF Settled
<1> QED BY <1>2, <1>3, <1>4, <1>5, UsersKeep

LEMMA ChangeKeeps ==
    ASSUME NEW n \in 57..73, NEW p, NEW d, PeopleInv(n, p, d), NEW u \in DOMAIN p.user,
           NEW row, IsUser(row), NEW A, IsFiniteSet(A),
           \A x \in A : /\ IsAssignment(x) /\ x.at \in Nat /\ x.org # "none"
                        /\ x.user \in DOMAIN p.user /\ (x.role # "none" => x.role \in RolesOf(d)),
           \A x \in A : x.status = "active" =>
                          IF x.user = u THEN x.org = row.org ELSE x \in p.assign,
           NEW q, q = [p EXCEPT !.user[u] = row, !.assign = A]
    PROVE  PeopleInv(n, q, d)
<1> DEFINE U == [p.user EXCEPT ![u] = row]
<1>1. Placed(p) /\ Settled(p.user, p.assign)
  BY SettledFacts DEF PeopleInv
<1>2. q = [p EXCEPT !.user = U, !.assign = A] /\ U = [p.user EXCEPT ![u] = row]
  OBVIOUS
<1> HIDE DEF U
<1>3. /\ DOMAIN U = DOMAIN p.user /\ IsFiniteSet(DOMAIN U)
      /\ U[u] = row /\ \A v \in DOMAIN U : IsUser(U[v])
      /\ \A v \in DOMAIN p.user \ {u} : U[v] = p.user[v]
  BY <1>1, <1>2, UserChanged
<1>4. Settled(U, A)
  <2>1. SUFFICES ASSUME NEW a \in A, NEW b \in A, a.status = "active", b.status = "active",
                        a.user = b.user
                 PROVE  a.org = b.org /\ (~U[a.user].super => U[a.user].org = a.org)
    BY DEF Settled
  <2>2. CASE a.user = u
    BY <1>3, <2>1, <2>2
  <2>3. CASE a.user # u
    <3>1. a \in p.assign /\ b \in p.assign /\ U[a.user] = p.user[a.user]
      BY <1>3, <2>1, <2>3
    <3> QED BY <1>1, <2>1, <3>1 DEF Settled
  <2> QED BY <2>2, <2>3
<1> QED BY <1>2, <1>3, <1>4, UsersKeep

LEMMA AssignKeeps ==
    ASSUME NEW n \in 12..56, NEW p, NEW d, PeopleInv(n, p, d), NEW u \in DOMAIN p.user,
           NEW o, o # "none", NEW s \in RolesOf(d), NEW k \in Nat,
           n >= 47 => u \notin Supers(p),
           NEW O, NEW q, q = [p EXCEPT !.orole = O,
                                       !.assign = @ \cup {[user |-> u, org |-> o, role |-> s,
                                                           status |-> "active", at |-> k]}]
    PROVE  PeopleInv(n, q, d)
<1> DEFINE x == [user |-> u, org |-> o, role |-> s, status |-> "active", at |-> k]
           A == p.assign \cup {x}
<1>1. q = [p EXCEPT !.orole = O, !.assign = A]
  OBVIOUS
<1>2. Placed(p) /\ p.ok
  BY DEF PeopleInv
<1>3. IsAssignment(x) /\ x.user = u /\ x.org = o /\ x.role = s /\ x.at = k
  BY DEF IsAssignment
<1> HIDE DEF x
<1>4. IsFiniteSet(A)
  BY <1>2, FS_AddElement DEF Placed
<1>5. /\ IsPopulation(q) /\ q.ok = p.ok /\ q.user = p.user /\ q.member = p.member
      /\ q.assign = A
  <2>1. IsPopulation(p)
    BY <1>2 DEF Placed
  <2> HIDE DEF A
  <2> QED BY <1>1, <2>1 DEF IsPopulation
<1>6. Placed(q)
  <2>1. \A a \in A : IsAssignment(a) /\ a.at \in Nat /\ a.org # "none" /\ a.user \in DOMAIN p.user
    BY <1>2, <1>3 DEF Placed
  <2> HIDE DEF A
  <2> QED BY <1>2, <1>4, <1>5, <2>1 DEF Placed
<1>7. /\ \A m \in q.member : m.role # "none" => n < 16 /\ m.role \in RolesOf(d)
      /\ \A a \in q.assign : n >= 12 /\ (a.role # "none" => a.role \in RolesOf(d))
  BY <1>3, <1>5 DEF PeopleInv
<1>8. Supers(q) = Supers(p)
  BY <1>5 DEF Supers
<1>9. \A a \in Assigned(q) : a = x \/ a \in Assigned(p)
  BY <1>5 DEF Assigned
<1>10. n >= 47 => SupersAgree(q)
  <2>1. ASSUME n >= 47 PROVE SupersAgree(p) /\ u \notin Supers(p)
    BY <2>1 DEF PeopleInv
  <2> QED BY <1>3, <1>8, <1>9, <2>1 DEF SupersAgree
<1> QED BY <1>2, <1>5, <1>6, <1>7, <1>10 DEF PeopleInv

-------------------------------------------------------------------------------
(* The invariant of the migrations.                                              *)
Rows(s, c, p, w) == [ok |-> TRUE, schema |-> s, cat |-> c, people |-> p, rows |-> w]
LEMMA RowsFacts ==
    ASSUME NEW s, NEW c, NEW p, NEW w
    PROVE  /\ IsDatabase(Rows(s, c, p, w)) /\ Rows(s, c, p, w).ok
           /\ Rows(s, c, p, w).schema = s /\ Rows(s, c, p, w).cat = c
           /\ Rows(s, c, p, w).people = p /\ Rows(s, c, p, w).rows = w
BY DEF Rows, IsDatabase

LEMMA CurrentFacts ==
    ASSUME NEW n, NEW s, NEW c, NEW p, NEW w
    PROVE  DatabaseInv(n, Rows(s, c, p, w)) <=>
             /\ CatalogueInv(n, c) /\ PeopleInv(n, p, c)
             /\ n >= 39 => Releasing(s)
             /\ w \subseteq RowKinds
<1> DEFINE x == Rows(s, c, p, w)
<1>1. x.schema = s /\ x.cat = c /\ x.people = p /\ x.rows = w
  BY RowsFacts
<1> HIDE DEF x
<1> QED BY <1>1 DEF DatabaseInv, x

(* An open run: it has come from the revision of the database to run.at, on its    *)
(* way to another stop.                                                         *)
RunInv ==
    run # None =>
      /\ run = [at |-> run.at, to |-> run.to, db |-> run.db]
      /\ run.at \in 0..HeadRevision /\ run.to \in Stops
      /\ run.at \in run.to..rev \cup rev..run.to
      /\ run.to # rev /\ (upward = Climbs \/ turns < MaxTurns)
      /\ IsDatabase(run.db) /\ (run.db.ok => DatabaseInv(run.at, run.db))
BoundsInv ==
    rev \in Stops /\ edits \in 0..MaxEdits /\ turns \in 0..MaxTurns /\ upward \in BOOLEAN
RowsInv ==
    /\ CatalogueInv(rev, cat) /\ PeopleInv(rev, people, cat)
    /\ rev >= 39 => Releasing(schema)
    /\ rows \subseteq RowKinds
IInv == BoundsInv /\ RowsInv /\ RunInv

LEMMA EmptyFacts == CatalogueInv(0, EmptyCatalogue) /\ PeopleInv(0, EmptyPopulation, EmptyCatalogue)
<1> DEFINE d == EmptyCatalogue
           p == EmptyPopulation
<1>1. DOMAIN << >> = {}
  OBVIOUS
<1>2. /\ IsCatalogue(d) /\ d.ok /\ DOMAIN d.perm = {} /\ DOMAIN d.role = {}
      /\ d.grant = {} /\ d.excl = {} /\ d.trig = "none"
  BY <1>1 DEF EmptyCatalogue, IsCatalogue
<1>3. /\ IsPopulation(p) /\ p.ok /\ DOMAIN p.user = {} /\ p.member = {} /\ p.assign = {}
  BY <1>1 DEF EmptyPopulation, IsPopulation
<1> HIDE DEF d, p
<1>4. Shaped(d) /\ Sound(d) /\ Early(0, d)
  BY <1>2 DEF Shaped, Sound, Early, Plain, Codes, RolesOf
<1>5. CatalogueInv(0, d)
  BY <1>2, <1>4 DEF CatalogueInv
<1>6. Placed(p)
  BY <1>3, FS_EmptySet DEF Placed
<1>7. PeopleInv(0, p, d)
  BY <1>3, <1>6 DEF PeopleInv
<1> QED BY <1>5, <1>7 DEF d, p

LEMMA StopsFacts == Stops \subseteq 0..73 /\ 0 \in Stops
BY StopsAssumption DEF HeadRevision

LEMMA InitIInv == Init => IInv
<1> SUFFICES ASSUME Init PROVE IInv
  OBVIOUS
<1>1. BoundsInv
  BY StopsFacts, BoundsAssumption DEF Init, BoundsInv
<1>2. RowsInv
  BY EmptyFacts DEF Init, RowsInv
<1>3. RunInv
  BY DEF Init, RunInv
<1> QED BY <1>1, <1>2, <1>3 DEF IInv

LEMMA BeginKeeps ==
    ASSUME IInv, NEW r \in Stops, Begin(r) PROVE IInv'
<1>1. UNCHANGED <<rev, schema, cat, people, rows, edits, turns, upward>>
  BY DEF Begin, database
<1>2. BoundsInv' /\ RowsInv'
  BY <1>1 DEF IInv, BoundsInv, RowsInv
<1>3. RunInv'
  <2> DEFINE x == Current
  <2>1. run' = [at |-> rev, to |-> r, db |-> x]
    BY DEF Begin
  <2>2. IsDatabase(x) /\ DatabaseInv(rev, x)
    <3>1. x = Rows(schema, cat, people, rows)
      BY DEF Current, Rows
    <3> HIDE DEF x
    <3> QED BY <3>1, RowsFacts, CurrentFacts, Zenon DEF IInv, RowsInv
  <2> HIDE DEF x
  <2>3. run'.at = rev /\ run'.to = r /\ run'.db = x
    BY <2>1
  <2>4. rev \in 0..73 /\ r \in 0..73
    BY StopsFacts DEF IInv, BoundsInv
  <2>5. \/ r > rev /\ (upward \/ turns < MaxTurns)
        \/ r < rev /\ (~upward \/ turns < MaxTurns)
    BY DEF Begin, NextStop, LastStop
  <2>6. run' # None => (upward' = Climbs' \/ turns' < MaxTurns)
    <3>1. SUFFICES ASSUME run' # None, ~(turns < MaxTurns) PROVE upward' = Climbs'
      BY <1>1
    <3>2. Climbs' <=> r > rev
      BY <1>1, <2>3, <3>1 DEF Climbs
    <3>3. upward \in BOOLEAN
      BY DEF IInv, BoundsInv
    <3>4. upward <=> r > rev
      BY <2>4, <2>5, <3>1, <3>3
    <3>5. upward' <=> Climbs'
      BY <1>1, <3>2, <3>4
    <3> QED BY <1>1, <3>3, <3>5 DEF Climbs
  <2> QED BY <1>1, <2>1, <2>2, <2>3, <2>4, <2>5, <2>6 DEF RunInv, HeadRevision
<1> QED BY <1>2, <1>3 DEF IInv

LEMMA ExecuteKeeps ==
    ASSUME IInv, run # None, NEW r, NEW x, Execute(r, x), r \in run.to..rev \cup rev..run.to,
           IsDatabase(x), x.ok => DatabaseInv(r, x)
    PROVE  IInv'
<1>1. UNCHANGED <<rev, schema, cat, people, rows, edits, turns, upward>>
  BY DEF Execute, database
<1>2. BoundsInv' /\ RowsInv'
  BY <1>1 DEF IInv, BoundsInv, RowsInv
<1>3. RunInv'
  <2>1. /\ run = [at |-> run.at, to |-> run.to, db |-> run.db]
        /\ run.to \in Stops /\ run.to # rev /\ (upward = Climbs \/ turns < MaxTurns)
    BY DEF IInv, RunInv
  <2>2. run' = [run EXCEPT !.at = r, !.db = x]
    BY DEF Execute
  <2>3. run' = [at |-> r, to |-> run.to, db |-> x]
    BY <2>1, <2>2
  <2>4. run'.at = r /\ run'.to = run.to /\ run'.db = x
    BY <2>3
  <2>5. r \in 0..73
    BY <2>1, StopsFacts DEF IInv, BoundsInv
  <2>6. run' # None => (Climbs' <=> Climbs)
    BY <1>1, <2>4 DEF Climbs
  <2>7. run' # None => (upward' = Climbs' \/ turns' < MaxTurns)
    <3>1. SUFFICES ASSUME run' # None, ~(turns < MaxTurns) PROVE upward' = Climbs'
      BY <1>1
    <3>2. upward \in BOOLEAN /\ upward = Climbs
      BY <2>1, <3>1 DEF IInv, BoundsInv
    <3>3. upward' <=> Climbs'
      BY <1>1, <2>6, <3>1, <3>2
    <3> QED BY <1>1, <3>2, <3>3 DEF Climbs
  <2> QED BY <1>1, <2>1, <2>3, <2>4, <2>5, <2>7 DEF RunInv, HeadRevision
<1> QED BY <1>2, <1>3 DEF IInv

LEMMA UpgradeKeeps == ASSUME IInv, Upgrade PROVE IInv'
<1>1. run # None /\ run.at < run.to /\ run.db.ok
  BY DEF Upgrade
<1>2. /\ run.at \in 0..73 /\ run.to \in Stops /\ run.at \in run.to..rev \cup rev..run.to
      /\ DatabaseInv(run.at, run.db)
  BY <1>1 DEF IInv, RunInv, HeadRevision
<1>3. rev \in 0..73 /\ run.to \in 0..73
  BY <1>2, StopsFacts DEF IInv, BoundsInv
<1> DEFINE r == run.at + 1
           db == run.db
<1>4. r \in 1..73 /\ r - 1 = run.at /\ r \in rev..run.to
  BY <1>1, <1>2, <1>3
<1>5. PICK x \in UpTo(r, db) : Execute(r, x)
  BY DEF Upgrade
<1>6. DatabaseInv(r - 1, db)
  BY <1>2, <1>4
<1> HIDE DEF r, db
<1>7. IsDatabase(x) /\ (x.ok => DatabaseInv(r, x))
  BY <1>4, <1>6, UpToKeeps
<1> QED BY <1>1, <1>4, <1>5, <1>7, ExecuteKeeps

LEMMA DowngradeKeeps == ASSUME IInv, Downgrade PROVE IInv'
<1>1. run # None /\ run.at > run.to /\ run.db.ok
  BY DEF Downgrade
<1>2. /\ run.at \in 0..73 /\ run.to \in Stops /\ run.at \in run.to..rev \cup rev..run.to
      /\ DatabaseInv(run.at, run.db)
  BY <1>1 DEF IInv, RunInv, HeadRevision
<1>3. rev \in 0..73 /\ run.to \in 0..73
  BY <1>2, StopsFacts DEF IInv, BoundsInv
<1> DEFINE r == run.at
           n == r - 1
           db == run.db
<1>4. r \in 1..73 /\ n \in run.to..rev
  BY <1>1, <1>2, <1>3
<1>5. PICK x \in DownFrom(r, db) : Execute(n, x)
  BY DEF Downgrade
<1>6. DatabaseInv(r, db)
  BY <1>2
<1>7. IsDatabase(x) /\ (x.ok => DatabaseInv(n, x))
  <2> HIDE DEF r, db
  <2> QED BY <1>4, <1>6, DownFromKeeps
<1> HIDE DEF n, r, db
<1> QED BY <1>1, <1>4, <1>5, <1>7, ExecuteKeeps

LEMMA CommitKeeps == ASSUME IInv, Commit PROVE IInv'
<1>1. /\ run # None /\ run.at = run.to /\ run.db.ok /\ rev' = run.to
      /\ schema' = run.db.schema /\ cat' = run.db.cat
      /\ people' = run.db.people /\ rows' = run.db.rows
      /\ run' = None /\ edits' = edits /\ upward' = Climbs
      /\ turns' = IF upward = Climbs THEN turns ELSE turns + 1
  BY DEF Commit
<1>2. /\ run.to \in Stops /\ DatabaseInv(run.to, run.db)
      /\ (upward = Climbs \/ turns < MaxTurns)
  BY <1>1 DEF IInv, RunInv
<1>3. BoundsInv'
  <2>1. turns' \in 0..MaxTurns
    <3>1. CASE upward = Climbs
      BY <1>1, <3>1 DEF IInv, BoundsInv
    <3>2. CASE upward # Climbs
      BY <1>1, <1>2, <3>2, BoundsAssumption DEF IInv, BoundsInv
    <3> QED BY <3>1, <3>2
  <2>2. upward' \in BOOLEAN
    BY <1>1 DEF Climbs
  <2> QED BY <1>1, <1>2, <2>1, <2>2 DEF IInv, BoundsInv
<1>4. RowsInv'
  BY <1>1, <1>2 DEF RowsInv, DatabaseInv
<1>5. RunInv'
  BY <1>1 DEF RunInv
<1> QED BY <1>3, <1>4, <1>5 DEF IInv

LEMMA EditFacts ==
    ASSUME IInv, NEW first, NEW last, Edit(first, last)
    PROVE  /\ rev \in first..last /\ rev \in 0..73 /\ rev' = rev /\ schema' = schema
           /\ BoundsInv' /\ RunInv'
<1>1. /\ run = None /\ edits < MaxEdits /\ rev \in first..last /\ edits' = edits + 1
      /\ rev' = rev /\ schema' = schema /\ run' = run /\ turns' = turns /\ upward' = upward
  BY DEF Edit
<1>2. rev \in 0..73
  BY StopsFacts DEF IInv, BoundsInv
<1>3. BoundsInv'
  BY <1>1, BoundsAssumption DEF IInv, BoundsInv
<1>4. RunInv'
  BY <1>1 DEF RunInv
<1> QED BY <1>1, <1>2, <1>3, <1>4

(* An edit of the catalogue that leaves the roles there are, and one of people.    *)
LEMMA CatalogueEdit ==
    ASSUME IInv, rev' = rev, schema' = schema, BoundsInv', RunInv',
           UNCHANGED <<people, rows>>,
           CatalogueInv(rev, cat') /\ RolesOf(cat) \subseteq RolesOf(cat')
    PROVE  IInv'
<1>1. PeopleInv(rev, people, cat')
  BY DEF IInv, RowsInv, PeopleInv
<1>2. RowsInv'
  BY <1>1 DEF IInv, RowsInv
<1> QED BY <1>2 DEF IInv

LEMMA PeopleEdit ==
    ASSUME IInv, rev' = rev, schema' = schema, BoundsInv', RunInv',
           UNCHANGED <<cat, rows>>, PeopleInv(rev, people', cat)
    PROVE  IInv'
<1>1. RowsInv'
  BY DEF IInv, RowsInv
<1> QED BY <1>1 DEF IInv

LEMMA AddRoleEdit == ASSUME IInv, NEW s, AddRole(s) PROVE IInv'
<1>1. Edit(10, 45) /\ s \notin RolesOf(cat) /\ UNCHANGED <<people, rows>>
      /\ cat' = RoleAdded(cat, s)
  BY DEF AddRole, RoleAdded
<1>2. rev \in 10..45 /\ rev' = rev /\ schema' = schema /\ BoundsInv' /\ RunInv'
  BY <1>1, EditFacts
<1>3. CatalogueInv(rev, cat)
  BY DEF IInv, RowsInv
<1>4. CatalogueInv(rev, cat') /\ RolesOf(cat) \subseteq RolesOf(cat')
  BY <1>1, <1>2, <1>3, AddRoleKeeps
<1> QED BY <1>1, <1>2, <1>4, CatalogueEdit

LEMMA SetLifecycleEdit ==
    ASSUME IInv, NEW c, NEW state, SetLifecycle(c, state) PROVE IInv'
<1>1. /\ Edit(46, 73) /\ c \in Codes(cat) /\ UNCHANGED <<people, rows>>
      /\ cat' = StateSet(cat, c, state)
  BY DEF SetLifecycle, StateSet, HeadRevision
<1>2. rev \in 46..73 /\ rev' = rev /\ schema' = schema /\ BoundsInv' /\ RunInv'
  BY <1>1, EditFacts
<1>3. CatalogueInv(rev, cat)
  BY DEF IInv, RowsInv
<1>4. CatalogueInv(rev, cat') /\ RolesOf(cat) \subseteq RolesOf(cat')
  BY <1>1, <1>2, <1>3, SetLifecycleKeeps
<1> QED BY <1>1, <1>2, <1>4, CatalogueEdit

LEMMA ToggledFacts ==
    ASSUME NEW r, NEW c
    PROVE  /\ Regranted(cat, r, Toggled(r, c))
           /\ \A p \in Toggled(r, c) : p \in cat.grant \/ p = <<r, c>>
<1>1. <<r, c>>[1] = r
  OBVIOUS
<1> QED BY <1>1 DEF Toggled, Regranted

LEMMA EditTemplateEdit ==
    ASSUME IInv, NEW t, NEW c, EditTemplate(t, c) PROVE IInv'
<1> DEFINE G == Toggled(t, c)
<1>1. /\ Edit(46, 73) /\ t \in Templates(cat) /\ c \in Codes(cat) /\ Live(cat, c)
      /\ UNCHANGED <<people, rows>>
      /\ cat' = TemplateEdited(cat, t, G)
  BY DEF EditTemplate, TemplateEdited, HeadRevision, Assignable, Active
<1>2. rev \in 46..73 /\ rev' = rev /\ schema' = schema /\ BoundsInv' /\ RunInv'
  BY <1>1, EditFacts
<1>3. CatalogueInv(rev, cat)
  BY DEF IInv, RowsInv
<1>4. Regranted(cat, t, G) /\ \A p \in G : p \in cat.grant \/ p = <<t, c>>
  BY ToggledFacts
<1> HIDE DEF G
<1>5. CatalogueInv(rev, cat') /\ RolesOf(cat) \subseteq RolesOf(cat')
  BY <1>1, <1>2, <1>3, <1>4, EditTemplateKeeps
<1> QED BY <1>1, <1>2, <1>5, CatalogueEdit

LEMMA DeriveEdit == ASSUME IInv, NEW t, Derive(t) PROVE IInv'
<1> DEFINE new == [PlainRole EXCEPT !.org = TRUE, !.src = t, !.srcver = cat.role[t].ver]
<1>1. /\ Edit(47, 73) /\ t \in Templates(cat) /\ Derived \notin RolesOf(cat)
      /\ UNCHANGED <<people, rows>>
      /\ cat' = RoleDerived(cat, t, new)
  BY DEF Derive, RoleDerived, HeadRevision
<1>2. rev \in 47..73 /\ rev' = rev /\ schema' = schema /\ BoundsInv' /\ RunInv'
  BY <1>1, EditFacts
<1>3. CatalogueInv(rev, cat)
  BY DEF IInv, RowsInv
<1>4. IsRole(new)
  <2> DEFINE yes == TRUE
             x == PlainRole
             ver == cat.role[t].ver
  <2>1. IsRole(x) /\ new = [x EXCEPT !.org = yes, !.src = t, !.srcver = ver]
    BY RoleFacts
  <2> HIDE DEF yes, x, ver, new
  <2> QED BY <2>1 DEF IsRole
<1> HIDE DEF new
<1>5. rev \in 46..73
  BY <1>2
<1>6. CatalogueInv(rev, cat') /\ RolesOf(cat) \subseteq RolesOf(cat')
  BY <1>1, <1>3, <1>4, <1>5, DeriveKeeps
<1> QED BY <1>1, <1>2, <1>6, CatalogueEdit

LEMMA CustomiseEdit == ASSUME IInv, NEW c, Customise(c) PROVE IInv'
<1> DEFINE G == Toggled(Derived, c)
           src == cat.role[Derived].src
           lost == Holds(cat, src) \ {p[2] : p \in {x \in G : x[1] = Derived}}
<1>1. /\ Edit(47, 73) /\ Derived \in RolesOf(cat) /\ c \in Codes(cat) /\ Live(cat, c)
      /\ UNCHANGED <<people, rows>>
      /\ cat' = RoleCustomised(cat, G, lost)
  BY DEF Customise, RoleCustomised, HeadRevision, Assignable, Active
<1>2. rev \in 47..73 /\ rev' = rev /\ schema' = schema /\ BoundsInv' /\ RunInv'
  BY <1>1, EditFacts
<1>3. CatalogueInv(rev, cat) /\ rev \in 46..73
  BY <1>2 DEF IInv, RowsInv
<1>4. Regranted(cat, Derived, G) /\ \A p \in G : p \in cat.grant \/ p = <<Derived, c>>
  BY ToggledFacts
<1>5. lost \subseteq Holds(cat, src)
  OBVIOUS
<1> HIDE DEF G, src, lost
<1>6. CatalogueInv(rev, cat') /\ RolesOf(cat) \subseteq RolesOf(cat')
  BY <1>1, <1>3, <1>4, <1>5, CustomiseKeeps
<1> QED BY <1>1, <1>2, <1>6, CatalogueEdit

LEMMA JoinEdit ==
    ASSUME IInv, NEW u, NEW js \in Joins, NEW s, Join(u, js, s) PROVE IInv'
<1> DEFINE row == [super |-> BornSuper(u), org |-> "none"]
<1>1. /\ Edit(4, 56) /\ IF rev < 16 THEN s \in RolesOf(cat) ELSE s = "none"
      /\ people' = UserJoined(people, u, row, js, s)
      /\ UNCHANGED <<cat, rows>>
  BY DEF Join, UserJoined
<1>2. rev \in 4..56 /\ rev' = rev /\ schema' = schema /\ BoundsInv' /\ RunInv'
  BY <1>1, EditFacts
<1>3. PeopleInv(rev, people, cat) /\ IsUser(row)
  BY DEF IInv, RowsInv, IsUser
<1>4. s # "none" => rev < 16 /\ s \in RolesOf(cat)
  BY <1>1
<1> HIDE DEF row
<1>5. PeopleInv(rev, people', cat)
  BY <1>1, <1>2, <1>3, <1>4, JoinKeeps
<1> QED BY <1>1, <1>2, <1>5, PeopleEdit

LEMMA DatedFacts ==
    ASSUME IInv
    PROVE  Dated(people.member \cup people.assign) \in Nat
<1> DEFINE S == people.member \cup people.assign
<1>1. Placed(people)
  BY DEF IInv, RowsInv, PeopleInv
<1>2. IsFiniteSet(S)
  BY <1>1, FS_Union DEF Placed
<1>3. \A r \in S : r.at \in Nat
  BY <1>1 DEF Placed
<1> HIDE DEF S
<1>4. S # {} => Latest(S) \in S
  BY <1>2, <1>3, LatestFacts
<1>5. Dated(S) \in Nat
  BY <1>3, <1>4 DEF Dated
<1> QED BY <1>5 DEF S

LEMMA AssignmentFacts ==
    ASSUME IInv, NEW u, NEW o \in Tenants, NEW s, NEW x, x = Assignment(u, o, s)
    PROVE  /\ IsAssignment(x) /\ x.user = u /\ x.org = o /\ x.org # "none" /\ x.role = s
           /\ x.at \in Nat /\ x.status = "active"
<1>1. Dated(people.member \cup people.assign) \in Nat
  BY DatedFacts
<1> QED BY <1>1, JoinsAssumption DEF Assignment, IsAssignment

LEMMA AssignEdit == ASSUME IInv, NEW u, NEW o \in Tenants, NEW s, Assign(u, o, s) PROVE IInv'
<1> DEFINE O == IF rev < 46 THEN people.orole \cup {<<o, s>>} ELSE people.orole
           k == Dated(people.member \cup people.assign)
<1>1. /\ Edit(12, 56) /\ s \in RolesOf(cat)
      /\ \E m \in people.member : m.user = u
      /\ rev >= 47 => u \notin Supers(people)
      /\ people' = [people EXCEPT
           !.orole = O,
           !.assign = @ \cup {[user |-> u, org |-> o, role |-> s, status |-> "active", at |-> k]}]
      /\ UNCHANGED <<cat, rows>>
  BY DEF Assign, Offered, Assignment
<1>2. rev \in 12..56 /\ rev' = rev /\ schema' = schema /\ BoundsInv' /\ RunInv'
  BY <1>1, EditFacts
<1>3. PeopleInv(rev, people, cat) /\ Placed(people)
  BY DEF IInv, RowsInv, PeopleInv
<1>4. k \in Nat
  BY DatedFacts
<1>5. u \in DOMAIN people.user
  BY <1>1, <1>3 DEF Placed
<1>6. o # "none"
  BY JoinsAssumption
<1> HIDE DEF O, k
<1>7. PeopleInv(rev, people', cat)
  BY <1>1, <1>2, <1>3, <1>4, <1>5, <1>6, AssignKeeps
<1> QED BY <1>1, <1>2, <1>7, PeopleEdit

LEMMA CreateUserEdit ==
    ASSUME IInv, NEW u, NEW o \in Tenants, NEW s, CreateUser(u, o, s) PROVE IInv'
<1> DEFINE row == [super |-> FALSE, org |-> o]
           x == Assignment(u, o, s)
           N == {x}
<1>1. /\ Edit(57, 73) /\ u \notin DOMAIN people.user /\ s \in RolesOf(cat)
      /\ people' = [people EXCEPT !.user = Over(@, Only(u, row)), !.assign = @ \cup N]
      /\ UNCHANGED <<cat, rows>>
  BY DEF CreateUser, Offered, HeadRevision
<1>2. rev \in 57..73 /\ rev' = rev /\ schema' = schema /\ BoundsInv' /\ RunInv'
  BY <1>1, EditFacts
<1>3. PeopleInv(rev, people, cat) /\ IsUser(row) /\ row.org = o
  BY DEF IInv, RowsInv, IsUser
<1>4. /\ IsAssignment(x) /\ x.user = u /\ x.org = o /\ x.org # "none" /\ x.role = s
      /\ x.at \in Nat
  BY AssignmentFacts
<1> HIDE DEF row, x
<1>5. IsFiniteSet(N)
  BY FS_Singleton
<1>6. \A a \in N : /\ IsAssignment(a) /\ a.at \in Nat /\ a.org # "none"
                   /\ a.user = u /\ a.org = row.org
                   /\ a.role # "none" => a.role \in RolesOf(cat)
  BY <1>1, <1>3, <1>4
<1> HIDE DEF N
<1>7. PeopleInv(rev, people', cat)
  BY <1>1, <1>2, <1>3, <1>5, <1>6, CreateKeeps
<1> QED BY <1>1, <1>2, <1>7, PeopleEdit

LEMMA CreateSuperEdit ==
    ASSUME IInv, NEW u, NEW o, CreateSuper(u, o) PROVE IInv'
<1> DEFINE row == [super |-> TRUE, org |-> o]
           N == {}
<1>1. /\ Edit(57, 73) /\ u \notin DOMAIN people.user
      /\ people' = [people EXCEPT !.user = Over(@, Only(u, row))]
      /\ UNCHANGED <<cat, rows>>
  BY DEF CreateSuper, HeadRevision
<1>2. rev \in 57..73 /\ rev' = rev /\ schema' = schema /\ BoundsInv' /\ RunInv'
  BY <1>1, EditFacts
<1>3. PeopleInv(rev, people, cat) /\ IsUser(row) /\ IsPopulation(people)
  BY DEF IInv, RowsInv, IsUser, PeopleInv, Placed
<1>4. people' = [people EXCEPT !.user = Over(@, Only(u, row)), !.assign = @ \cup N]
  <2> DEFINE U == Over(people.user, Only(u, row))
  <2>1. people' = [people EXCEPT !.user = U]
    BY <1>1
  <2> HIDE DEF U
  <2>2. people' = [people EXCEPT !.user = U, !.assign = @ \cup N]
    BY <1>3, <2>1 DEF IsPopulation
  <2> QED BY <2>2 DEF U
<1>5. IsFiniteSet(N) /\ \A a \in N : FALSE
  BY FS_EmptySet
<1> HIDE DEF row, N
<1>6. PeopleInv(rev, people', cat)
  BY <1>1, <1>2, <1>3, <1>4, <1>5, CreateKeeps
<1> QED BY <1>1, <1>2, <1>6, PeopleEdit

LEMMA UpdateSuperEdit ==
    ASSUME IInv, NEW u, NEW o, UpdateSuper(u, o) PROVE IInv'
<1> DEFINE row == [super |-> TRUE, org |-> o]
<1>1. /\ Edit(57, 73) /\ u \in DOMAIN people.user
      /\ people' = [people EXCEPT !.user[u] = row]
      /\ UNCHANGED <<cat, rows>>
  BY DEF UpdateSuper, HeadRevision
<1>2. rev \in 57..73 /\ rev' = rev /\ schema' = schema /\ BoundsInv' /\ RunInv'
  BY <1>1, EditFacts
<1>3. PeopleInv(rev, people, cat) /\ IsUser(row) /\ row.super
  BY DEF IInv, RowsInv, IsUser
<1> HIDE DEF row
<1>4. PeopleInv(rev, people', cat)
  BY <1>1, <1>2, <1>3, PromotionKeeps
<1> QED BY <1>1, <1>2, <1>4, PeopleEdit

(* Once the role is assigned every active assignment of the user is in the          *)
(* organization of the request, and the others' are as they were.               *)
LEMMA RevokedFacts ==
    ASSUME IInv, NEW rs
    PROVE  /\ IsFiniteSet(Revoked(rs))
           /\ \A x \in Revoked(rs) :
                /\ IsAssignment(x) /\ x.at \in Nat /\ x.org # "none"
                /\ x.user \in DOMAIN people.user
                /\ x.role # "none" => x.role \in RolesOf(cat)
                /\ x.status = "active" => x \in people.assign \ rs
<1> DEFINE S == people.assign
           f == [a \in S |-> IF a \in rs THEN [a EXCEPT !.status = "revoked"] ELSE a]
<1>1. PeopleInv(rev, people, cat) /\ DOMAIN people.user \subseteq DOMAIN people.user
  BY DEF IInv, RowsInv
<1>2. /\ IsFiniteSet(S)
      /\ \A a \in S : /\ IsAssignment(a) /\ a.at \in Nat /\ a.org # "none"
                      /\ a.user \in DOMAIN people.user
                      /\ a.role # "none" => a.role \in RolesOf(cat)
  BY <1>1, AssignmentsPlaced
<1>3. Revoked(rs) = {f[a] : a \in S}
  BY DEF Revoked
<1>4. ASSUME NEW a \in S
      PROVE  /\ IsAssignment(f[a]) /\ f[a].at = a.at /\ f[a].org = a.org
             /\ f[a].user = a.user /\ f[a].role = a.role
             /\ f[a].status = "active" => f[a] = a /\ a \notin rs
  <2>1. IsAssignment(a)
    BY <1>2
  <2>2. CASE a \in rs
    <3>1. f[a] = [a EXCEPT !.status = "revoked"]
      BY <2>2
    <3> HIDE DEF f
    <3> QED BY <2>1, <3>1 DEF IsAssignment
  <2>3. CASE a \notin rs
    BY <2>1, <2>3
  <2> QED BY <2>2, <2>3
<1> HIDE DEF f
<1>5. IsFiniteSet({f[a] : a \in S})
  <2> HIDE DEF S
  <2> QED BY <1>2, ImageFinite
<1> QED BY <1>2, <1>3, <1>4, <1>5

LEMMA UpdateMemberEdit ==
    ASSUME IInv, NEW u, NEW o \in Tenants, NEW s, UpdateMember(u, o, s) PROVE IInv'
<1> DEFINE row == [super |-> FALSE, org |-> o]
           rest == Others(u, o, s)
           x == Assignment(u, o, s)
<1>1. PICK A \in AssignRole(u, o, s) :
         /\ Edit(57, 73) /\ u \in DOMAIN people.user /\ s \in RolesOf(cat)
         /\ people' = [people EXCEPT !.user[u] = row, !.assign = A]
         /\ UNCHANGED <<cat, rows>>
  BY DEF UpdateMember, Offered, HeadRevision
<1>2. rev \in 57..73 /\ rev' = rev /\ schema' = schema /\ BoundsInv' /\ RunInv'
  BY <1>1, EditFacts
<1>3. PeopleInv(rev, people, cat) /\ IsUser(row) /\ row.org = o
  BY DEF IInv, RowsInv, IsUser
<1>4. Settled(people.user, people.assign)
  BY <1>2, <1>3, SettledFacts
<1>5. \A a \in rest : a \in people.assign
  BY DEF Others, Assigned
<1>6. \A a \in people.assign : a.status = "active" /\ a.user = u /\ a \notin rest =>
                                 a.org = o /\ a.role = s /\ HoldsRole(u, o, s)
  BY DEF Others, Assigned, HoldsRole
<1>7. /\ IsAssignment(x) /\ x.user = u /\ x.org = o /\ x.org # "none" /\ x.role = s
      /\ x.at \in Nat
  BY AssignmentFacts
<1> HIDE DEF row, rest, x
<1>8. /\ IsFiniteSet(A)
      /\ \A y \in A : /\ IsAssignment(y) /\ y.at \in Nat /\ y.org # "none"
                      /\ y.user \in DOMAIN people.user
                      /\ y.role # "none" => y.role \in RolesOf(cat)
      /\ \A y \in A : y.status = "active" =>
                         IF y.user = u THEN y.org = o ELSE y \in people.assign
  <2>1. CASE HoldsRole(u, o, s)
    <3>1. PICK rs : A = Revoked(rs)
      BY <1>1, <2>1 DEF AssignRole
    <3>2. PICK h \in people.assign : h.status = "active" /\ h.user = u /\ h.org = o
      BY <2>1 DEF HoldsRole, Assigned
    <3>3. \A a \in people.assign : a.status = "active" /\ a.user = u => a.org = o
      BY <1>4, <3>2 DEF Settled
    <3> QED BY <3>1, <3>3, RevokedFacts
  <2>2. CASE ~HoldsRole(u, o, s)
    <3>1. A = Revoked(rest) \cup {x}
      BY <1>1, <2>2 DEF AssignRole, rest, x
    <3>2. /\ IsFiniteSet(Revoked(rest))
          /\ \A y \in Revoked(rest) :
               /\ IsAssignment(y) /\ y.at \in Nat /\ y.org # "none"
               /\ y.user \in DOMAIN people.user
               /\ y.role # "none" => y.role \in RolesOf(cat)
               /\ y.status = "active" => y \in people.assign \ rest
      BY RevokedFacts
    <3>3. \A y \in Revoked(rest) : y.status = "active" => y \in people.assign /\ y.user # u
      BY <1>6, <2>2, <3>2
    <3>4. IsFiniteSet(A)
      BY <3>1, <3>2, FS_AddElement
    <3> QED BY <1>1, <1>7, <3>1, <3>2, <3>3, <3>4
  <2> QED BY <2>1, <2>2
<1>9. PeopleInv(rev, people', cat)
  BY <1>1, <1>2, <1>3, <1>8, ChangeKeeps
<1> QED BY <1>1, <1>2, <1>9, PeopleEdit

LEMMA AddRowEdit == ASSUME IInv, NEW k \in RowKinds, AddRow(k) PROVE IInv'
<1>1. /\ Edit(IF k = "inbox note" THEN 73 ELSE 64, 73) /\ rows' = rows \cup {k}
      /\ UNCHANGED <<cat, people>>
  BY DEF AddRow, HeadRevision
<1>2. rev' = rev /\ schema' = schema /\ BoundsInv' /\ RunInv'
  BY <1>1, EditFacts
<1>3. RowsInv'
  BY <1>1, <1>2 DEF IInv, RowsInv
<1> QED BY <1>2, <1>3 DEF IInv

-------------------------------------------------------------------------------
(* IInv holds in every reachable state.                                          *)
LEMMA NextIInv == ASSUME IInv, [Next]_vars PROVE IInv'
<1>1. CASE UNCHANGED vars
  BY <1>1 DEF vars, IInv, BoundsInv, RowsInv, RunInv, Climbs
<1>2. ASSUME NEW r \in Stops, Begin(r) PROVE IInv'
  BY <1>2, BeginKeeps
<1>3. CASE Upgrade
  BY <1>3, UpgradeKeeps
<1>4. CASE Downgrade
  BY <1>4, DowngradeKeeps
<1>5. CASE Commit
  BY <1>5, CommitKeeps
<1>6. CASE Abort
  <2>1. run' = None /\ UNCHANGED <<rev, schema, cat, people, rows, edits, turns, upward>>
    BY <1>6 DEF Abort, database
  <2> QED BY <2>1 DEF IInv, BoundsInv, RowsInv, RunInv
<1>7. ASSUME NEW s \in Slugs, AddRole(s) PROVE IInv'
  BY <1>7, AddRoleEdit
<1>8. ASSUME NEW u \in People, NEW js \in Joins, NEW s \in Slugs \cup {"none"}, Join(u, js, s)
      PROVE  IInv'
  BY <1>8, JoinEdit
<1>9. ASSUME NEW u \in People, NEW o \in Tenants, CreateSuper(u, o) PROVE IInv'
  BY <1>9, CreateSuperEdit
<1>10. ASSUME NEW u \in People, NEW o \in Tenants, UpdateSuper(u, o) PROVE IInv'
  BY <1>10, UpdateSuperEdit
<1>11. ASSUME NEW u \in People, NEW o \in Tenants, NEW s \in Slugs \cup {Derived}, Assign(u, o, s)
       PROVE  IInv'
  BY <1>11, AssignEdit
<1>12. ASSUME NEW u \in People, NEW o \in Tenants, NEW s \in Slugs \cup {Derived},
              CreateUser(u, o, s)
       PROVE  IInv'
  BY <1>12, CreateUserEdit
<1>13. ASSUME NEW u \in People, NEW o \in Tenants, NEW s \in Slugs \cup {Derived},
              UpdateMember(u, o, s)
       PROVE  IInv'
  BY <1>13, UpdateMemberEdit
<1>14. ASSUME NEW c \in EditCodes, NEW state \in {"active", "locked", "inactive"},
              SetLifecycle(c, state)
       PROVE  IInv'
  BY <1>14, SetLifecycleEdit
<1>15. ASSUME NEW c \in EditCodes, NEW t \in TemplateSlugs, EditTemplate(t, c) PROVE IInv'
  BY <1>15, EditTemplateEdit
<1>16. ASSUME NEW c \in EditCodes, Customise(c) PROVE IInv'
  BY <1>16, CustomiseEdit
<1>17. ASSUME NEW t \in TemplateSlugs, Derive(t) PROVE IInv'
  BY <1>17, DeriveEdit
<1>18. ASSUME NEW k \in RowKinds, AddRow(k) PROVE IInv'
  BY <1>18, AddRowEdit
<1> QED BY <1>1, <1>2, <1>3, <1>4, <1>5, <1>6, <1>7, <1>8, <1>9, <1>10, <1>11, <1>12, <1>13,
           <1>14, <1>15, <1>16, <1>17, <1>18
        DEF Next

(* Whatever path of upgrades, downgrades, aborted runs and edits a database takes, *)
(* each revision finds what its scripts were written for.                       *)
THEOREM InvariantHolds == Spec => []IInv
<1>1. IInv /\ [Next]_vars => IInv'
  BY NextIInv
<1> QED BY InitIInv, <1>1, PTL DEF Spec

(* At every stop the rows refer to rows there are: a permission to its group, a    *)
(* grant or an exclusion to a role and a permission, a membership or an assignment *)
(* to a user and a role (the foreign keys of alembic/versions).                 *)
THEOREM TypeCorrect == Spec => []TypeOK
<1>1. ASSUME IInv PROVE TypeOK
  <2>1. cat.ok /\ Sound(cat) /\ people.ok /\ Placed(people) /\ rows \subseteq RowKinds
    BY <1>1 DEF IInv, RowsInv, CatalogueInv, PeopleInv
  <2>2. \A m \in people.member \cup people.assign :
          m.user \in DOMAIN people.user /\ (m.role # "none" => m.role \in RolesOf(cat))
    BY <1>1, <2>1 DEF IInv, RowsInv, PeopleInv, Placed
  <2>3. BoundsInv
    BY <1>1 DEF IInv
  <2> QED BY <2>1, <2>2, <2>3 DEF TypeOK, BoundsInv, Sound
<1> QED BY InvariantHolds, <1>1, PTL

(* From 0047 a role holds active permissions only, from 0055 only an organization's *)
(* and excludes no other, from 0052 there is the administrators' role, and it holds *)
(* every permission of organizations: through each grant, rename, merge and split  *)
(* of the scripts, the triggers and the edits between them.                     *)
THEOREM GrantsGoverned == Spec => []GrantsAreGoverned
<1>1. ASSUME IInv, rev >= 47
      PROVE  /\ {p[2] : p \in cat.grant} \subseteq IF rev >= 55 THEN OfOrg(cat) ELSE Active(cat)
             /\ rev >= 55 => \A p \in cat.excl : cat.perm[p[2]].scope = "organization"
             /\ rev >= 52 => Admin \in RolesOf(cat)
             /\ Admin \in RolesOf(cat) => OfOrg(cat) \subseteq Holds(cat, Admin)
  <2>1. rev \in 47..73 /\ CatalogueInv(rev, cat)
    BY <1>1, StopsFacts DEF IInv, BoundsInv, RowsInv
  <2>2. /\ Sound(cat) /\ Ruled(cat) /\ Complete(cat) /\ (rev >= 55 <=> cat.trig = "scoped")
        /\ rev >= 52 => Admin \in RolesOf(cat)
    BY <2>1 DEF CatalogueInv
  <2>3. \A p \in cat.grant : p[2] \in Codes(cat) /\ Live(cat, p[2])
    BY <2>2 DEF Sound, Ruled
  <2>4. {p[2] : p \in cat.grant} \subseteq IF rev >= 55 THEN OfOrg(cat) ELSE Active(cat)
    BY <2>2, <2>3 DEF Live, OfOrg, Active
  <2>5. rev >= 55 => \A p \in cat.excl : cat.perm[p[2]].scope = "organization"
    BY <2>2 DEF Ruled
  <2>6. Admin \in RolesOf(cat) => OfOrg(cat) \subseteq Holds(cat, Admin)
    <3>1. ASSUME Admin \in RolesOf(cat), NEW c \in OfOrg(cat) PROVE c \in Holds(cat, Admin)
      <4>1. <<Admin, c>> \in cat.grant /\ <<Admin, c>>[1] = Admin /\ <<Admin, c>>[2] = c
        BY <2>2, <3>1 DEF Complete
      <4> QED BY <4>1 DEF Holds
    <3> QED BY <3>1
  <2> QED BY <2>2, <2>4, <2>5, <2>6
<1>2. IInv => GrantsAreGoverned
  BY <1>1 DEF GrantsAreGoverned
<1> QED BY InvariantHolds, <1>2, PTL

(* From 0058 a user's active assignments are in one organization, and those of a    *)
(* user who is no super admin in the user's own, which is the one 0057 gave the   *)
(* user or the last request for the user was made in: through promotions, which    *)
(* leave assignments as they are, demotions and changes of role.                *)
THEOREM HomesKept == Spec => []OneOrganization
<1>1. IInv => OneOrganization
  <2>1. SUFFICES ASSUME IInv, rev >= 58, NEW a \in Assigned(people), NEW b \in Assigned(people),
                        a.user = b.user
                 PROVE  /\ a.org = b.org
                        /\ a.user \notin Supers(people) => people.user[a.user].org = a.org
    BY DEF OneOrganization
  <2>2. rev \in 57..73 /\ PeopleInv(rev, people, cat)
    BY <2>1, StopsFacts DEF IInv, BoundsInv, RowsInv
  <2>3. Settled(people.user, people.assign) /\ MembersHome(people)
    BY <2>2, SettledFacts DEF PeopleInv
  <2>4. a \in people.assign /\ b \in people.assign /\ a.status = "active" /\ b.status = "active"
    BY <2>1 DEF Assigned
  <2> QED BY <2>1, <2>3, <2>4 DEF Settled, MembersHome
<1> QED BY InvariantHolds, <1>1, PTL

(* From 0039 on no foreign key stands in the way of a deletion, whether a script   *)
(* adds it going up or a downgrade brings a table back.                         *)
THEOREM KeysRelease == Spec => []DeletionsCascade
<1>1. IInv => DeletionsCascade
  BY DEF IInv, RowsInv, Releasing, DeletionsCascade
<1> QED BY InvariantHolds, <1>1, PTL
===============================================================================
