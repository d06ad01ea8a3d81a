------------------------------ MODULE Migrations ------------------------------
(* The database of the application under its migrations: alembic/versions 0001  *)
(* to 0073, run on PostgreSQL.  `alembic upgrade` and `alembic downgrade` take  *)
(* the database from one revision to another, script by script, in one           *)
(* transaction (env.py): the run is committed as a whole, or changes nothing     *)
(* because a script raised or alembic was stopped.  Between two runs the deployed *)
(* application, of the revision the database is at, edits its rows.             *)
(*                                                                             *)
(* Stops are the revisions a run may end at, People the users, Joins what a user  *)
(* may join (sequences of <<organization, status>>), EditCodes the permissions   *)
(* edits touch.  MaxEdits bounds the edits and MaxTurns the changes of direction *)
(* of a behaviour.                                                              *)
EXTENDS MigrationSchema, MigrationGovernance, MigrationPeople

CONSTANTS Stops, Tenants, People, Joins, EditCodes, MaxEdits, MaxTurns

HeadRevision == 73

ASSUME StopsAssumption == Stops \subseteq 0..HeadRevision /\ {0, HeadRevision} \subseteq Stops
ASSUME BoundsAssumption == MaxEdits \in Nat /\ MaxTurns \in Nat
ASSUME JoinsAssumption == /\ "none" \notin Tenants
                          /\ Joins \subseteq Seq(Tenants \X {"active", "suspended"})

VARIABLES
    rev,       \* the revision in alembic_version
    schema,    \* the tables (MigrationSchema)
    cat,       \* the permission catalogue (MigrationCatalogue)
    people,    \* users, memberships and assignments (MigrationPeople)
    rows,      \* kinds of platform rows there are
    run,       \* the open run of alembic, or None
    edits,     \* edits made so far
    turns,     \* changes of direction so far
    upward     \* the direction of the last run

database == <<rev, schema, cat, people, rows>>
vars     == <<rev, schema, cat, people, rows, run, edits, turns, upward>>
None     == [at |-> "none"]

RowKinds == {"platform job", "platform note", "inbox note"}

-------------------------------------------------------------------------------
(* The scripts, revision by revision.                                           *)
SchemaUp(r, s) ==
    CASE r = 2 -> S0002   [] r = 3 -> S0003   [] r = 4 -> S0004   [] r = 5 -> S0005
      [] r = 6 -> S0006   [] r = 7 -> S0007   [] r = 8 -> S0008   [] r = 9 -> S0009
      [] r = 10 -> S0010  [] r = 11 -> S0011  [] r = 12 -> S0012  [] r = 13 -> S0013
      [] r = 14 -> S0014  [] r = 15 -> S0015  [] r = 16 -> S0016(s) [] r = 17 -> S0017
      [] r = 19 -> S0019  [] r = 21 -> S0021  [] r = 23 -> S0023  [] r = 39 -> S0039(s)
      [] r = 46 -> S0046(s) [] r = 47 -> S0047 [] r = 55 -> S0055 [] r = 57 -> S0057(s)
      [] r = 63 -> S0063  [] r = 64 -> S0064  [] r = 73 -> S0073
      [] OTHER -> Create({})
SchemaDown(r, s) ==
    CASE r = 2 -> T0002   [] r = 3 -> T0003   [] r = 4 -> T0004   [] r = 5 -> T0005
      [] r = 6 -> T0006   [] r = 7 -> T0007   [] r = 8 -> T0008   [] r = 9 -> T0009
      [] r = 10 -> T0010  [] r = 11 -> T0011  [] r = 12 -> T0012  [] r = 13 -> T0013
      [] r = 14 -> T0014  [] r = 15 -> T0015  [] r = 16 -> T0016(s) [] r = 17 -> T0017
      [] r = 19 -> T0019  [] r = 21 -> T0021  [] r = 23 -> T0023
      [] r = 46 -> T0046(s) [] r = 47 -> T0047 [] r = 55 -> T0055 [] r = 57 -> T0057
      [] r = 63 -> T0063  [] r = 64 -> T0064  [] r = 73 -> T0073
      [] OTHER -> Create({})

(* The catalogues an upgrade may leave; the first seeds choose among the groups. *)
CatalogueUp(r, d) ==
    CASE r = 8 -> {U0008(d)} [] r = 18 -> U0018(d) [] r = 20 -> U0020(d)
      [] r = 22 -> U0022(d) [] r = 24 -> U0024(d) [] r = 25 -> U0025(d)
      [] r = 26 -> {U0026(d)} [] r = 27 -> {U0027(d)} [] r = 28 -> {U0028(d)}
      [] r = 29 -> {U0029(d)} [] r = 30 -> {U0030(d)} [] r = 31 -> {U0031(d)}
      [] r = 32 -> {U0032(d)} [] r = 33 -> {U0033(d)} [] r = 34 -> {U0034(d)}
      [] r = 35 -> {U0035(d)} [] r = 36 -> {U0036(d)} [] r = 37 -> {U0037(d)}
      [] r = 38 -> {U0038(d)} [] r = 39 -> {U0039(d)} [] r = 40 -> {U0040(d)}
      [] r = 43 -> {U0043(d)} [] r = 44 -> {U0044(d)} [] r = 46 -> {U0046(d)}
      [] r = 47 -> {U0047(d)} [] r = 48 -> {U0048(d)} [] r = 49 -> {U0049(d)}
      [] r = 50 -> {U0050(d)} [] r = 51 -> {U0051(d)} [] r = 52 -> {U0052(d)}
      [] r = 53 -> {U0053(d)} [] r = 54 -> {U0054(d)} [] r = 55 -> {U0055(d)}
      [] r = 56 -> {U0056(d)} [] r = 57 -> {U0057(d)} [] r = 59 -> {U0059(d)}
      [] r = 60 -> {U0060(d)} [] r = 61 -> {U0061(d)} [] r = 62 -> {U0062(d)}
      [] r = 65 -> {U0065(d)} [] r = 66 -> {U0066(d)} [] r = 67 -> {U0067(d)}
      [] r = 68 -> {U0068(d)} [] r = 69 -> {U0069(d)} [] r = 70 -> {U0070(d)}
      [] r = 71 -> {U0071(d)} [] r = 72 -> {U0072(d)}
      [] OTHER -> {d}
(* 0039, 0040 and 0043 raise when they are downgraded.                          *)
Irreversible == {39, 40, 43}
CatalogueDown(r, d) ==
    CASE r = 4 -> D0004(d) [] r = 8 -> D0008(d) [] r = 18 -> D0018(d) [] r = 20 -> D0020(d)
      [] r = 22 -> D0022(d) [] r = 24 -> D0024(d) [] r = 25 -> D0025(d)
      [] r = 26 -> D0026(d) [] r = 27 -> D0027(d) [] r = 28 -> D0028(d)
      [] r = 29 -> D0029(d) [] r = 30 -> D0030(d) [] r = 31 -> D0031(d)
      [] r = 32 -> D0032(d) [] r = 33 -> D0033(d) [] r = 34 -> D0034(d)
      [] r = 35 -> D0035(d) [] r = 36 -> D0036(d) [] r = 37 -> D0037(d)
      [] r = 38 -> D0038(d) [] r = 44 -> D0044(d) [] r = 46 -> D0046(d)
      [] r = 47 -> D0047(d) [] r = 48 -> D0048(d) [] r = 49 -> D0049(d)
      [] r = 50 -> D0050(d) [] r = 51 -> D0051(d) [] r = 52 -> D0052(d)
      [] r = 53 -> D0053(d) [] r = 54 -> D0054(d) [] r = 55 -> D0055(d)
      [] r = 56 -> D0056(d) [] r = 59 -> D0059(d) [] r = 60 -> D0060(d)
      [] r = 61 -> D0061(d) [] r = 62 -> D0062(d) [] r = 65 -> D0065(d)
      [] r = 66 -> D0066(d) [] r = 67 -> D0067(d) [] r = 68 -> D0068(d)
      [] r = 69 -> D0069(d) [] r = 70 -> D0070(d) [] r = 71 -> D0071(d)
      [] r = 72 -> D0072(d)
      [] r \in Irreversible -> Need(d, FALSE)
      [] OTHER -> d
PeopleUp(r, p) ==
    CASE r = 11 -> V0011(p) [] r = 12 -> V0012(p) [] r = 16 -> V0016(p)
      [] r = 40 -> V0040(p, LegacyRoles) [] r = 41 -> V0041(p) [] r = 42 -> V0042(p)
      [] r = 43 -> ForgetRoles(p, {"owner"}) [] r = 45 -> V0045(p) [] r = 46 -> V0046(p)
      [] r = 47 -> V0047(p) [] r = 57 -> V0057(p) [] r = 58 -> V0058(p)
      [] OTHER -> p
PeopleDown(r, p) ==
    CASE r = 2 -> X0002(p) [] r = 4 -> X0004(p) [] r = 11 -> X0011(p) [] r = 12 -> X0012(p)
      [] r = 41 -> X0041(p) [] r = 42 -> X0042(p) [] r = 45 -> X0045(p)
      [] r = 46 -> X0046(p) [] r = 47 -> X0047(p) [] r = 57 -> X0057(p) [] r = 58 -> X0058(p)
      [] OTHER -> p

(* A database x is a record of the four parts; x.ok says no script raised.        *)
Script(x, m, d, p, rs, runs) ==
    [ok |-> x.ok /\ runs /\ d.ok /\ p.ok /\ (m = Create({}) \/ Runs(x.schema, m)),
     schema |-> IF m = Create({}) THEN x.schema ELSE Apply(x.schema, m),
     cat |-> d, people |-> p, rows |-> rs]
UpTo(r, x) ==
    {Script(x, SchemaUp(r, x.schema), d, PeopleUp(r, x.people), x.rows, TRUE) :
       d \in CatalogueUp(r, x.cat)}
(* 0064 deletes the platform's rows, and 0073 keeps the inbox.                   *)
DownFrom(r, x) ==
    {Script(x, SchemaDown(r, x.schema), CatalogueDown(r, x.cat), PeopleDown(r, x.people),
            IF r = 64 THEN {} ELSE x.rows, r = 73 => "inbox note" \notin x.rows)}

-------------------------------------------------------------------------------
Init ==
    /\ rev = 0 /\ schema = {} /\ cat = EmptyCatalogue /\ people = EmptyPopulation
    /\ rows = {} /\ run = None /\ edits = 0 /\ turns = 0 /\ upward = TRUE

(* A run of alembic from one stop to the next: it goes to run.to, has executed    *)
(* the scripts up (or down) to revision run.at, and its transaction sees run.db.  *)
Current    == [ok |-> TRUE, schema |-> schema, cat |-> cat, people |-> people, rows |-> rows]
NextStop(r) == r > rev /\ \A q \in Stops : q > rev => r <= q
LastStop(r) == r < rev /\ \A q \in Stops : q < rev => r >= q
Climbs      == run # None /\ run.to > rev
Begin(r) ==
    /\ run = None
    /\ \/ NextStop(r) /\ (upward \/ turns < MaxTurns)
       \/ LastStop(r) /\ (~upward \/ turns < MaxTurns)
    /\ run' = [at |-> rev, to |-> r, db |-> Current]
    /\ UNCHANGED <<database, edits, turns, upward>>
Execute(r, x) ==
    /\ run' = [run EXCEPT !.at = r, !.db = x]
    /\ UNCHANGED <<database, edits, turns, upward>>
Upgrade ==
    /\ run # None /\ run.at < run.to /\ run.db.ok
    /\ \E x \in UpTo(run.at + 1, run.db) : Execute(run.at + 1, x)
Downgrade ==
    /\ run # None /\ run.at > run.to /\ run.db.ok
    /\ \E x \in DownFrom(run.at, run.db) : Execute(run.at - 1, x)
Commit ==
    /\ run # None /\ run.at = run.to /\ run.db.ok
    /\ rev' = run.to
    /\ schema' = run.db.schema /\ cat' = run.db.cat
    /\ people' = run.db.people /\ rows' = run.db.rows
    /\ turns' = IF upward = Climbs THEN turns ELSE turns + 1
    /\ upward' = Climbs
    /\ run' = None
    /\ UNCHANGED edits
Abort ==
    /\ run # None
    /\ run' = None
    /\ UNCHANGED <<database, edits, turns, upward>>

-------------------------------------------------------------------------------
(* What the application, at the revision it is deployed with, does to the rows    *)
(* the migrations touch.                                                        *)
Edit(first, last) ==
    /\ run = None
    /\ edits < MaxEdits /\ rev \in first..last
    /\ edits' = edits + 1
    /\ UNCHANGED <<rev, schema, run, turns, upward>>

Slugs == {Admin, "owner", "sales"}
AddRole(s) ==
    /\ Edit(10, 45) /\ s \notin RolesOf(cat)
    /\ cat' = Grant([cat EXCEPT !.role = Over(Only(s, PlainRole), @)], {s}, Codes(cat))
    /\ UNCHANGED <<people, rows>>

(* Users, as the application of a revision with memberships creates them.  The     *)
(* trigger of 0041 has the owner born super admin.                              *)
BornSuper(u) == u = Owner /\ people.owner
Join(u, js, s) ==
    /\ Edit(4, 56) /\ \A m \in people.member : m.user # u
    /\ IF rev < 16 THEN s \in RolesOf(cat) ELSE s = "none"
    /\ people' = [people EXCEPT
         !.user = Over(@, Only(u, [super |-> BornSuper(u), org |-> "none"])),
         !.member = @ \cup {[user |-> u, org |-> js[i][1], status |-> js[i][2], role |-> s,
                             at |-> i] : i \in DOMAIN js}]
    /\ UNCHANGED <<cat, rows>>

(* No template is assigned, and nothing is once 0057 has dropped the memberships   *)
(* that the trigger of 0047 asks for.                                           *)
Offered(s) ==
    /\ s \in RolesOf(cat) /\ cat.role[s].kind # "template"
    /\ people.valid = "member" => rev < 57
Dated(rs) == IF rs = {} THEN 1 ELSE Latest(rs).at + 1
Assignment(u, o, s) ==
    [user |-> u, org |-> o, role |-> s, status |-> "active",
     at |-> Dated(people.member \cup people.assign)]
Assign(u, o, s) ==
    /\ Edit(12, 56) /\ Offered(s)
    /\ \E m \in people.member : m.user = u /\ m.org = o /\ m.status = "active"
    /\ rev >= 47 => u \notin Supers(people)
    /\ \A a \in Assigned(people) : <<a.user, a.org, a.role>> # <<u, o, s>>
    /\ people' = [people EXCEPT !.orole = IF rev < 46 THEN @ \cup {<<o, s>>} ELSE @,
                                !.assign = @ \cup {Assignment(u, o, s)}]
    /\ UNCHANGED <<cat, rows>>

(* Users, as the application of the head creates and updates them: in the          *)
(* organization of the request, super admins by a super admin.  A user who is     *)
(* none gets a role in the place of every other; one made super admin keeps those *)
(* there are.  A role held already ends the search for the others.              *)
Others(u, o, s)  == {a \in Assigned(people) : a.user = u /\ <<a.org, a.role>> # <<o, s>>}
HoldsRole(u, o, s) == \E a \in Assigned(people) : <<a.user, a.org, a.role>> = <<u, o, s>>
Revoked(rs) == {IF a \in rs THEN [a EXCEPT !.status = "revoked"] ELSE a : a \in people.assign}
AssignRole(u, o, s) ==
    IF HoldsRole(u, o, s) THEN {Revoked(rs) : rs \in SUBSET Others(u, o, s)}
    ELSE {Revoked(Others(u, o, s)) \cup {Assignment(u, o, s)}}
CreateUser(u, o, s) ==
    /\ Edit(57, HeadRevision) /\ u \notin DOMAIN people.user
    /\ Offered(s) /\ ~BornSuper(u)
    /\ people' = [people EXCEPT !.user = Over(@, Only(u, [super |-> FALSE, org |-> o])),
                                !.assign = @ \cup {Assignment(u, o, s)}]
    /\ UNCHANGED <<cat, rows>>
CreateSuper(u, o) ==
    /\ Edit(57, HeadRevision) /\ u \notin DOMAIN people.user
    /\ Supers(people) # {}
    /\ people' = [people EXCEPT !.user = Over(@, Only(u, [super |-> TRUE, org |-> o]))]
    /\ UNCHANGED <<cat, rows>>
UpdateSuper(u, o) ==
    /\ Edit(57, HeadRevision) /\ u \in DOMAIN people.user
    /\ Supers(people) # {}
    /\ people.user[u].org = IF u \in Supers(people) THEN "none" ELSE o
    /\ people' = [people EXCEPT !.user[u] = [super |-> TRUE, org |-> o]]
    /\ UNCHANGED <<cat, rows>>
UpdateMember(u, o, s) ==
    /\ Edit(57, HeadRevision) /\ u \in DOMAIN people.user
    /\ Offered(s)
    /\ IF u \in Supers(people) THEN Supers(people) # {u} ELSE people.user[u].org = o
    /\ \E A \in AssignRole(u, o, s) :
         people' = [people EXCEPT !.user[u] = [super |-> FALSE, org |-> o], !.assign = A]
    /\ UNCHANGED <<cat, rows>>
(* The permission lifecycle and the roles of an organization (role_management).   *)
SetLifecycle(c, state) ==
    /\ Edit(46, HeadRevision) /\ c \in Codes(cat) /\ cat.perm[c].state # state
    /\ cat' = Rewrite(cat, Only(c, [cat.perm[c] EXCEPT !.state = state]))
    /\ UNCHANGED <<people, rows>>
Toggled(r, c) == IF <<r, c>> \in cat.grant THEN cat.grant \ {<<r, c>>} ELSE cat.grant \cup {<<r, c>>}
EditTemplate(t, c) ==
    /\ Edit(46, HeadRevision) /\ t \in Templates(cat)
    /\ c \in Assignable(cat) /\ Live(cat, c)
    /\ cat' = [cat EXCEPT !.grant = Toggled(t, c), !.role[t].ver = @ + 1]
    /\ UNCHANGED <<people, rows>>
Derived == "derived"
Derive(t) ==
    /\ Edit(47, HeadRevision) /\ t \in Templates(cat) /\ Derived \notin RolesOf(cat)
    /\ cat' = [cat EXCEPT
         !.role = Over(@, Only(Derived, [PlainRole EXCEPT !.org = TRUE, !.src = t,
                                                          !.srcver = cat.role[t].ver])),
         !.grant = @ \cup ({Derived} \X Holds(cat, t))]
    /\ UNCHANGED <<people, rows>>
Customise(c) ==
    /\ Edit(47, HeadRevision) /\ Derived \in RolesOf(cat) /\ cat.role[Derived].org
    /\ c \in Assignable(cat) /\ Live(cat, c)
    /\ LET after == {p[2] : p \in {x \in Toggled(Derived, c) : x[1] = Derived}}
       IN  cat' = [cat EXCEPT
             !.grant = Toggled(Derived, c), !.role[Derived].cust = TRUE,
             !.excl = {p \in @ : p[1] # Derived}
                        \cup ({Derived} \X (Holds(cat, cat.role[Derived].src) \ after))]
    /\ UNCHANGED <<people, rows>>
AddRow(k) ==
    /\ Edit(IF k = "inbox note" THEN 73 ELSE 64, HeadRevision) /\ k \notin rows
    /\ rows' = rows \cup {k}
    /\ UNCHANGED <<cat, people>>

Next ==
    \/ \E r \in Stops : Begin(r)
    \/ Upgrade \/ Downgrade \/ Commit \/ Abort
    \/ \E s \in Slugs : AddRole(s)
    \/ \E u \in People :
         \/ \E js \in Joins, s \in Slugs \cup {"none"} : Join(u, js, s)
         \/ \E o \in Tenants : CreateSuper(u, o) \/ UpdateSuper(u, o)
         \/ \E o \in Tenants, s \in Slugs \cup {Derived} :
              Assign(u, o, s) \/ CreateUser(u, o, s) \/ UpdateMember(u, o, s)
    \/ \E c \in EditCodes :
         \/ \E state \in {"active", "locked", "inactive"} : SetLifecycle(c, state)
         \/ \E t \in TemplateSlugs : EditTemplate(t, c)
         \/ Customise(c)
    \/ \E t \in TemplateSlugs : Derive(t)
    \/ \E k \in RowKinds : AddRow(k)

Spec == Init /\ [][Next]_vars

-------------------------------------------------------------------------------
(* The part of a database the variables range over.                             *)
TypeOK ==
    /\ rev \in Stops /\ edits \in 0..MaxEdits /\ turns \in 0..MaxTurns /\ upward \in BOOLEAN
    /\ rows \subseteq RowKinds
    /\ cat.ok /\ \A c \in Codes(cat) : cat.perm[c].group \in Groups_(cat)
    /\ cat.grant \cup cat.excl \subseteq RolesOf(cat) \X Codes(cat)
    /\ people.ok
    /\ \A m \in people.member \cup people.assign :
         /\ m.user \in DOMAIN people.user
         /\ m.role # "none" => m.role \in RolesOf(cat)

(* A database whose rows are as the scripts assume: every permission active, no   *)
(* role the governance migrations have no kind for, and no membership with a     *)
(* role that is not an active assignment too.                                   *)
Expected ==
    /\ \A c \in Codes(cat) : cat.perm[c].state = "active"
    /\ rev < 47 => \A r \in RolesOf(cat) \ {Admin} :
                     (rev < 40 /\ r \in LegacyRoles) \/ (rev < 43 /\ r = "owner")
    /\ rev < 16 => \A m \in people.member : m.role # "none" =>
                     /\ m.status = "active"
                     /\ rev >= 12 => \E a \in Assigned(people) : a.user = m.user /\ a.org = m.org

(* No script raises on such a database: neither an upgrade to the next stop, nor  *)
(* a downgrade from the governed catalogue while the inbox is empty.            *)
ScriptsRun ==
    Expected /\ run # None /\ ~run.db.ok =>
        ~Climbs /\ (rev <= 45 \/ "inbox note" \in rows)

(* From 0039 on ("Enforce ON DELETE/UPDATE CASCADE on every existing foreign key") *)
(* no foreign key stands in a deletion's way, those of a downgrade's tables       *)
(* neither.                                                                     *)
DeletionsCascade == rev >= 39 => \A f \in Fks(schema) : f[5] \in {"CASCADE", "SET NULL"}

(* The application of the head revision finds the tables its models declare,      *)
(* whatever way the database took, and may delete rows since 0039.              *)
SchemaServes == (rev = HeadRevision => Serves(schema)) /\ DeletionsCascade

(* Once roles are governed, a role holds active permissions only and, since       *)
(* permissions have a scope, only an organization's; no role excludes one of the *)
(* platform's; and the organization administrators hold every one they may.     *)
GrantsAreGoverned ==
    rev >= 47 =>
      /\ {p[2] : p \in cat.grant} \subseteq IF rev >= 55 THEN OfOrg(cat) ELSE Active(cat)
      /\ rev >= 55 => \A p \in cat.excl : cat.perm[p[2]].scope = "organization"
      /\ rev >= 52 => Admin \in RolesOf(cat)
      /\ Admin \in RolesOf(cat) => OfOrg(cat) \subseteq Holds(cat, Admin)

(* Since memberships are gone a user acts in one organization, and a user who is   *)
(* no super admin in the user's own: also after 0057 took people home from        *)
(* several, and after a promotion, which leaves the assignments, and a demotion   *)
(* in another organization.                                                     *)
OneOrganization ==
    rev >= 58 => \A a, b \in Assigned(people) :
                   a.user = b.user =>
                     /\ a.org = b.org
                     /\ a.user \notin Supers(people) => people.user[a.user].org = a.org

(* What a permission is called at the head: the merges of 0048 to 0051, the       *)
(* resources renamed by 0032 and 0071.                                          *)
ToDelete  == {<<"fair_crm.customers", "archive">>, <<"fair_crm.fairs", "archive">>,
              <<"fair_crm.todos", "archive">>, <<"fair_crm.todos.outcomes", "deactivate">>}
ToExecute == {"run", "download", "render", "send", "test_send", "apply", "enqueue"}
EmailAccounts == "fair_crm.email_accounts"
Heir(c) ==
    CASE c \in ToDelete         -> <<c[1], "delete">>
      [] c[2] \in ToExecute     -> <<c[1], "execute">>
      [] c[2] = "preview"       -> <<c[1], "read">>
      [] c[1] = "fair_crm.smtp" -> <<EmailAccounts, c[2]>>
      [] c[1] = ItemPrices      -> <<CostItems, c[2]>>
      [] OTHER                  -> c
(* Before the revision of a split, the one permission stands for the new one too.  *)
Splits == {<<53, UpdateUsers, DeleteUsers>>,
           <<62, <<EmailAccounts, "read">>, <<MailSend, "read">>>>,
           <<62, <<EmailAccounts, "update">>, <<MailSend, "execute">>>>}
Heirs(n, c) == {Heir(c)} \cup {x[3] : x \in {y \in Splits : n < y[1] /\ y[2] = Heir(c)}}
Retired == Dashboard[2] \cup SystemPerms \cup P(Backups, {"download"})
(* What a role of the catalogue d at revision n may do, by the head's permissions. *)
Access(n, d, r) == UNION {Heirs(n, c) : c \in Holds(d, r) \ Retired}

(* An upgrade leaves a role an organization customised with the access it had,    *)
(* under the names the permissions have come to and with every permission that a  *)
(* split took out of one it held ("keep that effective access after the permission *)
(* split", 0053), but for what became the platform's.                           *)
CustomisedKept ==
    [][rev' > rev =>
         \A r \in RolesOf(cat) : cat.role[r].cust => Access(rev', cat', r) = Access(rev, cat, r)]_vars

(* An upgrade leaves a role that follows its template, and holds what it holds,   *)
(* holding what it holds (a full_user template that was edited to hold no        *)
(* identity.users.update apart: 0053 gives it identity.users.delete back alone). *)
InStep(d, r) == Holds(d, r) = Holds(d, d.role[r].src)
InStepStays ==
    [][rev' > rev =>
         \A r \in Followers(cat, Templates(cat)) :
           /\ InStep(cat, r)
           /\ rev < 53 /\ cat.role[r].src = "full_user" => UpdateUsers \in Holds(cat, r)
           => InStep(cat', r)]_vars

(* The roles a user acts with, and where.                                        *)
Ways(u) ==
    IF rev < 12
    THEN {<<m.org, m.role>> : m \in {x \in people.member : x.user = u /\ x.status = "active"
                                                              /\ x.role # "none"}}
    ELSE {<<a.org, a.role>> : a \in {x \in Assigned(people) : x.user = u}}
(* An upgrade gives nobody a role, and leaves who had a role that still exists    *)
(* with one: through organization_roles, through the roles of 0046 and through    *)
(* the end of memberships, where the user keeps one organization.               *)
AccessKept ==
    [][rev' > rev =>
         \A u \in DOMAIN people'.user \ Supers(people') :
           /\ Ways(u)' \subseteq Ways(u)
           /\ (\E w \in Ways(u) : w[2] \in RolesOf(cat')) => Ways(u)' # {}]_vars
===============================================================================
