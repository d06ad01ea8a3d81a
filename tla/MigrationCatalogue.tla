--------------------------- MODULE MigrationCatalogue ---------------------------
(* The rows the migrations of alembic/versions keep in the permission groups,   *)
(* the permissions, the roles, their grants and their template exclusions, up   *)
(* to revision 0045.  A permission code is a pair <<resource, verb>>.  A        *)
(* catalogue d is a record:                                                     *)
(*   d.group    group code -> module          d.perm   code -> permission       *)
(*   d.role     slug -> role (not deleted)    d.grant  set of <<slug, code>>    *)
(*   d.excl     set of <<slug, code>>, the template exclusions                  *)
(*   d.trig     the permission triggers installed: "none", "legacy",            *)
(*              "noregrant" or "scoped"                                         *)
(*   d.cascade  deleting a row deletes what refers to it                        *)
(*   d.ok       no statement of the migration raised                            *)
EXTENDS Naturals, Sequences, FiniteSets, MigrationRows

P(resource, verbs) == {<<resource, v>> : v \in verbs}
Crud == {"create", "read", "update", "delete"}
Crua == {"create", "read", "update", "archive"}

(* A permission of an organization, and one of the platform.                    *)
Org(g) == [group |-> g, state |-> "active", assignable |-> TRUE, scope |-> "organization"]
Sys(g) == [Org(g) EXCEPT !.assignable = FALSE, !.scope = "system"]

(* A role as a revision before 0046 knows it, and a template.                   *)
PlainRole == [kind |-> "organization", org |-> FALSE, src |-> "none", ver |-> 1,
              srcver |-> 0, cust |-> FALSE, auto |-> FALSE]
Template  == [PlainRole EXCEPT !.kind = "template"]
AdminRole == [PlainRole EXCEPT !.kind = "protected_global", !.auto = TRUE]

EmptyCatalogue ==
    [group |-> <<>>, perm |-> <<>>, role |-> <<>>, grant |-> {}, excl |-> {},
     trig |-> "none", cascade |-> FALSE, ok |-> TRUE]

Codes(d)      == DOMAIN d.perm
Groups_(d)    == DOMAIN d.group
RolesOf(d)    == DOMAIN d.role
Holds(d, r)   == {g[2] : g \in {x \in d.grant : x[1] = r}}
Excludes(d, r) == {g[2] : g \in {x \in d.excl : x[1] = r}}
Members(d, g) == {c \in Codes(d) : d.perm[c].group = g}
Need(d, p)    == [d EXCEPT !.ok = @ /\ p]

(* What the trigger functions installed take for a permission roles may hold.   *)
Live(d, c) == /\ d.perm[c].state = "active"
              /\ d.trig = "scoped" => d.perm[c].scope = "organization"
AutoRoles(d)    == {r \in RolesOf(d) : d.role[r].auto}

(* INSERT INTO identity_role_permissions ... ON CONFLICT DO NOTHING: the enforce *)
(* trigger runs before each row, also the ones already there.                   *)
GrantAll(d, pairs) ==
    Need([d EXCEPT !.grant = @ \cup pairs],
         d.trig = "none" \/ \A p \in pairs : Live(d, p[2]))
Grant(d, rs, cs) == GrantAll(d, rs \X cs)

(* INSERT INTO identity_permissions ... WHERE NOT EXISTS: the trigger grants a   *)
(* new live permission to the roles that include new permissions.               *)
Insert(d, f) ==
    LET new == DOMAIN f \ Codes(d)
        e   == [d EXCEPT !.perm = Over(@, f)]
    IN  IF d.trig = "none" THEN e
        ELSE [e EXCEPT !.grant = @ \cup (AutoRoles(d) \X {c \in new : Live(e, c)})]

(* Mutant of Rewrite: what becomes active again is granted to nobody.         *)
RewriteOnlyTakes(d, f) ==
    LET e == [d EXCEPT !.perm = Over(f, @)]
    IN  [e EXCEPT !.grant = {p \in @ : p[2] \notin DOMAIN f \/ d.trig = "none" \/ Live(e, p[2])}]
(* UPDATE identity_permissions SET lifecycle_state (or permission_scope): the    *)
(* trigger grants a live permission to the same roles and takes any other one    *)
(* from every role.                                                             *)
Rewrite(d, f) ==
    LET e    == [d EXCEPT !.perm = Over(f, @)]
        hit  == DOMAIN f \cap Codes(d)
        live == {c \in hit : Live(e, c)}
    IN  CASE d.trig = "none"      -> e
          [] d.trig = "noregrant" -> [e EXCEPT !.grant = {p \in @ : p[2] \notin hit \ live}]
          [] OTHER -> [e EXCEPT !.grant = {p \in @ : p[2] \notin hit \ live}
                                            \cup (AutoRoles(d) \X live)]

(* DELETE FROM identity_permissions: refused while a role holds one, until the   *)
(* foreign keys cascade.                                                        *)
Drop(d, cs) ==
    Need([d EXCEPT !.perm = Without(@, cs),
                   !.grant = {p \in @ : p[2] \notin cs},
                   !.excl = {p \in @ : p[2] \notin cs}],
         d.cascade \/ \A p \in d.grant : p[2] \notin cs)
(* The same after deleting the grants and the exclusions.                       *)
Revoke(d, cs) == [d EXCEPT !.grant = {p \in @ : p[2] \notin cs},
                           !.excl = {p \in @ : p[2] \notin cs}]
Purge(d, cs)  == Drop(Revoke(d, cs), cs)

DropRoles(d, rs) ==
    [d EXCEPT !.role = Without(@, rs),
              !.grant = {p \in @ : p[1] \notin rs},
              !.excl = {p \in @ : p[1] \notin rs}]

EnsureGroup(d, g, module) == [d EXCEPT !.group = Over(@, Only(g, module))]
Seed(d, g, module, cs) == Insert(EnsureGroup(d, g, module), [c \in cs |-> Org(g)])

(* DELETE FROM identity_permission_groups: RESTRICT, until the keys cascade.     *)
DropGroup(d, g) ==
    LET e == IF d.cascade THEN Drop(d, Members(d, g)) ELSE Need(d, Members(d, g) = {})
    IN  [e EXCEPT !.group = Without(@, {g})]
DropGroupIfEmpty(d, g) == IF Members(d, g) = {} THEN DropGroup(d, g) ELSE d

(* UPDATE ... SET code of a permission or a group; codes are unique.             *)
RenamePermission(d, old, new) ==
    IF old \notin Codes(d) THEN d
    ELSE LET swap(S) == {IF p[2] = old THEN <<p[1], new>> ELSE p : p \in S}
         IN  Need([d EXCEPT !.perm = Over(Only(new, d.perm[old]), Without(@, {old})),
                            !.grant = swap(@), !.excl = swap(@)],
                  new \notin Codes(d))
RenameGroup(d, old, new) ==
    IF old \notin Groups_(d) THEN d
    ELSE Need([d EXCEPT !.group = Over(Only(new, d.group[old]), Without(@, {old})),
                        !.perm = [c \in Codes(d) |-> IF d.perm[c].group = old
                                                     THEN [d.perm[c] EXCEPT !.group = new]
                                                     ELSE d.perm[c]]],
              new \notin Groups_(d))

-------------------------------------------------------------------------------
(* Upgrades U.... and downgrades D.... to revision 0045.                        *)
D0004(d) == [d EXCEPT !.perm = <<>>, !.role = <<>>, !.grant = {}]
U0008(d) == [d EXCEPT !.group = [g \in {"audit", "core", "identity", "settings"} |-> g]]
D0008(d) == [d EXCEPT !.group = <<>>]

(* The permissions of 0018 to 0025 go into whichever group of the module the      *)
(* query finds first, or into a new one.                                        *)
GroupsOf(d, module, new) ==
    LET own == {g \in Groups_(d) : d.group[g] = module}
    IN  IF own = {} THEN {new} ELSE own

Audits        == P("audit.logs", {"read"})
SettingsPerms == P("settings.platform", {"read", "update"})
JobsPerms     == P("jobs.platform", {"enqueue", "read"})
NotesPerms    == P("notifications.platform", {"send", "read"})
Customers     == P("fair_crm.customers", Crua)

U0018(d) == {Seed(d, g, "audit", Audits) : g \in GroupsOf(d, "audit", "audit.logs")}
D0018(d) == Drop(d, Audits)
U0020(d) == {Seed(d, g, "settings", SettingsPerms) :
               g \in GroupsOf(d, "settings", "settings.platform")}
D0020(d) == Drop(d, SettingsPerms)
U0022(d) == {Seed(d, g, "jobs", JobsPerms) : g \in GroupsOf(d, "jobs", "jobs.platform")}
D0022(d) == Drop(d, JobsPerms)
U0024(d) == {Seed(d, g, "notifications", NotesPerms) :
               g \in GroupsOf(d, "notifications", "notifications.platform")}
D0024(d) == Drop(d, NotesPerms)
U0025(d) == {Seed(d, g, "fair_crm", Customers) :
               g \in GroupsOf(d, "fair_crm", "fair_crm.customers")}
D0025(d) == Drop(d, Customers)

(* A catalogue is a set of pairs <<group, its codes>>.                          *)
SeedAll(d, catalogue) ==
    Insert([d EXCEPT !.group = Over(@, [g \in {e[1] : e \in catalogue} |-> "fair_crm"])],
           [c \in UNION {e[2] : e \in catalogue} |->
              Org((CHOOSE e \in catalogue : c \in e[2])[1])])

Product(code, verbs) == <<code, P(code, verbs)>>
CatalogueCodes(catalogue) == UNION {e[2] : e \in catalogue}

Products0026 ==
    {Product("fair_crm.fairs", Crua), Product("fair_crm.imports", Crud \cup {"apply"}),
     Product("fair_crm.contacts", Crud), Product("fair_crm.participations", Crud),
     Product("fair_crm.activities", Crud),
     Product("fair_crm.scraper", Crud \cup {"run", "download"}), Product("fair_crm.smtp", Crud),
     Product("fair_crm.admin.backups", {"read", "create", "download"}),
     Product("fair_crm.admin.data_operations", {"read", "run"})}
U0026(d) == SeedAll(d, Products0026)
D0026(d) == Drop(d, CatalogueCodes(Products0026))

MailTemplates == Product("fair_crm.mail_templates", Crud \cup {"render"})
U0027(d) == SeedAll(d, {MailTemplates})
D0027(d) == DropGroup(Drop(d, MailTemplates[2]), MailTemplates[1])

TestSend == <<"fair_crm.mail_templates", "test_send">>
U0028(d) == Insert(Need(d, MailTemplates[1] \in Groups_(d)),
                   Only(TestSend, Org(MailTemplates[1])))
D0028(d) == Drop(d, {TestSend})

FairEmails == Product("fair_crm.fair_emails", {"preview", "send"})
U0029(d) == SeedAll(d, {FairEmails})
D0029(d) == DropGroup(Drop(d, FairEmails[2]), FairEmails[1])

Dashboard == Product("fair_crm.dashboard", {"read"})
Todos     == {Product("fair_crm.todos", Crud \cup {"archive"}),
              Product("fair_crm.todos.outcomes", {"create", "read", "update", "deactivate"})}
U0030(d) == SeedAll(d, Todos \cup {Dashboard})
D0030(d) ==
    DropGroup(DropGroup(DropGroup(
      Drop(d, CatalogueCodes(Todos \cup {Dashboard})),
      "fair_crm.dashboard"), "fair_crm.todos"), "fair_crm.todos.outcomes")

Operations == Product("fair_crm.operations", {"create", "read", "update", "execute"})
U0031(d) == SeedAll(d, {Operations})
D0031(d) == DropGroup(Drop(d, Operations[2]), Operations[1])

(* Every permission of one resource becomes a permission of another.            *)
RenameResource(d, old, new) ==
    LET e(verb, x) == RenamePermission(x, <<old, verb>>, <<new, verb>>)
    IN  e("read", e("create", e("update", e("delete", RenameGroup(d, old, new)))))
U0032(d) == RenameResource(d, "fair_crm.smtp", "fair_crm.email_accounts")
D0032(d) == RenameResource(d, "fair_crm.email_accounts", "fair_crm.smtp")

QuoteTemplates == Product("fair_crm.quote_templates", {"create", "read", "update"})
U0033(d) == SeedAll(d, {QuoteTemplates})
D0033(d) == DropGroup(Drop(d, QuoteTemplates[2]), QuoteTemplates[1])

Contents == Product("fair_crm.template_contents", {"create", "read"})
U0034(d) == SeedAll(d, {Contents})
D0034(d) == DropGroup(Purge(d, Contents[2]), Contents[1])

MoreContents == P("fair_crm.template_contents", {"update", "delete"})
U0035(d) == Insert(Need(d, Contents[1] \in Groups_(d)), [c \in MoreContents |-> Org(Contents[1])])
D0035(d) == Purge(d, MoreContents)

Quotes == Product("fair_crm.quotes", Crud)
U0036(d) == SeedAll(d, {Quotes})
D0036(d) == DropGroup(Purge(d, Quotes[2]), Quotes[1])

(* Permissions of the identity group, granted to one role when it is there.      *)
SeedIdentity(d, cs, slug) ==
    Grant(Insert(Need(d, "identity" \in Groups_(d)), [c \in cs |-> Org("identity")]),
          {slug} \cap RolesOf(d), cs)
OrganizationPerms == P("identity.organizations", {"read", "update", "delete"})
U0037(d) == SeedIdentity(d, OrganizationPerms, "owner")
D0037(d) == Purge(d, OrganizationPerms)
U0038(d) == SeedIdentity(d, OrganizationPerms, "owner")
D0038(d) == d

U0039(d) == [d EXCEPT !.cascade = TRUE]
LegacyRoles == {"admin", "manager", "sales", "viewer", "scraper_operator", "member"}
U0040(d) == DropRoles(d, LegacyRoles)
U0043(d) == DropRoles(d, {"owner"})

UserPerms == P("identity.users", {"create", "read", "update"})
               \cup P("identity.roles", {"read", "update"})
U0044(d) == SeedIdentity(d, UserPerms, "organization_admin")
D0044(d) == Purge(d, UserPerms)
===============================================================================
