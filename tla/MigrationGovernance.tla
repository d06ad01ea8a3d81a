-------------------------- MODULE MigrationGovernance --------------------------
(* What the migrations from 0046 on do to the permission catalogue: the role     *)
(* templates and the roles organizations derive from them, the permission       *)
(* lifecycle and the scope of a permission, kept by triggers.                   *)
EXTENDS MigrationCatalogue

TemplateSlugs == {"read_user", "create_update_user", "full_user"}
Admin         == "organization_admin"

(* The permissions a template is made for.                                      *)
MadeFor(slug, c) ==
    \/ slug = "full_user"
    \/ slug = "create_update_user" /\ c[2] \in {"read", "list", "create", "update"}
    \/ slug = "read_user" /\ c[2] \in {"read", "list"}

Active(d)       == {c \in Codes(d) : d.perm[c].state = "active"}
OfOrg(d)        == {c \in Active(d) : d.perm[c].scope = "organization"}
Assignable(d)   == {c \in Active(d) : d.perm[c].assignable}
Globals(d)      == {r \in RolesOf(d) : ~d.role[r].org}
Templates(d)    == {r \in RolesOf(d) : d.role[r].kind = "template" /\ ~d.role[r].org}
(* Roles that still follow the template they were derived from.                 *)
Followers(d, slugs) ==
    {r \in RolesOf(d) : /\ d.role[r].kind = "organization"
                        /\ ~d.role[r].cust
                        /\ d.role[r].src \in slugs}

(* Mutant of CopyDown: only roles stamped with the template's version get any.*)
CopyDownInVersion(d, slugs, cs) ==
    GrantAll(d, {p \in Followers(d, slugs) \X cs :
                   LET r == d.role[p[1]]
                   IN  <<r.src, p[2]>> \in d.grant /\ r.srcver = d.role[r.src].ver})
(* INSERT INTO identity_role_permissions SELECT the grants of the template, the   *)
(* codes in cs only.                                                            *)
CopyDown(d, slugs, cs) ==
    GrantAll(d, {p \in Followers(d, slugs) \X cs : <<d.role[p[1]].src, p[2]>> \in d.grant})
(* The roles that hold or exclude one code come to hold or exclude another.       *)
CopyState(d, from, to) ==
    GrantAll([d EXCEPT !.excl = @ \cup {<<p[1], to>> : p \in {x \in @ : x[2] = from}}],
             {<<p[1], to>> : p \in {x \in d.grant : x[2] = from}})

Normalised(d, fresh) ==
    [d EXCEPT !.role = IF Admin \notin DOMAIN @ THEN Over(fresh, @)
                       ELSE [@ EXCEPT ![Admin].kind = "protected_global", ![Admin].org = FALSE,
                                      ![Admin].cust = FALSE, ![Admin].auto = TRUE]]

-------------------------------------------------------------------------------
GovernancePerms ==
    Over([c \in P("identity.roles", {"create", "delete", "assign"})
                \cup P("identity.permissions", {"read"}) |-> Org("identity")],
         [c \in P("identity.roles", {"assign_protected"})
                \cup P("identity.role_templates", {"read", "manage"})
                \cup P("identity.permissions", {"lifecycle"})
            |-> [Org("identity") EXCEPT !.assignable = FALSE]])

U0046(d) ==
    LET roles == Over([r \in RolesOf(d) |-> IF r = Admin THEN AdminRole ELSE d.role[r]],
                      [r \in TemplateSlugs |-> Template])
        perms == [c \in Codes(d) \cap DOMAIN GovernancePerms |->
                    [d.perm[c] EXCEPT !.assignable = GovernancePerms[c].assignable]]
        e     == Insert([Need(d, "identity" \in Groups_(d))
                           EXCEPT !.role = roles, !.perm = Over(perms, @)], GovernancePerms)
        made  == {p \in Templates(e) \X Assignable(e) : MadeFor(p[1], p[2])}
    IN  [GrantAll(Grant(e, {Admin} \cap RolesOf(e), Active(e)), made) EXCEPT !.trig = "legacy"]
D0046(d) ==
    [d EXCEPT !.trig = "none", !.excl = {}, !.role = [r \in DOMAIN @ |-> PlainRole],
              !.perm = [c \in DOMAIN @ |-> Org(@[c].group)]]

(* The check constraint ties the kind of a role to its organization.             *)
KindFits(r) == r.org <=> r.kind = "organization"
U0047(d) ==
    LET e == Grant(d, AutoRoles(d), Active(d))
    IN  Need([e EXCEPT !.trig = "legacy"], \A r \in RolesOf(d) : KindFits(d.role[r]))
D0047(d) == [d EXCEPT !.trig = "noregrant"]

-------------------------------------------------------------------------------
(* Mutant of Merge: the new code is taken to be free.                         *)
MergeByRename(d, old, new) == RenamePermission(d, old, new)
(* One verb becomes another.  Where both exist the old permission's grants and    *)
(* exclusions pass to the new one.                                              *)
Merge(d, old, new) ==
    IF old \notin Codes(d) THEN d
    ELSE IF new \notin Codes(d) THEN RenamePermission(d, old, new)
    ELSE Purge(CopyState(d, old, new), {old})
MergeVerb(d, resource, old, new) == Merge(d, <<resource, old>>, <<resource, new>>)

RenameBack(d, resource, new, old) ==
    IF <<resource, old>> \in Codes(d) THEN d
    ELSE RenamePermission(d, <<resource, new>>, <<resource, old>>)
(* A permission that a merge swallowed comes back as a copy of the one it went   *)
(* into.                                                                        *)
Cloned(d, from, to) == Insert(d, Only(to, [d.perm[from] EXCEPT !.scope = "organization"]))
Clone(d, from, to) ==
    IF from \notin Codes(d) \/ to \in Codes(d) THEN d ELSE CopyState(Cloned(d, from, to), from, to)
CloneGrants(d, from, to) ==
    IF from \notin Codes(d) \/ to \in Codes(d) THEN d
    ELSE GrantAll(Cloned(d, from, to), {<<p[1], to>> : p \in {x \in d.grant : x[2] = from}})

U0048(d) ==
    MergeVerb(MergeVerb(MergeVerb(MergeVerb(d,
      "fair_crm.customers", "archive", "delete"), "fair_crm.fairs", "archive", "delete"),
      "fair_crm.todos", "archive", "delete"), "fair_crm.todos.outcomes", "deactivate", "delete")
D0048(d) ==
    RenameBack(CloneGrants(RenameBack(RenameBack(d,
      "fair_crm.customers", "delete", "archive"), "fair_crm.fairs", "delete", "archive"),
      <<"fair_crm.todos", "delete">>, <<"fair_crm.todos", "archive">>),
      "fair_crm.todos.outcomes", "delete", "deactivate")

Scraper == "fair_crm.scraper"
Backups == "fair_crm.admin.backups"
DataOps == "fair_crm.admin.data_operations"
Mails   == "fair_crm.mail_templates"
U0049(d) ==
    MergeVerb(MergeVerb(MergeVerb(MergeVerb(MergeVerb(d, Scraper, "run", "execute"),
      Scraper, "download", "execute"), Backups, "download", "execute"),
      Mails, "render", "execute"), DataOps, "run", "execute")
D0049(d) ==
    RenameBack(RenameBack(RenameBack(
      Clone(RenameBack(d, Scraper, "execute", "run"), <<Scraper, "run">>, <<Scraper, "download">>),
      Backups, "execute", "download"), Mails, "execute", "render"), DataOps, "execute", "run")

U0050(d) ==
    MergeVerb(MergeVerb(MergeVerb(d, "notifications.platform", "send", "execute"),
      "fair_crm.fair_emails", "send", "execute"), Mails, "test_send", "execute")
D0050(d) ==
    Clone(RenameBack(RenameBack(d, "notifications.platform", "execute", "send"),
      "fair_crm.fair_emails", "execute", "send"), <<Mails, "execute">>, TestSend)

U0051(d) ==
    MergeVerb(MergeVerb(MergeVerb(d, "fair_crm.imports", "apply", "execute"),
      "jobs.platform", "enqueue", "execute"), "fair_crm.fair_emails", "preview", "read")
D0051(d) ==
    MergeVerb(MergeVerb(MergeVerb(d, "fair_crm.imports", "execute", "apply"),
      "jobs.platform", "execute", "enqueue"), "fair_crm.fair_emails", "read", "preview")

U0052(d) == Grant(Normalised(d, Only(Admin, AdminRole)), {Admin}, Active(d))
D0052(d) == d

UpdateUsers == <<"identity.users", "update">>
DeleteUsers == <<"identity.users", "delete">>
(* Mutant of U0053: who may update users is not granted their removal.        *)
U0053Ungranted(d) ==
    IF UpdateUsers \notin Codes(d) THEN Need(d, FALSE)
    ELSE LET e == Insert(d, Only(DeleteUsers, d.perm[UpdateUsers]))
         IN  Grant(e, {Admin, "full_user"} \cap Globals(e), {DeleteUsers})
(* Removing a user gets a permission of its own.                                *)
U0053(d) ==
    IF UpdateUsers \notin Codes(d) THEN Need(d, FALSE)
    ELSE LET e    == CopyState(Insert(d, Only(DeleteUsers, d.perm[UpdateUsers])),
                               UpdateUsers, DeleteUsers)
             lose == IF "create_update_user" \notin Templates(d) THEN {}
                     ELSE {"create_update_user"}
                            \cup {r \in RolesOf(d) : /\ d.role[r].src = "create_update_user"
                                                     /\ ~d.role[r].cust}
             f    == [e EXCEPT !.grant = @ \ (lose \X {DeleteUsers})]
         IN  Grant(f, {Admin, "full_user"} \cap Globals(d), {DeleteUsers})
D0053(d) == Purge(d, {DeleteUsers})

U0054(d) == DropGroupIfEmpty(Purge(d, Dashboard[2]), Dashboard[1])
D0054(d) ==
    LET e == SeedAll(d, {Dashboard})
    IN  Grant(e, (({Admin} \cup TemplateSlugs) \cap Globals(d))
                   \cup {r \in RolesOf(d) : /\ ~d.role[r].cust
                                            /\ d.role[r].src \in TemplateSlugs \cap Globals(d)},
              Dashboard[2])

-------------------------------------------------------------------------------
SystemPerms ==
    P(Backups, {"read", "create", "execute"}) \cup P("identity.permissions", {"lifecycle"})
      \cup P("identity.role_templates", {"read", "manage"})
      \cup P("identity.organizations", {"delete"})
Suspend == <<"identity.organizations", "suspend">>
UpdateOrganization == <<"identity.organizations", "update">>

U0055(d) ==
    LET sys == [c \in SystemPerms \cap Codes(d) |->
                  [d.perm[c] EXCEPT !.assignable = FALSE, !.scope = "system"]]
        e == [Need(d, SystemPerms \cup {UpdateOrganization} \subseteq Codes(d))
                EXCEPT !.perm = Over(sys, @)]
        f == Insert(e, Only(Suspend, Sys(IF UpdateOrganization \in Codes(d)
                                         THEN d.perm[UpdateOrganization].group ELSE "identity")))
    IN  [Revoke(f, {c \in Codes(f) : f.perm[c].scope = "system"}) EXCEPT !.trig = "scoped"]
D0055(d) ==
    LET e    == Purge([d EXCEPT !.trig = "legacy"], {Suspend})
        back == SystemPerms \cap Codes(e)
        free == P(Backups, {"read", "create", "execute"}) \cup {<<"identity.organizations", "delete">>}
        org  == [c \in back |-> [e.perm[c] EXCEPT !.scope = "organization",
                                                  !.assignable = @ \/ c \in free]]
        f    == [e EXCEPT !.perm = Over(org, @)]
        g    == Grant(f, {Admin} \cap Globals(f), back \cap Active(f))
        made == {p \in Templates(g) \X Assignable(g) : MadeFor(p[1], p[2])}
    IN  CopyDown(GrantAll(g, made), Templates(g), Codes(g))

(* A seed of organization permissions for the administrators and the templates:   *)
(* it grants them by verb, opens a new version of the templates, copies the new  *)
(* grants to the roles that follow them and stamps those with the version.       *)
Stamp(d, slugs) ==
    [d EXCEPT !.role = [r \in RolesOf(d) |->
       IF r \in Followers(d, slugs) THEN [d.role[r] EXCEPT !.srcver = d.role[d.role[r].src].ver]
       ELSE d.role[r]]]
NewVersion(d, slugs) ==
    [d EXCEPT !.role = [r \in RolesOf(d) |-> IF r \in Templates(d) \cap slugs
                                             THEN [d.role[r] EXCEPT !.ver = @ + 1] ELSE d.role[r]]]
Reseed(d, g, cs) ==
    LET f == [c \in cs |-> Org(g)]
    IN  Rewrite(Insert(EnsureGroup(d, g, "fair_crm"), f), f)
SeedGoverned(d, g, cs) ==
    LET e    == Reseed(d, g, cs)
        made == {p \in ((TemplateSlugs \cup {Admin}) \cap Globals(e)) \X cs :
                   p[1] = Admin \/ MadeFor(p[1], p[2])}
    IN  Stamp(CopyDown(NewVersion(GrantAll(e, made), TemplateSlugs), RolesOf(e), cs), TemplateSlugs)

CostCatalog == P("fair_crm.cost_catalog.categories", Crud) \cup P("fair_crm.cost_catalog.products", Crud)
U0056(d) == SeedGoverned(d, "fair_crm.cost_catalog", CostCatalog)
D0056(d) == DropGroup(Purge(d, CostCatalog), "fair_crm.cost_catalog")

MembershipCodes(d) ==
    {c \in Codes(d) : c[1] \in {"identity.membership", "identity.memberships"}}
U0057(d) == Purge(d, MembershipCodes(d))

(* A repair: operations belong to organizations, the administrators hold every    *)
(* active permission of an organization and none of the platform.               *)
U0059(d) ==
    LET ops == Operations[2] \cap Codes(d)
        e   == Normalised(Rewrite(d, [c \in ops |-> [d.perm[c] EXCEPT !.assignable = TRUE,
                                                       !.scope = "organization"]]), <<>>)
        f   == Grant(e, {Admin} \cap Globals(e), OfOrg(e))
    IN  [f EXCEPT !.grant = {p \in @ : p[1] = Admin => f.perm[p[2]].scope # "system"}]
D0059(d) == d

ExecuteCustomers == <<"fair_crm.customers", "execute">>
CustomerGroup(d) ==
    LET read == <<"fair_crm.customers", "read">>
    IN  IF read \in Codes(d) THEN d.perm[read].group ELSE "fair_crm.customers"
U0060(d) ==
    LET e == Reseed(d, CustomerGroup(d), {ExecuteCustomers})
        f == NewVersion(Grant(e, {Admin, "full_user"} \cap Globals(e), {ExecuteCustomers}),
                        {"full_user"})
    IN  Stamp(Grant(f, Followers(f, {"full_user"}), {ExecuteCustomers}), {"full_user"})
D0060(d) == Purge(d, {ExecuteCustomers})

(* A seed of platform permissions: no role may hold or exclude one.              *)
SeedSystem(d, g, cs) ==
    LET f == [c \in cs |-> Sys(g)]
    IN  Revoke(Rewrite(Insert(d, f), f), cs)
BackupsDelete == <<Backups, "delete">>
ReadBackups   == <<Backups, "read">>
U0061(d) == IF ReadBackups \notin Codes(d) THEN Need(d, FALSE)
            ELSE SeedSystem(d, d.perm[ReadBackups].group, {BackupsDelete})
D0061(d) == Purge(d, {BackupsDelete})

MailSend == "fair_crm.mail_send_operations"
U0062(d) ==
    CopyState(CopyState(Reseed(d, MailSend, P(MailSend, {"read", "execute"})),
      <<"fair_crm.email_accounts", "read">>, <<MailSend, "read">>),
      <<"fair_crm.email_accounts", "update">>, <<MailSend, "execute">>)
D0062(d) == DropGroupIfEmpty(Purge(d, P(MailSend, {"read", "execute"})), MailSend)

Reactivate == <<"identity.organizations", "reactivate">>
U0065(d) == IF UpdateOrganization \notin Codes(d) THEN Need(d, FALSE)
            ELSE SeedSystem(d, d.perm[UpdateOrganization].group, {Reactivate})
D0065(d) == Purge(d, {Reactivate})

StandGroup    == "fair_crm.admin.fair_stand"
SeedStand(d, cs) == SeedSystem(EnsureGroup(d, StandGroup, "fair_crm"), StandGroup, cs)
DropStand(d, cs) == DropGroupIfEmpty(Purge(d, cs), StandGroup)
StandCatalog  == P("fair_crm.admin.fair_stand.catalog", Crua)
StandPreviews == P("fair_crm.admin.fair_stand.previews", Crua)
StandSettings == P("fair_crm.admin.fair_stand.settings", {"read", "update"})
StandItems    == P("fair_crm.admin.fair_stand.items", Crua)
U0066(d) == SeedStand(d, StandCatalog \cup StandPreviews)
D0066(d) == DropStand(d, StandCatalog \cup StandPreviews)
U0068(d) == SeedStand(d, StandSettings)
D0068(d) == Purge(d, StandSettings)
U0069(d) == SeedStand(d, StandItems)
D0069(d) == Purge(d, StandItems)

Projects   == P("fair_crm.fair_stand.projects", Crud \cup {"execute"})
U0067(d) == SeedGoverned(d, "fair_crm.fair_stand.projects", Projects)
D0067(d) == DropGroup(Purge(d, Projects), "fair_crm.fair_stand.projects")

ItemPrices == "fair_crm.fair_stand.item_prices"
CostItems  == "fair_crm.fair_stand.cost_items"
U0070(d) == SeedGoverned(d, ItemPrices, P(ItemPrices, Crud))
D0070(d) == DropGroup(Purge(d, P(ItemPrices, Crud)), ItemPrices)
U0071(d) == RenameResource(d, ItemPrices, CostItems)
D0071(d) == RenameResource(d, CostItems, ItemPrices)

U0072(d) == Purge(d, StandPreviews)
D0072(d) == IF StandGroup \notin Groups_(d) THEN d
            ELSE Insert(d, [c \in StandPreviews |-> Sys(StandGroup)])
===============================================================================
