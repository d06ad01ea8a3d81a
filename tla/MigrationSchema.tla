---------------------------- MODULE MigrationSchema ----------------------------
(* The tables the migrations of alembic/versions build, as a set of schema     *)
(* objects.  An object is a tuple of names whose first component is its kind:  *)
(*   <<"table", t>>           a table          <<"column", t, c>>   a column   *)
(*   <<"index", t, n>>        an index         <<"check", t, n>>    a check    *)
(*   <<"unique", t, cs>>      a unique constraint or unique index on cs        *)
(*   <<"fk", t, c, u, rule>>  column c refers to table u, ON DELETE rule       *)
(* Types, defaults and nullability are left out, except where a migration      *)
(* could fail on them.  A migration is a pair of sets: what it drops and what  *)
(* it adds.                                                                    *)
EXTENDS Naturals, FiniteSets

Names(kind, t, ns) == {<<kind, t, n>> : n \in ns}
Table(t, cs)       == {<<"table", t>>} \cup Names("column", t, cs)
Columns(t, cs)     == Names("column", t, cs)
Indexes(t, ns)     == Names("index", t, ns)
Uniques(t, ns)     == Names("unique", t, ns)
Checks(t, ns)      == Names("check", t, ns)
Fk(t, c, u, rule)  == {<<"fk", t, c, u, rule>>}

Change(drop, add) == [drop |-> drop, add |-> add]
Create(add)       == Change({}, add)
(* A downgrade that mirrors its upgrade object by object.                      *)
Undo(m)           == Change(m.add, m.drop)

(* PostgreSQL refuses to drop what is not there, to add what is there, to drop *)
(* a table another one refers to, and to put anything on a missing table or    *)
(* column; the tables dropped take their objects with them.                    *)
Tables(s) == {i[2] : i \in {x \in s : x[1] = "table"}}
Fks(s)    == {i \in s : i[1] = "fk"}
Apply(s, m) == {i \in s \ m.drop : <<"table", i[2]>> \notin m.drop} \cup m.add
Runs(s, m) ==
    LET after  == Apply(s, m)
        tables == Tables(after)
    IN  /\ m.drop \subseteq s
        /\ \A i \in m.add : i \in s => i \in m.drop \/ <<"table", i[2]>> \in m.drop
        /\ \A i \in after : i[2] \in tables
        /\ \A f \in Fks(after) : f[4] \in tables /\ <<"column", f[2], f[3]>> \in after

-------------------------------------------------------------------------------
Stamped == {"id", "created_at", "updated_at", "deleted_at"}
Users == "identity_users"
Orgs  == "identity_organizations"
Mems  == "identity_memberships"
Sess  == "identity_sessions"
Toks  == "identity_refresh_tokens"
Perms == "identity_permissions"
Roles == "identity_roles"
Grants == "identity_role_permissions"
Groups == "identity_permission_groups"
OrgRoles == "identity_organization_roles"
UserRoles == "identity_user_roles"
Invites == "identity_membership_invites"
Excls == "identity_role_template_exclusions"
Actions == "identity_action_tokens"
Audit == "audit_logs"
Settings == "platform_settings"
Jobs  == "platform_jobs"
Notes == "platform_notifications"

S0002 == Create(
    Table(Users, Stamped \cup {"email", "password_hash", "status", "is_super_admin"})
      \cup Uniques(Users, {"email"}) \cup Indexes(Users, {"email"})
      \cup Table(Orgs, Stamped \cup {"name", "slug", "status"})
      \cup Uniques(Orgs, {"slug"}) \cup Indexes(Orgs, {"slug"})
      \cup Table(Mems, Stamped \cup {"user_id", "organization_id", "status"})
      \cup Fk(Mems, "user_id", Users, "NO ACTION")
      \cup Fk(Mems, "organization_id", Orgs, "NO ACTION")
      \cup Uniques(Mems, {"user_organization"})
      \cup Indexes(Mems, {"user_id", "organization_id"}))
T0002 == Undo(S0002)

S0003 == Create(
    Table(Sess, {"id", "user_id", "created_at", "updated_at", "revoked_at",
                 "last_used_at", "user_agent", "ip_address"})
      \cup Fk(Sess, "user_id", Users, "NO ACTION") \cup Indexes(Sess, {"user_id"})
      \cup Table(Toks, {"id", "session_id", "token_hash", "expires_at",
                        "revoked_at", "created_at"})
      \cup Fk(Toks, "session_id", Sess, "NO ACTION")
      \cup Uniques(Toks, {"token_hash"}) \cup Indexes(Toks, {"session_id"}))
T0003 == Undo(S0003)

S0004 == Create(
    Table(Perms, {"id", "code", "description", "module", "is_system",
                  "created_at", "updated_at"})
      \cup Uniques(Perms, {"code"}) \cup Indexes(Perms, {"code"})
      \cup Table(Roles, Stamped \cup {"organization_id", "name", "slug", "is_system"})
      \cup Fk(Roles, "organization_id", Orgs, "NO ACTION")
      \cup Uniques(Roles, {"organization_slug"}) \cup Indexes(Roles, {"organization_id"})
      \cup Table(Grants, {"role_id", "permission_id"})
      \cup Fk(Grants, "permission_id", Perms, "NO ACTION")
      \cup Fk(Grants, "role_id", Roles, "NO ACTION") \cup Indexes(Grants, {"permission_id"})
      \cup Columns(Mems, {"role_id"}) \cup Fk(Mems, "role_id", Roles, "NO ACTION")
      \cup Indexes(Mems, {"role_id"}))
T0004 == Undo(S0004)

S0005 == Change(Indexes(Perms, {"code"}), {})
T0005 == Undo(S0005)

S0006 == Create(
    Table(Audit, {"id", "organization_id", "user_id", "session_id", "action",
                  "resource_type", "resource_id", "old_values", "new_values",
                  "metadata", "ip_address", "user_agent", "created_at"})
      \cup Indexes(Audit, {"organization_id", "user_id", "session_id", "action",
                           "resource_type", "created_at"}))
T0006 == Undo(S0006)

S0007 == Change(
    Columns(Sess, {"last_used_at"}),
    Columns(Sess, {"device_name", "client_fingerprint", "last_activity_at"})
      \cup Columns(Toks, {"family_id", "rotated_from", "used_at", "revoked_reason",
                          "reuse_detected_at", "created_by_ip", "created_by_user_agent"})
      \cup Fk(Toks, "rotated_from", Toks, "SET NULL")
      \cup Indexes(Toks, {"family_id", "active_by_session"}))
T0007 == Undo(S0007)

S0008 == Create(
    Table(Groups, {"id", "code", "name", "module", "description", "sort_order",
                   "is_system", "created_at", "updated_at"})
      \cup Uniques(Groups, {"code"}) \cup Indexes(Groups, {"module"}))
T0008 == Undo(S0008)

S0009 == Change(
    Columns(Perms, {"module"}),
    Columns(Perms, {"group_id"}) \cup Fk(Perms, "group_id", Groups, "RESTRICT")
      \cup Indexes(Perms, {"group_id"}))
T0009 == Undo(S0009)

S0010 == Change(
    Columns(Roles, {"organization_id"}) \cup Indexes(Roles, {"organization_id"})
      \cup Uniques(Roles, {"organization_slug"})
      \cup Fk(Roles, "organization_id", Orgs, "NO ACTION"),
    Columns(Roles, {"scope"}) \cup Uniques(Roles, {"scope_slug"})
      \cup Indexes(Roles, {"scope"}))
T0010 == Undo(S0010)

S0011 == Create(
    Table(OrgRoles, Stamped \cup {"organization_id", "role_id", "status", "is_default"})
      \cup Fk(OrgRoles, "organization_id", Orgs, "CASCADE")
      \cup Fk(OrgRoles, "role_id", Roles, "RESTRICT")
      \cup Uniques(OrgRoles, {"organization_role"})
      \cup Indexes(OrgRoles, {"organization_id"}))
T0011 == Undo(S0011)

S0012 == Create(
    Table(UserRoles, {"id", "user_id", "organization_id", "organization_role_id",
                      "status", "assigned_at", "revoked_at", "assigned_by", "created_at"})
      \cup Fk(UserRoles, "user_id", Users, "CASCADE")
      \cup Fk(UserRoles, "organization_id", Orgs, "CASCADE")
      \cup Fk(UserRoles, "organization_role_id", OrgRoles, "RESTRICT")
      \cup Fk(UserRoles, "assigned_by", Users, "SET NULL")
      \cup Indexes(UserRoles, {"user_org", "organization_role_id"}))
T0012 == Undo(S0012)

S0013 == Create(Indexes(Grants, {"role_id"}) \cup Indexes(OrgRoles, {"active"})
                  \cup Indexes(UserRoles, {"effective"}))
T0013 == Undo(S0013)

S0014 == Create(Columns(Mems, {"invited_at", "joined_at"}))
T0014 == Undo(S0014)

S0015 == Create(
    Table(Invites, {"id", "organization_id", "email", "token_hash",
                    "invited_by_user_id", "expires_at", "accepted_at", "revoked_at",
                    "created_at"})
      \cup Fk(Invites, "organization_id", Orgs, "CASCADE")
      \cup Fk(Invites, "invited_by_user_id", Users, "RESTRICT")
      \cup Uniques(Invites, {"token_hash"})
      \cup Indexes(Invites, {"organization_id", "pending_by_org"}))
T0015 == Undo(S0015)

(* Each piece is dropped only when the inspector finds it.                     *)
S0016(s) == Change(
    s \cap (Columns(Mems, {"role_id"}) \cup Indexes(Mems, {"role_id"})
              \cup Fk(Mems, "role_id", Roles, "NO ACTION")),
    Indexes(Mems, {"org_effective"}))
T0016(s) == Change(
    Indexes(Mems, {"org_effective"}),
    IF Columns(Mems, {"role_id"}) \subseteq s THEN {}
    ELSE Columns(Mems, {"role_id"}) \cup Indexes(Mems, {"role_id"})
           \cup Fk(Mems, "role_id", Roles, "NO ACTION"))

S0017 == Change(
    Indexes(Audit, {"organization_id", "created_at", "action", "resource_type"}),
    Indexes(Audit, {"org_created_id_desc", "org_action_created", "org_user_created",
                    "org_resource_type_created"}))
T0017 == Undo(S0017)

S0019 == Create(
    Table(Settings, {"id", "scope", "organization_id", "key", "value", "created_at",
                     "updated_at"})
      \cup Checks(Settings, {"scope", "scope_org"})
      \cup Indexes(Settings, {"scope_org", "key"})
      \cup Uniques(Settings, {"system_key", "org_key"}))
T0019 == Undo(S0019)

S0021 == Create(
    Table(Jobs, {"id", "organization_id", "job_type", "payload", "status",
                 "idempotency_key", "attempt_count", "max_attempts", "result",
                 "failure_reason", "failure_code", "created_at", "started_at",
                 "finished_at", "updated_at"})
      \cup Checks(Jobs, {"status", "attempt_count", "max_attempts", "attempt_lte_max"})
      \cup Indexes(Jobs, {"organization_id", "status_created"})
      \cup Uniques(Jobs, {"org_type_idempotency"}))
T0021 == Undo(S0021)

S0023 == Create(
    Table(Notes, {"id", "organization_id", "channel", "recipient", "subject", "body",
                  "template_key", "variables", "status", "idempotency_key", "job_id",
                  "failure_reason", "failure_code", "created_at", "queued_at",
                  "sent_at", "failed_at", "suppressed_at", "updated_at"})
      \cup Checks(Notes, {"channel: email", "status"})
      \cup Indexes(Notes, {"organization_id", "status_created", "job_id"})
      \cup Uniques(Notes, {"org_idempotency"}))
T0023 == Undo(S0023)

(* Every foreign key there is gets ON DELETE CASCADE.                          *)
ReplaceFk(f) == <<"fk", f[2], f[3], f[4], "CASCADE">>
S0039(s) == Change({f \in Fks(s) : f # ReplaceFk(f)}, {ReplaceFk(f) : f \in Fks(s)} \ s)

FksOf(s, t, c) == {f \in Fks(s) : f[2] = t /\ f[3] = c}
RoleColumns == {"role_kind", "organization_id", "source_template_role_id",
                "template_version", "source_template_version",
                "permissions_customized", "is_assignable", "is_protected",
                "auto_include_new_permissions"}
LifecycleColumns == {"lifecycle_state", "is_assignable", "lifecycle_reason",
                     "lifecycle_changed_at", "lifecycle_changed_by"}
ExclusionTable ==
    Table(Excls, {"role_id", "permission_id"})
      \cup Fk(Excls, "role_id", Roles, "CASCADE")
      \cup Fk(Excls, "permission_id", Perms, "CASCADE")

S0046(s) == Change(
    FksOf(s, UserRoles, "organization_role_id") \cup {<<"table", OrgRoles>>}
      \cup Columns(UserRoles, {"organization_role_id"})
      \cup Indexes(UserRoles, {"organization_role_id"}) \cup Uniques(Roles, {"scope_slug"}),
    Columns(Roles, RoleColumns) \cup Fk(Roles, "organization_id", Orgs, "CASCADE")
      \cup Fk(Roles, "source_template_role_id", Roles, "SET NULL")
      \cup Columns(Perms, LifecycleColumns)
      \cup Fk(Perms, "lifecycle_changed_by", Users, "SET NULL")
      \cup Columns(UserRoles, {"role_id"}) \cup Fk(UserRoles, "role_id", Roles, "CASCADE")
      \cup Indexes(UserRoles, {"role_id"}) \cup ExclusionTable
      \cup Uniques(Roles, {"global_slug", "organization_slug"}))
(* organization_roles comes back without the indexes of 0011 and 0013.         *)
T0046(s) == Change(
    FksOf(s, UserRoles, "role_id") \cup Columns(UserRoles, {"role_id"})
      \cup Indexes(UserRoles, {"role_id"}) \cup {<<"table", Excls>>}
      \cup Uniques(Roles, {"global_slug", "organization_slug"})
      \cup Columns(Roles, RoleColumns) \cup FksOf(s, Roles, "organization_id")
      \cup FksOf(s, Roles, "source_template_role_id")
      \cup Columns(Perms, LifecycleColumns) \cup FksOf(s, Perms, "lifecycle_changed_by"),
    Table(OrgRoles, Stamped \cup {"organization_id", "role_id", "status", "is_default"})
      \cup Fk(OrgRoles, "organization_id", Orgs, "CASCADE")
      \cup Fk(OrgRoles, "role_id", Roles, "CASCADE")
      \cup Uniques(OrgRoles, {"organization_role"})
      \cup Columns(UserRoles, {"organization_role_id"})
      \cup Fk(UserRoles, "organization_role_id", OrgRoles, "CASCADE")
      \cup Indexes(UserRoles, {"organization_role_id"}) \cup Uniques(Roles, {"scope_slug"}))

S0047 == Create(Checks(Roles, {"kind_scope"}))
T0047 == Undo(S0047)

S0057(s) == Change(
    {<<"table", t>> : t \in {Invites, Mems} \cap Tables(s)},
    Columns(Users, {"organization_id"}) \cup Fk(Users, "organization_id", Orgs, "CASCADE")
      \cup Indexes(Users, {"organization_id"}))
(* The invites come back without pending_by_org.                               *)
T0057 == Change(
    Columns(Users, {"organization_id"}) \cup Fk(Users, "organization_id", Orgs, "CASCADE")
      \cup Indexes(Users, {"organization_id"}),
    Table(Mems, Stamped \cup {"user_id", "organization_id", "status", "invited_at",
                              "joined_at"})
      \cup Fk(Mems, "user_id", Users, "CASCADE") \cup Fk(Mems, "organization_id", Orgs, "CASCADE")
      \cup Uniques(Mems, {"user_organization"})
      \cup Indexes(Mems, {"user_id", "organization_id", "org_effective"})
      \cup Table(Invites, {"id", "organization_id", "email", "token_hash",
                           "invited_by_user_id", "expires_at", "accepted_at",
                           "revoked_at", "created_at"})
      \cup Fk(Invites, "organization_id", Orgs, "CASCADE")
      \cup Fk(Invites, "invited_by_user_id", Users, "CASCADE")
      \cup Uniques(Invites, {"token_hash"}) \cup Indexes(Invites, {"organization_id"}))

S0055 == Create(Columns(Perms, {"permission_scope"}) \cup Checks(Perms, {"scope"}))
T0055 == Undo(S0055)

S0063 == Create(
    Table(Actions, {"id", "user_id", "purpose", "token_hash", "expires_at",
                    "consumed_at", "invalidated_at", "created_at"})
      \cup Fk(Actions, "user_id", Users, "CASCADE")
      \cup Uniques(Actions, {"token_hash"}) \cup Indexes(Actions, {"user_purpose"}))
T0063 == Undo(S0063)

(* Mutant of S0064: the notifications' index is forgotten.                    *)
S0064Jobs == Create(Uniques(Jobs, {"platform_type_idempotency"}))
S0064 == Create(Uniques(Jobs, {"platform_type_idempotency"})
                  \cup Uniques(Notes, {"platform_idempotency"}))
T0064 == Undo(S0064)

S0073 == Change(Checks(Notes, {"channel: email"}), Checks(Notes, {"channel: email, in_app"}))
T0073 == Undo(S0073)

-------------------------------------------------------------------------------
(* What the ORM models declare: the tables the application reads and writes.    *)
UserModel == Table(Users, Stamped \cup {"email", "password_hash", "status",
                                        "is_super_admin", "organization_id"})
    \cup Uniques(Users, {"email"}) \cup Fk(Users, "organization_id", Orgs, "CASCADE")
OrganizationModel == Table(Orgs, Stamped \cup {"name", "slug", "status"})
    \cup Uniques(Orgs, {"slug"})
SessionModel == Table(Sess, {"id", "user_id", "created_at", "updated_at", "revoked_at",
        "last_activity_at", "user_agent", "ip_address", "device_name",
        "client_fingerprint"})
    \cup Fk(Sess, "user_id", Users, "")
RefreshTokenModel == Table(Toks, {"id", "session_id", "token_hash", "family_id",
        "rotated_from", "used_at", "revoked_at", "revoked_reason",
        "reuse_detected_at", "created_by_ip", "created_by_user_agent", "expires_at",
        "created_at"})
    \cup Uniques(Toks, {"token_hash"}) \cup Fk(Toks, "session_id", Sess, "")
    \cup Fk(Toks, "rotated_from", Toks, "")
IdentityActionTokenModel == Table(Actions, {"id", "user_id", "purpose", "token_hash",
        "expires_at", "consumed_at", "invalidated_at", "created_at"})
    \cup Uniques(Actions, {"token_hash"}) \cup Fk(Actions, "user_id", Users, "CASCADE")
PermissionGroupModel == Table(Groups, {"id", "code", "name", "module", "description",
        "sort_order", "is_system", "created_at", "updated_at"})
    \cup Uniques(Groups, {"code"})
PermissionModel == Table(Perms, {"id", "group_id", "code", "description", "is_system",
        "lifecycle_state", "is_assignable", "permission_scope", "lifecycle_reason",
        "lifecycle_changed_at", "lifecycle_changed_by", "created_at", "updated_at"})
    \cup Uniques(Perms, {"code"}) \cup Fk(Perms, "group_id", Groups, "")
    \cup Fk(Perms, "lifecycle_changed_by", Users, "")
RoleModel == Table(Roles, Stamped \cup {"name", "slug", "scope", "is_system",
        "role_kind", "organization_id", "source_template_role_id",
        "template_version", "source_template_version", "permissions_customized",
        "is_assignable", "is_protected", "auto_include_new_permissions"})
    \cup Fk(Roles, "organization_id", Orgs, "")
    \cup Fk(Roles, "source_template_role_id", Roles, "")
RolePermissionModel == Table(Grants, {"role_id", "permission_id"})
    \cup Fk(Grants, "role_id", Roles, "") \cup Fk(Grants, "permission_id", Perms, "")
RoleTemplateExclusionModel == Table(Excls, {"role_id", "permission_id"})
    \cup Fk(Excls, "role_id", Roles, "") \cup Fk(Excls, "permission_id", Perms, "")
UserRoleModel == Table(UserRoles, {"id", "user_id", "organization_id", "role_id",
        "status", "assigned_at", "revoked_at", "assigned_by", "created_at"})
    \cup Fk(UserRoles, "user_id", Users, "") \cup Fk(UserRoles, "organization_id", Orgs, "")
    \cup Fk(UserRoles, "role_id", Roles, "") \cup Fk(UserRoles, "assigned_by", Users, "")
AuditLogModel == Table(Audit, {"id", "organization_id", "user_id", "session_id",
        "action", "resource_type", "resource_id", "old_values", "new_values",
        "metadata", "ip_address", "user_agent", "created_at"})
PlatformSettingModel == Table(Settings, {"id", "scope", "organization_id", "key",
        "value", "created_at", "updated_at"})
    \cup Checks(Settings, {"scope", "scope_org"})
    \cup Uniques(Settings, {"system_key", "org_key"})
PlatformJobModel == Table(Jobs, {"id", "organization_id", "job_type", "payload",
        "status", "idempotency_key", "attempt_count", "max_attempts", "result",
        "failure_reason", "failure_code", "created_at", "started_at", "finished_at",
        "updated_at"})
    \cup Checks(Jobs, {"status", "attempt_count", "max_attempts", "attempt_lte_max"})
    \cup Uniques(Jobs, {"org_type_idempotency", "platform_type_idempotency"})
PlatformNotificationModel == Table(Notes, {"id", "organization_id", "channel",
        "recipient", "subject", "body", "template_key", "variables", "status",
        "idempotency_key", "job_id", "failure_reason", "failure_code", "created_at",
        "queued_at", "sent_at", "failed_at", "suppressed_at", "updated_at"})
    \cup Checks(Notes, {"channel: email, in_app", "status"})
    \cup Uniques(Notes, {"org_idempotency", "platform_idempotency"})
Models ==
    UserModel \cup OrganizationModel \cup SessionModel \cup RefreshTokenModel
      \cup IdentityActionTokenModel \cup PermissionGroupModel \cup PermissionModel
      \cup RoleModel \cup RolePermissionModel \cup RoleTemplateExclusionModel
      \cup UserRoleModel \cup AuditLogModel \cup PlatformSettingModel
      \cup PlatformJobModel \cup PlatformNotificationModel

(* A database the application can run on: the same tables and columns, every    *)
(* reference to the same table and every uniqueness and check it counts on.     *)
OfKind(s, k) == {i \in s : i[1] = k}
Targets(s)   == {<<f[2], f[3], f[4]>> : f \in Fks(s)}
Serves(s) ==
    /\ \A k \in {"table", "column"} : OfKind(s, k) = OfKind(Models, k)
    /\ OfKind(s, "check") = OfKind(Models, "check") \cup Checks(Perms, {"scope"})
                              \cup Checks(Roles, {"kind_scope"})
    /\ OfKind(Models, "unique") \subseteq OfKind(s, "unique")
    /\ Targets(s) = Targets(Models)
===============================================================================
