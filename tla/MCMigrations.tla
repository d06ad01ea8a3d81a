----------------------------- MODULE MCMigrations -----------------------------
(* Instances of Migrations for TLC.                                             *)
EXTENDS Migrations

MCStops == {0, 10, 15, 45, 47, 52, 58, 66, 73}
MCPeople == {Owner, "ann@example.com", "dev-sales@example.com"}
MCJoins == {<<<<"acme", "active">>>>, <<<<"acme", "suspended">>>>,
            <<<<"acme", "active">>, <<"beta", "active">>>>,
            <<<<"acme", "active">>, <<"beta", "suspended">>>>}
MCEditCodes == {<<"fair_crm.todos", "archive">>, <<"fair_crm.todos", "delete">>,
                <<"identity.users", "update">>, <<"fair_crm.email_accounts", "update">>}
===============================================================================
