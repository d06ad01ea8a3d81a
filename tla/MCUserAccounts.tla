---------------------------- MODULE MCUserAccounts ----------------------------
(* Small instances of UserAccounts.                                         *)
EXTENDS UserAccounts, TLC

CONSTANTS r1, r2, r3, sales, admin, home, ann, root, bob, eve

NoChange == [super |-> None, status |-> None, password |-> FALSE, role |-> None]

(* Promotion, demotion, deactivation, a way in and another role.            *)
Changes == {[NoChange EXCEPT !.super = TRUE],
            [NoChange EXCEPT !.super = FALSE, !.role = sales],
            [NoChange EXCEPT !.status = "inactive"],
            [NoChange EXCEPT !.status = "active", !.password = TRUE],
            [NoChange EXCEPT !.role = admin]}

(* Requests are alike, and so are the two super admins.                     *)
Alike == {p @@ q : p \in Permutations(Request), q \in Permutations(Founder)}
=============================================================================
