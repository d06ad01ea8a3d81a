----------------------------- MODULE MCRoleGrants -----------------------------
(* Small instances of RoleGrants: a template, a role derived from it and a  *)
(* role that includes every permission.                                     *)
EXTENDS RoleGrants, TLC

CONSTANTS r1, r2, r3, template, team, everything, read, write

Requests == Permutations(Request)
=============================================================================
