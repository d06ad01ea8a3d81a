----------------------- MODULE MCOrganizationLifecycle -----------------------
(* Small instances of OrganizationLifecycle.                                *)
EXTENDS OrganizationLifecycle, TLC

CONSTANTS o1, o2, r1, r2, r3, r4

Requests == Permutations(Request)
=============================================================================
