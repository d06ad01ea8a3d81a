--------------------------- MODULE MCSessionTokens ---------------------------
(* Small instances of SessionTokens: one member of the organisation with    *)
(* an old session, and three or four requests.                              *)
EXTENDS SessionTokens, TLC

CONSTANTS r1, r2, r3, r4, s0, s1, alice, root, none

ThreeRequests == {r1, r2, r3}
FourRequests  == {r1, r2, r3, r4}
MCUserOf == [i \in FourRequests \cup {s0, s1} |-> IF i = s1 THEN root ELSE alice]
OldUserOf == [i \in Request \cup Old |-> MCUserOf[i]]

(* Two refreshes beside a logout and a password change.                     *)
RotateKind == [r \in Request |->
    (r1 :> "refresh" @@ r2 :> "refresh" @@ r3 :> "logout" @@ r4 :> "password")[r]]
(* A suspension beside a login and refreshes, of the member and of root.    *)
SuspendKind == [r \in Request |->
    (r1 :> "suspend" @@ r2 :> "refresh" @@ r3 :> "login" @@ r4 :> "refresh")[r]]
=============================================================================
