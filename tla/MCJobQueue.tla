------------------------------ MODULE MCJobQueue ------------------------------
(* Small instances of JobQueue: three requests beside one dispatcher.      *)
EXTENDS JobQueue, TLC

CONSTANTS r1, r2, r3, r4, k1, noKey

MCRequest == {r1, r2, r3}
MCType == {"echo", "dispatch", "suspended", "unknown"}

(* r1 and r2 race for one key with one payload and r4 with another; r3, the *)
(* security signal, uses the same key under its own type.                   *)
RaceRequest == MCRequest \cup {r4}
RaceType    == (r1 :> "echo" @@ r2 :> "echo" @@ r3 :> "suspended" @@ r4 :> "echo")
RaceKey     == [r \in RaceRequest |-> k1]
RacePayload == [r \in RaceRequest |-> IF r = r4 THEN "b" ELSE "a"]
RaceLimit   == (r1 :> 2 @@ r2 :> 2 @@ r3 :> 1 @@ r4 :> 1)

(* Every way to be settled: a job that completes or is retried, one its     *)
(* handler gives up, one nobody handles.                                    *)
MixedType    == (r1 :> "echo" @@ r2 :> "dispatch" @@ r3 :> "unknown")
MixedKey     == [r \in MCRequest |-> noKey]
MixedPayload == [r \in MCRequest |-> "a"]
MixedLimit   == (r1 :> 2 @@ r2 :> 1 @@ r3 :> 1)

(* A security signal in front of an ordinary job.                           *)
SignalType  == (r1 :> "suspended" @@ r2 :> "echo" @@ r3 :> "echo")
SignalKey   == (r1 :> noKey @@ r2 :> k1 @@ r3 :> noKey)
SignalLimit == (r1 :> 2 @@ r2 :> 1 @@ r3 :> 1)
=============================================================================
