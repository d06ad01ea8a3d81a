------------------------------ MODULE JobContract ------------------------------
(***************************************************************************)
(* What the job queue promises to a client and to a handler, without       *)
(* sessions, locks or batches: a job is settled at most once, it is        *)
(* completed only after its handler took effect, its handler never takes   *)
(* effect again once the job is settled, and every unsuccessful attempt    *)
(* that is remembered uses up one attempt.                                 *)
(***************************************************************************)
EXTENDS Naturals

CONSTANTS Job, LimitOf

VARIABLES
    status,     \* the status a client reads
    attempts,   \* the attempts a client reads
    delivered   \* effects of the handler so far: 0, 1 or 2 = many

vars == <<status, attempts, delivered>>

Settled == {"completed", "failed"}

Init ==
    /\ status = [j \in Job |-> "absent"]
    /\ attempts = [j \in Job |-> 0]
    /\ delivered = [j \in Job |-> 0]

(* The handler of an unsettled job takes effect.  The job may be one whose  *)
(* enqueueing is not yet visible.                                           *)
Deliver(j) ==
    /\ status[j] \notin Settled
    /\ delivered' = [delivered EXCEPT ![j] = IF @ = 2 THEN 2 ELSE @ + 1]
    /\ UNCHANGED <<status, attempts>>

(* How one transaction may change one job, seen from outside.               *)
Untouched(j) == status'[j] = status[j] /\ attempts'[j] = attempts[j]

Accepted(j) ==
    /\ status[j] = "absent"
    /\ status'[j] = "pending"
    /\ attempts'[j] = 0

Attempted(j) ==
    /\ status[j] \notin Settled
    /\ attempts'[j] = attempts[j] + 1
    /\ attempts'[j] <= LimitOf[j]
    /\ \/ status'[j] \in {"pending", "failed"}
       \/ status'[j] = "completed" /\ delivered[j] > 0

(* A transaction becomes visible as a whole.                                *)
Commit ==
    /\ \A j \in Job : Untouched(j) \/ Accepted(j) \/ Attempted(j)
    /\ status' \in [Job -> Settled \cup {"absent", "pending"}]
    /\ attempts' \in [Job -> Nat]
    /\ UNCHANGED delivered

Next == (\E j \in Job : Deliver(j)) \/ Commit

Spec == Init /\ [][Next]_vars
=============================================================================
