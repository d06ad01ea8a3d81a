---------------------------- MODULE JobQueueProofs ----------------------------
(***************************************************************************)
(* Safety of JobQueue for every set of requests and dispatchers, every     *)
(* batch size, and both orders of commit and answer.                       *)
(*                                                                         *)
(* The safety properties are not inductive: they speak of committed rows,  *)
(* and what is committed next is decided by the uncommitted versions and   *)
(* by who holds which row.  IInv adds those.                               *)
(***************************************************************************)
EXTENDS JobQueue, TLAPS

(* A row is live once it is committed or some session has inserted it.      *)
Live(r) == row[r].status # "absent" \/ \E s \in Session : r \in held[s]

(* What the attempt counter of any version of a row may be, once no handler *)
(* of it is under way.                                                      *)
RestingRow(r, v) ==
    /\ v.status # "running"
    /\ v.attempts <= LimitOf[r]
    /\ v.status = "pending" /\ ~Persistent(r) => v.attempts < LimitOf[r]
    /\ v.status = "failed" /\ v.reason = "handler_error"
          => v.attempts = LimitOf[r]

(* A request that has not inserted yet left no trace.                       *)
NotInserted ==
    \A r \in Request :
        pc[r] \in {"ready", "insert"} => ~Live(r) /\ held[r] = {}

(* A session claims only between transactions and holds what it will run.   *)
BatchShape ==
    \A s \in Session :
        /\ todo[s] \subseteq held[s]
        /\ pc[s] # "batch" => todo[s] = {}

(* A claimed row whose handler has not run yet is running and inside its    *)
(* budget; every other uncommitted version is fit to be committed.          *)
WorkFits ==
    \A s \in Session : \A r \in held[s] :
        /\ work[s][r].status # "absent"
        /\ r \in todo[s] => /\ work[s][r].status = "running"
                            /\ work[s][r].attempts <= LimitOf[r]
        /\ r \notin todo[s] => RestingRow(r, work[s][r])

(* Nobody holds a settled row.                                              *)
HeldIsOpen ==
    \A s \in Session : \A r \in held[s] : row[r].status \in {"absent", "pending"}

CommittedRests == \A r \in Request : RestingRow(r, row[r])

(* The idempotency key of a scope belongs to one live row.                  *)
OneLivePerScope ==
    \A q, r \in Request : q # r /\ SameScope(q, r) => ~(Live(q) /\ Live(r))

SafeInv ==
    /\ ExclusiveClaim
    /\ NotInserted
    /\ BatchShape
    /\ WorkFits
    /\ HeldIsOpen
    /\ CommittedRests
    /\ OneLivePerScope

IInv == TypeOK /\ SafeInv

-----------------------------------------------------------------------------
(* Types.                                                                   *)

LEMMA VersionTypes ==
    ASSUME NEW r \in Request, NEW v \in Row
    PROVE  /\ NoRow \in Row
           /\ NewRow \in Row
           /\ Started(v) \in Row
           /\ AfterError(r, v) \in Row
           /\ AfterReturn(r, v) \in Row
           /\ NotHandled(v) \in Row
<1>0. {"absent", "pending", "running"} \subseteq Status /\ "none" \in Reason
  BY DEF Status, Terminal, Reason
<1>1. NoRow \in Row /\ NewRow \in Row
  BY <1>0 DEF Row, NoRow, NewRow
<1>2. Started(v) \in Row
  <2>1. v.attempts + 1 \in Nat BY DEF Row
  <2> QED BY <1>0, <2>1 DEF Row, Started
<1>3. AfterError(r, v) \in Row
  BY DEF Row, Status, Terminal, Reason, AfterError
<1>4. AfterReturn(r, v) \in Row
  BY DEF Row, Status, Terminal, Reason, AfterReturn
<1>5. NotHandled(v) \in Row
  BY DEF Row, Status, Terminal, Reason, NotHandled
<1> QED BY <1>1, <1>2, <1>3, <1>4, <1>5

LEMMA SeenType ==
    ASSUME TypeOK, NEW s \in Session, NEW r \in Request
    PROVE  Seen(s, r) \in Row
BY DEF TypeOK, Seen

LEMMA CommitTypes ==
    ASSUME TypeOK, NEW s \in Session, NEW next, CommitTo(s, next)
    PROVE  /\ row' \in [Request -> Row]
           /\ held' \in [Session -> SUBSET Request]
           /\ work' \in [Session -> [Request -> Row]]
           /\ todo' \in [Session -> SUBSET Request]
BY SeenType, VersionTypes DEF TypeOK, CommitTo, Forget

LEMMA RollbackTypes ==
    ASSUME TypeOK, NEW s \in Session, NEW next, RollbackTo(s, next)
    PROVE  /\ row' \in [Request -> Row]
           /\ held' \in [Session -> SUBSET Request]
           /\ work' \in [Session -> [Request -> Row]]
           /\ todo' \in [Session -> SUBSET Request]
BY VersionTypes DEF TypeOK, RollbackTo, Forget

LEMMA SaveTypes ==
    ASSUME TypeOK, NEW s \in Session, NEW r \in Request, NEW new \in Row,
           Save(s, r, new)
    PROVE  /\ row' \in [Request -> Row]
           /\ held' \in [Session -> SUBSET Request]
           /\ work' \in [Session -> [Request -> Row]]
           /\ todo' \in [Session -> SUBSET Request]
           /\ pc' = pc
BY DEF TypeOK, Save

LEMMA DeliverTypes ==
    ASSUME TypeOK, NEW r \in Request, Deliver(r)
    PROVE  delivered' \in [Request -> 0..2]
<1>1. delivered[r] \in {0, 1, 2}
  BY DEF TypeOK
<1>2. (IF delivered[r] = 2 THEN 2 ELSE delivered[r] + 1) \in 0..2
  BY <1>1
<1> QED BY <1>2 DEF TypeOK, Deliver

Location == {"ready", "insert", "inserted", "background", "idle", "batch", "done"}

LEMMA NextTypes == TypeOK /\ [Next]_vars => TypeOK'
<1> SUFFICES ASSUME TypeOK, [Next]_vars PROVE TypeOK'
  OBVIOUS
<1> USE DEF Session
<1>1. ASSUME NEW r \in Request, Lookup(r) PROVE TypeOK'
  BY <1>1 DEF Lookup, TypeOK
<1>2. ASSUME NEW r \in Request, Insert(r) PROVE TypeOK'
  <2>1. CASE Duplicate(r)
    <3>1. RollbackTo(r, "done") BY <1>2, <2>1 DEF Insert
    <3>2. pc' \in [Session -> Location]
      BY <3>1 DEF RollbackTo, TypeOK, Location
    <3> QED BY <1>2, <2>1, <3>1, <3>2, RollbackTypes DEF Insert, TypeOK, Location
  <2>2. CASE ~Duplicate(r)
    <3>1. held' \in [Session -> SUBSET Request]
      BY <1>2, <2>2 DEF Insert, TypeOK
    <3>2. work' \in [Session -> [Request -> Row]]
      <4>1. [work[r] EXCEPT ![r] = NewRow] \in [Request -> Row]
        BY VersionTypes DEF TypeOK
      <4> QED BY <1>2, <2>2, <4>1 DEF Insert, TypeOK
    <3>3. created' \in [Request -> Nat] /\ clock' \in Nat
      BY <1>2, <2>2 DEF Insert, TypeOK
    <3>4. pc' \in [Session -> Location]
      BY <1>2, <2>2 DEF Insert, TypeOK, Location
    <3> QED BY <1>2, <2>2, <3>1, <3>2, <3>3, <3>4 DEF Insert, TypeOK, Location
  <2> QED BY <2>1, <2>2
<1>3. ASSUME NEW r \in Request, Answer(r) PROVE TypeOK'
  <2> DEFINE next == IF r \in Batching THEN "background" ELSE "done"
  <2>1. CASE CommitsFirst(r)
    <3>1. CommitTo(r, next) BY <1>3, <2>1 DEF Answer
    <3>2. pc' \in [Session -> Location]
      BY <3>1 DEF CommitTo, TypeOK, Location
    <3> QED BY <1>3, <3>1, <3>2, CommitTypes DEF Answer, TypeOK, Location
  <2>2. CASE ~CommitsFirst(r)
    BY <1>3, <2>2 DEF Answer, TypeOK
  <2> QED BY <2>1, <2>2
<1>4. ASSUME NEW s \in Session, Claim(s) PROVE TypeOK'
  <2>1. PICK B \in SUBSET Request :
          IF ClaimAllowed(s, B)
          THEN /\ held' = [held EXCEPT ![s] = @ \cup B]
               /\ work' = [work EXCEPT ![s] =
                             [r \in Request |-> IF r \in B THEN Started(Seen(s, r))
                                                           ELSE @[r]]]
               /\ todo' = [todo EXCEPT ![s] = B]
               /\ pc' = [pc EXCEPT ![s] = "batch"]
               /\ UNCHANGED row
          ELSE RollbackTo(s, Rest(s))
    BY <1>4 DEF Claim
  <2>2. CASE ClaimAllowed(s, B)
    <3>1. [r \in Request |-> IF r \in B THEN Started(Seen(s, r)) ELSE work[s][r]]
            \in [Request -> Row]
      BY SeenType, VersionTypes DEF TypeOK
    <3>2. work' \in [Session -> [Request -> Row]]
      BY <2>1, <2>2, <3>1 DEF TypeOK
    <3>3. /\ held' \in [Session -> SUBSET Request]
          /\ todo' \in [Session -> SUBSET Request]
      <4>1. held[s] \cup B \in SUBSET Request BY DEF TypeOK
      <4>2. /\ held' = [held EXCEPT ![s] = held[s] \cup B]
            /\ todo' = [todo EXCEPT ![s] = B]
        BY <2>1, <2>2
      <4> QED BY <4>1, <4>2 DEF TypeOK
    <3>4. pc' \in [Session -> Location]
      BY <2>1, <2>2 DEF TypeOK, Location
    <3> QED BY <1>4, <2>1, <2>2, <3>2, <3>3, <3>4 DEF Claim, TypeOK, Location
  <2>3. CASE ~ClaimAllowed(s, B)
    <3>1. RollbackTo(s, Rest(s)) BY <2>1, <2>3
    <3>2. pc' \in [Session -> Location]
      BY <3>1 DEF RollbackTo, TypeOK, Location, Rest
    <3> QED BY <1>4, <3>1, <3>2, RollbackTypes DEF Claim, TypeOK, Location
  <2> QED BY <2>2, <2>3
<1>5. ASSUME NEW s \in Session, NEW r \in Request, Run(s, r) PROVE TypeOK'
  <2>0. work[s][r] \in Row BY DEF TypeOK
  <2>1. CASE RunUnhandled(s, r)
    BY <2>0, <2>1, VersionTypes, SaveTypes DEF RunUnhandled, TypeOK
  <2>2. CASE RunReturns(s, r)
    <3>1. Save(s, r, AfterReturn(r, work[s][r])) /\ AfterReturn(r, work[s][r]) \in Row
      BY <2>0, <2>2, VersionTypes DEF RunReturns
    <3>2. delivered' \in [Request -> 0..2]
      BY <2>2, DeliverTypes DEF RunReturns
    <3> QED BY <2>2, <3>1, <3>2, SaveTypes DEF RunReturns, TypeOK
  <2>3. CASE RunRaises(s, r)
    <3>1. Save(s, r, AfterError(r, work[s][r])) /\ AfterError(r, work[s][r]) \in Row
      BY <2>0, <2>3, VersionTypes DEF RunRaises
    <3>2. delivered' \in [Request -> 0..2]
      BY <2>3, DeliverTypes DEF RunRaises, TypeOK
    <3> QED BY <2>3, <3>1, <3>2, SaveTypes DEF RunRaises, TypeOK
  <2>4. CASE RunRaisesUnusable(s, r)
    <3>1. RollbackTo(s, Rest(s)) BY <2>4 DEF RunRaisesUnusable
    <3>2. pc' \in [Session -> Location]
      BY <3>1 DEF RollbackTo, TypeOK, Location, Rest
    <3> QED BY <2>4, <3>1, <3>2, RollbackTypes
            DEF RunRaisesUnusable, TypeOK, Location
  <2> QED BY <1>5, <2>1, <2>2, <2>3, <2>4 DEF Run
<1>6. ASSUME NEW s \in Session, EndBatch(s) PROVE TypeOK'
  <2>1. CASE CommitTo(s, Rest(s))
    <3>1. pc' \in [Session -> Location]
      BY <2>1 DEF CommitTo, TypeOK, Location, Rest
    <3> QED BY <1>6, <2>1, <3>1, CommitTypes DEF EndBatch, TypeOK, Location
  <2>2. CASE RollbackTo(s, Rest(s))
    <3>1. pc' \in [Session -> Location]
      BY <2>2 DEF RollbackTo, TypeOK, Location, Rest
    <3> QED BY <1>6, <2>2, <3>1, RollbackTypes DEF EndBatch, TypeOK, Location
  <2> QED BY <1>6, <2>1, <2>2 DEF EndBatch
<1>7. ASSUME NEW s \in Session, Crash(s) PROVE TypeOK'
  <2>1. RollbackTo(s, Rest(s)) BY <1>7 DEF Crash
  <2>2. pc' \in [Session -> Location]
    BY <2>1 DEF RollbackTo, TypeOK, Location, Rest
  <2>3. crashes' \in 0..MaxCrashes
    BY <1>7, ConstantsAssumption DEF Crash, TypeOK
  <2> QED BY <1>7, <2>1, <2>2, <2>3, RollbackTypes DEF Crash, TypeOK, Location
<1>8. CASE ReceiverFlips
  BY <1>8 DEF ReceiverFlips, TypeOK
<1>9. CASE UNCHANGED vars
  BY <1>9 DEF vars, TypeOK
<1> QED
  BY <1>1, <1>2, <1>3, <1>4, <1>5, <1>6, <1>7, <1>8, <1>9
  DEF Next, RequestStep, BatchStep

(* Every variable of the queue keeps to its type: statuses stay within      *)
(* JobStatus, and sessions at the locations the code has.                   *)
THEOREM TypeCorrect == Spec => []TypeOK
<1>1. Init => TypeOK
  BY ConstantsAssumption, VersionTypes DEF Init, TypeOK, Session, NoRow, Row,
     Status, Reason, Terminal
<1> QED BY <1>1, NextTypes, PTL DEF Spec

-----------------------------------------------------------------------------
(* Safety.  One lemma for each way a transaction ends, one for a save.      *)

LEMMA CommitKeeps ==
    ASSUME IInv, NEW s \in Session, NEW next, todo[s] = {},
           next \notin {"ready", "insert", "batch"}, CommitTo(s, next)
    PROVE  SafeInv'
<1> USE DEF IInv, SafeInv
<1>1. \A t \in Session :
        /\ held'[t] = IF t = s THEN {} ELSE held[t]
        /\ todo'[t] = IF t = s THEN {} ELSE todo[t]
        /\ pc'[t] = IF t = s THEN next ELSE pc[t]
        /\ t # s => work'[t] = work[t]
  BY DEF CommitTo, Forget, TypeOK
<1>2. \A r \in Request : row'[r] = IF r \in held[s] THEN work[s][r] ELSE row[r]
  BY DEF CommitTo, Seen
<1>3. \A r \in Request : Live(r)' => Live(r)
  BY <1>1, <1>2 DEF Live
<1>4. ExclusiveClaim'
  BY <1>1 DEF ExclusiveClaim
<1>5. NotInserted'
  <2> SUFFICES ASSUME NEW r \in Request, pc'[r] \in {"ready", "insert"}
               PROVE  ~Live(r)' /\ held'[r] = {}
    BY DEF NotInserted
  <2>1. r # s /\ pc[r] = pc'[r] /\ r \in Session BY <1>1 DEF Session
  <2> QED BY <2>1, <1>1, <1>3 DEF NotInserted
<1>6. BatchShape'
  BY <1>1 DEF BatchShape
<1>7. WorkFits'
  BY <1>1 DEF WorkFits
<1>8. HeldIsOpen'
  BY <1>1, <1>2 DEF HeldIsOpen, ExclusiveClaim, TypeOK
<1>9. CommittedRests'
  BY <1>2 DEF CommittedRests, WorkFits
<1>10. OneLivePerScope'
  BY <1>3 DEF OneLivePerScope, SameScope
<1> QED BY <1>4, <1>5, <1>6, <1>7, <1>8, <1>9, <1>10

LEMMA RollbackKeeps ==
    ASSUME IInv, NEW s \in Session, NEW next,
           next \notin {"ready", "insert", "batch"}, RollbackTo(s, next)
    PROVE  SafeInv'
<1> USE DEF IInv, SafeInv
<1>1. \A t \in Session :
        /\ held'[t] = IF t = s THEN {} ELSE held[t]
        /\ todo'[t] = IF t = s THEN {} ELSE todo[t]
        /\ pc'[t] = IF t = s THEN next ELSE pc[t]
        /\ t # s => work'[t] = work[t]
  BY DEF RollbackTo, Forget, TypeOK
<1>2. row' = row
  BY DEF RollbackTo
<1>3. \A r \in Request : Live(r)' => Live(r)
  BY <1>1, <1>2 DEF Live
<1>4. ExclusiveClaim'
  BY <1>1 DEF ExclusiveClaim
<1>5. NotInserted'
  <2> SUFFICES ASSUME NEW r \in Request, pc'[r] \in {"ready", "insert"}
               PROVE  ~Live(r)' /\ held'[r] = {}
    BY DEF NotInserted
  <2>1. r # s /\ pc[r] = pc'[r] /\ r \in Session BY <1>1 DEF Session
  <2> QED BY <2>1, <1>1, <1>3 DEF NotInserted
<1>6. BatchShape'
  BY <1>1 DEF BatchShape
<1>7. WorkFits'
  BY <1>1 DEF WorkFits
<1>8. HeldIsOpen'
  BY <1>1, <1>2 DEF HeldIsOpen
<1>9. CommittedRests'
  BY <1>2 DEF CommittedRests
<1>10. OneLivePerScope'
  BY <1>3 DEF OneLivePerScope, SameScope
<1> QED BY <1>4, <1>5, <1>6, <1>7, <1>8, <1>9, <1>10

LEMMA SaveKeeps ==
    ASSUME IInv, NEW s \in Session, NEW r \in Request, r \in todo[s],
           NEW new \in Row, RestingRow(r, new), new.status # "absent",
           Save(s, r, new)
    PROVE  SafeInv'
<1> USE DEF IInv, SafeInv
<1>1. row' = row /\ held' = held /\ pc' = pc
  BY DEF Save
<1>2. \A t \in Session :
        /\ todo'[t] = IF t = s THEN todo[t] \ {r} ELSE todo[t]
        /\ \A q \in Request :
             work'[t][q] = IF t = s /\ q = r THEN new ELSE work[t][q]
  BY DEF Save, TypeOK
<1>3. \A q \in Request : Live(q)' <=> Live(q)
  BY <1>1 DEF Live
<1>4. ExclusiveClaim' /\ HeldIsOpen' /\ CommittedRests'
  BY <1>1 DEF ExclusiveClaim, HeldIsOpen, CommittedRests
<1>5. NotInserted' /\ OneLivePerScope'
  BY <1>1, <1>3 DEF NotInserted, OneLivePerScope, SameScope
<1>6. BatchShape'
  BY <1>1, <1>2 DEF BatchShape
<1>7. WorkFits'
  <2> SUFFICES ASSUME NEW t \in Session, NEW q \in held[t]
               PROVE  /\ work'[t][q].status # "absent"
                      /\ q \in todo'[t] => /\ work'[t][q].status = "running"
                                           /\ work'[t][q].attempts <= LimitOf[q]
                      /\ q \notin todo'[t] => RestingRow(q, work'[t][q])
    BY <1>1 DEF WorkFits
  <2>1. q \in Request BY DEF TypeOK
  <2>2. CASE t = s /\ q = r
    <3>1. work'[t][q] = new /\ q \notin todo'[t]
      BY <1>2, <2>1, <2>2
    <3>2. RestingRow(q, new) /\ new.status # "absent"
      BY <2>2
    <3> HIDE DEF IInv, SafeInv
    <3> QED BY <3>1, <3>2
  <2>3. CASE ~(t = s /\ q = r)
    <3>1. work'[t][q] = work[t][q] /\ (q \in todo'[t] <=> q \in todo[t])
      BY <1>2, <2>1, <2>3
    <3>2. WorkFits
      OBVIOUS
    <3> HIDE DEF IInv, SafeInv
    <3> QED BY <3>1, <3>2 DEF WorkFits
  <2> QED BY <2>2, <2>3
<1> QED BY <1>4, <1>5, <1>6, <1>7

LEMMA LookupKeeps ==
    ASSUME IInv, NEW r \in Request, Lookup(r)
    PROVE  SafeInv'
<1> USE DEF IInv, SafeInv
<1>1. UNCHANGED <<row, held, work, todo>>
  BY DEF Lookup
<1>2. /\ \A t \in Session : t # r => pc'[t] = pc[t]
      /\ pc[r] = "ready"
      /\ pc'[r] # "batch"
  BY DEF Lookup, TypeOK, Session
<1>3. \A q \in Request : Live(q)' <=> Live(q)
  BY <1>1 DEF Live
<1>4. ExclusiveClaim' /\ WorkFits' /\ HeldIsOpen' /\ CommittedRests'
  BY <1>1 DEF ExclusiveClaim, WorkFits, HeldIsOpen, CommittedRests
<1>5. NotInserted'
  BY <1>1, <1>2, <1>3 DEF NotInserted, Session
<1>6. BatchShape'
  BY <1>1, <1>2 DEF BatchShape
<1>7. OneLivePerScope'
  BY <1>3 DEF OneLivePerScope, SameScope
<1> QED BY <1>4, <1>5, <1>6, <1>7

LEMMA InsertKeeps ==
    ASSUME IInv, NEW r \in Request, Insert(r)
    PROVE  SafeInv'
<1> USE DEF IInv, SafeInv
<1>1. CASE Duplicate(r)
  <2>1. RollbackTo(r, "done") BY <1>1 DEF Insert
  <2> QED BY <2>1, RollbackKeeps DEF Session
<1>2. CASE ~Duplicate(r)
  <2>1. row' = row /\ todo' = todo
    BY <1>2 DEF Insert
  <2>2. \A t \in Session :
          /\ held'[t] = IF t = r THEN {r} ELSE held[t]
          /\ pc'[t] = IF t = r THEN "inserted" ELSE pc[t]
          /\ t # r => work'[t] = work[t]
    BY <1>2 DEF Insert, TypeOK, Session
  <2>3. work'[r][r] = NewRow
    BY <1>2 DEF Insert, TypeOK, Session
  <2>4. r \in Session /\ pc[r] = "insert" /\ ~Live(r) /\ held[r] = {}
    BY DEF Insert, NotInserted, Session
  <2>5. todo[r] = {}
    BY <2>4 DEF BatchShape
  <2>6. \A q \in Request : Live(q)' => Live(q) \/ q = r
    BY <2>1, <2>2 DEF Live
  <2>7. \A q \in Request : q # r /\ SameScope(q, r) => ~Live(q)
    BY <1>2, <2>4 DEF Insert, Locked, Duplicate, Live
  <2>8. ExclusiveClaim'
    BY <2>2, <2>4 DEF ExclusiveClaim, Live
  <2>9. NotInserted'
    BY <2>2, <2>4, <2>6 DEF NotInserted, Session
  <2>10. BatchShape'
    BY <2>1, <2>2, <2>4, <2>5 DEF BatchShape
  <2>11. WorkFits'
    <3>1. NewRow.status # "absent" /\ RestingRow(r, NewRow)
      BY ConstantsAssumption DEF NewRow, RestingRow
    <3> QED BY <2>1, <2>2, <2>3, <2>5, <3>1 DEF WorkFits
  <2>12. HeldIsOpen'
    BY <2>1, <2>2, <2>4 DEF HeldIsOpen, Live
  <2>13. CommittedRests'
    BY <2>1 DEF CommittedRests
  <2>14. OneLivePerScope'
    BY <2>6, <2>7 DEF OneLivePerScope, SameScope
  <2> QED BY <2>8, <2>9, <2>10, <2>11, <2>12, <2>13, <2>14
<1> QED BY <1>1, <1>2

LEMMA ClaimKeeps ==
    ASSUME IInv, NEW s \in Session, Claim(s)
    PROVE  SafeInv'
<1> USE DEF IInv, SafeInv
<1>1. PICK B \in SUBSET Request :
        /\ IsBatch(s, B)
        /\ IF ClaimAllowed(s, B)
           THEN /\ held' = [held EXCEPT ![s] = @ \cup B]
                /\ work' = [work EXCEPT ![s] =
                              [r \in Request |-> IF r \in B THEN Started(Seen(s, r))
                                                            ELSE @[r]]]
                /\ todo' = [todo EXCEPT ![s] = B]
                /\ pc' = [pc EXCEPT ![s] = "batch"]
                /\ UNCHANGED row
           ELSE RollbackTo(s, Rest(s))
  BY DEF Claim
<1>2. CASE ~ClaimAllowed(s, B)
  <2>1. RollbackTo(s, Rest(s)) BY <1>1, <1>2
  <2> QED BY <2>1, RollbackKeeps DEF Rest
<1>3. CASE ClaimAllowed(s, B)
  <2>1. row' = row
    BY <1>1, <1>3
  <2>2. \A t \in Session :
          /\ held'[t] = IF t = s THEN held[s] \cup B ELSE held[t]
          /\ todo'[t] = IF t = s THEN B ELSE todo[t]
          /\ pc'[t] = IF t = s THEN "batch" ELSE pc[t]
          /\ t # s => work'[t] = work[t]
    BY <1>1, <1>3 DEF TypeOK
  <2>3. \A r \in Request :
          work'[s][r] = IF r \in B THEN Started(Seen(s, r)) ELSE work[s][r]
    BY <1>1, <1>3 DEF TypeOK
  <2>4. \A r \in B : /\ r \in Request
                     /\ Seen(s, r).status = "pending"
                     /\ \A t \in Session \ {s} : r \notin held[t]
    BY <1>1 DEF IsBatch, Claimable, Locked
  <2>5. pc[s] # "batch" /\ todo[s] = {}
    BY DEF Claim, AtBatch, BatchShape
  <2>6. \A r \in B : Live(r)
    BY <2>4 DEF Seen, Live
  <2>7. \A r \in Request : Live(r)' <=> Live(r)
    BY <2>1, <2>2, <2>6 DEF Live
  <2>8. ExclusiveClaim'
    BY <2>2, <2>4 DEF ExclusiveClaim
  <2>9. NotInserted'
    <3> SUFFICES ASSUME NEW r \in Request, pc'[r] \in {"ready", "insert"}
                 PROVE  ~Live(r)' /\ held'[r] = {}
      BY DEF NotInserted
    <3>1. r # s /\ pc[r] = pc'[r] /\ r \in Session BY <2>2 DEF Session
    <3> QED BY <3>1, <2>2, <2>7 DEF NotInserted
  <2>10. BatchShape'
    BY <2>2 DEF BatchShape
  <2>11. WorkFits'
    <3> SUFFICES ASSUME NEW t \in Session, NEW r \in held'[t]
                 PROVE  /\ work'[t][r].status # "absent"
                        /\ r \in todo'[t] => /\ work'[t][r].status = "running"
                                             /\ work'[t][r].attempts <= LimitOf[r]
                        /\ r \notin todo'[t] => RestingRow(r, work'[t][r])
      BY DEF WorkFits
    <3>0. r \in Request BY <2>2 DEF TypeOK
    <3>1. CASE t # s
      BY <2>2, <3>1 DEF WorkFits
    <3>2. CASE t = s /\ r \in B
      <4>1. work'[t][r] = Started(Seen(s, r)) /\ r \in todo'[t]
        BY <2>2, <2>3, <2>4, <3>2
      <4>2. Seen(s, r) \in Row BY <3>0, SeenType
      <4>3. Seen(s, r).attempts + 1 <= LimitOf[r]
        BY <1>3, <3>2 DEF ClaimAllowed
      <4> QED BY <4>1, <4>2, <4>3 DEF Started, Row
    <3>3. CASE t = s /\ r \notin B
      BY <2>2, <2>3, <2>5, <3>0, <3>3 DEF WorkFits
    <3> QED BY <3>1, <3>2, <3>3
  <2>12. HeldIsOpen'
    BY <2>1, <2>2, <2>4 DEF HeldIsOpen, Seen
  <2>13. CommittedRests'
    BY <2>1 DEF CommittedRests
  <2>14. OneLivePerScope'
    BY <2>7 DEF OneLivePerScope, SameScope
  <2> QED BY <2>8, <2>9, <2>10, <2>11, <2>12, <2>13, <2>14
<1> QED BY <1>2, <1>3

LEMMA RunKeeps ==
    ASSUME IInv, NEW s \in Session, NEW r \in Request, Run(s, r)
    PROVE  SafeInv'
<1> USE DEF IInv, SafeInv
<1> DEFINE old == work[s][r]
<1>1. CASE RunRaisesUnusable(s, r)
  <2>1. RollbackTo(s, Rest(s)) BY <1>1 DEF RunRaisesUnusable
  <2> QED BY <2>1, RollbackKeeps DEF Rest
<1>2. CASE ~RunRaisesUnusable(s, r)
  <2>0. /\ r \in todo[s]
        /\ \/ Save(s, r, NotHandled(old))
           \/ Save(s, r, AfterReturn(r, old))
           \/ Save(s, r, AfterError(r, old))
    BY <1>2 DEF Run, RunUnhandled, RunReturns, RunRaises, NextInBatch
  <2>1. /\ old \in Row
        /\ old.status = "running"
        /\ old.attempts <= LimitOf[r]
        /\ LimitOf[r] \in Nat
    BY <2>0, ConstantsAssumption DEF TypeOK, BatchShape, WorkFits
  <2>2. /\ NotHandled(old) \in Row
        /\ NotHandled(old).status # "absent"
        /\ RestingRow(r, NotHandled(old))
    BY <2>1, VersionTypes DEF NotHandled, RestingRow, Row
  <2>3. /\ AfterReturn(r, old) \in Row
        /\ AfterReturn(r, old).status # "absent"
        /\ RestingRow(r, AfterReturn(r, old))
    BY <2>1, VersionTypes DEF AfterReturn, RestingRow, Row
  <2>4. /\ AfterError(r, old) \in Row
        /\ AfterError(r, old).status # "absent"
        /\ RestingRow(r, AfterError(r, old))
    <3>1. CASE old.attempts >= LimitOf[r] /\ ~Persistent(r)
      <4>1. AfterError(r, old) =
              [old EXCEPT !.status = "failed", !.reason = "handler_error"]
        BY <3>1 DEF AfterError
      <4>2. old.attempts = LimitOf[r]
        BY <2>1, <3>1 DEF Row
      <4> QED BY <2>1, <4>1, <4>2, VersionTypes DEF RestingRow, Row
    <3>2. CASE ~(old.attempts >= LimitOf[r] /\ ~Persistent(r))
      <4>1. AfterError(r, old) =
              [old EXCEPT !.status = "pending", !.reason = "handler_error"]
        BY <3>2 DEF AfterError
      <4>2. ~Persistent(r) => old.attempts < LimitOf[r]
        BY <2>1, <3>2 DEF Row
      <4> QED BY <2>1, <4>1, <4>2, VersionTypes DEF RestingRow, Row
    <3> QED BY <3>1, <3>2
  <2> QED BY <2>0, <2>2, <2>3, <2>4, SaveKeeps
<1> QED BY <1>1, <1>2

LEMMA NextKeeps == IInv /\ [Next]_vars => SafeInv'
<1> SUFFICES ASSUME IInv, [Next]_vars PROVE SafeInv'
  OBVIOUS
<1>1. ASSUME NEW r \in Request, Answer(r) PROVE SafeInv'
  <2> DEFINE next == IF r \in Batching THEN "background" ELSE "done"
  <2>0. r \in Session /\ pc[r] = "inserted" /\ next \notin {"ready", "insert", "batch"}
    BY <1>1 DEF Answer, Session
  <2>1. CASE CommitsFirst(r)
    <3>1. CommitTo(r, next) BY <1>1, <2>1 DEF Answer
    <3>2. todo[r] = {} BY <2>0 DEF IInv, SafeInv, BatchShape
    <3> HIDE DEF next
    <3> QED BY <2>0, <3>1, <3>2, CommitKeeps
  <2>2. CASE ~CommitsFirst(r)
    <3>1. /\ UNCHANGED <<row, held, work, todo>>
          /\ \A t \in Session : t # r => pc'[t] = pc[t]
          /\ pc'[r] \in {"background", "batch"}
      BY <1>1, <2>0, <2>2 DEF Answer, IInv, TypeOK
    <3>2. \A q \in Request : Live(q)' <=> Live(q)
      BY <3>1 DEF Live
    <3>3. NotInserted' /\ BatchShape'
      BY <2>0, <3>1, <3>2 DEF IInv, SafeInv, NotInserted, BatchShape, Session
    <3>4. OneLivePerScope'
      BY <3>2 DEF IInv, SafeInv, OneLivePerScope, SameScope
    <3> QED BY <3>1, <3>3, <3>4
            DEF IInv, SafeInv, ExclusiveClaim, WorkFits, HeldIsOpen, CommittedRests
  <2> QED BY <2>1, <2>2
<1>2. ASSUME NEW s \in Session, EndBatch(s) PROVE SafeInv'
  <2>1. /\ todo[s] = {}
        /\ Rest(s) \notin {"ready", "insert", "batch"}
        /\ CommitTo(s, Rest(s)) \/ RollbackTo(s, Rest(s))
    BY <1>2 DEF EndBatch, Rest
  <2> QED BY <2>1, CommitKeeps, RollbackKeeps
<1>3. ASSUME NEW s \in Session, Crash(s) PROVE SafeInv'
  <2>1. Rest(s) \notin {"ready", "insert", "batch"} /\ RollbackTo(s, Rest(s))
    BY <1>3 DEF Crash, Rest
  <2> QED BY <2>1, RollbackKeeps
<1>4. CASE ReceiverFlips \/ UNCHANGED vars
  <2>1. UNCHANGED <<row, held, work, todo, pc>>
    BY <1>4 DEF ReceiverFlips, vars
  <2> QED BY <2>1 DEF IInv, SafeInv, ExclusiveClaim, NotInserted, Live, BatchShape,
          WorkFits, HeldIsOpen, CommittedRests, OneLivePerScope, SameScope
<1> QED
  BY <1>1, <1>2, <1>3, <1>4, LookupKeeps, InsertKeeps, ClaimKeeps, RunKeeps
  DEF Next, RequestStep, BatchStep

LEMMA InitIInv == Init => IInv
<1> SUFFICES ASSUME Init PROVE IInv
  OBVIOUS
<1>1. TypeOK
  BY ConstantsAssumption, VersionTypes DEF Init, TypeOK, Session, NoRow, Row,
     Status, Reason, Terminal
<1>2. /\ \A s \in Session : held[s] = {} /\ todo[s] = {}
      /\ \A r \in Request : row[r] = NoRow /\ r \in Session
  BY DEF Init, Session
<1>3. \A r \in Request : RestingRow(r, NoRow) /\ ~Live(r)
  BY <1>2, ConstantsAssumption DEF RestingRow, NoRow, Live
<1> QED BY <1>1, <1>2, <1>3 DEF IInv, SafeInv, ExclusiveClaim, NotInserted,
        BatchShape, WorkFits, HeldIsOpen, CommittedRests, OneLivePerScope

LEMMA Invariance == Spec => []IInv
<1>1. IInv /\ [Next]_vars => IInv'
  BY NextTypes, NextKeeps DEF IInv
<1> QED BY <1>1, InitIInv, PTL DEF Spec

(* No crash, rollback or commit leaves a committed row in status running.   *)
THEOREM NoOrphans == Spec => []NoOrphanedRunning
<1>1. IInv => NoOrphanedRunning
  BY DEF IInv, SafeInv, CommittedRests, RestingRow, NoOrphanedRunning
<1> QED BY <1>1, Invariance, PTL

(* Two sessions never hold the same row.                                    *)
THEOREM ClaimsExclude == Spec => []ExclusiveClaim
<1>1. IInv => ExclusiveClaim
  BY DEF IInv, SafeInv
<1> QED BY <1>1, Invariance, PTL

(* attempt_count stays within max_attempts, and an ordinary waiting job can *)
(* still be claimed without breaking the CHECK constraint.                  *)
THEOREM BudgetHolds == Spec => []WaitingHasBudget
<1>1. IInv => WaitingHasBudget
  BY DEF IInv, SafeInv, CommittedRests, RestingRow, WaitingHasBudget
<1> QED BY <1>1, Invariance, PTL

(* A job is failed for its handler's errors at exactly max_attempts.        *)
THEOREM GivesUpAtLimit == Spec => []GivenUpAtLimit
<1>1. IInv => GivenUpAtLimit
  BY DEF IInv, SafeInv, CommittedRests, RestingRow, GivenUpAtLimit
<1> QED BY <1>1, Invariance, PTL

(* Two enqueues with one idempotency key never commit two rows.             *)
THEOREM EnqueueIsIdempotent == Spec => []OneRowPerScope
<1>1. IInv => OneRowPerScope
  BY DEF IInv, SafeInv, OneLivePerScope, Live, OneRowPerScope
<1> QED BY <1>1, Invariance, PTL

-----------------------------------------------------------------------------
(* How a step may change the committed table: not at all, or by committing  *)
(* the versions of one session.                                             *)
LEMMA RowChanges ==
    ASSUME [Next]_vars
    PROVE  \/ row' = row
           \/ \E s \in Session : row' = [r \in Request |-> Seen(s, r)]
<1>1. ASSUME NEW s \in Session, NEW next, CommitTo(s, next)
      PROVE  row' = [r \in Request |-> Seen(s, r)]
  BY <1>1 DEF CommitTo
<1>2. ASSUME NEW s \in Session, NEW next, RollbackTo(s, next) PROVE row' = row
  BY <1>2 DEF RollbackTo
<1>3. ASSUME NEW r \in Request, RequestStep(r)
      PROVE  row' = row \/ row' = [q \in Request |-> Seen(r, q)]
  BY <1>1, <1>2, <1>3 DEF RequestStep, Lookup, Insert, Answer, Session
<1>4. ASSUME NEW s \in Session, NEW r \in Request, Run(s, r) PROVE row' = row
  BY <1>2, <1>4
  DEF Run, RunUnhandled, RunReturns, RunRaises, RunRaisesUnusable, Save
<1>5. ASSUME NEW s \in Session, Claim(s) \/ Crash(s) PROVE row' = row
  BY <1>2, <1>5 DEF Claim, Crash
<1>6. ASSUME NEW s \in Session, EndBatch(s)
      PROVE  row' = row \/ row' = [r \in Request |-> Seen(s, r)]
  BY <1>1, <1>2, <1>6 DEF EndBatch
<1>7. CASE ReceiverFlips \/ UNCHANGED vars
  BY <1>7 DEF ReceiverFlips, vars
<1> QED BY <1>3, <1>4, <1>5, <1>6, <1>7 DEF Next, BatchStep, Session

(* A completed or failed job is never written again: repositories.save is   *)
(* unconditional, and it is the row lock of the claim that protects it.     *)
THEOREM SettledIsFinal == Spec => TerminalIsFinal
<1>1. IInv /\ [Next]_vars
        => [\A r \in Request : row[r].status \in Terminal => row'[r] = row[r]]_row
  <2> SUFFICES ASSUME IInv, [Next]_vars, row' # row,
                      NEW r \in Request, row[r].status \in Terminal
               PROVE  row'[r] = row[r]
    OBVIOUS
  <2>1. PICK s \in Session : row' = [q \in Request |-> Seen(s, q)]
    BY RowChanges
  <2>2. r \notin held[s]
    BY DEF IInv, SafeInv, HeldIsOpen, Terminal
  <2> QED BY <2>1, <2>2 DEF Seen
<1> QED BY <1>1, Invariance, PTL DEF Spec, TerminalIsFinal

-----------------------------------------------------------------------------
(* JobQueue implements JobContract, for both orders of commit and answer;   *)
(* and what a client was told stays true.                                   *)
(*                                                                          *)
(* A commit is one step of the contract for many jobs at once.  What it     *)
(* does to each is in the uncommitted versions, so WorkSteps says how far   *)
(* such a version is ahead of the committed row: not at all if it was just  *)
(* inserted, one attempt if it was claimed, and never more, because a       *)
(* session claims once in a transaction.                                    *)

(* A row that is not there is the empty row.                                *)
AbsentIsEmpty == \A r \in Request : row[r].status = "absent" => row[r] = NoRow

(* Between the insert and the claim a session holds only what it inserted.  *)
FreshUntilClaim ==
    \A s \in Session : pc[s] # "batch" =>
        \A r \in held[s] : row[r].status = "absent" /\ work[s][r] = NewRow

(* How far an uncommitted version is ahead of the committed row.            *)
WorkSteps ==
    \A s \in Session : \A r \in held[s] :
        \/ row[r].status = "absent" /\ r \notin todo[s] /\ work[s][r] = NewRow
        \/ work[s][r].attempts = row[r].attempts + 1

(* Every version that says the handler took effect is right.                *)
Delivered(v, r) ==
    (v.status = "completed" \/ v.reason = "non_retryable") => delivered[r] > 0
WorkDelivered == \A s \in Session : \A r \in held[s] : Delivered(work[s][r], r)

(* A request that has inserted and not yet answered holds its row.          *)
InsertedIsHeld == \A r \in Request : pc[r] = "inserted" => r \in held[r]

(* Without LateCommit the answer comes after the commit.                    *)
AnsweredIsCommitted ==
    ~LateCommit => \A r \in Request : reply[r] = "created" => row[r].status # "absent"

VersionInv ==
    /\ AbsentIsEmpty
    /\ FreshUntilClaim
    /\ WorkSteps
    /\ WorkDelivered
    /\ SettledWasDelivered
    /\ InsertedIsHeld

RInv == IInv /\ VersionInv /\ AnsweredIsCommitted /\ ReplayIsDurable
-----------------------------------------------------------------------------
(* What every step keeps.                                                   *)

(* A committed row is never deleted.                                        *)
LEMMA RowStays ==
    ASSUME IInv, [Next]_vars, NEW r \in Request, row[r].status # "absent"
    PROVE  row'[r].status # "absent"
<1>1. CASE row' = row
  BY <1>1
<1>2. CASE \E s \in Session : row' = [q \in Request |-> Seen(s, q)]
  <2>1. PICK s \in Session : row' = [q \in Request |-> Seen(s, q)]
    BY <1>2
  <2>2. r \in held[s] => work[s][r].status # "absent"
    BY DEF IInv, SafeInv, WorkFits
  <2> QED BY <2>1, <2>2 DEF Seen
<1> QED BY <1>1, <1>2, RowChanges

(* An effect of a handler is not forgotten.                                 *)
LEMMA EffectsStay ==
    ASSUME TypeOK, NEW r \in Request, Deliver(r)
    PROVE  /\ delivered'[r] > 0
           /\ \A q \in Request : delivered[q] > 0 => delivered'[q] > 0
<1>1. delivered \in [Request -> 0..2]
  BY DEF TypeOK
<1>2. delivered'[r] = IF delivered[r] = 2 THEN 2 ELSE delivered[r] + 1
  BY <1>1 DEF Deliver
<1>3. \A q \in Request : q # r => delivered'[q] = delivered[q]
  BY <1>1 DEF Deliver
<1>4. delivered[r] \in 0..2
  BY <1>1
<1>5. delivered'[r] > 0
  BY <1>2, <1>4
<1> QED BY <1>3, <1>5

-----------------------------------------------------------------------------
(* The versions of a session: one lemma for each way a transaction ends,    *)
(* and one for a save.                                                      *)

LEMMA CommitVersions ==
    ASSUME IInv, VersionInv, NEW s \in Session, NEW next, next # "inserted",
           CommitTo(s, next), delivered' = delivered
    PROVE  VersionInv'
<1> USE DEF VersionInv
<1>1. \A t \in Session :
        /\ held'[t] = IF t = s THEN {} ELSE held[t]
        /\ todo'[t] = IF t = s THEN {} ELSE todo[t]
        /\ pc'[t] = IF t = s THEN next ELSE pc[t]
        /\ t # s => work'[t] = work[t]
  BY DEF CommitTo, Forget, IInv, TypeOK
<1>2. \A r \in Request : row'[r] = IF r \in held[s] THEN work[s][r] ELSE row[r]
  BY DEF CommitTo, Seen
<1>3. \A t \in Session \ {s} : \A r \in held[t] : r \in Request /\ row'[r] = row[r]
  BY <1>2 DEF IInv, TypeOK, SafeInv, ExclusiveClaim
<1>4. AbsentIsEmpty'
  BY <1>2 DEF AbsentIsEmpty, IInv, SafeInv, WorkFits
<1>5. FreshUntilClaim'
  BY <1>1, <1>3 DEF FreshUntilClaim
<1>6. WorkSteps'
  BY <1>1, <1>3 DEF WorkSteps
<1>7. WorkDelivered'
  BY <1>1 DEF WorkDelivered, Delivered
<1>8. SettledWasDelivered'
  BY <1>2 DEF SettledWasDelivered, WorkDelivered, Delivered
<1>9. InsertedIsHeld'
  BY <1>1 DEF InsertedIsHeld, Session
<1> QED BY <1>4, <1>5, <1>6, <1>7, <1>8, <1>9

LEMMA RollbackVersions ==
    ASSUME IInv, VersionInv, NEW s \in Session, NEW next, next # "inserted",
           RollbackTo(s, next), delivered' = delivered
    PROVE  VersionInv'
<1> USE DEF VersionInv
<1>1. \A t \in Session :
        /\ held'[t] = IF t = s THEN {} ELSE held[t]
        /\ todo'[t] = IF t = s THEN {} ELSE todo[t]
        /\ pc'[t] = IF t = s THEN next ELSE pc[t]
        /\ t # s => work'[t] = work[t]
  BY DEF RollbackTo, Forget, IInv, TypeOK
<1>2. row' = row
  BY DEF RollbackTo
<1>3. AbsentIsEmpty' /\ SettledWasDelivered'
  BY <1>2 DEF AbsentIsEmpty, SettledWasDelivered
<1>4. FreshUntilClaim' /\ WorkSteps' /\ WorkDelivered'
  BY <1>1, <1>2 DEF FreshUntilClaim, WorkSteps, WorkDelivered, Delivered
<1>5. InsertedIsHeld'
  BY <1>1 DEF InsertedIsHeld, Session
<1> QED BY <1>3, <1>4, <1>5

LEMMA SaveVersions ==
    ASSUME IInv, VersionInv, NEW s \in Session, NEW r \in Request, pc[s] = "batch",
           r \in todo[s], NEW new \in Row, new.attempts = work[s][r].attempts,
           Save(s, r, new),
           (new.status = "completed" \/ new.reason = "non_retryable") => delivered'[r] > 0,
           \A q \in Request : delivered[q] > 0 => delivered'[q] > 0
    PROVE  VersionInv'
<1> USE DEF VersionInv
<1>1. row' = row /\ held' = held /\ pc' = pc
  BY DEF Save
<1>2. \A t \in Session :
        /\ todo'[t] = IF t = s THEN todo[t] \ {r} ELSE todo[t]
        /\ \A q \in Request :
             work'[t][q] = IF t = s /\ q = r THEN new ELSE work[t][q]
  BY DEF Save, IInv, TypeOK
<1>3. \A t \in Session : held[t] \subseteq Request
  BY DEF IInv, TypeOK
<1>4. r \in held[s] /\ work[s][r].attempts = row[r].attempts + 1
  BY DEF WorkSteps, IInv, SafeInv, BatchShape
<1>5. AbsentIsEmpty' /\ SettledWasDelivered' /\ InsertedIsHeld'
  BY <1>1 DEF AbsentIsEmpty, SettledWasDelivered, InsertedIsHeld
<1>6. FreshUntilClaim'
  <2> SUFFICES ASSUME NEW t \in Session, pc[t] # "batch", NEW q \in held[t]
               PROVE  row[q].status = "absent" /\ work'[t][q] = NewRow
    BY <1>1 DEF FreshUntilClaim
  <2>1. t # s /\ q \in Request
    BY <1>3
  <2> QED BY <1>2, <2>1 DEF FreshUntilClaim
<1>7. WorkSteps'
  <2> SUFFICES ASSUME NEW t \in Session, NEW q \in held[t]
               PROVE  \/ row[q].status = "absent" /\ q \notin todo'[t] /\ work'[t][q] = NewRow
                      \/ work'[t][q].attempts = row[q].attempts + 1
    BY <1>1 DEF WorkSteps
  <2>1. CASE t = s /\ q = r
    <3>1. work'[t][q] = new
      BY <1>2, <2>1
    <3> HIDE DEF VersionInv
    <3> QED BY <1>4, <2>1, <3>1
  <2>2. CASE ~(t = s /\ q = r)
    <3>1. /\ q \in Request /\ work'[t][q] = work[t][q]
          /\ q \notin todo[t] => q \notin todo'[t]
      BY <1>2, <1>3, <2>2
    <3>2. WorkSteps
      OBVIOUS
    <3> HIDE DEF VersionInv
    <3> QED BY <3>1, <3>2 DEF WorkSteps
  <2> QED BY <2>1, <2>2
<1>8. WorkDelivered'
  <2> SUFFICES ASSUME NEW t \in Session, NEW q \in held[t]
               PROVE  (work'[t][q].status = "completed" \/ work'[t][q].reason = "non_retryable")
                        => delivered'[q] > 0
    BY <1>1 DEF WorkDelivered, Delivered
  <2>1. CASE t = s /\ q = r
    BY <1>2, <2>1 DEF Delivered
  <2>2. CASE ~(t = s /\ q = r)
    BY <1>2, <1>3, <2>2 DEF WorkDelivered, Delivered
  <2> QED BY <2>1, <2>2
<1> QED BY <1>5, <1>6, <1>7, <1>8

LEMMA InsertVersions ==
    ASSUME IInv, VersionInv, NEW r \in Request, Insert(r)
    PROVE  VersionInv'
<1>1. CASE Duplicate(r)
  <2>1. RollbackTo(r, "done") /\ delivered' = delivered
    BY <1>1 DEF Insert
  <2> QED BY <2>1, RollbackVersions DEF Session
<1>2. CASE ~Duplicate(r)
  <2> USE DEF VersionInv
  <2>1. row' = row /\ todo' = todo /\ delivered' = delivered
    BY <1>2 DEF Insert
  <2>2. \A t \in Session :
          /\ held'[t] = IF t = r THEN {r} ELSE held[t]
          /\ pc'[t] = IF t = r THEN "inserted" ELSE pc[t]
          /\ t # r => work'[t] = work[t]
    BY <1>2 DEF Insert, IInv, TypeOK, Session
  <2>3. work'[r][r] = NewRow
    BY <1>2 DEF Insert, IInv, TypeOK, Session
  <2>4. r \in Session /\ pc[r] = "insert" /\ row[r].status = "absent"
    BY DEF Insert, IInv, SafeInv, NotInserted, Live, Session
  <2>5. todo[r] = {}
    BY <2>4 DEF IInv, SafeInv, BatchShape
  <2>6. AbsentIsEmpty' /\ SettledWasDelivered'
    BY <2>1 DEF AbsentIsEmpty, SettledWasDelivered
  <2>7. FreshUntilClaim' /\ WorkSteps'
    BY <2>1, <2>2, <2>3, <2>4, <2>5 DEF FreshUntilClaim, WorkSteps
  <2>8. WorkDelivered'
    BY <2>1, <2>2, <2>3 DEF WorkDelivered, Delivered, NewRow
  <2>9. InsertedIsHeld'
    BY <2>2 DEF InsertedIsHeld, Session
  <2> QED BY <2>6, <2>7, <2>8, <2>9
<1> QED BY <1>1, <1>2

LEMMA ClaimVersions ==
    ASSUME IInv, VersionInv, NEW s \in Session, Claim(s)
    PROVE  VersionInv'
<1>0. delivered' = delivered
  BY DEF Claim
<1>1. PICK B \in SUBSET Request :
        /\ IsBatch(s, B)
        /\ IF ClaimAllowed(s, B)
           THEN /\ held' = [held EXCEPT ![s] = @ \cup B]
                /\ work' = [work EXCEPT ![s] =
                              [r \in Request |-> IF r \in B THEN Started(Seen(s, r))
                                                            ELSE @[r]]]
                /\ todo' = [todo EXCEPT ![s] = B]
                /\ pc' = [pc EXCEPT ![s] = "batch"]
                /\ UNCHANGED row
           ELSE RollbackTo(s, Rest(s))
  BY DEF Claim
<1>2. CASE ~ClaimAllowed(s, B)
  <2>1. RollbackTo(s, Rest(s)) /\ Rest(s) # "inserted"
    BY <1>1, <1>2 DEF Rest
  <2> QED BY <1>0, <2>1, RollbackVersions
<1>3. CASE ClaimAllowed(s, B)
  <2> USE DEF VersionInv
  <2>1. row' = row
    BY <1>1, <1>3
  <2>2. \A t \in Session :
          /\ held'[t] = IF t = s THEN held[s] \cup B ELSE held[t]
          /\ todo'[t] = IF t = s THEN B ELSE todo[t]
          /\ pc'[t] = IF t = s THEN "batch" ELSE pc[t]
          /\ t # s => work'[t] = work[t]
    BY <1>1, <1>3 DEF IInv, TypeOK
  <2>3. \A r \in Request :
          work'[s][r] = IF r \in B THEN Started(Seen(s, r)) ELSE work[s][r]
    BY <1>1, <1>3 DEF IInv, TypeOK
  <2>4. pc[s] # "batch"
    BY DEF Claim, AtBatch
  <2>5. \A r \in B : r \in Request /\ Seen(s, r).status = "pending" /\ Seen(s, r) \in Row
    BY <1>1, SeenType DEF IsBatch, Claimable, IInv
  <2>6. held[s] \subseteq Request
    BY DEF IInv, TypeOK
  <2>7. \A r \in B : Seen(s, r).attempts = row[r].attempts
    BY <2>4, <2>5 DEF Seen, FreshUntilClaim, AbsentIsEmpty, NewRow, NoRow
  <2>8. \A v \in Row : /\ Started(v).attempts = v.attempts + 1
                       /\ Started(v).status = "running"
                       /\ Started(v).reason = v.reason
    BY DEF Started, Row
  <2>9. AbsentIsEmpty' /\ SettledWasDelivered'
    BY <1>0, <2>1 DEF AbsentIsEmpty, SettledWasDelivered
  <2>10. FreshUntilClaim'
    BY <2>1, <2>2 DEF FreshUntilClaim
  <2>11. WorkSteps'
    <3> SUFFICES ASSUME NEW t \in Session, NEW r \in held'[t]
                 PROVE  \/ row[r].status = "absent" /\ r \notin todo'[t] /\ work'[t][r] = NewRow
                        \/ work'[t][r].attempts = row[r].attempts + 1
      BY <2>1 DEF WorkSteps
    <3>1. CASE t # s
      BY <2>2, <3>1 DEF WorkSteps
    <3>2. CASE t = s /\ r \in B
      BY <2>3, <2>5, <2>7, <2>8, <3>2
    <3>3. CASE t = s /\ r \notin B
      BY <2>2, <2>3, <2>4, <2>6, <3>3 DEF FreshUntilClaim
    <3> QED BY <3>1, <3>2, <3>3
  <2>12. WorkDelivered'
    <3> SUFFICES ASSUME NEW t \in Session, NEW r \in held'[t]
                 PROVE  Delivered(work'[t][r], r)
      BY <1>0 DEF WorkDelivered, Delivered
    <3>1. CASE t # s
      BY <2>2, <3>1 DEF WorkDelivered
    <3>2. CASE t = s /\ r \in B
      <4>1. Delivered(Seen(s, r), r)
        BY <2>5, <3>2 DEF Seen, WorkDelivered, SettledWasDelivered, Delivered
      <4> QED BY <2>3, <2>5, <2>8, <3>2, <4>1 DEF Delivered
    <3>3. CASE t = s /\ r \notin B
      BY <2>2, <2>3, <2>6, <3>3 DEF WorkDelivered
    <3> QED BY <3>1, <3>2, <3>3
  <2>13. InsertedIsHeld'
    BY <2>2 DEF InsertedIsHeld, Session
  <2> QED BY <2>9, <2>10, <2>11, <2>12, <2>13
<1> QED BY <1>2, <1>3

LEMMA RunVersions ==
    ASSUME IInv, VersionInv, NEW s \in Session, NEW r \in Request, Run(s, r)
    PROVE  VersionInv'
<1>0. PICK old : old = work[s][r]
  OBVIOUS
<1>1. pc[s] = "batch" /\ r \in todo[s] /\ old \in Row
  BY <1>0 DEF Run, RunUnhandled, RunReturns, RunRaises, RunRaisesUnusable, NextInBatch,
     IInv, TypeOK
<1>2. CASE RunRaisesUnusable(s, r)
  <2>1. RollbackTo(s, Rest(s)) /\ Rest(s) # "inserted" /\ delivered' = delivered
    BY <1>2 DEF RunRaisesUnusable, Rest
  <2> QED BY <2>1, RollbackVersions
<1>3. CASE RunUnhandled(s, r)
  <2>1. PICK new : new = NotHandled(old)
    OBVIOUS
  <2>2. Save(s, r, new) /\ delivered' = delivered
    BY <1>0, <1>3, <2>1 DEF RunUnhandled
  <2>3. /\ new \in Row /\ new.attempts = old.attempts
        /\ new.status = "failed" /\ new.reason = "handler_not_found"
    BY <1>1, <2>1, VersionTypes DEF NotHandled, Row
  <2>4. \A q \in Request : delivered[q] > 0 => delivered'[q] > 0
    BY <2>2
  <2> QED BY <1>0, <1>1, <2>2, <2>3, <2>4, SaveVersions
<1>4. CASE RunReturns(s, r)
  <2>1. PICK new : new = AfterReturn(r, old)
    OBVIOUS
  <2>2. Save(s, r, new) /\ Deliver(r)
    BY <1>0, <1>4, <2>1 DEF RunReturns
  <2>3. new \in Row /\ new.attempts = old.attempts
    BY <1>1, <2>1, VersionTypes DEF AfterReturn, Row
  <2>4. delivered'[r] > 0 /\ \A q \in Request : delivered[q] > 0 => delivered'[q] > 0
    BY <2>2, EffectsStay DEF IInv
  <2> QED BY <1>0, <1>1, <2>2, <2>3, <2>4, SaveVersions
<1>5. CASE RunRaises(s, r)
  <2>1. PICK new : new = AfterError(r, old)
    OBVIOUS
  <2>2. Save(s, r, new) /\ (delivered' = delivered \/ Deliver(r))
    BY <1>0, <1>5, <2>1 DEF RunRaises
  <2>3. /\ new \in Row /\ new.attempts = old.attempts
        /\ new.status \in {"failed", "pending"} /\ new.reason = "handler_error"
    BY <1>1, <2>1, VersionTypes DEF AfterError, Row
  <2>4. \A q \in Request : delivered[q] > 0 => delivered'[q] > 0
    BY <2>2, EffectsStay DEF IInv
  <2> QED BY <1>0, <1>1, <2>2, <2>3, <2>4, SaveVersions
<1> QED BY <1>2, <1>3, <1>4, <1>5 DEF Run

LEMMA NextVersions == IInv /\ VersionInv /\ [Next]_vars => VersionInv'
<1> SUFFICES ASSUME IInv, VersionInv, [Next]_vars PROVE VersionInv'
  OBVIOUS
<1>1. ASSUME NEW r \in Request, Lookup(r) PROVE VersionInv'
  <2>1. UNCHANGED <<row, held, work, todo, delivered>>
    BY <1>1 DEF Lookup
  <2>2. /\ \A t \in Session : t # r => pc'[t] = pc[t]
        /\ pc[r] = "ready" /\ pc'[r] # "inserted" /\ held[r] = {}
    BY <1>1 DEF Lookup, IInv, TypeOK, SafeInv, NotInserted, Session
  <2> QED BY <2>1, <2>2 DEF VersionInv, AbsentIsEmpty, FreshUntilClaim, WorkSteps,
          WorkDelivered, Delivered, SettledWasDelivered, InsertedIsHeld, Session
<1>2. ASSUME NEW r \in Request, Answer(r) PROVE VersionInv'
  <2> DEFINE next == IF r \in Batching THEN "background" ELSE "done"
  <2>0. r \in Session /\ pc[r] = "inserted" /\ next # "inserted" /\ delivered' = delivered
    BY <1>2 DEF Answer, Session
  <2>1. CASE CommitsFirst(r)
    <3>1. CommitTo(r, next)
      BY <1>2, <2>1 DEF Answer
    <3> HIDE DEF next
    <3> QED BY <2>0, <3>1, CommitVersions
  <2>2. CASE ~CommitsFirst(r)
    <3>1. /\ UNCHANGED <<row, held, work, todo>>
          /\ \A t \in Session : t # r => pc'[t] = pc[t]
          /\ pc'[r] \in {"background", "batch"}
      BY <1>2, <2>0, <2>2 DEF Answer, IInv, TypeOK
    <3> QED BY <2>0, <3>1 DEF VersionInv, AbsentIsEmpty, FreshUntilClaim, WorkSteps,
            WorkDelivered, Delivered, SettledWasDelivered, InsertedIsHeld, Session
  <2> QED BY <2>1, <2>2
<1>3. ASSUME NEW s \in Session, EndBatch(s) \/ Crash(s) PROVE VersionInv'
  <2>1. /\ Rest(s) # "inserted" /\ delivered' = delivered
        /\ CommitTo(s, Rest(s)) \/ RollbackTo(s, Rest(s))
    BY <1>3 DEF EndBatch, Crash, Rest
  <2> QED BY <2>1, CommitVersions, RollbackVersions
<1>4. CASE ReceiverFlips \/ UNCHANGED vars
  <2>1. UNCHANGED <<row, held, work, todo, pc, delivered>>
    BY <1>4 DEF ReceiverFlips, vars
  <2> QED BY <2>1 DEF VersionInv, AbsentIsEmpty, FreshUntilClaim, WorkSteps,
          WorkDelivered, Delivered, SettledWasDelivered, InsertedIsHeld
<1> QED
  BY <1>1, <1>2, <1>3, <1>4, InsertVersions, ClaimVersions, RunVersions
  DEF Next, RequestStep, BatchStep
-----------------------------------------------------------------------------
(* What a client was told stays true.                                       *)

LEMMA NextAnswers ==
    ASSUME IInv, VersionInv, AnsweredIsCommitted, ReplayIsDurable, [Next]_vars
    PROVE  AnsweredIsCommitted' /\ ReplayIsDurable'
<1>1. \A q \in Request : row[q].status # "absent" => row'[q].status # "absent"
  BY RowStays
<1>2. CASE reply' = reply
  BY <1>1, <1>2 DEF AnsweredIsCommitted, ReplayIsDurable, SameScope
<1>3. ASSUME NEW r \in Request, RequestStep(r)
      PROVE  AnsweredIsCommitted' /\ ReplayIsDurable'
  <2>1. \A q \in Request : q # r => reply'[q] = reply[q]
    BY <1>3 DEF RequestStep, Lookup, Insert, Answer, IInv, TypeOK
  <2>2. ~LateCommit /\ reply'[r] = "created" => row'[r].status # "absent"
    <3>1. CASE Answer(r) /\ ~LateCommit
      <4>1. r \in Session /\ r \in held[r] /\ row'[r] = Seen(r, r)
        BY <3>1 DEF Answer, CommitsFirst, CommitTo, VersionInv, InsertedIsHeld, Session
      <4> QED BY <4>1 DEF Seen, IInv, SafeInv, WorkFits
    <3>2. CASE ~Answer(r)
      <4>1. reply'[r] = reply[r] \/ reply'[r] # "created"
        BY <1>3, <3>2 DEF RequestStep, Lookup, Insert, IInv, TypeOK
      <4> QED BY <1>1, <4>1 DEF AnsweredIsCommitted
    <3> QED BY <3>1, <3>2
  <2>3. reply'[r] \in {"replayed", "conflict"}
          => \E q \in Request : SameScope(q, r) /\ row[q].status # "absent"
    <3>1. CASE reply'[r] = reply[r]
      BY <3>1 DEF ReplayIsDurable
    <3>2. CASE Insert(r) \/ Answer(r)
      BY <3>1, <3>2 DEF Insert, Answer, IInv, TypeOK
    <3>3. CASE Lookup(r) /\ reply'[r] # reply[r]
      BY <3>3 DEF Lookup, Existing
    <3> QED BY <1>3, <3>1, <3>2, <3>3 DEF RequestStep
  <2>4. AnsweredIsCommitted'
    BY <1>1, <2>1, <2>2 DEF AnsweredIsCommitted
  <2>5. ReplayIsDurable'
    BY <1>1, <2>1, <2>3 DEF ReplayIsDurable, SameScope
  <2> QED BY <2>4, <2>5
<1>4. ASSUME NEW s \in Session, BatchStep(s) \/ Crash(s) PROVE reply' = reply
  BY <1>4 DEF BatchStep, Claim, Run, RunUnhandled, RunReturns, RunRaises,
     RunRaisesUnusable, EndBatch, Crash
<1>5. CASE ReceiverFlips \/ UNCHANGED vars
  BY <1>2, <1>5 DEF ReceiverFlips, vars
<1> QED BY <1>2, <1>3, <1>4, <1>5 DEF Next

LEMMA RefinementInvariance == Spec => []RInv
<1>1. Init => RInv
  <2> SUFFICES ASSUME Init PROVE RInv
    OBVIOUS
  <2>1. IInv
    BY InitIInv
  <2>2. /\ \A s \in Session : held[s] = {}
        /\ \A r \in Request : /\ row[r] = NoRow
                              /\ pc[r] = "ready"
                              /\ reply[r] = "none"
    BY DEF Init, Session
  <2>3. VersionInv
    BY <2>2 DEF VersionInv, AbsentIsEmpty, FreshUntilClaim, WorkSteps,
       WorkDelivered, SettledWasDelivered, InsertedIsHeld, NoRow
  <2>4. AnsweredIsCommitted /\ ReplayIsDurable
    BY <2>2 DEF AnsweredIsCommitted, ReplayIsDurable
  <2> QED BY <2>1, <2>3, <2>4 DEF RInv
<1>2. RInv /\ [Next]_vars => RInv'
  BY NextTypes, NextKeeps, NextVersions, NextAnswers DEF RInv, IInv
<1> QED BY <1>1, <1>2, PTL DEF Spec

(* A committed completed row, or one given up as non-retryable, stands for  *)
(* a handler that took effect: no version is saved before its handler ran.  *)
THEOREM SettledMeansDelivered == Spec => []SettledWasDelivered
<1>1. RInv => SettledWasDelivered
  BY DEF RInv, VersionInv
<1> QED BY <1>1, RefinementInvariance, PTL

(* A client that was answered from an existing row (replayed or conflict)   *)
(* is right for good: the lookup reads committed rows, and none goes away.  *)
THEOREM ReplaysAreDurable == Spec => []ReplayIsDurable
<1>1. RInv => ReplayIsDurable
  BY DEF RInv
<1> QED BY <1>1, RefinementInvariance, PTL

(* When get_db commits before the route answers, a client that was told     *)
(* "created" finds its job, whatever crashes.  With LateCommit a crash       *)
(* between the answer and the commit loses the job.                         *)
THEOREM AnswersAreDurable == ~LateCommit => (Spec => []AckedIsDurable)
<1>1. ~LateCommit /\ RInv => AckedIsDurable
  BY DEF RInv, AnsweredIsCommitted, AckedIsDurable
<1>2. SUFFICES ASSUME ~LateCommit PROVE Spec => []AckedIsDurable
  OBVIOUS
<1>3. RInv => AckedIsDurable
  BY <1>1, <1>2
<1> QED BY <1>3, RefinementInvariance, PTL
-----------------------------------------------------------------------------
(* The refinement.  A commit of a session is a Commit of the contract, a    *)
(* handler that takes effect is its Deliver, and nothing else shows.        *)

LEMMA CommitRefines ==
    ASSUME RInv, IInv', NEW s \in Session, NEW next, todo[s] = {},
           CommitTo(s, next), delivered' = delivered
    PROVE  Contract!Commit
<1>1. \A r \in Request :
        /\ r \in held[s] => row'[r] = work[s][r]
        /\ r \notin held[s] => row'[r] = row[r]
  BY DEF CommitTo, Seen
<1>2. \A r \in Request : row[r] \in Row /\ row'[r] \in Row
  BY DEF RInv, IInv, TypeOK
<1>3. \A r \in Request : row'[r].status \in {"absent", "pending", "completed", "failed"}
  BY <1>2 DEF IInv, SafeInv, CommittedRests, RestingRow, Row, Status, Terminal
<1>4. ASSUME NEW r \in Request
      PROVE  Contract!Untouched(r) \/ Contract!Accepted(r) \/ Contract!Attempted(r)
  <2>1. CASE r \notin held[s]
    BY <1>1, <2>1 DEF Contract!Untouched
  <2>2. CASE /\ r \in held[s] /\ row[r].status = "absent"
             /\ work[s][r] = NewRow
    BY <1>1, <2>2 DEF Contract!Accepted, NewRow
  <2>3. CASE r \in held[s] /\ work[s][r].attempts = row[r].attempts + 1
    <3>1. row[r].status \notin {"completed", "failed"}
      BY <2>3 DEF RInv, IInv, SafeInv, HeldIsOpen
    <3>2. row'[r].attempts = row[r].attempts + 1 /\ row'[r].attempts <= LimitOf[r]
      BY <1>1, <2>3 DEF IInv, SafeInv, CommittedRests, RestingRow
    <3>3. row'[r].status # "absent"
      BY <1>1, <2>3 DEF RInv, IInv, SafeInv, WorkFits
    <3>4. row'[r].status = "completed" => delivered[r] > 0
      BY <1>1, <2>3 DEF RInv, VersionInv, WorkDelivered, Delivered
    <3> QED BY <1>3, <3>1, <3>2, <3>3, <3>4 DEF Contract!Attempted, Contract!Settled
  <2> QED BY <2>1, <2>2, <2>3 DEF RInv, VersionInv, WorkSteps
<1>5. [r \in Request |-> row[r].status]'
        \in [Request -> {"completed", "failed"} \cup {"absent", "pending"}]
  BY <1>3
<1>6. [r \in Request |-> row[r].attempts]' \in [Request -> Nat]
  BY <1>2 DEF Row
<1> QED BY <1>4, <1>5, <1>6 DEF Contract!Commit, Contract!Settled

LEMMA DeliverRefines ==
    ASSUME RInv, NEW s \in Session, NEW r \in todo[s], row' = row, Deliver(r)
    PROVE  Contract!Next
<1>1. r \in Request /\ r \in held[s]
  BY DEF RInv, IInv, TypeOK, SafeInv, BatchShape
<1>2. row[r].status \notin {"completed", "failed"}
  BY <1>1 DEF RInv, IInv, SafeInv, HeldIsOpen
<1>3. Contract!Deliver(r)
  BY <1>1, <1>2 DEF Deliver, Contract!Deliver, Contract!Settled
<1> QED BY <1>1, <1>3 DEF Contract!Next

LEMMA NextRefines ==
    ASSUME RInv, IInv', [Next]_vars
    PROVE  [Contract!Next]_(Contract!vars)
<1>1. CASE row' = row /\ delivered' = delivered
  BY <1>1 DEF Contract!vars
<1>2. ASSUME NEW r \in Request, RequestStep(r) PROVE [Contract!Next]_(Contract!vars)
  <2>1. CASE Answer(r) /\ CommitsFirst(r)
    <3>1. todo[r] = {} /\ r \in Session
      BY <2>1 DEF Answer, RInv, IInv, SafeInv, BatchShape, Session
    <3>2. PICK next : CommitTo(r, next) /\ delivered' = delivered
      BY <2>1 DEF Answer
    <3> QED BY <3>1, <3>2, CommitRefines DEF Contract!Next
  <2>2. CASE ~(Answer(r) /\ CommitsFirst(r))
    BY <1>1, <1>2, <2>2 DEF RequestStep, Lookup, Insert, Answer, RollbackTo
  <2> QED BY <2>1, <2>2
<1>3. ASSUME NEW s \in Session, NEW r \in Request, Run(s, r)
      PROVE  [Contract!Next]_(Contract!vars)
  <2>1. /\ r \in todo[s] /\ row' = row
        /\ delivered' = delivered \/ Deliver(r)
    BY <1>3 DEF Run, RunUnhandled, RunReturns, RunRaises, RunRaisesUnusable,
       NextInBatch, Save, RollbackTo
  <2> QED BY <1>1, <2>1, DeliverRefines
<1>4. ASSUME NEW s \in Session, Claim(s) \/ Crash(s) PROVE [Contract!Next]_(Contract!vars)
  BY <1>1, <1>4 DEF Claim, Crash, RollbackTo
<1>5. ASSUME NEW s \in Session, EndBatch(s) PROVE [Contract!Next]_(Contract!vars)
  <2>1. /\ todo[s] = {} /\ delivered' = delivered
        /\ CommitTo(s, Rest(s)) \/ row' = row
    BY <1>5 DEF EndBatch, RollbackTo
  <2> QED BY <1>1, <2>1, CommitRefines DEF Contract!Next
<1>6. CASE ReceiverFlips \/ UNCHANGED vars
  BY <1>1, <1>6 DEF ReceiverFlips, vars
<1> QED BY <1>2, <1>3, <1>4, <1>5, <1>6 DEF Next, BatchStep

(* The queue with its sessions, locks, batches and crashes implements the   *)
(* contract, for both orders of commit and answer.                          *)
THEOREM QueueImplementsContract == Spec => ImplementsContract
<1>1. Init => Contract!Init
  BY DEF Init, Contract!Init, NoRow
<1>2. RInv /\ IInv' /\ [Next]_vars => [Contract!Next]_(Contract!vars)
  BY NextRefines
<1>3. RInv => IInv
  BY DEF RInv
<1> QED
  BY <1>1, <1>2, <1>3, RefinementInvariance, PTL DEF Spec, ImplementsContract, Contract!Spec
==============================================================================
