---------------------- MODULE NotificationDeliveryProofs ----------------------
(***************************************************************************)
(* What holds of notifications and their dispatch jobs, for every set of   *)
(* requests and dispatchers, every limit and both orders of commit and     *)
(* answer.                                                                 *)
(*                                                                         *)
(* Only the job is locked: that one session at a time works on a           *)
(* notification follows from the job it holds, and what the next commit    *)
(* makes of both is in the versions the session has not committed.         *)
(***************************************************************************)
EXTENDS NotificationDelivery, TLAPS

Touched(s, r) == notev[s][r] # "absent"
Held(s, r)    == jobv[s][r] # NoJob

(* A notification is live once it is committed or some session has it.      *)
Live(r) == note[r] # "absent" \/ \E s \in Session : Touched(s, r)

-----------------------------------------------------------------------------
(* The strengthening.                                                       *)

(* A request that has not inserted yet left no trace.                       *)
NotInserted ==
    \A r \in Request : pc[r] \in {"ready", "insert"} =>
        /\ ~Live(r) /\ job[r] = NoJob
        /\ \A s \in Session : ~Held(s, r)

(* One key is one live notification.                                        *)
OneLivePerKey == \A q, r \in Request : SameKey(q, r) /\ Live(q) /\ Live(r) => q = r

(* One session works on a notification, and one on a job.                   *)
Exclusive ==
    \A s, t \in Session : s # t => \A r \in Request :
        ~(Touched(s, r) /\ Touched(t, r)) /\ ~(Held(s, r) /\ Held(t, r))

(* What a session has, by where it is.                                      *)
Shape(s) ==
    /\ pc[s] \in {"ready", "insert", "idle", "done"} =>
          \A r \in Request : ~Touched(s, r) /\ ~Held(s, r)
    /\ pc[s] = "answer" => s \in Request /\ notev[s][s] \in {"queued", "sent", "suppressed"}
    /\ pc[s] \notin {"batch", "mail", "settle"} => todo[s] = {}
    /\ pc[s] \notin {"mail", "settle"} => current[s] = {}
    /\ pc[s] \in {"mail", "settle"} =>
          \E r \in Request : /\ current[s] = {r} /\ r \notin todo[s]
                             /\ pc[s] = "mail" => notev[s][r] = "sending"
                             /\ pc[s] = "settle" => notev[s][r] \in Terminal
    /\ \A r \in todo[s] \cup current[s] : jobv[s][r].status = "running"
    /\ \A r \in Request : notev[s][r] = "sending" => r \in current[s]

SessionShape == \A s \in Session : Shape(s)

(* A job at f faults: waiting, running now or later, or given up with the   *)
(* notification settled or its attempts used up by errors.                  *)
JobFits(j, v, f) ==
    /\ j.status = "pending" => j.attempts <= f /\ j.attempts < MaxAttempts
    /\ j.status = "running" => j.attempts <= f + 1
    /\ j.status = "failed"  => v \in Terminal \/ (j.attempts = MaxAttempts /\ f >= MaxAttempts)

(* What the session s would commit of the job and the notification r.       *)
JobVersionFits(s, r) ==
    Held(s, r) =>
        /\ jobv[s][r].status # "absent"
        /\ jobv[s][r].status = "running" => r \in todo[s] \cup current[s]
        /\ JobFits(jobv[s][r], SeenNote(s, r), faults)
        /\ note[r] = "absent" => s = r /\ Touched(s, r)

NoteVersionFits(s, r) ==
    /\ Touched(s, r) =>
          /\ note[r] \notin Terminal
          /\ Held(s, r) \/ (s = r /\ note[r] = "absent" /\ job[r] = NoJob)
    /\ notev[s][r] = "queued" => Held(s, r)

VersionsFit ==
    \A s \in Session : \A r \in Request : JobVersionFits(s, r) /\ NoteVersionFits(s, r)

CommittedFits ==
    \A r \in Request :
        /\ note[r] # "sending"
        /\ job[r] = NoJob \/ (job[r].status \in {"pending", "failed"} /\ note[r] # "absent")
        /\ note[r] = "queued" => job[r] # NoJob
        /\ JobFits(job[r], note[r], faults)

MailsArePaid == LateCommit => MailsArePaidFor

IInv ==
    /\ TypeOK
    /\ NotInserted
    /\ OneLivePerKey
    /\ Exclusive
    /\ SessionShape
    /\ VersionsFit
    /\ CommittedFits
    /\ MailsArePaid
-----------------------------------------------------------------------------
(* Helpers.                                                                 *)

LEMMA Constants == MaxAttempts \in Nat /\ MaxAttempts > 0 /\ MaxFaults \in Nat
BY ConstantsAssumption

LEMMA JobTypes == /\ NoJob \in Job /\ NewJob \in Job /\ NewJob # NoJob
                  /\ \A j \in Job : j.attempts \in 0..MaxAttempts
BY Constants DEF Job, NoJob, NewJob

(* More faults fit what fewer did.                                          *)
LEMMA FitsLater ==
    ASSUME NEW j \in Job, NEW v, NEW f \in Nat, NEW g \in Nat, f <= g, JobFits(j, v, f)
    PROVE  JobFits(j, v, g)
BY JobTypes, Constants DEF JobFits

(* What ending a transaction leaves to the session.                         *)
LEMMA EndFacts ==
    ASSUME TypeOK, NEW s \in Session, NEW l, End(s, l)
    PROVE  /\ notev' \in [Session -> [Request -> Status]] /\ jobv' \in [Session -> [Request -> Job]]
           /\ todo' \in [Session -> SUBSET Request] /\ current' \in [Session -> SUBSET Request]
           /\ \A t \in Session \ {s} : /\ pc'[t] = pc[t] /\ notev'[t] = notev[t]
                                       /\ jobv'[t] = jobv[t] /\ todo'[t] = todo[t]
                                       /\ current'[t] = current[t]
           /\ pc'[s] = l /\ todo'[s] = {} /\ current'[s] = {}
           /\ \A r \in Request : notev'[s][r] = "absent" /\ jobv'[s][r] = NoJob
<1>1. NoNotes \in [Request -> Status] /\ NoJobs \in [Request -> Job]
  BY JobTypes DEF NoNotes, NoJobs, Status
<1>2. \A r \in Request : NoNotes[r] = "absent" /\ NoJobs[r] = NoJob
  BY DEF NoNotes, NoJobs
<1> QED BY <1>1, <1>2 DEF End, TypeOK

(* A session that does nothing keeps its shape.                             *)
LEMMA ShapeStays ==
    ASSUME NEW t \in Session, Shape(t), pc'[t] = pc[t], notev'[t] = notev[t],
           jobv'[t] = jobv[t], todo'[t] = todo[t], current'[t] = current[t]
    PROVE  Shape(t)'
BY DEF Shape, Touched, Held

Location == {"ready", "insert", "answer", "background", "idle", "batch", "mail", "settle", "done"}

-----------------------------------------------------------------------------
(* The ends of a transaction.                                               *)

LEMMA RollbackKeeps ==
    ASSUME IInv, NEW s \in Session, NEW l \in {"idle", "done"}, Rollback(s, l),
           reply' \in [Request -> {"none", "queued", "sent", "suppressed", "replayed",
                                   "conflict", "error"}],
           UNCHANGED <<enabled, mailed, toggles>>, faults' \in 0..MaxFaults, faults <= faults',
           \/ ~LateCommit
           \/ faults < faults'
           \/ \A r \in Request : ~Touched(s, r)
    PROVE  IInv'
<1>0. TypeOK /\ note' = note /\ job' = job /\ End(s, l) /\ faults \in Nat /\ faults' \in Nat
  BY DEF Rollback, IInv, TypeOK
<1>1. /\ \A t \in Session \ {s} : /\ pc'[t] = pc[t] /\ notev'[t] = notev[t]
                                  /\ jobv'[t] = jobv[t] /\ todo'[t] = todo[t]
                                  /\ current'[t] = current[t]
      /\ pc'[s] = l /\ todo'[s] = {} /\ current'[s] = {}
      /\ \A r \in Request : notev'[s][r] = "absent" /\ jobv'[s][r] = NoJob
  BY <1>0, EndFacts
<1>2. TypeOK'
  <2>1. pc' \in [Session -> Location]
    BY <1>0 DEF End, TypeOK, Location
  <2> QED BY <1>0, <2>1, EndFacts DEF TypeOK, Location
<1>3. /\ \A t \in Session, r \in Request : /\ Touched(t, r)' => Touched(t, r) /\ t # s
                                           /\ Held(t, r)' => Held(t, r) /\ t # s
      /\ \A r \in Request : Live(r)' => Live(r)
  BY <1>0, <1>1 DEF Touched, Held, Live
<1>4. NotInserted'
  <2> SUFFICES ASSUME NEW r \in Request, pc'[r] \in {"ready", "insert"}
               PROVE  ~Live(r)' /\ job'[r] = NoJob /\ \A t \in Session : ~Held(t, r)'
    BY DEF NotInserted
  <2>1. r # s /\ r \in Session
    BY <1>1 DEF Session
  <2>2. pc[r] \in {"ready", "insert"}
    BY <1>1, <2>1
  <2> QED BY <1>0, <1>3, <2>2 DEF IInv, NotInserted
<1>5. OneLivePerKey' /\ Exclusive'
  BY <1>3 DEF IInv, OneLivePerKey, Exclusive, SameKey
<1>6. SessionShape'
  <2>1. Shape(s)'
    BY <1>1 DEF Shape, Touched, Held
  <2>2. ASSUME NEW t \in Session \ {s} PROVE Shape(t)'
    BY <1>1, ShapeStays DEF IInv, SessionShape
  <2> QED BY <2>1, <2>2 DEF SessionShape
<1>7. VersionsFit'
  <2> SUFFICES ASSUME NEW t \in Session, NEW r \in Request
               PROVE  JobVersionFits(t, r)' /\ NoteVersionFits(t, r)'
    BY DEF VersionsFit
  <2>1. CASE t = s
    BY <1>1, <2>1 DEF JobVersionFits, NoteVersionFits, Touched, Held
  <2>2. CASE t # s
    <3>1. jobv[t][r] \in Job /\ JobVersionFits(t, r) /\ NoteVersionFits(t, r)
      BY DEF IInv, TypeOK, VersionsFit
    <3>2. /\ notev'[t] = notev[t] /\ jobv'[t] = jobv[t] /\ todo'[t] = todo[t]
          /\ current'[t] = current[t] /\ SeenNote(t, r)' = SeenNote(t, r)
      BY <1>0, <1>1, <2>2 DEF SeenNote
    <3>3. JobFits(jobv[t][r], SeenNote(t, r), faults) => JobFits(jobv[t][r], SeenNote(t, r), faults')
      BY <1>0, <3>1, FitsLater
    <3> QED BY <1>0, <3>1, <3>2, <3>3 DEF JobVersionFits, NoteVersionFits, Touched, Held
  <2> QED BY <2>1, <2>2
<1>8. CommittedFits'
  <2>1. \A r \in Request : job[r] \in Job /\ JobFits(job[r], note[r], faults)
    BY DEF IInv, TypeOK, CommittedFits
  <2>2. \A r \in Request : JobFits(job[r], note[r], faults')
    BY <1>0, <2>1, FitsLater
  <2> QED BY <1>0, <2>2 DEF IInv, CommittedFits
<1>9. MailsArePaid'
  <2> SUFFICES ASSUME LateCommit, NEW r \in Request \ InApp
               PROVE  mailed[r] <= faults' + (IF note[r] \in {"sent", "failed"} \/ InHand(r)'
                                              THEN 1 ELSE 0)
    BY <1>0 DEF MailsArePaid, MailsArePaidFor
  <2>1. /\ mailed[r] \in Nat
        /\ mailed[r] <= faults + (IF note[r] \in {"sent", "failed"} \/ InHand(r) THEN 1 ELSE 0)
    BY DEF IInv, TypeOK, MailsArePaid, MailsArePaidFor
  <2>2. CASE faults < faults'
    BY <1>0, <2>1, <2>2
  <2>3. CASE \A q \in Request : ~Touched(s, q)
    <3>1. InHand(r) => InHand(r)'
      BY <1>1, <2>3 DEF InHand, Touched
    <3> QED BY <1>0, <2>1, <3>1
  <2> QED BY <2>2, <2>3
<1> QED BY <1>2, <1>4, <1>5, <1>6, <1>7, <1>8, <1>9 DEF IInv

(* A commit: nothing of the session is running, so its versions are fit.    *)
LEMMA CommitKeeps ==
    ASSUME IInv, NEW s \in Session, NEW l \in {"idle", "done", "background"}, Commit(s, l),
           todo[s] = {}, current[s] = {},
           reply' \in [Request -> {"none", "queued", "sent", "suppressed", "replayed",
                                   "conflict", "error"}],
           UNCHANGED <<enabled, mailed, faults, toggles>>
    PROVE  IInv'
<1>0. TypeOK /\ End(s, l)
  BY DEF Commit, IInv
<1>1. /\ \A t \in Session \ {s} : /\ pc'[t] = pc[t] /\ notev'[t] = notev[t]
                                  /\ jobv'[t] = jobv[t] /\ todo'[t] = todo[t]
                                  /\ current'[t] = current[t]
      /\ pc'[s] = l /\ todo'[s] = {} /\ current'[s] = {}
      /\ \A r \in Request : notev'[s][r] = "absent" /\ jobv'[s][r] = NoJob
  BY <1>0, EndFacts
<1>2. \A r \in Request :
        /\ note'[r] = IF Touched(s, r) THEN notev[s][r] ELSE note[r]
        /\ job'[r] = IF Held(s, r) THEN jobv[s][r] ELSE job[r]
  BY DEF Commit, SeenNote, SeenJob, Touched, Held
<1>3. \A r \in Request : JobVersionFits(s, r) /\ NoteVersionFits(s, r)
  BY DEF IInv, VersionsFit
<1>4. TypeOK'
  <2>1. pc' \in [Session -> Location]
    BY <1>0 DEF End, TypeOK, Location
  <2>2. note' \in [Request -> Status] /\ job' \in [Request -> Job]
    BY <1>0 DEF Commit, SeenNote, SeenJob, TypeOK
  <2> QED BY <1>0, <2>1, <2>2, EndFacts DEF TypeOK, Location
<1>5. \A t \in Session, r \in Request :
        /\ (Touched(t, r)' => Touched(t, r) /\ t # s)
        /\ (Held(t, r)' => Held(t, r) /\ t # s)
  BY <1>1 DEF Touched, Held
<1>6. \A r \in Request : Live(r)' => Live(r)
  BY <1>2, <1>5 DEF Live
<1>7. NotInserted'
  <2> SUFFICES ASSUME NEW r \in Request, pc'[r] \in {"ready", "insert"}
               PROVE  ~Live(r)' /\ job'[r] = NoJob /\ \A t \in Session : ~Held(t, r)'
    BY DEF NotInserted
  <2>1. r # s /\ r \in Session
    BY <1>1 DEF Session
  <2>2. pc[r] \in {"ready", "insert"}
    BY <1>1, <2>1
  <2> QED BY <1>2, <1>5, <1>6, <2>2 DEF IInv, NotInserted
<1>8. OneLivePerKey' /\ Exclusive'
  BY <1>5, <1>6 DEF IInv, OneLivePerKey, Exclusive, SameKey
<1>9. SessionShape'
  <2>1. Shape(s)'
    BY <1>1 DEF Shape, Touched, Held
  <2>2. ASSUME NEW t \in Session \ {s} PROVE Shape(t)'
    BY <1>1, ShapeStays DEF IInv, SessionShape
  <2> QED BY <2>1, <2>2 DEF SessionShape
(* What another session holds or has touched is not what s commits.         *)
<1>10. ASSUME NEW t \in Session \ {s}, NEW r \in Request, Held(t, r) \/ Touched(t, r)
       PROVE  note'[r] = note[r] /\ job'[r] = job[r]
  <2>1. JobVersionFits(t, r) /\ NoteVersionFits(t, r)
    BY DEF IInv, VersionsFit
  <2>2. ~(Held(s, r) /\ Held(t, r)) /\ ~(Touched(s, r) /\ Touched(t, r))
    BY DEF IInv, Exclusive
  <2>3. ~Held(s, r) /\ ~Touched(s, r)
    BY <1>3, <1>10, <2>1, <2>2 DEF JobVersionFits, NoteVersionFits
  <2> QED BY <1>2, <2>3
<1>11. VersionsFit'
  <2> SUFFICES ASSUME NEW t \in Session, NEW r \in Request
               PROVE  JobVersionFits(t, r)' /\ NoteVersionFits(t, r)'
    BY DEF VersionsFit
  <2>1. CASE t = s
    BY <1>1, <2>1 DEF JobVersionFits, NoteVersionFits, Touched, Held
  <2>2. CASE t # s /\ ~Held(t, r) /\ ~Touched(t, r)
    BY <1>1, <2>2 DEF JobVersionFits, NoteVersionFits, Touched, Held
  <2>3. CASE t # s /\ (Held(t, r) \/ Touched(t, r))
    <3>1. JobVersionFits(t, r) /\ NoteVersionFits(t, r)
      BY DEF IInv, VersionsFit
    <3>2. /\ notev'[t] = notev[t] /\ jobv'[t] = jobv[t] /\ todo'[t] = todo[t]
          /\ current'[t] = current[t] /\ note'[r] = note[r] /\ job'[r] = job[r]
          /\ SeenNote(t, r)' = SeenNote(t, r)
      BY <1>1, <1>10, <2>3 DEF SeenNote
    <3> QED BY <3>1, <3>2 DEF JobVersionFits, NoteVersionFits, Touched, Held
  <2> QED BY <2>1, <2>2, <2>3
<1>12. CommittedFits'
  <2> SUFFICES ASSUME NEW r \in Request
               PROVE  /\ note'[r] # "sending"
                      /\ job'[r] = NoJob \/ (job'[r].status \in {"pending", "failed"}
                                                /\ note'[r] # "absent")
                      /\ note'[r] = "queued" => job'[r] # NoJob
                      /\ JobFits(job'[r], note'[r], faults)
    BY DEF CommittedFits
  <2>1. /\ note[r] # "sending"
        /\ job[r] = NoJob \/ (job[r].status \in {"pending", "failed"} /\ note[r] # "absent")
        /\ note[r] = "queued" => job[r] # NoJob
        /\ JobFits(job[r], note[r], faults)
    BY DEF IInv, CommittedFits
  <2>2. notev[s][r] # "sending"
    BY DEF IInv, SessionShape, Shape
  <2>3. CASE Held(s, r)
    <3>1. /\ job'[r] = jobv[s][r] /\ job'[r] # NoJob /\ note'[r] = SeenNote(s, r)
          /\ job'[r] \in Job /\ job'[r].status \notin {"absent", "running"}
      BY <1>2, <1>3, <2>3 DEF IInv, TypeOK, JobVersionFits, Held, Touched, SeenNote
    <3>2. note'[r] # "absent"
      BY <1>2, <1>3, <2>3 DEF JobVersionFits, Touched
    <3>3. JobFits(job'[r], note'[r], faults)
      BY <1>3, <2>3, <3>1 DEF JobVersionFits
    <3>4. job'[r].status \in {"pending", "failed"}
      BY <3>1 DEF Job
    <3> QED BY <1>2, <2>1, <2>2, <3>1, <3>2, <3>3, <3>4
  <2>4. CASE ~Held(s, r)
    <3>1. job'[r] = job[r]
      BY <1>2, <2>4
    <3>2. CASE ~Touched(s, r)
      BY <1>2, <2>1, <3>1, <3>2
    <3>3. CASE Touched(s, r)
      <4>1. job[r] = NoJob /\ note'[r] = notev[s][r] /\ notev[s][r] # "queued"
        BY <1>2, <1>3, <2>4, <3>3 DEF NoteVersionFits
      <4> QED BY <2>2, <3>1, <4>1 DEF JobFits, NoJob
    <3> QED BY <3>2, <3>3
  <2> QED BY <2>3, <2>4
<1>13. MailsArePaid'
  <2> SUFFICES ASSUME LateCommit, NEW r \in Request \ InApp
               PROVE  mailed[r] <= faults + (IF note'[r] \in {"sent", "failed"} \/ InHand(r)'
                                             THEN 1 ELSE 0)
    BY DEF MailsArePaid, MailsArePaidFor
  <2>1. /\ mailed[r] \in Nat /\ faults \in Nat
        /\ mailed[r] <= faults + (IF note[r] \in {"sent", "failed"} \/ InHand(r) THEN 1 ELSE 0)
    BY DEF IInv, TypeOK, MailsArePaid, MailsArePaidFor
  <2>2. note[r] \in {"sent", "failed"} => note'[r] = note[r]
    BY <1>2, <1>3 DEF NoteVersionFits, Terminal
  <2>3. InHand(r) => InHand(r)' \/ note'[r] \in {"sent", "failed"}
    BY <1>1, <1>2 DEF InHand, Touched
  <2> QED BY <2>1, <2>2, <2>3
<1> QED BY <1>4, <1>7, <1>8, <1>9, <1>11, <1>12, <1>13 DEF IInv

-----------------------------------------------------------------------------
(* Steps of a batch.  A session may claim what nobody holds, work on what   *)
(* it holds, and settle what it works on; the rest is as it was.            *)

LEMMA BatchKeeps ==
    ASSUME IInv, NEW s \in Session, pc[s] \notin {"ready", "insert"},
           pc' \in [Session -> Location] /\ pc'[s] \notin {"ready", "insert"},
           note' \in [Request -> Status], notev' \in [Session -> [Request -> Status]],
           jobv' \in [Session -> [Request -> Job]], todo' \in [Session -> SUBSET Request],
           current' \in [Session -> SUBSET Request], mailed' \in [Request -> Nat],
           faults' \in 0..MaxFaults, faults <= faults',
           UNCHANGED <<job, enabled, reply, toggles>>,
           \A t \in Session \ {s} : /\ pc'[t] = pc[t] /\ notev'[t] = notev[t]
                                    /\ jobv'[t] = jobv[t] /\ todo'[t] = todo[t]
                                    /\ current'[t] = current[t],
           \A r \in Request :
              /\ Held(s, r)' => \/ Held(s, r)
                                \/ Live(r) /\ \A t \in Session \ {s} : ~Held(t, r)
              /\ Touched(s, r)' => Touched(s, r) \/ Held(s, r)
              /\ \/ note'[r] = note[r]
                 \/ Held(s, r) /\ Touched(s, r) /\ note'[r] \in Terminal
              /\ JobVersionFits(s, r)' /\ NoteVersionFits(s, r)',
           Shape(s)', MailsArePaid'
    PROVE  IInv'
<1>0. faults \in Nat /\ faults' \in Nat
  BY Constants DEF IInv, TypeOK
<1>1. TypeOK'
  BY DEF IInv, TypeOK, Location
<1>2. \A t \in Session \ {s}, r \in Request : (Touched(t, r)' <=> Touched(t, r))
                                            /\ (Held(t, r)' <=> Held(t, r))
  BY DEF Touched, Held
<1>3. \A t \in Session, r \in Request : Held(t, r) => Live(r)
  BY DEF IInv, VersionsFit, JobVersionFits, Live
<1>4. \A r \in Request : Live(r)' => Live(r)
  BY <1>2, <1>3 DEF Live
<1>5. NotInserted'
  <2> SUFFICES ASSUME NEW r \in Request, pc'[r] \in {"ready", "insert"}
               PROVE  ~Live(r)' /\ job'[r] = NoJob /\ \A t \in Session : ~Held(t, r)'
    BY DEF NotInserted
  <2>1. r # s /\ r \in Session
    BY DEF Session
  <2>2. pc[r] \in {"ready", "insert"}
    BY <2>1
  <2>3. ~Live(r) /\ job[r] = NoJob /\ \A t \in Session : ~Held(t, r)
    BY <2>2 DEF IInv, NotInserted
  <2>4. \A t \in Session : ~Held(t, r)'
    BY <1>2, <2>3
  <2> QED BY <1>4, <2>3, <2>4
<1>6. OneLivePerKey'
  BY <1>4 DEF IInv, OneLivePerKey, SameKey
(* Where s works, no other session is.                                      *)
<1>7. ASSUME NEW t \in Session \ {s}, NEW r \in Request, Held(s, r)
      PROVE  ~Held(t, r) /\ ~Touched(t, r)
  <2>1. ~Held(t, r)
    BY <1>7 DEF IInv, Exclusive
  <2>2. NoteVersionFits(t, r) /\ JobVersionFits(s, r)
    BY DEF IInv, VersionsFit
  <2> QED BY <1>7, <2>1, <2>2 DEF NoteVersionFits, JobVersionFits
<1>8. ASSUME NEW t \in Session \ {s}, NEW r \in Request
      PROVE  ~(Touched(s, r)' /\ Touched(t, r)') /\ ~(Held(s, r)' /\ Held(t, r)')
  BY <1>2, <1>7 DEF IInv, Exclusive
<1>9. Exclusive'
  <2> SUFFICES ASSUME NEW t \in Session, NEW u \in Session, t # u, NEW r \in Request
               PROVE  ~(Touched(t, r)' /\ Touched(u, r)') /\ ~(Held(t, r)' /\ Held(u, r)')
    BY DEF Exclusive
  <2>1. CASE t = s \/ u = s
    BY <1>8, <2>1
  <2>2. CASE t # s /\ u # s
    BY <1>2, <2>2 DEF IInv, Exclusive
  <2> QED BY <2>1, <2>2
<1>10. SessionShape'
  BY ShapeStays DEF IInv, SessionShape
<1>11. VersionsFit'
  <2> SUFFICES ASSUME NEW t \in Session \ {s}, NEW r \in Request
               PROVE  JobVersionFits(t, r)' /\ NoteVersionFits(t, r)'
    BY DEF VersionsFit
  <2>1. CASE ~Held(t, r) /\ ~Touched(t, r)
    BY <2>1 DEF JobVersionFits, NoteVersionFits, Touched, Held
  <2>2. CASE Held(t, r) \/ Touched(t, r)
    <3>1. note'[r] = note[r]
      BY <1>7, <2>2
    <3>2. jobv[t][r] \in Job /\ JobVersionFits(t, r) /\ NoteVersionFits(t, r)
      BY DEF IInv, TypeOK, VersionsFit
    <3>3. /\ notev'[t] = notev[t] /\ jobv'[t] = jobv[t] /\ todo'[t] = todo[t]
          /\ current'[t] = current[t] /\ SeenNote(t, r)' = SeenNote(t, r)
      BY <3>1 DEF SeenNote
    <3>4. JobFits(jobv[t][r], SeenNote(t, r), faults) => JobFits(jobv[t][r], SeenNote(t, r), faults')
      BY <1>0, <3>2, FitsLater
    <3> QED BY <3>1, <3>2, <3>3, <3>4 DEF JobVersionFits, NoteVersionFits, Touched, Held
  <2> QED BY <2>1, <2>2
<1>12. CommittedFits'
  <2> SUFFICES ASSUME NEW r \in Request
               PROVE  /\ note'[r] # "sending"
                      /\ job[r] = NoJob \/ (job[r].status \in {"pending", "failed"}
                                               /\ note'[r] # "absent")
                      /\ note'[r] = "queued" => job[r] # NoJob
                      /\ JobFits(job[r], note'[r], faults')
    BY DEF CommittedFits
  <2>1. /\ note[r] # "sending"
        /\ job[r] = NoJob \/ (job[r].status \in {"pending", "failed"} /\ note[r] # "absent")
        /\ note[r] = "queued" => job[r] # NoJob
        /\ JobFits(job[r], note[r], faults) /\ job[r] \in Job
    BY DEF IInv, TypeOK, CommittedFits
  <2>2. CASE note'[r] = note[r]
    <3>1. JobFits(job[r], note[r], faults')
      BY <1>0, <2>1, FitsLater
    <3> QED BY <2>1, <2>2, <3>1
  <2>3. CASE note'[r] \in Terminal
    <3>1. JobFits(job[r], note'[r], faults')
      <4>1. job[r].attempts \in 0..MaxAttempts
        BY <2>1, JobTypes
      <4> QED BY <1>0, <2>1, <2>3, <4>1, Constants DEF JobFits
    <3> QED BY <2>1, <2>3, <3>1 DEF Terminal
  <2> QED BY <2>2, <2>3
<1> QED BY <1>1, <1>5, <1>6, <1>9, <1>10, <1>11, <1>12 DEF IInv

(* Emails stay paid for while nobody lets go of an outcome for nothing.     *)
LEMMA MailsKept ==
    ASSUME IInv, UNCHANGED mailed, faults' \in Nat, faults <= faults',
           \A r \in Request :
              \/ faults < faults'
              \/ (note[r] \in {"sent", "failed"} \/ InHand(r))
                    => (note'[r] \in {"sent", "failed"} \/ InHand(r)')
    PROVE  MailsArePaid'
<1> SUFFICES ASSUME LateCommit, NEW r \in Request \ InApp
             PROVE  mailed[r] <= faults' + (IF note'[r] \in {"sent", "failed"} \/ InHand(r)'
                                            THEN 1 ELSE 0)
  BY DEF MailsArePaid, MailsArePaidFor
<1>1. /\ mailed[r] \in Nat /\ faults \in Nat
      /\ mailed[r] <= faults + (IF note[r] \in {"sent", "failed"} \/ InHand(r) THEN 1 ELSE 0)
  BY DEF IInv, TypeOK, MailsArePaid, MailsArePaidFor
<1> QED BY <1>1

LEMMA ClaimKeeps ==
    ASSUME IInv, NEW s \in Session, Claim(s)
    PROVE  IInv'
<1>0. /\ TypeOK /\ faults \in Nat /\ Shape(s)
      /\ UNCHANGED <<note, job, enabled, notev, current, reply, mailed, faults, toggles>>
      /\ pc[s] \in {"idle", "background"} /\ pc' = [pc EXCEPT ![s] = "batch"]
  BY DEF Claim, IInv, TypeOK, SessionShape
<1>1. PICK ks \in SUBSET Claimable(s) :
        /\ todo' = [todo EXCEPT ![s] = ks]
        /\ jobv' = [jobv EXCEPT ![s] = [r \in Request |->
              IF r \in ks THEN [status |-> "running", attempts |-> SeenJob(s, r).attempts + 1]
                          ELSE jobv[s][r]]]
  BY <1>0 DEF Claim, TypeOK
<1>2. \A r \in Request : JobVersionFits(s, r) /\ NoteVersionFits(s, r)
  BY DEF IInv, VersionsFit
<1>3. todo[s] = {} /\ current[s] = {}
  BY <1>0 DEF Shape
<1>4. ASSUME NEW r \in ks
      PROVE  /\ r \in Request /\ \A t \in Session \ {s} : ~Held(t, r)
             /\ SeenJob(s, r).attempts \in Nat /\ SeenJob(s, r).attempts + 1 \in 0..MaxAttempts
             /\ SeenJob(s, r).attempts <= faults
             /\ ~Held(s, r) => note[r] # "absent"
  <2>1. r \in Request /\ SeenJob(s, r).status = "pending" /\ \A t \in Session \ {s} : ~Held(t, r)
    BY DEF Claimable, Held
  <2>2. CASE Held(s, r)
    <3>1. SeenJob(s, r) = jobv[s][r] /\ jobv[s][r] \in Job /\ JobFits(jobv[s][r], SeenNote(s, r), faults)
      BY <1>0, <1>2, <2>1, <2>2 DEF SeenJob, Held, JobVersionFits, TypeOK
    <3>2. jobv[s][r].attempts \in 0..MaxAttempts
      BY <3>1, JobTypes
    <3> QED BY <2>1, <2>2, <3>1, <3>2, Constants DEF JobFits
  <2>3. CASE ~Held(s, r)
    <3>1. SeenJob(s, r) = job[r] /\ job[r] \in Job /\ JobFits(job[r], note[r], faults)
      BY <1>0, <2>1, <2>3 DEF SeenJob, Held, IInv, CommittedFits, TypeOK
    <3>2. job[r].attempts \in 0..MaxAttempts
      BY <3>1, JobTypes
    <3>3. job[r] # NoJob /\ note[r] # "absent"
      BY <2>1, <3>1 DEF NoJob, IInv, CommittedFits
    <3> QED BY <2>1, <3>1, <3>2, <3>3, Constants DEF JobFits
  <2> QED BY <2>2, <2>3
<1>5. /\ jobv' \in [Session -> [Request -> Job]] /\ todo' \in [Session -> SUBSET Request]
      /\ pc' \in [Session -> Location] /\ pc'[s] = "batch" /\ todo'[s] = ks
      /\ \A t \in Session \ {s} : pc'[t] = pc[t] /\ jobv'[t] = jobv[t] /\ todo'[t] = todo[t]
      /\ \A r \in Request \ ks : jobv'[s][r] = jobv[s][r]
      /\ \A r \in ks : /\ jobv'[s][r].status = "running"
                       /\ jobv'[s][r].attempts = SeenJob(s, r).attempts + 1
  <2>1. \A r \in Request : (IF r \in ks
            THEN [status |-> "running", attempts |-> SeenJob(s, r).attempts + 1]
            ELSE jobv[s][r]) \in Job
    BY <1>0, <1>4 DEF Job, TypeOK
  <2>2. ks \subseteq Request
    BY <1>4
  <2>3. \A r \in Request : jobv'[s][r] = IF r \in ks
            THEN [status |-> "running", attempts |-> SeenJob(s, r).attempts + 1]
            ELSE jobv[s][r]
    BY <1>0, <1>1 DEF TypeOK
  <2>4. ASSUME NEW r \in ks
        PROVE  /\ jobv'[s][r].status = "running"
               /\ jobv'[s][r].attempts = SeenJob(s, r).attempts + 1
    <3>1. PICK a : a = SeenJob(s, r).attempts + 1
      OBVIOUS
    <3>2. r \in Request /\ jobv'[s][r] = [status |-> "running", attempts |-> a]
      BY <2>2, <2>3, <3>1
    <3> QED BY <3>1, <3>2
  <2>5. jobv' \in [Session -> [Request -> Job]] /\ todo' \in [Session -> SUBSET Request]
    BY <1>0, <1>1, <2>1, <2>2 DEF TypeOK
  <2>6. pc' \in [Session -> Location] /\ pc'[s] = "batch" /\ todo'[s] = ks
    BY <1>0, <1>1 DEF TypeOK, Location
  <2>7. \A t \in Session \ {s} : pc'[t] = pc[t] /\ jobv'[t] = jobv[t] /\ todo'[t] = todo[t]
    BY <1>0, <1>1 DEF TypeOK
  <2> QED BY <2>2, <2>3, <2>4, <2>5, <2>6, <2>7
<1>6. ASSUME NEW r \in Request
      PROVE  /\ Held(s, r) => Held(s, r)'
             /\ Held(s, r)' => Held(s, r) \/ (Live(r) /\ \A t \in Session \ {s} : ~Held(t, r))
             /\ JobVersionFits(s, r)' /\ NoteVersionFits(s, r)'
  <2>0. SeenNote(s, r)' = SeenNote(s, r)
    BY <1>0 DEF SeenNote
  <2>1. CASE r \in ks
    <3>1. jobv'[s][r].status = "running" /\ jobv'[s][r].attempts = SeenJob(s, r).attempts + 1
          /\ r \in todo'[s]
      BY <1>5, <2>1
    <3>2. Held(s, r)'
      BY <3>1 DEF Held, NoJob
    <3>3. JobFits(jobv'[s][r], SeenNote(s, r)', faults')
      BY <1>0, <1>4, <2>1, <3>1 DEF JobFits
    <3>4. JobVersionFits(s, r)'
      BY <1>0, <1>2, <1>4, <2>1, <3>1, <3>3 DEF JobVersionFits, Touched
    <3> QED BY <1>0, <1>2, <1>4, <2>1, <3>2, <3>4 DEF NoteVersionFits, Touched, Live
  <2>2. CASE r \notin ks
    BY <1>0, <1>2, <1>3, <1>5, <2>0, <2>2 DEF JobVersionFits, NoteVersionFits, Held, Touched
  <2> QED BY <2>1, <2>2
<1>7. Shape(s)'
  <2>1. \A r \in Request : notev'[s][r] = "sending" => r \in current'[s]
    BY <1>0 DEF Shape
  <2> QED BY <1>0, <1>3, <1>5, <2>1 DEF Shape
<1>8. MailsArePaid'
  <2>1. \A r \in Request : InHand(r)' <=> InHand(r)
    BY <1>0 DEF InHand
  <2> QED BY <1>0, <2>1, MailsKept
<1>9. \A r \in Request : Touched(s, r)' => Touched(s, r)
  BY <1>0 DEF Touched
<1>10. faults' \in 0..MaxFaults /\ note' \in [Request -> Status] /\ mailed' \in [Request -> Nat]
       /\ notev' \in [Session -> [Request -> Status]] /\ current' \in [Session -> SUBSET Request]
  BY <1>0 DEF TypeOK
<1>11. /\ pc[s] \notin {"ready", "insert"} /\ pc'[s] \notin {"ready", "insert"}
       /\ faults <= faults' /\ UNCHANGED <<job, enabled, reply, toggles>>
       /\ \A t \in Session \ {s} : /\ pc'[t] = pc[t] /\ notev'[t] = notev[t]
                                   /\ jobv'[t] = jobv[t] /\ todo'[t] = todo[t]
                                   /\ current'[t] = current[t]
       /\ \A r \in Request : note'[r] = note[r]
  BY <1>0, <1>5
<1> QED BY <1>5, <1>6, <1>7, <1>8, <1>9, <1>10, <1>11, BatchKeeps

(* What holding a claimed job gives: the batch may work on the notification *)
(* if it has no outcome yet.                                                *)
LEMMA RunningIsHeld ==
    ASSUME IInv, NEW s \in Session, NEW r \in todo[s] \cup current[s]
    PROVE  /\ r \in Request /\ Held(s, r) /\ jobv[s][r] \in Job /\ jobv[s][r].status = "running"
           /\ jobv[s][r].attempts \in 0..MaxAttempts
           /\ JobVersionFits(s, r) /\ NoteVersionFits(s, r)
<1>1. r \in Request /\ jobv[s][r].status = "running"
  BY DEF IInv, TypeOK, SessionShape, Shape
<1>2. jobv[s][r] \in Job /\ JobVersionFits(s, r) /\ NoteVersionFits(s, r)
  BY <1>1 DEF IInv, TypeOK, VersionsFit
<1>3. jobv[s][r].attempts \in 0..MaxAttempts
  BY <1>2, JobTypes
<1> QED BY <1>1, <1>2, <1>3 DEF Held, NoJob

LEMMA DispatchKeeps ==
    ASSUME IInv, NEW s \in Session, NEW q \in Request, Dispatch(s, q)
    PROVE  IInv'
<1>0. /\ TypeOK /\ faults \in Nat /\ Shape(s) /\ pc[s] = "batch" /\ q \in todo[s]
      /\ UNCHANGED <<note, job, enabled, reply, mailed, faults, toggles>>
      /\ todo' = [todo EXCEPT ![s] = @ \ {q}]
  BY DEF Dispatch, IInv, TypeOK, SessionShape
<1>1. /\ Held(s, q) /\ jobv[s][q] \in Job /\ jobv[s][q].status = "running"
      /\ jobv[s][q].attempts \in 0..MaxAttempts /\ current[s] = {}
  BY <1>0, RunningIsHeld DEF Shape
<1>2. \A r \in Request : JobVersionFits(s, r) /\ NoteVersionFits(s, r)
  BY DEF IInv, VersionsFit
<1>3. /\ todo' \in [Session -> SUBSET Request] /\ todo'[s] = todo[s] \ {q}
      /\ \A t \in Session \ {s} : todo'[t] = todo[t]
  BY <1>0 DEF TypeOK
<1>4. faults' \in 0..MaxFaults /\ note' \in [Request -> Status] /\ mailed' \in [Request -> Nat]
      /\ faults <= faults' /\ pc[s] \notin {"ready", "insert"}
      /\ \A r \in Request : note'[r] = note[r]
  BY <1>0 DEF TypeOK
(* The outcome is there already.                                            *)
<1>5. CASE IsTerminal(SeenNote(s, q)) /\ jobv' = [jobv EXCEPT ![s][q] = Ran(@)]
           /\ UNCHANGED <<pc, notev, current>>
  <2>0. SeenNote(s, q) \in Terminal
    BY <1>5 DEF IsTerminal
  <2>1. /\ jobv' \in [Session -> [Request -> Job]]
        /\ \A t \in Session \ {s} : jobv'[t] = jobv[t]
        /\ \A r \in Request \ {q} : jobv'[s][r] = jobv[s][r]
        /\ jobv'[s][q].status = "failed" /\ jobv'[s][q] \in Job
    <3>1. Ran(jobv[s][q]) \in Job /\ Ran(jobv[s][q]).status = "failed"
      BY <1>1 DEF Ran, Job
    <3> QED BY <1>0, <1>5, <3>1 DEF TypeOK
  <2>2. \A r \in Request : SeenNote(s, r)' = SeenNote(s, r)
    BY <1>0, <1>5 DEF SeenNote
  <2>3. Held(s, q)' /\ JobVersionFits(s, q)' /\ NoteVersionFits(s, q)'
    <3>1. Held(s, q)'
      BY <2>1 DEF Held, NoJob
    <3>2. JobFits(jobv'[s][q], SeenNote(s, q)', faults')
      BY <2>0, <2>1, <2>2 DEF JobFits
    <3> QED BY <1>0, <1>1, <1>2, <1>5, <2>1, <3>1, <3>2
            DEF JobVersionFits, NoteVersionFits, Touched
  <2>4. ASSUME NEW r \in Request \ {q}
        PROVE  (Held(s, r)' <=> Held(s, r)) /\ JobVersionFits(s, r)' /\ NoteVersionFits(s, r)'
    BY <1>0, <1>2, <1>3, <1>5, <2>1, <2>2 DEF JobVersionFits, NoteVersionFits, Touched, Held
  <2>5. \A r \in Request : Touched(s, r)' <=> Touched(s, r)
    BY <1>5 DEF Touched
  <2>6. Shape(s)'
    <3>1. \A r \in todo[s] \ {q} : r \in Request /\ jobv'[s][r].status = "running"
      BY <1>0, <2>1 DEF Shape, TypeOK
    <3>2. \A r \in Request : notev'[s][r] = "sending" => r \in current'[s]
      BY <1>0, <1>5 DEF Shape
    <3> QED BY <1>0, <1>1, <1>3, <1>5, <3>1, <3>2 DEF Shape
  <2>7. MailsArePaid'
    <3>1. \A r \in Request : InHand(r)' <=> InHand(r)
      BY <1>5 DEF InHand
    <3> QED BY <1>0, <3>1, MailsKept
  <2>8. /\ pc' \in [Session -> Location] /\ pc'[s] \notin {"ready", "insert"}
        /\ notev' \in [Session -> [Request -> Status]] /\ current' \in [Session -> SUBSET Request]
        /\ UNCHANGED <<job, enabled, reply, toggles>>
        /\ \A t \in Session \ {s} : /\ pc'[t] = pc[t] /\ notev'[t] = notev[t]
                                    /\ jobv'[t] = jobv[t] /\ todo'[t] = todo[t]
                                    /\ current'[t] = current[t]
    BY <1>0, <1>3, <1>5, <2>1 DEF TypeOK, Location
  <2>9. \A r \in Request : /\ Held(s, r)' => Held(s, r)
                           /\ JobVersionFits(s, r)' /\ NoteVersionFits(s, r)'
    BY <1>1, <2>3, <2>4
  <2> QED BY <1>3, <1>4, <2>1, <2>5, <2>6, <2>7, <2>8, <2>9, BatchKeeps
(* The handler takes the notification up.                                   *)
<1>6. ASSUME NEW st \in {"sending", "suppressed"}, NEW l \in {"mail", "settle"},
             ~IsTerminal(SeenNote(s, q)), st = "sending" <=> l = "mail",
             notev' = [notev EXCEPT ![s][q] = st], current' = [current EXCEPT ![s] = {q}],
             pc' = [pc EXCEPT ![s] = l], UNCHANGED jobv
      PROVE  IInv'
  <2>1. /\ notev' \in [Session -> [Request -> Status]] /\ current' \in [Session -> SUBSET Request]
        /\ \A t \in Session \ {s} : notev'[t] = notev[t] /\ current'[t] = current[t]
        /\ \A r \in Request \ {q} : notev'[s][r] = notev[s][r]
        /\ notev'[s][q] = st /\ current'[s] = {q}
    BY <1>0, <1>6 DEF TypeOK, Status, Terminal
  <2>2. pc' \in [Session -> Location] /\ pc'[s] = l /\ \A t \in Session \ {s} : pc'[t] = pc[t]
    BY <1>0, <1>6 DEF TypeOK, Location
  <2>3. note[q] \notin Terminal /\ notev[s][q] \notin Terminal
    BY <1>2, <1>6 DEF IsTerminal, SeenNote, NoteVersionFits, Touched, Terminal
  <2>4. \A r \in Request : Held(s, r)' <=> Held(s, r)
    BY <1>6 DEF Held
  <2>5. JobVersionFits(s, q)' /\ NoteVersionFits(s, q)'
    <3>1. q \in current'[s] /\ Touched(s, q)' /\ jobv'[s][q].status = "running"
      BY <1>1, <1>6, <2>1 DEF Touched
    <3>2. JobFits(jobv'[s][q], SeenNote(s, q)', faults')
      BY <1>0, <1>1, <1>2, <1>6, <3>1 DEF JobFits, JobVersionFits
    <3> QED BY <1>0, <1>1, <1>2, <1>6, <2>1, <2>3, <2>4, <3>1, <3>2
            DEF JobVersionFits, NoteVersionFits
  <2>6. ASSUME NEW r \in Request \ {q} PROVE JobVersionFits(s, r)' /\ NoteVersionFits(s, r)'
    <3>1. SeenNote(s, r)' = SeenNote(s, r)
      BY <1>0, <2>1 DEF SeenNote
    <3> QED BY <1>0, <1>1, <1>2, <1>3, <1>6, <2>1, <2>4, <3>1
            DEF JobVersionFits, NoteVersionFits, Touched
  <2>7. \A r \in Request : /\ Held(s, r)' => Held(s, r)
                           /\ Touched(s, r)' => Touched(s, r) \/ Held(s, r)
                           /\ JobVersionFits(s, r)' /\ NoteVersionFits(s, r)'
    BY <1>1, <2>1, <2>4, <2>5, <2>6 DEF Touched
  <2>8. Shape(s)'
    <3>1. \A r \in Request : notev'[s][r] = "sending" => r \in current'[s]
      BY <1>0, <1>1, <2>1 DEF Shape
    <3>2. \A r \in todo'[s] \cup current'[s] : jobv'[s][r].status = "running"
      BY <1>0, <1>1, <1>3, <1>6, <2>1 DEF Shape
    <3>3. \E r \in Request : /\ current'[s] = {r} /\ r \notin todo'[s]
                             /\ l = "mail" => notev'[s][r] = "sending"
                             /\ l = "settle" => notev'[s][r] \in Terminal
      BY <1>3, <1>6, <2>1 DEF Terminal
    <3> QED BY <1>6, <2>2, <3>1, <3>2, <3>3 DEF Shape
  <2>9. MailsArePaid'
    <3>1. \A r \in Request : InHand(r) => InHand(r)'
      BY <2>1, <2>3 DEF InHand, Terminal
    <3> QED BY <1>0, <3>1, MailsKept
  <2>10. /\ jobv' \in [Session -> [Request -> Job]] /\ pc'[s] \notin {"ready", "insert"}
         /\ UNCHANGED <<job, enabled, reply, toggles>>
         /\ \A t \in Session \ {s} : /\ pc'[t] = pc[t] /\ notev'[t] = notev[t]
                                     /\ jobv'[t] = jobv[t] /\ todo'[t] = todo[t]
                                     /\ current'[t] = current[t]
    BY <1>0, <1>3, <1>6, <2>1, <2>2 DEF TypeOK
  <2> QED BY <1>3, <1>4, <2>1, <2>2, <2>7, <2>8, <2>9, <2>10, BatchKeeps
<1>7. CASE EmailEnabled(q)
  BY <1>5, <1>6, <1>7 DEF Dispatch
<1>8. CASE ~EmailEnabled(q)
  BY <1>5, <1>6, <1>8 DEF Dispatch
<1> QED BY <1>7, <1>8

LEMMA MailKeeps ==
    ASSUME IInv, NEW s \in Session, Mail(s)
    PROVE  IInv'
<1>0. /\ TypeOK /\ faults \in Nat /\ Shape(s) /\ pc[s] = "mail" /\ pc' = [pc EXCEPT ![s] = "settle"]
      /\ UNCHANGED <<note, job, enabled, jobv, todo, current, reply, faults, toggles>>
  BY DEF Mail, IInv, TypeOK, SessionShape
<1>1. PICK q \in Request : current[s] = {q} /\ q \notin todo[s] /\ notev[s][q] = "sending"
  BY <1>0 DEF Shape
<1>2. PICK accepted \in BOOLEAN, answered \in BOOLEAN :
        /\ answered => accepted
        /\ mailed' = [mailed EXCEPT ![q] = @ + IF accepted THEN 1 ELSE 0]
        /\ notev' = [notev EXCEPT ![s][q] = Outcome(answered)]
  BY <1>1 DEF Mail
<1>3. /\ Held(s, q) /\ jobv[s][q].status = "running"
      /\ \A r \in Request : JobVersionFits(s, r) /\ NoteVersionFits(s, r)
  BY <1>1, RunningIsHeld DEF IInv, VersionsFit
<1>4. Outcome(answered) \in {"sent", "failed"}
  BY DEF Outcome
<1>5. /\ notev' \in [Session -> [Request -> Status]] /\ mailed' \in [Request -> Nat]
      /\ \A t \in Session \ {s} : notev'[t] = notev[t]
      /\ \A r \in Request \ {q} : notev'[s][r] = notev[s][r] /\ mailed'[r] = mailed[r]
      /\ notev'[s][q] \in {"sent", "failed"} /\ mailed'[q] <= mailed[q] + 1
  BY <1>0, <1>2, <1>4 DEF TypeOK, Status, Terminal
<1>6. pc' \in [Session -> Location] /\ pc'[s] = "settle" /\ \A t \in Session \ {s} : pc'[t] = pc[t]
  BY <1>0 DEF TypeOK, Location
<1>7. \A r \in Request : Held(s, r)' <=> Held(s, r)
  BY <1>0 DEF Held
<1>8. JobVersionFits(s, q)' /\ NoteVersionFits(s, q)'
  <2>1. Touched(s, q) /\ Touched(s, q)'
    BY <1>1, <1>5 DEF Touched
  <2>2. JobFits(jobv'[s][q], SeenNote(s, q)', faults')
    BY <1>0, <1>3 DEF JobFits, JobVersionFits
  <2> QED BY <1>0, <1>1, <1>3, <1>5, <1>7, <2>1, <2>2 DEF JobVersionFits, NoteVersionFits
<1>9. ASSUME NEW r \in Request \ {q} PROVE JobVersionFits(s, r)' /\ NoteVersionFits(s, r)'
  <2>1. SeenNote(s, r)' = SeenNote(s, r)
    BY <1>0, <1>5 DEF SeenNote
  <2> QED BY <1>0, <1>3, <1>5, <1>7, <2>1 DEF JobVersionFits, NoteVersionFits, Touched
<1>10. \A r \in Request : /\ Held(s, r)' => Held(s, r)
                          /\ Touched(s, r)' => Touched(s, r) \/ Held(s, r)
                          /\ JobVersionFits(s, r)' /\ NoteVersionFits(s, r)'
  BY <1>3, <1>5, <1>7, <1>8, <1>9 DEF Touched
<1>11. Shape(s)'
  <2>1. \A r \in Request : notev'[s][r] = "sending" => r \in current'[s]
    BY <1>0, <1>1, <1>5 DEF Shape
  <2>2. \E r \in Request : current'[s] = {r} /\ r \notin todo'[s] /\ notev'[s][r] \in Terminal
    BY <1>0, <1>1, <1>5 DEF Terminal
  <2>3. \A r \in todo'[s] \cup current'[s] : jobv'[s][r].status = "running"
    BY <1>0 DEF Shape
  <2> QED BY <1>6, <2>1, <2>2, <2>3 DEF Shape
(* Nobody else has the notification and it has no outcome: nothing was paid *)
(* beyond the faults.                                                       *)
<1>12. MailsArePaid'
  <2> SUFFICES ASSUME LateCommit, NEW r \in Request \ InApp
               PROVE  mailed'[r] <= faults + (IF note[r] \in {"sent", "failed"} \/ InHand(r)'
                                              THEN 1 ELSE 0)
    BY <1>0 DEF MailsArePaid, MailsArePaidFor
  <2>1. /\ mailed[r] \in Nat /\ mailed'[r] \in Nat
        /\ mailed[r] <= faults + (IF note[r] \in {"sent", "failed"} \/ InHand(r) THEN 1 ELSE 0)
    BY <1>5 DEF IInv, TypeOK, MailsArePaid, MailsArePaidFor
  <2>2. CASE r # q
    <3>1. InHand(r) => InHand(r)'
      BY <1>5, <2>2 DEF InHand
    <3> QED BY <1>0, <1>5, <2>1, <2>2, <3>1
  <2>3. CASE r = q
    <3>1. InHand(r)'
      BY <1>5, <2>3 DEF InHand
    <3>2. note[q] \notin {"sent", "failed"}
      BY <1>1, <1>3 DEF NoteVersionFits, Touched, Terminal
    <3>3. ~InHand(q)
      <4>1. \A t \in Session \ {s} : ~Touched(t, q)
        BY <1>1 DEF IInv, Exclusive, Touched
      <4> QED BY <1>1, <4>1 DEF InHand, Touched
    <3> QED BY <1>0, <1>5, <2>1, <2>3, <3>1, <3>2, <3>3
  <2> QED BY <2>2, <2>3
<1>13. faults' \in 0..MaxFaults /\ note' \in [Request -> Status] /\ faults <= faults'
       /\ jobv' \in [Session -> [Request -> Job]] /\ todo' \in [Session -> SUBSET Request]
       /\ current' \in [Session -> SUBSET Request]
       /\ pc[s] \notin {"ready", "insert"} /\ pc'[s] \notin {"ready", "insert"}
       /\ UNCHANGED <<job, enabled, reply, toggles>> /\ \A r \in Request : note'[r] = note[r]
       /\ \A t \in Session \ {s} : /\ pc'[t] = pc[t] /\ notev'[t] = notev[t]
                                   /\ jobv'[t] = jobv[t] /\ todo'[t] = todo[t]
                                   /\ current'[t] = current[t]
  BY <1>0, <1>5, <1>6 DEF TypeOK
<1> QED BY <1>5, <1>6, <1>10, <1>11, <1>12, <1>13, BatchKeeps

(* The handler is over: a session of its own commits the outcome now.       *)
LEMMA SettleKeeps ==
    ASSUME IInv, NEW s \in Session, Settle(s)
    PROVE  IInv'
<1>0. /\ TypeOK /\ faults \in Nat /\ Shape(s) /\ pc[s] = "settle" /\ pc' = [pc EXCEPT ![s] = "batch"]
      /\ current' = [current EXCEPT ![s] = {}]
      /\ UNCHANGED <<job, enabled, todo, reply, mailed, faults, toggles>>
  BY DEF Settle, IInv, TypeOK, SessionShape
<1>1. PICK q \in Request : current[s] = {q} /\ q \notin todo[s] /\ notev[s][q] \in Terminal
  BY <1>0 DEF Shape
<1>2. /\ jobv' = [jobv EXCEPT ![s][q] = Ran(@)]
      /\ IF OwnsSession(s)
         THEN note' = [note EXCEPT ![q] = notev[s][q]] /\ notev' = [notev EXCEPT ![s][q] = "absent"]
         ELSE UNCHANGED <<note, notev>>
  BY <1>1 DEF Settle
<1>3. /\ Held(s, q) /\ jobv[s][q] \in Job /\ Touched(s, q)
      /\ \A r \in Request : JobVersionFits(s, r) /\ NoteVersionFits(s, r)
  BY <1>1, RunningIsHeld DEF IInv, VersionsFit, Touched, Terminal
<1>4. /\ jobv' \in [Session -> [Request -> Job]] /\ jobv'[s][q] \in Job
      /\ \A t \in Session \ {s} : jobv'[t] = jobv[t]
      /\ \A r \in Request \ {q} : jobv'[s][r] = jobv[s][r]
      /\ jobv'[s][q].status = "failed"
  <2>1. Ran(jobv[s][q]) \in Job /\ Ran(jobv[s][q]).status = "failed"
    BY <1>3 DEF Ran, Job
  <2> QED BY <1>0, <1>2, <2>1 DEF TypeOK
<1>5. /\ note' \in [Request -> Status] /\ notev' \in [Session -> [Request -> Status]]
      /\ \A t \in Session \ {s} : notev'[t] = notev[t]
      /\ \A r \in Request \ {q} : notev'[s][r] = notev[s][r] /\ note'[r] = note[r]
      /\ \/ note'[q] = notev[s][q] /\ notev'[s][q] = "absent" /\ s \in Dispatcher
         \/ note'[q] = note[q] /\ notev'[s][q] = notev[s][q]
  <2>1. CASE s \in Dispatcher
    <3>1. /\ note' = [note EXCEPT ![q] = notev[s][q]]
          /\ notev' = [notev EXCEPT ![s][q] = "absent"]
          /\ notev[s][q] \in Status /\ "absent" \in Status
      BY <1>0, <1>2, <2>1 DEF OwnsSession, TypeOK, Status
    <3> QED BY <1>0, <2>1, <3>1 DEF TypeOK
  <2>2. CASE s \notin Dispatcher
    BY <1>0, <1>2, <2>2 DEF TypeOK, OwnsSession
  <2> QED BY <2>1, <2>2
<1>6. /\ pc' \in [Session -> Location] /\ pc'[s] = "batch" /\ current' \in [Session -> SUBSET Request]
      /\ \A t \in Session \ {s} : pc'[t] = pc[t] /\ current'[t] = current[t]
      /\ current'[s] = {}
  BY <1>0 DEF TypeOK, Location
<1>7. /\ Held(s, q)' /\ \A r \in Request \ {q} : Held(s, r)' <=> Held(s, r)
      /\ \A r \in Request : Touched(s, r)' => Touched(s, r)
  BY <1>4, <1>5 DEF Held, NoJob, Touched
<1>8. JobVersionFits(s, q)' /\ NoteVersionFits(s, q)'
  <2>1. SeenNote(s, q)' \in Terminal
    BY <1>1, <1>5 DEF SeenNote, Terminal
  <2>2. JobFits(jobv'[s][q], SeenNote(s, q)', faults')
    BY <1>4, <2>1 DEF JobFits
  <2>3. note'[q] = "absent" => s = q /\ Touched(s, q)'
    BY <1>1, <1>3, <1>5 DEF JobVersionFits, Touched, Terminal
  <2> QED BY <1>3, <1>4, <1>5, <1>7, <2>2, <2>3 DEF JobVersionFits, NoteVersionFits, Touched
<1>9. ASSUME NEW r \in Request \ {q} PROVE JobVersionFits(s, r)' /\ NoteVersionFits(s, r)'
  <2>1. SeenNote(s, r)' = SeenNote(s, r)
    BY <1>5 DEF SeenNote
  <2> QED BY <1>0, <1>1, <1>3, <1>4, <1>5, <1>6, <1>7, <2>1
          DEF JobVersionFits, NoteVersionFits, Touched
<1>10. \A r \in Request : /\ Held(s, r)' => Held(s, r)
                          /\ Touched(s, r)' => Touched(s, r)
                          /\ \/ note'[r] = note[r]
                             \/ Held(s, r) /\ Touched(s, r) /\ note'[r] \in Terminal
                          /\ JobVersionFits(s, r)' /\ NoteVersionFits(s, r)'
  BY <1>1, <1>3, <1>5, <1>7, <1>8, <1>9
<1>11. Shape(s)'
  <2>1. \A r \in Request : notev'[s][r] # "sending"
    BY <1>0, <1>1, <1>5 DEF Shape, Terminal
  <2>2. \A r \in todo'[s] : jobv'[s][r].status = "running"
    <3>1. todo[s] \subseteq Request
      BY <1>0 DEF TypeOK
    <3> QED BY <1>0, <1>1, <1>4, <3>1 DEF Shape
  <2> QED BY <1>6, <2>1, <2>2 DEF Shape
<1>12. MailsArePaid'
  <2> SUFFICES ASSUME NEW r \in Request, note[r] \in {"sent", "failed"} \/ InHand(r)
               PROVE  note'[r] \in {"sent", "failed"} \/ InHand(r)'
    BY <1>0, MailsKept
  <2>1. CASE note[r] \in {"sent", "failed"}
    BY <1>3, <1>5, <2>1 DEF NoteVersionFits, Touched, Terminal
  <2>2. CASE InHand(r)
    BY <1>5, <2>2 DEF InHand
  <2> QED BY <2>1, <2>2
<1>13. faults' \in 0..MaxFaults /\ mailed' \in [Request -> Nat] /\ faults <= faults'
       /\ todo' \in [Session -> SUBSET Request]
       /\ pc[s] \notin {"ready", "insert"} /\ pc'[s] \notin {"ready", "insert"}
       /\ UNCHANGED <<job, enabled, reply, toggles>>
       /\ \A t \in Session \ {s} : /\ pc'[t] = pc[t] /\ notev'[t] = notev[t]
                                   /\ jobv'[t] = jobv[t] /\ todo'[t] = todo[t]
                                   /\ current'[t] = current[t]
  BY <1>0, <1>4, <1>5, <1>6 DEF TypeOK
<1> QED BY <1>4, <1>5, <1>6, <1>10, <1>11, <1>12, <1>13, BatchKeeps

(* A handler that fails in its own session is rolled back to what was       *)
(* committed; its job goes on or is given up.                               *)
LEMMA HandlerFailsKeeps ==
    ASSUME IInv, NEW s \in Session, HandlerFails(s)
    PROVE  IInv'
<1>0. /\ TypeOK /\ faults \in Nat /\ faults' \in Nat /\ Shape(s) /\ pc[s] \in {"mail", "settle"}
      /\ faults' = faults + 1 /\ faults' \in 0..MaxFaults
      /\ UNCHANGED <<enabled, reply, mailed, toggles>>
  BY Constants DEF HandlerFails, IInv, TypeOK, SessionShape
<1>1. CASE ~OwnsSession(s)
  <2>1. Rollback(s, Rest(s)) /\ Rest(s) \in {"idle", "done"}
    BY <1>1 DEF HandlerFails, Rest
  <2>2. reply' \in [Request -> {"none", "queued", "sent", "suppressed", "replayed",
                                "conflict", "error"}]
    BY <1>0 DEF TypeOK
  <2> QED BY <1>0, <2>1, <2>2, RollbackKeeps
<1>2. CASE OwnsSession(s)
  <2>1. PICK q \in Request : current[s] = {q} /\ q \notin todo[s] /\ Touched(s, q)
    BY <1>0 DEF Shape, Touched, Terminal
  <2>2. /\ notev' = [notev EXCEPT ![s][q] = "absent"] /\ jobv' = [jobv EXCEPT ![s][q] = Raised(@)]
        /\ pc' = [pc EXCEPT ![s] = "batch"] /\ current' = [current EXCEPT ![s] = {}]
        /\ UNCHANGED <<note, job, todo>>
    BY <1>2, <2>1 DEF HandlerFails
  <2>3. /\ Held(s, q) /\ jobv[s][q] \in Job /\ jobv[s][q].attempts \in 0..MaxAttempts
        /\ jobv[s][q].status = "running"
        /\ \A r \in Request : JobVersionFits(s, r) /\ NoteVersionFits(s, r)
    BY <2>1, RunningIsHeld DEF IInv, VersionsFit
  <2>4. /\ jobv' \in [Session -> [Request -> Job]] /\ jobv'[s][q] \in Job
        /\ \A t \in Session \ {s} : jobv'[t] = jobv[t]
        /\ \A r \in Request \ {q} : jobv'[s][r] = jobv[s][r]
        /\ jobv'[s][q].attempts = jobv[s][q].attempts
        /\ jobv'[s][q].status = IF jobv[s][q].attempts >= MaxAttempts THEN "failed" ELSE "pending"
    <3>1. PICK j : j = Raised(jobv[s][q])
      OBVIOUS
    <3>2. /\ j \in Job /\ j.attempts = jobv[s][q].attempts
          /\ j.status = IF jobv[s][q].attempts >= MaxAttempts THEN "failed" ELSE "pending"
      BY <2>3, <3>1 DEF Raised, Job
    <3>3. jobv' = [jobv EXCEPT ![s] = [jobv[s] EXCEPT ![q] = j]]
      BY <1>0, <2>2, <3>1 DEF TypeOK
    <3> QED BY <1>0, <3>2, <3>3 DEF TypeOK
  <2>5. /\ notev' \in [Session -> [Request -> Status]]
        /\ \A t \in Session \ {s} : notev'[t] = notev[t]
        /\ \A r \in Request \ {q} : notev'[s][r] = notev[s][r]
        /\ notev'[s][q] = "absent"
    BY <1>0, <2>2 DEF TypeOK, Status
  <2>6. /\ pc' \in [Session -> Location] /\ pc'[s] = "batch"
        /\ current' \in [Session -> SUBSET Request] /\ current'[s] = {}
        /\ \A t \in Session \ {s} : pc'[t] = pc[t] /\ current'[t] = current[t]
    BY <1>0, <2>2 DEF TypeOK, Location
  <2>7. /\ Held(s, q)' /\ \A r \in Request \ {q} : Held(s, r)' <=> Held(s, r)
        /\ \A r \in Request : Touched(s, r)' => Touched(s, r)
    BY <2>4, <2>5 DEF Held, NoJob, Touched
  <2>8. JobVersionFits(s, q)' /\ NoteVersionFits(s, q)'
    <3>1. jobv[s][q].attempts <= faults + 1
      BY <2>3 DEF JobVersionFits, JobFits
    <3>2. JobFits(jobv'[s][q], SeenNote(s, q)', faults')
      BY <1>0, <2>3, <2>4, <3>1, Constants DEF JobFits
    (* Only a request's own session holds the job of what is not committed. *)
    <3>3. note[q] # "absent"
      BY <1>2, <2>3, ConstantsAssumption DEF JobVersionFits, OwnsSession
    <3> QED BY <2>2, <2>4, <2>5, <2>7, <3>2, <3>3 DEF JobVersionFits, NoteVersionFits, Touched
  <2>9. ASSUME NEW r \in Request \ {q} PROVE JobVersionFits(s, r)' /\ NoteVersionFits(s, r)'
    <3>1. SeenNote(s, r)' = SeenNote(s, r) /\ jobv[s][r] \in Job
      BY <1>0, <2>2, <2>5 DEF SeenNote, TypeOK
    <3>2. JobFits(jobv[s][r], SeenNote(s, r), faults) => JobFits(jobv[s][r], SeenNote(s, r), faults')
      BY <1>0, <3>1, FitsLater
    <3> QED BY <1>0, <2>1, <2>2, <2>3, <2>4, <2>5, <2>6, <2>7, <3>1, <3>2
            DEF JobVersionFits, NoteVersionFits, Touched
  <2>10. \A r \in Request : /\ Held(s, r)' => Held(s, r)
                            /\ Touched(s, r)' => Touched(s, r)
                            /\ JobVersionFits(s, r)' /\ NoteVersionFits(s, r)'
    BY <2>3, <2>7, <2>8, <2>9
  <2>11. Shape(s)'
    <3>1. \A r \in Request : notev'[s][r] # "sending"
      BY <1>0, <2>1, <2>5 DEF Shape
    <3>2. \A r \in todo'[s] : jobv'[s][r].status = "running"
      <4>1. todo[s] \subseteq Request
        BY <1>0 DEF TypeOK
      <4> QED BY <1>0, <2>1, <2>2, <2>4, <4>1 DEF Shape
    <3> QED BY <2>6, <3>1, <3>2 DEF Shape
  <2>12. MailsArePaid'
    BY <1>0, MailsKept
  <2>13. /\ note' \in [Request -> Status] /\ mailed' \in [Request -> Nat] /\ faults <= faults'
         /\ todo' \in [Session -> SUBSET Request]
         /\ pc[s] \notin {"ready", "insert"} /\ pc'[s] \notin {"ready", "insert"}
         /\ UNCHANGED <<job, enabled, reply, toggles>> /\ \A r \in Request : note'[r] = note[r]
         /\ \A t \in Session \ {s} : /\ pc'[t] = pc[t] /\ notev'[t] = notev[t]
                                     /\ jobv'[t] = jobv[t] /\ todo'[t] = todo[t]
                                     /\ current'[t] = current[t]
    BY <1>0, <2>2, <2>4, <2>5, <2>6 DEF TypeOK
  <2> QED BY <1>0, <2>4, <2>5, <2>6, <2>10, <2>11, <2>12, <2>13, BatchKeeps
<1> QED BY <1>1, <1>2

LEMMA EndBatchKeeps ==
    ASSUME IInv, NEW s \in Session, EndBatch(s)
    PROVE  IInv'
<1>1. /\ TypeOK /\ Shape(s) /\ pc[s] = "batch" /\ todo[s] = {} /\ Rest(s) \in {"idle", "done"}
      /\ UNCHANGED <<enabled, reply, mailed, faults, toggles>>
  BY DEF EndBatch, IInv, SessionShape, Rest
<1>2. /\ reply' \in [Request -> {"none", "queued", "sent", "suppressed", "replayed",
                                 "conflict", "error"}]
      /\ faults' \in 0..MaxFaults /\ faults <= faults' /\ current[s] = {}
  BY <1>1 DEF TypeOK, Shape
<1>3. CASE OwnsSession(s) \/ LateCommit
  BY <1>1, <1>2, <1>3, CommitKeeps DEF EndBatch
<1>4. CASE ~(OwnsSession(s) \/ LateCommit)
  <2>1. Rollback(s, Rest(s)) /\ ~LateCommit
    BY <1>4 DEF EndBatch
  <2> QED BY <1>1, <1>2, <2>1, RollbackKeeps
<1> QED BY <1>3, <1>4

LEMMA CrashKeeps ==
    ASSUME IInv, NEW s \in Session, Crash(s)
    PROVE  IInv'
<1>1. /\ Rollback(s, Rest(s)) /\ Rest(s) \in {"idle", "done"} /\ faults \in Nat
      /\ faults' \in 0..MaxFaults /\ faults < faults' /\ faults <= faults'
      /\ UNCHANGED <<enabled, reply, mailed, toggles>>
      /\ reply' \in [Request -> {"none", "queued", "sent", "suppressed", "replayed",
                                 "conflict", "error"}]
  BY Constants DEF Crash, Rest, IInv, TypeOK
<1> QED BY <1>1, RollbackKeeps

-----------------------------------------------------------------------------
(* Steps of a request.                                                      *)

(* A request that only moves on, or only hears its answer.                  *)
LEMMA MoveKeeps ==
    ASSUME IInv, NEW s \in Session, NEW l \in {"insert", "idle", "done", "background"},
           pc' = [pc EXCEPT ![s] = l],
           pc[s] = "ready" \/ (pc[s] = "answer" /\ l = "background"),
           reply' \in [Request -> {"none", "queued", "sent", "suppressed", "replayed",
                                   "conflict", "error"}],
           UNCHANGED <<note, job, enabled, notev, jobv, todo, current, mailed, faults, toggles>>
    PROVE  IInv'
<1>0. TypeOK /\ Shape(s) /\ faults \in Nat
  BY DEF IInv, SessionShape, TypeOK
<1>1. TypeOK'
  BY <1>0 DEF TypeOK, Location
<1>2. /\ pc'[s] = l /\ \A t \in Session \ {s} : pc'[t] = pc[t]
      /\ \A r \in Request : Live(r)' <=> Live(r)
      /\ \A t \in Session, r \in Request : /\ Held(t, r)' <=> Held(t, r)
                                           /\ Touched(t, r)' <=> Touched(t, r)
                                           /\ JobVersionFits(t, r)' <=> JobVersionFits(t, r)
                                           /\ NoteVersionFits(t, r)' <=> NoteVersionFits(t, r)
  BY <1>0 DEF TypeOK, Live, Held, Touched, JobVersionFits, NoteVersionFits, SeenNote
<1>3. NotInserted'
  <2> SUFFICES ASSUME NEW r \in Request, pc'[r] \in {"ready", "insert"}
               PROVE  ~Live(r)' /\ job'[r] = NoJob /\ \A t \in Session : ~Held(t, r)'
    BY DEF NotInserted
  <2>1. pc[r] \in {"ready", "insert"}
    BY <1>2 DEF Session
  <2> QED BY <1>2, <2>1 DEF IInv, NotInserted
<1>4. OneLivePerKey' /\ Exclusive' /\ VersionsFit'
  BY <1>2 DEF IInv, OneLivePerKey, Exclusive, VersionsFit, SameKey
<1>5. SessionShape'
  <2>1. Shape(s)'
    BY <1>0, <1>2 DEF Shape, Touched, Held
  <2>2. ASSUME NEW t \in Session \ {s} PROVE Shape(t)'
    BY <1>2, ShapeStays DEF IInv, SessionShape
  <2> QED BY <2>1, <2>2 DEF SessionShape
<1>6. CommittedFits'
  BY DEF IInv, CommittedFits
<1>7. MailsArePaid'
  <2>1. \A r \in Request : InHand(r)' <=> InHand(r)
    BY DEF InHand
  <2> QED BY <1>0, <2>1, MailsKept
<1> QED BY <1>1, <1>3, <1>4, <1>5, <1>6, <1>7 DEF IInv

LEMMA FindKeeps ==
    ASSUME IInv, NEW r \in Request, Find(r)
    PROVE  IInv'
<1>1. r \in Session /\ pc[r] = "ready"
      /\ UNCHANGED <<note, job, enabled, notev, jobv, todo, current, mailed, faults, toggles>>
  BY DEF Session, Find
<1>2. reply' \in [Request -> {"none", "queued", "sent", "suppressed", "replayed",
                              "conflict", "error"}]
  BY DEF Find, IInv, TypeOK
<1>3. PICK l \in {"insert", "idle", "done", "background"} : pc' = [pc EXCEPT ![r] = l]
  BY DEF Find, Schedules, Rest
<1> QED BY <1>1, <1>2, <1>3, MoveKeeps DEF Location

LEMMA CollideKeeps ==
    ASSUME IInv, NEW r \in Request, Collide(r)
    PROVE  IInv'
<1>1. /\ r \in Session /\ pc[r] = "insert" /\ Rollback(r, Rest(r)) /\ Rest(r) \in {"idle", "done"}
      /\ faults' \in 0..MaxFaults /\ faults <= faults' /\ UNCHANGED <<enabled, mailed, toggles>>
      /\ reply' \in [Request -> {"none", "queued", "sent", "suppressed", "replayed",
                                 "conflict", "error"}]
  BY DEF Session, Collide, Rest, IInv, TypeOK
<1>2. \A q \in Request : ~Touched(r, q)
  BY <1>1 DEF IInv, SessionShape, Shape
<1> QED BY <1>1, <1>2, RollbackKeeps

LEMMA AnswerKeeps ==
    ASSUME IInv, NEW r \in Request, Answer(r)
    PROVE  IInv'
<1>1. /\ r \in Session /\ pc[r] = "answer" /\ reply' = [reply EXCEPT ![r] = notev[r][r]]
      /\ Schedules(r, notev[r][r]) \in {"idle", "done", "background"}
      /\ UNCHANGED <<enabled, mailed, faults, toggles>> /\ TypeOK /\ Shape(r)
  BY DEF Session, Answer, Schedules, Rest, IInv, SessionShape
<1>2. /\ notev[r][r] \in {"queued", "sent", "suppressed"} /\ todo[r] = {} /\ current[r] = {}
      /\ reply' \in [Request -> {"none", "queued", "sent", "suppressed", "replayed",
                                 "conflict", "error"}]
  BY <1>1 DEF Shape, TypeOK
<1>3. CASE LateCommit /\ Schedules(r, notev[r][r]) = "background"
  BY <1>1, <1>2, <1>3, MoveKeeps DEF Answer, Location
<1>4. CASE ~(LateCommit /\ Schedules(r, notev[r][r]) = "background")
  BY <1>1, <1>2, <1>4, CommitKeeps DEF Answer
<1> QED BY <1>3, <1>4

(* The unique index: what another session has not committed makes the       *)
(* insert wait, and what is committed makes it fail.                        *)
LEMMA InsertKeeps ==
    ASSUME IInv, NEW r \in Request, Insert(r)
    PROVE  IInv'
<1>0. /\ r \in Session /\ TypeOK /\ faults \in Nat /\ Shape(r)
      /\ pc[r] = "insert" /\ ~InsertWaits(r) /\ MayInsert(r) /\ pc' = [pc EXCEPT ![r] = "answer"]
      /\ UNCHANGED <<note, job, enabled, todo, current, reply, mailed, faults, toggles>>
  BY DEF Session, Insert, IInv, TypeOK, SessionShape
<1>1. PICK st \in {"sent", "queued", "suppressed"} :
        /\ notev' = [notev EXCEPT ![r][r] = st]
        /\ jobv' = [jobv EXCEPT ![r][r] = IF st = "queued" THEN NewJob ELSE NoJob]
  BY DEF Insert, FirstStatus
<1>2. /\ ~Live(r) /\ job[r] = NoJob /\ note[r] = "absent"
      /\ \A t \in Session : ~Held(t, r) /\ ~Touched(t, r)
      /\ \A q \in Request : ~Held(r, q) /\ ~Touched(r, q)
  BY <1>0 DEF IInv, NotInserted, Live, Shape
<1>3. /\ pc' \in [Session -> Location] /\ pc'[r] = "answer" /\ \A t \in Session \ {r} : pc'[t] = pc[t]
      /\ notev' \in [Session -> [Request -> Status]] /\ jobv' \in [Session -> [Request -> Job]]
      /\ \A t \in Session \ {r} : notev'[t] = notev[t] /\ jobv'[t] = jobv[t]
      /\ \A q \in Request \ {r} : notev'[r][q] = "absent" /\ jobv'[r][q] = NoJob
      /\ notev'[r][r] = st
      /\ jobv'[r][r] = IF st = "queued" THEN NewJob ELSE NoJob
  <2>1. \A q \in Request : notev[r][q] = "absent" /\ jobv[r][q] = NoJob
    BY <1>2 DEF Touched, Held
  <2>2. pc' \in [Session -> Location] /\ pc'[r] = "answer" /\ \A t \in Session \ {r} : pc'[t] = pc[t]
    BY <1>0 DEF TypeOK, Location
  <2>3. PICK j : j = IF st = "queued" THEN NewJob ELSE NoJob
    OBVIOUS
  <2>4. j \in Job /\ st \in Status
    BY <2>3, JobTypes DEF Status, Terminal
  <2>5. jobv' = [jobv EXCEPT ![r][r] = j]
    BY <1>1, <2>3
  <2>6. /\ notev' \in [Session -> [Request -> Status]] /\ jobv' \in [Session -> [Request -> Job]]
        /\ \A t \in Session \ {r} : notev'[t] = notev[t] /\ jobv'[t] = jobv[t]
        /\ \A q \in Request \ {r} : notev'[r][q] = notev[r][q] /\ jobv'[r][q] = jobv[r][q]
        /\ notev'[r][r] = st /\ jobv'[r][r] = j
    BY <1>0, <1>1, <2>4, <2>5 DEF TypeOK
  <2> QED BY <2>1, <2>2, <2>3, <2>6
<1>4. TypeOK'
  BY <1>0, <1>3 DEF TypeOK, Location
<1>5. /\ \A q \in Request \ {r} : Live(q)' <=> Live(q)
      /\ \A t \in Session \ {r}, q \in Request : /\ Held(t, q)' <=> Held(t, q)
                                                 /\ Touched(t, q)' <=> Touched(t, q)
      /\ \A q \in Request \ {r} : ~Held(r, q)' /\ ~Touched(r, q)'
  <2>1. \A t \in Session \ {r}, q \in Request :
           (Held(t, q)' <=> Held(t, q)) /\ (Touched(t, q)' <=> Touched(t, q))
    BY <1>3 DEF Held, Touched
  <2>2. \A q \in Request \ {r} : ~Held(r, q)' /\ ~Touched(r, q)'
    BY <1>3 DEF Held, Touched
  <2>3. \A q \in Request \ {r} : Live(q)' <=> Live(q)
    BY <1>0, <1>2, <2>1, <2>2 DEF Live
  <2> QED BY <2>1, <2>2, <2>3
<1>6. NotInserted'
  <2> SUFFICES ASSUME NEW q \in Request, pc'[q] \in {"ready", "insert"}
               PROVE  ~Live(q)' /\ job'[q] = NoJob /\ \A t \in Session : ~Held(t, q)'
    BY DEF NotInserted
  <2>1. q # r /\ q \in Session
    BY <1>3 DEF Session
  <2>2. ~Live(q) /\ job[q] = NoJob /\ \A t \in Session : ~Held(t, q)
    BY <1>3, <2>1 DEF IInv, NotInserted
  <2> QED BY <1>0, <1>5, <2>1, <2>2
<1>7. OneLivePerKey'
  <2>1. ASSUME NEW q \in Request \ {r}, SameKey(q, r) PROVE ~Live(q)
    <3>1. note[q] = "absent"
      BY <1>0, <2>1 DEF MayInsert
    <3>2. \A t \in Session \ {r} : ~Touched(t, q)
      BY <1>0, <2>1, <3>1 DEF InsertWaits, Touched
    <3> QED BY <1>2, <3>1, <3>2 DEF Live
  <2>2. \A p, q \in Request : SameKey(p, q) => SameKey(q, p)
    BY DEF SameKey
  <2>3. \A p, q \in Request : SameKey(p, q)' <=> SameKey(p, q)
    BY DEF SameKey
  <2> QED BY <1>5, <2>1, <2>2, <2>3 DEF IInv, OneLivePerKey
<1>8. Exclusive'
  <2> SUFFICES ASSUME NEW t \in Session, NEW u \in Session, t # u, NEW q \in Request
               PROVE  ~(Touched(t, q)' /\ Touched(u, q)') /\ ~(Held(t, q)' /\ Held(u, q)')
    BY DEF Exclusive
  <2>1. CASE q = r
    BY <1>2, <1>5, <2>1
  <2>2. CASE q # r
    BY <1>5, <2>2 DEF IInv, Exclusive
  <2> QED BY <2>1, <2>2
<1>9. SessionShape'
  <2>1. Shape(r)'
    <3>1. todo'[r] = {} /\ current'[r] = {}
      BY <1>0 DEF Shape
    <3>2. \A q \in Request : notev'[r][q] # "sending"
      BY <1>3
    <3> QED BY <1>3, <3>1, <3>2 DEF Shape
  <2>2. ASSUME NEW t \in Session \ {r} PROVE Shape(t)'
    BY <1>0, <1>3, ShapeStays DEF IInv, SessionShape
  <2> QED BY <2>1, <2>2 DEF SessionShape
<1>10. VersionsFit'
  <2>1. ASSUME NEW t \in Session \ {r}, NEW q \in Request
        PROVE  JobVersionFits(t, q)' /\ NoteVersionFits(t, q)'
    <3>1. SeenNote(t, q)' = SeenNote(t, q)
      BY <1>0, <1>3 DEF SeenNote
    <3>2. JobVersionFits(t, q) /\ NoteVersionFits(t, q)
      BY DEF IInv, VersionsFit
    <3> QED BY <1>0, <1>3, <3>1, <3>2 DEF JobVersionFits, NoteVersionFits, Held, Touched
  <2>2. ASSUME NEW q \in Request \ {r}
        PROVE  JobVersionFits(r, q)' /\ NoteVersionFits(r, q)'
    BY <1>3, <1>5 DEF JobVersionFits, NoteVersionFits
  <2>3. JobVersionFits(r, r)'
    <3>1. JobFits(NewJob, SeenNote(r, r)', faults')
      BY <1>0, Constants DEF JobFits, NewJob
    <3>2. SUFFICES ASSUME Held(r, r)'
                   PROVE  /\ jobv'[r][r].status # "absent" /\ jobv'[r][r].status # "running"
                          /\ JobFits(jobv'[r][r], SeenNote(r, r)', faults')
                          /\ Touched(r, r)'
      BY DEF JobVersionFits
    <3>3. jobv'[r][r] = NewJob /\ st = "queued"
      BY <1>3, <3>2 DEF Held
    <3> QED BY <1>3, <3>1, <3>3 DEF Touched, NewJob
  <2>4. NoteVersionFits(r, r)'
    BY <1>0, <1>2, <1>3, JobTypes DEF NoteVersionFits, Held, Terminal
  <2> QED BY <2>1, <2>2, <2>3, <2>4 DEF VersionsFit
<1>11. CommittedFits'
  BY <1>0 DEF IInv, CommittedFits
<1>12. MailsArePaid'
  <2>1. \A q \in Request : InHand(q) => InHand(q)'
    BY <1>2, <1>3 DEF InHand, Touched
  <2> QED BY <1>0, <2>1, MailsKept
<1> QED BY <1>4, <1>6, <1>7, <1>8, <1>9, <1>10, <1>11, <1>12 DEF IInv

-----------------------------------------------------------------------------
LEMMA InitIInv == Init => IInv
<1> SUFFICES ASSUME Init PROVE IInv
  OBVIOUS
<1>1. /\ \A s \in Session, r \in Request : ~Touched(s, r) /\ ~Held(s, r)
      /\ \A r \in Request : ~Live(r) /\ note[r] = "absent" /\ job[r] = NoJob /\ mailed[r] = 0
  BY DEF Init, Touched, Held, Live, NoNotes, NoJobs
<1>2. TypeOK
  <2>1. NoNotes \in [Request -> Status] /\ NoJobs \in [Request -> Job]
    BY JobTypes DEF NoNotes, NoJobs, Status
  <2> QED BY <2>1, ConstantsAssumption DEF Init, TypeOK
<1>3. \A s \in Session : pc[s] \in {"ready", "idle"} /\ todo[s] = {} /\ current[s] = {}
  BY DEF Init
<1>4. NotInserted /\ OneLivePerKey /\ Exclusive
  BY <1>1 DEF NotInserted, OneLivePerKey, Exclusive, Session
<1>5. SessionShape
  <2> SUFFICES ASSUME NEW s \in Session PROVE Shape(s)
    BY DEF SessionShape
  <2>1. \A r \in Request : notev[s][r] # "sending"
    BY <1>1 DEF Touched
  <2> QED BY <1>1, <1>3, <2>1 DEF Shape
<1>6. VersionsFit
  BY <1>1 DEF VersionsFit, JobVersionFits, NoteVersionFits, Touched
<1>7. CommittedFits
  BY <1>1 DEF CommittedFits, JobFits, NoJob
<1>8. MailsArePaid
  BY <1>1, Constants DEF MailsArePaid, MailsArePaidFor, Init
<1> QED BY <1>2, <1>4, <1>5, <1>6, <1>7, <1>8 DEF IInv

LEMMA NextKeeps == IInv /\ [Next]_vars => IInv'
<1> SUFFICES ASSUME IInv, [Next]_vars PROVE IInv'
  OBVIOUS
<1>1. ASSUME NEW r \in Request, Send(r) PROVE IInv'
  BY <1>1, FindKeeps, InsertKeeps, CollideKeeps, AnswerKeeps DEF Send
<1>2. ASSUME NEW s \in Session, Batch(s) PROVE IInv'
  BY <1>2, ClaimKeeps, DispatchKeeps, MailKeeps, SettleKeeps, EndBatchKeeps DEF Batch
<1>3. ASSUME NEW s \in Session, HandlerFails(s) PROVE IInv'
  BY <1>3, HandlerFailsKeeps
<1>4. ASSUME NEW s \in Session, Crash(s) PROVE IInv'
  BY <1>4, CrashKeeps
<1>5. ASSUME UNCHANGED <<note, job, pc, notev, jobv, todo, current, reply, mailed, faults>>,
             enabled' \in BOOLEAN, toggles' \in 0..MaxToggles
      PROVE  IInv'
  <2>1. TypeOK'
    BY <1>5 DEF IInv, TypeOK
  <2>2. SessionShape'
    BY <1>5, ShapeStays DEF IInv, SessionShape
  <2>3. NotInserted' /\ OneLivePerKey' /\ Exclusive' /\ CommittedFits'
    BY <1>5 DEF IInv, NotInserted, OneLivePerKey, Exclusive, CommittedFits, Live, Touched, Held, SameKey
  <2>4. VersionsFit'
    BY <1>5 DEF IInv, VersionsFit, JobVersionFits, NoteVersionFits, Touched, Held, SeenNote
  <2>5. MailsArePaid'
    BY <1>5 DEF IInv, MailsArePaid, MailsArePaidFor, InHand
  <2> QED BY <2>1, <2>2, <2>3, <2>4, <2>5 DEF IInv
<1>6. CASE Toggle
  BY <1>5, <1>6, ConstantsAssumption DEF Toggle, IInv, TypeOK
<1>7. CASE UNCHANGED vars
  BY <1>5, <1>7 DEF vars, IInv, TypeOK
<1> QED BY <1>1, <1>2, <1>3, <1>4, <1>6, <1>7 DEF Next

LEMMA Invariance == Spec => []IInv
BY InitIInv, NextKeeps, PTL DEF Spec

-----------------------------------------------------------------------------
(* The theorems.                                                            *)

(* Every variable keeps its type.                                           *)
THEOREM TypeCorrect == Spec => []TypeOK
<1>1. IInv => TypeOK
  BY DEF IInv
<1> QED BY <1>1, Invariance, PTL

(* One scope and key is one notification, whatever requests race: the       *)
(* unique index alone decides, for every request looked it up in a snapshot *)
(* without the others' inserts.                                             *)
THEOREM OneKeyOneNote == Spec => []OneNotePerKey
<1>1. IInv => OneNotePerKey
  BY DEF IInv, OneNotePerKey, OneLivePerKey, Live
<1> QED BY <1>1, Invariance, PTL

(* A committed queued notification has a pending job, or its job was given  *)
(* up after as many errors as it has attempts: the notification and its job *)
(* are in one commit, and no commit of a batch parts them.                  *)
THEOREM NothingIsStranded == Spec => []QueuedHasJob
<1>1. IInv => QueuedHasJob
  <2> SUFFICES ASSUME IInv, NEW r \in Request, note[r] = "queued"
               PROVE  \/ job[r].status = "pending"
                      \/ job[r].attempts = MaxAttempts /\ faults >= MaxAttempts
    BY DEF QueuedHasJob
  <2> QED BY DEF IInv, CommittedFits, JobFits, Terminal
<1> QED BY <1>1, Invariance, PTL

(* With the commit after the answer and its background task, every email    *)
(* beyond the first, and every email of a notification that is suppressed   *)
(* or still queued, is paid for by a crash or an error.  With the commit    *)
(* before the answer the batch that a request runs is dropped without one.  *)
THEOREM EmailsAreCharged == ASSUME LateCommit PROVE Spec => []MailsArePaidFor
<1>1. IInv => MailsArePaidFor
  BY DEF IInv, MailsArePaid
<1> QED BY <1>1, Invariance, PTL

(* No step changes the outcome of a notification: no session has a version  *)
(* of a settled one to commit, however stale the job it runs.               *)
THEOREM OutcomesStand == Spec => OutcomeIsFinal
<1>1. ASSUME IInv, [Next]_vars, NEW r \in Request, note[r] \in Terminal
      PROVE  note'[r] = note[r]
  <2>1. /\ TypeOK /\ SessionShape
        /\ \A s \in Session : ~Touched(s, r)
    BY <1>1 DEF IInv, VersionsFit, NoteVersionFits
  <2>2. ASSUME NEW s \in Session, NEW l, Commit(s, l) PROVE note'[r] = note[r]
    BY <2>1, <2>2 DEF Commit, SeenNote, Touched
  <2>3. ASSUME NEW q \in Request, Send(q) PROVE note'[r] = note[r]
    <3>1. q \in Session
      BY DEF Session
    <3> QED BY <2>2, <2>3, <3>1 DEF Send, Find, Insert, Collide, Answer, Rollback
  <2>4. ASSUME NEW s \in Session, Settle(s) PROVE note'[r] = note[r]
    <3>1. PICK q \in Request : current[s] = {q} /\ Touched(s, q)
      BY <2>1, <2>4 DEF SessionShape, Shape, Settle, Touched, Terminal
    <3>2. q # r
      BY <2>1, <3>1
    <3> QED BY <2>1, <2>4, <3>1, <3>2 DEF Settle, TypeOK
  <2>5. ASSUME NEW s \in Session, EndBatch(s) PROVE note'[r] = note[r]
    BY <2>2, <2>5 DEF EndBatch, Rollback
  <2>6. ASSUME NEW s \in Session,
               Claim(s) \/ (\E q \in Request : Dispatch(s, q)) \/ Mail(s) \/ HandlerFails(s) \/ Crash(s)
        PROVE  note'[r] = note[r]
    BY <2>6 DEF Claim, Dispatch, Mail, HandlerFails, Crash, Rollback
  <2> QED BY <1>1, <2>3, <2>4, <2>5, <2>6 DEF Next, Batch, Toggle, vars
<1>2. IInv /\ [Next]_vars => [\A r \in Request : note[r] \in Terminal => note'[r] = note[r]]_vars
  BY <1>1
<1> QED BY <1>2, Invariance, PTL DEF Spec, OutcomeIsFinal
=============================================================================
