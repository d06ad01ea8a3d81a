-------------------------- MODULE SessionTokensProofs --------------------------
(***************************************************************************)
(* Safety of SessionTokens for every set of requests, users and sessions.  *)
(*                                                                         *)
(* A token stays dead, and a successor follows a spent token, only because *)
(* of what the open transactions hold: an uncommitted version of an        *)
(* existing token is revoked whatever entity it was written from.  IInv    *)
(* says so of the rows and versions (TableInv) and of where each request   *)
(* is (LocalInv).                                                          *)
(***************************************************************************)
EXTENDS SessionTokens, FiniteSetTheorems, WellFoundedInduction, TLAPS

Held(r, k) == work[r][k] # None

(* Only the request that names a row inserts it.                            *)
WorkExists == \A r \in Request, k \in Key : Held(r, k) => Exists(k) \/ k[2] = r

(* A token's session exists, or is inserted with it.                        *)
SessionKnown ==
    /\ \A i \in Id : Exists(Token(i)) => Exists(Session(row[Token(i)].session))
    /\ \A r \in Request, i \in Id : Held(r, Token(i)) =>
          \/ Exists(Session(work[r][Token(i)].session))
          \/ Held(r, Session(work[r][Token(i)].session))

(* Every new version of an existing token is revoked.                       *)
WorkDead ==
    \A r \in Request, i \in Id :
        Held(r, Token(i)) /\ Exists(Token(i)) => work[r][Token(i)].revoked

(* The predecessor of an uncommitted token is spent, or its death is part  *)
(* of the same transaction.                                                 *)
WorkSpends ==
    \A r \in Request, i \in Id : Held(r, Token(i)) =>
        LET p == work[r][Token(i)].from IN
        p # None => Exists(Token(p)) /\ (Dead(row[Token(p)]) \/ Held(r, Token(p)))

(* The mark of reuse comes with a revocation.                               *)
ReuseRevoked ==
    /\ \A i \in Id : Exists(Token(i)) /\ row[Token(i)].reuse => row[Token(i)].revoked
    /\ \A r \in Request, i \in Id :
          Held(r, Token(i)) /\ work[r][Token(i)].reuse => work[r][Token(i)].revoked

TableInv == ReuseRevoked /\ WorkExists /\ SessionKnown /\ WorkDead /\ WorkSpends /\ RotationSpends

(* The request has read the token it was called with and still needs it.   *)
Presenting(r) ==
    \/ pc[r] \in {"session", "organization", "reread", "issue"}
    \/ pc[r] \in {"update", "write"} /\ next[r] \in {"reread", "issue"}

LocalInv(r) ==
    /\ pc[r] # "done" => ~Exists(Token(r)) /\ ~Exists(Session(r))
    /\ \A i \in Id : entity[r][Token(i)] # None => Exists(Session(entity[r][Token(i)].session))
    /\ pc[r] \notin {"sessions", "update", "write"} => todo[r] = {}
    /\ \A k \in todo[r] : /\ Exists(k) /\ entity[r][k] # None
                          /\ k[1] = "token" => entity[r][k].revoked
    /\ Presenting(r) => /\ presented[r] \in Id /\ Exists(Stored(r))
                        /\ entity[r][Stored(r)] # None
    /\ pc[r] = "organization" => entity[r][SessionOf(r)] # None
    /\ (pc[r] = "write" /\ \E k \in todo[r] : k[1] = "token") => "revoked" \in changed[r]
    /\ (pc[r] \in {"update", "write"} /\ next[r] = "issue")
          => Stored(r) \in todo[r] \/ Held(r, Stored(r))
    /\ pc[r] = "issue" => Held(r, Stored(r))

IInv == TypeOK /\ TableInv /\ \A r \in Request : LocalInv(r)

-----------------------------------------------------------------------------
(* Keys, rows and entities.                                                 *)

LEMMA KeyFacts ==
    /\ \A i \in Id : /\ Token(i) \in Key /\ Token(i)[1] = "token" /\ Token(i)[2] = i
                     /\ Session(i) \in Key /\ Session(i)[1] = "session"
                     /\ Session(i)[2] = i
    /\ \A i, j \in Id : /\ Token(i) # Session(j)
                        /\ Token(i) = Token(j) => i = j
                        /\ Session(i) = Session(j) => i = j
    /\ \A k \in Key : /\ k[2] \in Id
                      /\ k = Token(k[2]) \/ k = Session(k[2])
                      /\ k[1] = "token" => k = Token(k[2])
BY DEF Key, Table, Token, Session

LEMMA RequestIsId == \A r \in Request : r \in Id
BY DEF Id

LEMMA NoneFacts == None \notin Row /\ None \notin Id
BY NoneIsNoRow, ConstantsAssumption

LEMMA RowTypes ==
    /\ \A v \in Row : /\ Revoked(v) \in Row /\ Revoked(v).revoked
                      /\ Revoked(v).session = v.session /\ Revoked(v).from = v.from
                      /\ Revoked(v).user = v.user
    /\ \A v \in Row : /\ Rotated(v) \in Row /\ Rotated(v).revoked
                      /\ Rotated(v).session = v.session /\ Rotated(v).from = v.from
                      /\ Rotated(v).user = v.user
    /\ \A v \in Row : LET w == [v EXCEPT !.reuse = TRUE, !.revoked = TRUE] IN
                      /\ w \in Row /\ w.revoked
                      /\ w.session = v.session
    /\ \A v \in Row : /\ v.session \in Id /\ v.from \in Id \cup {None} /\ v.user \in User
                      /\ v.used \in BOOLEAN /\ v.revoked \in BOOLEAN
BY DEF Row, Revoked, Rotated

LEMMA MergedTypes ==
    ASSUME NEW v \in Row, NEW w \in Row, NEW cs
    PROVE  /\ Merged(v, w, cs) \in Row
           /\ Merged(v, w, cs).session = w.session
           /\ Merged(v, w, cs).from = w.from
           /\ v.revoked /\ "revoked" \in cs => Merged(v, w, cs).revoked
BY DEF Row, Merged

LEMMA NewRowTypes ==
    ASSUME NEW s \in Id, NEW t \in Id \cup {None}, NEW u \in User
    PROVE  /\ NewRow(s, t, u) \in Row
           /\ NewRow(s, t, u).session = s
           /\ NewRow(s, t, u).from = t
           /\ ~NewRow(s, t, u).used /\ ~NewRow(s, t, u).revoked
BY DEF Row, NewRow

LEMMA BlankTypes == Blank \in [Key -> Row \cup {None}] /\ \A k \in Key : Blank[k] = None
BY DEF Blank

LEMMA RankIsNat == ASSUME TypeOK PROVE Rank \in Nat
<1>1. IsFiniteSet(Id)
  BY ConstantsAssumption, FS_Union DEF Id
<1>2. IsFiniteSet({i \in Id : born[i] # 0})
  BY <1>1, FS_Subset
<1>3. Cardinality({i \in Id : born[i] # 0}) \in Nat
  BY <1>2, FS_CardinalityType
<1> QED BY <1>3 DEF Rank

LEMMA SeenTypes ==
    ASSUME TypeOK, NEW r \in Request, NEW k \in Key
    PROVE  Seen(r, k) \in Row \cup {None}
BY DEF TypeOK, Seen

-----------------------------------------------------------------------------
(* Types.                                                                   *)

Place    == Waiting \cup Ended \cup
            {"session", "organization", "lock", "tokens", "sessions", "update",
             "write", "reread", "raise", "issue", "open", "commit"}
Continuation == {"idle", "reread", "raise", "issue", "open", "commit"}

LEMMA ReadsTypes ==
    ASSUME TypeOK, NEW r \in Request, NEW k \in Key, NEW v \in Row \cup {None},
           Reads(r, k, v)
    PROVE  entity' \in [Request -> [Key -> Row \cup {None}]]
BY DEF TypeOK, Reads

LEMMA GotoTypes ==
    ASSUME TypeOK, NEW r \in Request, NEW l \in Place, Goto(r, l)
    PROVE  pc' \in [Request -> Place]
BY DEF TypeOK, Goto, Place

LEMMA UpdatesTypes ==
    ASSUME TypeOK, NEW r \in Request, NEW ks \in SUBSET Key, NEW n \in Continuation,
           Updates(r, ks, n)
    PROVE  /\ todo' \in [Request -> SUBSET Key]
           /\ next' \in [Request -> Continuation]
           /\ pc' \in [Request -> Place]
BY DEF TypeOK, Updates, Place, Continuation, Waiting

LEMMA EndTypes ==
    ASSUME TypeOK, NEW r \in Request, NEW o \in Place, End(r, o)
    PROVE  /\ pc' \in [Request -> Place]
           /\ work' \in [Request -> [Key -> Row \cup {None}]]
           /\ entity' \in [Request -> [Key -> Row \cup {None}]]
           /\ todo' \in [Request -> SUBSET Key]
           /\ changed' \in [Request -> SUBSET Column]
           /\ next' \in [Request -> Continuation]
<1>1. pc' \in [Request -> Place]
  BY GotoTypes DEF End
<1> QED BY <1>1, BlankTypes DEF TypeOK, End, Continuation

LEMMA RollbackTypes ==
    ASSUME TypeOK, NEW r \in Request, NEW o \in Place, Rollback(r, o)
    PROVE  TypeOK'
BY EndTypes DEF TypeOK, Rollback, Place, Continuation

LEMMA StoredTypes ==
    ASSUME IInv, NEW r \in Request, Presenting(r)
    PROVE  /\ presented[r] \in Id /\ Stored(r) \in Key /\ Stored(r) = Token(presented[r])
           /\ entity[r][Stored(r)] \in Row
           /\ Exists(Stored(r))
           /\ SessionOf(r) \in Key
           /\ Exists(SessionOf(r)) /\ row[SessionOf(r)] \in Row
<1>1. presented[r] \in Id /\ entity[r][Stored(r)] # None /\ Exists(Stored(r))
  BY DEF IInv, LocalInv
<1>2. Stored(r) \in Key
  BY <1>1, KeyFacts DEF Stored
<1>3. entity[r][Stored(r)] \in Row
  BY <1>1, <1>2 DEF IInv, TypeOK
<1>4. SessionOf(r) \in Key
  BY <1>3, KeyFacts, RowTypes DEF SessionOf
<1>5. Exists(SessionOf(r))
  BY <1>1 DEF IInv, LocalInv, Stored, SessionOf
<1> QED BY <1>1, <1>2, <1>3, <1>4, <1>5 DEF Stored, Exists, IInv, TypeOK

LEMMA InitTypes == Init => TypeOK
<1> SUFFICES ASSUME Init PROVE TypeOK
  OBVIOUS
<1>1. row \in [Key -> Row \cup {None}]
  <2>1. \A k \in Key : k[2] \in Old => NewRow(k[2], None, UserOf[k[2]]) \in Row
    BY KeyFacts, NewRowTypes, ConstantsAssumption
  <2> QED BY <2>1 DEF Init
<1>2. born \in [Id -> Nat]
  <2>1. Cardinality(Old) \in Nat
    BY ConstantsAssumption, FS_CardinalityType
  <2> QED BY <2>1 DEF Init
<1> QED BY <1>1, <1>2, BlankTypes DEF Init, TypeOK, Waiting

-----------------------------------------------------------------------------
(* What a step of r leaves of the other requests.                          *)

SameRequest(q) == /\ pc'[q] = pc[q] /\ work'[q] = work[q] /\ entity'[q] = entity[q]
                  /\ todo'[q] = todo[q] /\ next'[q] = next[q]
                  /\ changed'[q] = changed[q] /\ presented'[q] = presented[q]
Others(r) == \A q \in Request \ {r} : SameRequest(q)
Grows == \A k \in Key : Exists(k) => Exists(k)'

LEMMA SameRequestKeeps ==
    ASSUME IInv, NEW q \in Request, SameRequest(q), Grows,
           pc[q] # "done" => ~Exists(Token(q))' /\ ~Exists(Session(q))'
    PROVE  LocalInv(q)'
<1> USE DEF SameRequest
<1>1. \A i \in Id : entity'[q][Token(i)] # None
                      => row'[Session(entity'[q][Token(i)].session)] # None
  <2>1. SUFFICES ASSUME NEW i \in Id, entity[q][Token(i)] # None
                 PROVE  row'[Session(entity[q][Token(i)].session)] # None
    OBVIOUS
  <2>2. entity[q][Token(i)] \in Row
    BY <2>1, KeyFacts DEF IInv, TypeOK
  <2>3. Session(entity[q][Token(i)].session) \in Key
    BY <2>2, KeyFacts, RowTypes
  <2>4. Exists(Session(entity[q][Token(i)].session))
    BY <2>1 DEF IInv, LocalInv
  <2> QED BY <2>3, <2>4 DEF Grows, Exists
<1>2. \A k \in todo'[q] : /\ Exists(k)' /\ entity'[q][k] # None
                          /\ k[1] = "token" => entity'[q][k].revoked
  BY DEF IInv, LocalInv, TypeOK, Grows
<1>3. Presenting(q)' => /\ presented'[q] \in Id /\ Exists(Stored(q))'
                        /\ entity'[q][Stored(q)'] # None
  <2>1. SUFFICES ASSUME Presenting(q) PROVE Exists(Stored(q))'
    BY DEF Presenting, IInv, LocalInv, Stored, Exists
  <2>2. Stored(q)' = Stored(q)
    BY DEF Stored
  <2> QED BY <2>1, <2>2, StoredTypes DEF Grows, Exists
<1>4. pc'[q] = "organization" => entity'[q][SessionOf(q)'] # None
  BY DEF IInv, LocalInv, SessionOf, Stored
<1>5. /\ pc'[q] \notin {"sessions", "update", "write"} => todo'[q] = {}
      /\ (pc'[q] = "write" /\ \E k \in todo'[q] : k[1] = "token") => "revoked" \in changed'[q]
      /\ (pc'[q] \in {"update", "write"} /\ next'[q] = "issue")
            => Stored(q)' \in todo'[q] \/ Held(q, Stored(q))'
      /\ pc'[q] = "issue" => Held(q, Stored(q))'
  BY DEF IInv, LocalInv, Held, Stored
<1> QED BY <1>1, <1>2, <1>3, <1>4, <1>5 DEF LocalInv, Exists

(* A step that only reads.                                                  *)
LEMMA QuietKeeps ==
    ASSUME IInv, NEW r \in Request, UNCHANGED <<row, work>>, Others(r),
           TypeOK', LocalInv(r)'
    PROVE  IInv'
<1>1. TableInv'
  BY DEF IInv, TableInv, ReuseRevoked, WorkExists, SessionKnown, WorkDead, WorkSpends,
         RotationSpends, Held, Exists
<1>2. ASSUME NEW q \in Request \ {r} PROVE LocalInv(q)'
  <2>1. SameRequest(q) /\ Grows
    BY DEF Others, Grows, Exists
  <2>2. pc[q] # "done" => ~Exists(Token(q))' /\ ~Exists(Session(q))'
    BY DEF IInv, LocalInv, Exists
  <2> QED BY <2>1, <2>2, SameRequestKeeps
<1> QED BY <1>1, <1>2 DEF IInv

-----------------------------------------------------------------------------
(* The steps of refresh and logout that only read.                         *)

LEMMA PresentUnknownKeeps ==
    ASSUME IInv, NEW r \in Request, NEW t \in Id, PresentUnknown(r, t)
    PROVE  IInv'
<1> USE DEF PresentUnknown, Goto
<1>1. TypeOK'
  BY DEF IInv, TypeOK, Waiting, Ended
<1>2. Others(r)
  BY DEF Others, SameRequest, IInv, TypeOK
<1>3. pc'[r] \in {"done", "failed"} /\ pc[r] # "done"
  BY DEF IInv, TypeOK
<1>4. LocalInv(r)'
  BY <1>3 DEF IInv, LocalInv, TypeOK, Presenting, Held, Exists
<1> QED BY <1>1, <1>2, <1>4, QuietKeeps

(* The entity read from an existing token is about that token's session.   *)
LEMMA TokenRead ==
    ASSUME IInv, NEW t \in Id, row[Token(t)] # None
    PROVE  /\ Token(t) \in Key /\ row[Token(t)] \in Row
           /\ row[Session(row[Token(t)].session)] # None
<1>1. Token(t) \in Key /\ row[Token(t)] \in Row
  BY KeyFacts DEF IInv, TypeOK
<1>2. Exists(Session(row[Token(t)].session))
  BY DEF IInv, TableInv, SessionKnown, Exists
<1> QED BY <1>1, <1>2 DEF Exists

(* A read puts v into r's entities; a token's session must exist.          *)
LEMMA ReadKeepsSessions ==
    ASSUME IInv, NEW r \in Request, NEW k \in Key, NEW v \in Row, Reads(r, k, v),
           row' = row,
           k[1] = "token" => row[Session(v.session)] # None
    PROVE  \A i \in Id : entity'[r][Token(i)] # None
              => row'[Session(entity'[r][Token(i)].session)] # None
<1>1. SUFFICES ASSUME NEW i \in Id, entity'[r][Token(i)] # None
               PROVE  row[Session(entity'[r][Token(i)].session)] # None
  OBVIOUS
<1>2. CASE k = Token(i)
  BY <1>2, KeyFacts DEF Reads, IInv, TypeOK
<1>3. CASE k # Token(i)
  <2>1. entity'[r][Token(i)] = entity[r][Token(i)]
    BY <1>3, KeyFacts DEF Reads, IInv, TypeOK
  <2> QED BY <1>1, <2>1 DEF IInv, LocalInv, Exists
<1> QED BY <1>2, <1>3

LEMMA PresentLiveKeeps ==
    ASSUME IInv, NEW r \in Request, NEW t \in Id, PresentLive(r, t)
    PROVE  IInv'
<1> USE DEF PresentLive
<1>1. Token(t) \in Key /\ row[Token(t)] \in Row
      /\ row[Session(row[Token(t)].session)] # None
  BY TokenRead
<1>2. TypeOK'
  BY <1>1, ReadsTypes DEF IInv, TypeOK, Goto
<1>3. Others(r)
  BY DEF Others, SameRequest, IInv, TypeOK, Goto, Reads
<1>4. LocalInv(r)'
  <2>1. entity'[r][Token(t)] = row[Token(t)] /\ presented'[r] = t /\ pc'[r] = "session"
    BY <1>1 DEF Reads, IInv, TypeOK, Goto
  <2>2. todo'[r] = {}
    BY DEF IInv, LocalInv
  <2> QED BY <1>1, <2>1, <2>2, KeyFacts, ReadKeepsSessions
          DEF IInv, LocalInv, TypeOK, Presenting, Held, Exists, Stored
<1> QED BY <1>2, <1>3, <1>4, QuietKeeps

(* A step that reads v of row k and starts the updates of ks.              *)
LEMMA StartUpdatesKeeps ==
    ASSUME IInv, NEW r \in Request, NEW k \in Key, NEW v \in Row,
           NEW ks \in SUBSET Key, NEW n \in Continuation,
           UNCHANGED <<row, work, born, suspended, changed>>,
           presented' \in [Request -> Id \cup {None}],
           \A q \in Request \ {r} : presented'[q] = presented[q],
           Reads(r, k, v), Updates(r, ks, n),
           pc[r] # "done", pc[r] # "idle" => presented'[r] = presented[r],
           k[1] = "token" => v.revoked /\ row[Session(v.session)] # None,
           \A l \in ks : row[l] # None /\ (l # k => l[1] = "session" /\ entity[r][l] # None),
           n \in {"reread", "issue"} => /\ presented'[r] \in Id
                                        /\ k = Token(presented'[r])
                                        /\ row[k] # None,
           n = "issue" => k \in ks
    PROVE  IInv'
<1>1. TypeOK'
  BY ReadsTypes, UpdatesTypes DEF IInv, TypeOK, Place, Continuation
<1>2. Others(r)
  BY DEF Others, SameRequest, IInv, TypeOK, Reads, Updates
<1>3. /\ entity'[r][k] = v /\ todo'[r] = ks /\ next'[r] = n
      /\ pc'[r] = IF ks = {} THEN n ELSE "update"
      /\ \A l \in Key \ {k} : entity'[r][l] = entity[r][l]
  BY DEF IInv, TypeOK, Reads, Updates
<1>4. \A i \in Id : entity'[r][Token(i)] # None
              => row'[Session(entity'[r][Token(i)].session)] # None
  BY ReadKeepsSessions
<1>5. \A l \in ks : row[l] # None /\ entity'[r][l] # None
                    /\ (l[1] = "token" => entity'[r][l].revoked)
  BY <1>3, NoneFacts
<1>6. Presenting(r)' => presented'[r] \in Id /\ k = Token(presented'[r]) /\ row[k] # None
  BY <1>3 DEF Presenting, Continuation
<1>7. LocalInv(r)'
  <2>1. pc'[r] \notin {"done", "organization", "write", "sessions"}
    BY <1>3 DEF Continuation
  <2>2. row[Token(r)] = None /\ row[Session(r)] = None
    BY DEF IInv, LocalInv, Exists
  <2>3. Stored(r)' = Token(presented'[r])
    BY DEF Stored
  <2>4. pc'[r] = "issue" => ks = {} /\ n = "issue"
    BY <1>3
  <2> QED BY <1>3, <1>4, <1>5, <1>6, <2>1, <2>2, <2>3, <2>4, NoneFacts
          DEF LocalInv, Held, Exists
<1> QED BY <1>1, <1>2, <1>7, QuietKeeps

LEMMA PresentDeadKeeps ==
    ASSUME IInv, NEW r \in Request, NEW t \in Id, PresentDead(r, t)
    PROVE  IInv'
<1> DEFINE v == row[Token(t)]
           w == IF v.reuse THEN v ELSE [v EXCEPT !.reuse = TRUE, !.revoked = TRUE]
<1>1. Token(t) \in Key /\ v \in Row /\ row[Session(v.session)] # None
  BY TokenRead DEF PresentDead
<1>2. w \in Row /\ w.session = v.session
  BY <1>1, RowTypes
<1>3. w.revoked
  <2>1. ~v.reuse => w.revoked
    BY <1>1, RowTypes
  <2>2. v.reuse => v.revoked
    BY DEF PresentDead, IInv, TableInv, ReuseRevoked, Exists
  <2> QED BY <2>1, <2>2
<1>4. presented'[r] = t /\ presented' \in [Request -> Id \cup {None}]
      /\ \A q \in Request \ {r} : presented'[q] = presented[q]
  BY DEF PresentDead, IInv, TypeOK
<1>5. /\ Reads(r, Token(t), w) /\ Updates(r, {Token(t)}, "reread")
      /\ UNCHANGED <<row, work, born, suspended, changed>>
      /\ pc[r] = "idle" /\ row[Token(t)] # None
  BY DEF PresentDead
<1>6. {Token(t)} \in SUBSET Key /\ "reread" \in Continuation
  BY <1>1 DEF Continuation
<1> HIDE DEF v, w
<1> QED BY <1>1, <1>2, <1>3, <1>4, <1>5, <1>6, StartUpdatesKeeps

LEMMA PresentToLogoutKeeps ==
    ASSUME IInv, NEW r \in Request, NEW t \in Id, PresentToLogout(r, t)
    PROVE  IInv'
<1> DEFINE v == row[Token(t)]
           w == Revoked(v)
           ks == IF v.revoked THEN {} ELSE {Token(t)}
<1>1. Token(t) \in Key /\ v \in Row /\ row[Session(v.session)] # None
  BY TokenRead DEF PresentToLogout
<1>2. w \in Row /\ w.session = v.session /\ w.revoked
  BY <1>1, RowTypes
<1>3. presented'[r] = t /\ presented' \in [Request -> Id \cup {None}]
      /\ \A q \in Request \ {r} : presented'[q] = presented[q]
  BY DEF PresentToLogout, IInv, TypeOK
<1>4. /\ Reads(r, Token(t), w) /\ Updates(r, ks, "reread")
      /\ UNCHANGED <<row, work, born, suspended, changed>>
      /\ pc[r] = "idle" /\ row[Token(t)] # None
  BY DEF PresentToLogout
<1>5. ks \subseteq {Token(t)} /\ ks \in SUBSET Key /\ "reread" \in Continuation
  BY <1>1 DEF Continuation
<1> HIDE DEF v, w, ks
<1> QED BY <1>1, <1>2, <1>3, <1>4, <1>5, StartUpdatesKeeps

LEMMA RefuseSuspendedKeeps ==
    ASSUME IInv, NEW r \in Request, RefuseSuspended(r)
    PROVE  IInv'
<1> DEFINE v == entity[r][Stored(r)]
           w == Revoked(v)
<1>1. Presenting(r) /\ pc[r] = "organization"
  BY DEF RefuseSuspended, Presenting
<1>2. /\ presented[r] \in Id /\ Stored(r) \in Key /\ Stored(r) = Token(presented[r])
      /\ v \in Row /\ row[Stored(r)] # None /\ row[SessionOf(r)] # None
  BY <1>1, StoredTypes DEF Exists
<1>3. w \in Row /\ w.session = v.session /\ w.revoked
  BY <1>2, RowTypes
<1>4. row[Session(w.session)] # None
  BY <1>2, <1>3 DEF SessionOf
<1>5. /\ Reads(r, Stored(r), w) /\ Updates(r, {Stored(r)}, "reread")
      /\ UNCHANGED <<row, work, born, suspended, changed, presented>>
  BY DEF RefuseSuspended
<1>6. {Stored(r)} \in SUBSET Key /\ "reread" \in Continuation
      /\ presented' \in [Request -> Id \cup {None}]
  BY <1>2, <1>5 DEF Continuation, IInv, TypeOK
<1> HIDE DEF v, w
<1> QED BY <1>1, <1>2, <1>3, <1>4, <1>5, <1>6, StartUpdatesKeeps

LEMMA RotateKeeps ==
    ASSUME IInv, NEW r \in Request, Rotate(r)
    PROVE  IInv'
<1> DEFINE v == entity[r][Stored(r)]
           w == Rotated(v)
           ks == {Stored(r), SessionOf(r)}
<1>1. Presenting(r) /\ pc[r] = "organization" /\ entity[r][SessionOf(r)] # None
  BY DEF Rotate, Presenting, IInv, LocalInv
<1>2. /\ presented[r] \in Id /\ Stored(r) \in Key /\ Stored(r) = Token(presented[r])
      /\ v \in Row /\ row[Stored(r)] # None
      /\ SessionOf(r) \in Key /\ row[SessionOf(r)] # None
  BY <1>1, StoredTypes DEF Exists
<1>3. w \in Row /\ w.session = v.session /\ w.revoked
  BY <1>2, RowTypes
<1>4. row[Session(w.session)] # None /\ SessionOf(r)[1] = "session"
  BY <1>2, <1>3, KeyFacts, RowTypes DEF SessionOf
<1>5. /\ Reads(r, Stored(r), w) /\ Updates(r, ks, "issue")
      /\ UNCHANGED <<row, work, born, suspended, changed, presented>>
  BY DEF Rotate
<1>6. ks \in SUBSET Key /\ "issue" \in Continuation
      /\ presented' \in [Request -> Id \cup {None}]
      /\ Stored(r) \in ks
  BY <1>2, <1>5 DEF Continuation, IInv, TypeOK
<1>7. \A l \in ks : row[l] # None /\ (l # Stored(r) => l[1] = "session" /\ entity[r][l] # None)
  BY <1>1, <1>2, <1>4
<1>8. pc[r] # "done" /\ presented' = presented
  BY <1>1, <1>5
<1> HIDE DEF v, w, ks
<1> QED BY <1>2, <1>3, <1>4, <1>5, <1>6, <1>7, <1>8, StartUpdatesKeeps, SMTT(60)

LEMMA RereadKeeps ==
    ASSUME IInv, NEW r \in Request, Reread(r)
    PROVE  IInv'
<1> DEFINE k == SessionOf(r)
           w == Revoked(row[k])
           ks == IF row[k].revoked THEN {} ELSE {k}
<1>1. pc[r] = "reread" /\ Presenting(r)
  BY DEF Reread, Presenting
<1>2. k \in Key /\ row[k] \in Row /\ row[k] # None /\ k[1] # "token"
  BY <1>1, StoredTypes, KeyFacts, RowTypes DEF Exists, SessionOf
<1>3. w \in Row /\ ks \subseteq {k} /\ ks \in SUBSET Key
  BY <1>2, RowTypes
<1>4. AfterRevoking(r) \in Continuation /\ AfterRevoking(r) \notin {"reread", "issue"}
  BY DEF Continuation, AfterRevoking
<1>5. UNCHANGED <<row, work, born, suspended, changed>> /\ presented' = presented
  BY DEF Reread
<1>6. Reads(r, k, w) /\ Updates(r, ks, AfterRevoking(r))
  BY DEF Reread
<1>7. presented' \in [Request -> Id \cup {None}]
  BY <1>5 DEF IInv, TypeOK
<1>8. \A l \in ks : row[l] # None /\ (l # k => l[1] = "session" /\ entity[r][l] # None)
  BY <1>2, <1>3
<1> HIDE DEF k, w, ks
<1> QED BY <1>1, <1>2, <1>3, <1>4, <1>5, <1>6, <1>7, <1>8, StartUpdatesKeeps

LEMMA ReadSessionKeeps ==
    ASSUME IInv, NEW r \in Request, ReadSession(r), ~Rollback(r, "failed")
    PROVE  IInv'
<1> DEFINE k == SessionOf(r)
<1>1. pc[r] = "session" /\ Presenting(r)
  BY DEF ReadSession, Presenting
<1>2. /\ k \in Key /\ row[k] \in Row /\ k[1] # "token" /\ k # Stored(r)
      /\ presented[r] \in Id /\ Stored(r) = Token(presented[r])
      /\ Stored(r) \in Key /\ entity[r][Stored(r)] \in Row
  <2>1. /\ presented[r] \in Id /\ Stored(r) = Token(presented[r]) /\ Stored(r) \in Key
        /\ entity[r][Stored(r)] \in Row /\ k \in Key /\ row[k] \in Row
    BY <1>1, StoredTypes
  <2>2. entity[r][Stored(r)].session \in Id
    BY <2>1, RowTypes
  <2>3. k[1] = "session" /\ Stored(r)[1] = "token"
    BY <2>1, <2>2, KeyFacts DEF SessionOf
  <2> QED BY <2>1, <2>3
<1>3. /\ Reads(r, k, row[k]) /\ Goto(r, "organization")
      /\ UNCHANGED <<row, work, born, suspended>>
      /\ presented' = presented /\ todo' = todo /\ changed' = changed /\ next' = next
  BY DEF ReadSession
<1>4. TypeOK'
  BY <1>2, <1>3, ReadsTypes, GotoTypes DEF IInv, TypeOK, Place
<1>5. Others(r)
  BY <1>3 DEF Others, SameRequest, IInv, TypeOK, Reads, Goto
<1>6. \A i \in Id : entity'[r][Token(i)] # None
              => row'[Session(entity'[r][Token(i)].session)] # None
  BY <1>2, <1>3, ReadKeepsSessions
<1>7. entity'[r][k] = row[k] /\ entity'[r][Stored(r)] = entity[r][Stored(r)]
      /\ pc'[r] = "organization"
  BY <1>2, <1>3 DEF Reads, Goto, IInv, TypeOK
<1>8. Stored(r)' = Stored(r) /\ SessionOf(r)' = k
  BY <1>3, <1>7 DEF Stored, SessionOf
<1>9. todo'[r] = {}
  BY <1>1, <1>3 DEF IInv, LocalInv
<1>10. LocalInv(r)'
  BY <1>1, <1>2, <1>3, <1>6, <1>7, <1>8, <1>9, NoneFacts
     DEF IInv, LocalInv, Presenting, Held, Exists
<1> QED BY <1>3, <1>4, <1>5, <1>10, QuietKeeps

(* A step that only goes from one place to another.                         *)
LEMMA GotoKeeps ==
    ASSUME IInv, NEW r \in Request, NEW l \in {"failed", "tokens", "lock"}, Goto(r, l),
           pc[r] \in {"idle", "lock"},
           UNCHANGED <<row, born, suspended, work, presented, entity, todo, changed, next>>
    PROVE  IInv'
<1>1. TypeOK'
  BY GotoTypes DEF IInv, TypeOK, Place, Ended
<1>2. Others(r)
  BY DEF Others, SameRequest, IInv, TypeOK, Goto
<1>3. pc'[r] = l
  BY DEF IInv, TypeOK, Goto
<1>4. LocalInv(r)'
  BY <1>3 DEF IInv, LocalInv, Presenting, Held, Exists
<1> QED BY <1>1, <1>2, <1>4, QuietKeeps

LEMMA StartKeeps ==
    ASSUME IInv, NEW r \in Request,
           StartLogin(r) \/ StartPassword(r) \/ StartSuspend(r) \/ LockOrganization(r)
    PROVE  IInv'
<1>1. CASE StartLogin(r)
  BY <1>1, GotoKeeps DEF StartLogin
<1>2. CASE StartPassword(r)
  BY <1>2, GotoKeeps DEF StartPassword
<1>3. CASE StartSuspend(r)
  BY <1>3, GotoKeeps DEF StartSuspend
<1>4. CASE LockOrganization(r)
  BY <1>4, GotoKeeps DEF LockOrganization
<1> QED BY <1>1, <1>2, <1>3, <1>4

-----------------------------------------------------------------------------
(* Listing the rows to revoke, and preparing an UPDATE.                     *)

LEMMA ListsKeepsEntities ==
    ASSUME IInv, NEW r \in Request, NEW ks \in SUBSET Key, Lists(r, ks), row' = row,
           \A k \in ks : row[k] # None
    PROVE  /\ entity' \in [Request -> [Key -> Row \cup {None}]]
           /\ \A q \in Request \ {r} : entity'[q] = entity[q]
           /\ \A k \in ks : entity'[r][k] \in Row /\ entity'[r][k].revoked
           /\ \A k \in Key \ ks : entity'[r][k] = entity[r][k]
           /\ \A i \in Id : entity'[r][Token(i)] # None
                  => row'[Session(entity'[r][Token(i)].session)] # None
<1>1. \A k \in ks : row[k] \in Row
  BY DEF IInv, TypeOK
<1>2. /\ \A q \in Request \ {r} : entity'[q] = entity[q]
      /\ entity'[r] = [k \in Key |-> IF k \in ks THEN Revoked(row[k]) ELSE entity[r][k]]
      /\ DOMAIN entity' = Request /\ entity' = [q \in Request |-> entity'[q]]
  BY DEF Lists, IInv, TypeOK
<1>3. entity'[r] \in [Key -> Row \cup {None}]
  <2>1. \A k \in ks : Revoked(row[k]) \in Row
    BY <1>1, RowTypes
  <2>2. \A k \in Key : entity[r][k] \in Row \cup {None}
    BY DEF IInv, TypeOK
  <2> QED BY <1>2, <2>1, <2>2
<1>4. entity' \in [Request -> [Key -> Row \cup {None}]]
  BY <1>2, <1>3 DEF IInv, TypeOK
<1>5. ASSUME NEW i \in Id, entity'[r][Token(i)] # None
      PROVE  row'[Session(entity'[r][Token(i)].session)] # None
  <2>1. CASE Token(i) \in ks
    <3>1. entity'[r][Token(i)].session = row[Token(i)].session
      <4>1. entity'[r][Token(i)] = Revoked(row[Token(i)])
        BY <1>2, <2>1
      <4>2. row[Token(i)] \in Row
        BY <1>1, <2>1
      <4>3. Revoked(row[Token(i)]).session = row[Token(i)].session
        BY <4>2, RowTypes
      <4> QED BY <4>1, <4>3
    <3>2. row[Session(row[Token(i)].session)] # None
      BY <2>1, TokenRead
    <3> QED BY <3>1, <3>2
  <2>2. CASE Token(i) \notin ks
    <3>1. entity'[r][Token(i)] = entity[r][Token(i)]
      BY <1>2, <2>2, KeyFacts
    <3> QED BY <1>5, <3>1 DEF IInv, LocalInv, Exists
  <2> QED BY <2>1, <2>2
<1>6. \A k \in ks : entity'[r][k] \in Row /\ entity'[r][k].revoked
  <2>1. SUFFICES ASSUME NEW k \in ks
                 PROVE  entity'[r][k] \in Row /\ entity'[r][k].revoked
    OBVIOUS
  <2>2. entity'[r][k] = Revoked(row[k])
    BY <1>2
  <2>3. row[k] \in Row
    BY <1>1
  <2>4. Revoked(row[k]) \in Row /\ Revoked(row[k]).revoked
    BY <2>3, RowTypes
  <2> QED BY <2>2, <2>4
<1>7. \A k \in Key \ ks : entity'[r][k] = entity[r][k]
  BY <1>2
<1> QED BY <1>2, <1>4, <1>5, <1>6, <1>7

LEMMA ListTokensKeeps ==
    ASSUME IInv, NEW r \in Request, ListTokens(r)
    PROVE  IInv'
<1> DEFINE ks == Live(r, "token")
<1>1. ks \in SUBSET Key /\ \A k \in ks : row[k] # None
  BY DEF Live, Key, Table
<1>2. Lists(r, ks) /\ row' = row /\ work' = work /\ Goto(r, "sessions") /\ pc[r] = "tokens"
      /\ todo' = [todo EXCEPT ![r] = ks]
      /\ UNCHANGED <<born, suspended, presented, changed, next>>
  BY DEF ListTokens
<1> HIDE DEF ks
<1>3. TypeOK'
  BY <1>1, <1>2, ListsKeepsEntities, GotoTypes DEF IInv, TypeOK, Place
<1>4. Others(r)
  BY <1>1, <1>2, ListsKeepsEntities DEF Others, SameRequest, IInv, TypeOK, Goto
<1>5. pc'[r] = "sessions" /\ todo'[r] = ks
  BY <1>2 DEF IInv, TypeOK, Goto
<1>6. LocalInv(r)'
  BY <1>1, <1>2, <1>5, ListsKeepsEntities, NoneFacts
     DEF IInv, LocalInv, Presenting, Held, Exists
<1> QED BY <1>2, <1>3, <1>4, <1>6, QuietKeeps

LEMMA ListSessionsKeeps ==
    ASSUME IInv, NEW r \in Request, ListSessions(r)
    PROVE  IInv'
<1> DEFINE ks == Live(r, "session")
           all == todo[r] \cup ks
<1>1. ks \in SUBSET Key /\ \A k \in ks : row[k] # None
  BY DEF Live, Key, Table
<1>2. Lists(r, ks) /\ row' = row /\ work' = work /\ pc[r] = "sessions"
      /\ Updates(r, all, AfterRevokingAll(r))
      /\ UNCHANGED <<born, suspended, presented, changed>>
  BY DEF ListSessions
<1>3. AfterRevokingAll(r) \in {"open", "commit"}
  BY DEF AfterRevokingAll
<1>4. all \in SUBSET Key
  BY <1>1 DEF IInv, TypeOK
<1>5. \A k \in all : row[k] # None /\ (k \in ks \/ (k \in todo[r] /\ k \notin ks))
  BY <1>1 DEF IInv, LocalInv, Exists
<1>6. \A k \in all : /\ row[k] # None /\ entity'[r][k] # None
                     /\ k[1] = "token" => entity'[r][k].revoked
  BY <1>1, <1>2, <1>4, <1>5, ListsKeepsEntities, NoneFacts DEF IInv, LocalInv, Exists
<1>7. pc'[r] = (IF all = {} THEN AfterRevokingAll(r) ELSE "update")
      /\ todo'[r] = all /\ next'[r] = AfterRevokingAll(r)
  BY <1>2 DEF IInv, TypeOK, Updates
<1> HIDE DEF ks, all
<1>8. TypeOK'
  BY <1>1, <1>2, <1>3, <1>4, ListsKeepsEntities, UpdatesTypes
     DEF IInv, TypeOK, Place, Continuation
<1>9. Others(r)
  BY <1>1, <1>2, ListsKeepsEntities DEF Others, SameRequest, IInv, TypeOK, Updates
<1>10. LocalInv(r)'
  BY <1>1, <1>2, <1>3, <1>6, <1>7, ListsKeepsEntities
     DEF IInv, LocalInv, Presenting, Held, Exists
<1> QED BY <1>2, <1>8, <1>9, <1>10, QuietKeeps

LEMMA NearestTokens ==
    ASSUME IInv, NEW r \in Request, NEW k \in Nearest(r)
    PROVE  /\ k \in todo[r] /\ k \in Key
           /\ (\E l \in todo[r] : l[1] = "token") => k[1] = "token"
<1>1. \A l \in Key : l[1] = "token" \/ l[1] = "session"
  BY KeyFacts
<1> QED BY <1>1 DEF Nearest, Before, IInv, TypeOK

LEMMA PrepareKeeps ==
    ASSUME IInv, NEW r \in Request, NEW k \in Key, Prepare(r, k)
    PROVE  IInv'
<1>1. k \in todo[r] /\ ((\E l \in todo[r] : l[1] = "token") => k[1] = "token")
  BY NearestTokens DEF Prepare
<1>2. /\ pc[r] = "update" /\ pc' = [pc EXCEPT ![r] = "write"]
      /\ UNCHANGED <<row, born, suspended, work>>
      /\ presented' = presented /\ entity' = entity /\ todo' = todo /\ next' = next
  BY DEF Prepare, Goto
<1>3. changed' \in [Request -> SUBSET Column]
      /\ \A q \in Request \ {r} : changed'[q] = changed[q]
  BY DEF Prepare, IInv, TypeOK, Stamped, Differing, Column
<1>4. k[1] = "token" => "revoked" \in changed'[r]
  BY DEF Prepare, IInv, TypeOK, Stamped
<1>5. TypeOK'
  BY <1>2, <1>3 DEF IInv, TypeOK
<1>6. Others(r)
  BY <1>2, <1>3 DEF Others, SameRequest, IInv, TypeOK
<1>7. pc'[r] = "write"
  BY <1>2 DEF IInv, TypeOK
<1>8. Stored(r)' = Stored(r) /\ SessionOf(r)' = SessionOf(r)
  BY <1>2 DEF Stored, SessionOf
<1>9. LocalInv(r)'
  BY <1>1, <1>2, <1>4, <1>7, <1>8 DEF IInv, LocalInv, Presenting, Held, Exists
<1> QED BY <1>2, <1>5, <1>6, <1>9, QuietKeeps

-----------------------------------------------------------------------------
(* The steps that write versions.                                           *)

(* TableInv as far as the versions of one request go.                       *)
Versions(r) ==
    /\ \A k \in Key : Held(r, k) => Exists(k) \/ k[2] = r
    /\ \A i \in Id : Held(r, Token(i)) =>
          /\ \/ Exists(Session(work[r][Token(i)].session))
             \/ Held(r, Session(work[r][Token(i)].session))
          /\ Exists(Token(i)) => work[r][Token(i)].revoked
          /\ work[r][Token(i)].reuse => work[r][Token(i)].revoked
          /\ LET p == work[r][Token(i)].from IN
             p # None => Exists(Token(p)) /\ (Dead(row[Token(p)]) \/ Held(r, Token(p)))

LEMMA WorkKeeps ==
    ASSUME IInv, NEW r \in Request, row' = row, Others(r),
           TypeOK', Versions(r)', LocalInv(r)'
    PROVE  IInv'
<1>1. ASSUME NEW q \in Request PROVE Versions(q)'
  <2>1. CASE q = r
    BY <2>1
  <2>2. CASE q # r
    <3>1. work'[q] = work[q]
      BY <2>2 DEF Others, SameRequest
    <3>2. Versions(q)
      BY DEF IInv, TableInv, ReuseRevoked, WorkExists, SessionKnown, WorkDead,
             WorkSpends, Versions
    <3> QED BY <3>1, <3>2 DEF Versions, Held, Exists
  <2> QED BY <2>1, <2>2
<1>2. ReuseRevoked' /\ SessionKnown'
  BY <1>1 DEF Versions, IInv, TableInv, ReuseRevoked, SessionKnown, Exists
<1>3. WorkExists' /\ WorkDead' /\ WorkSpends'
  BY <1>1 DEF Versions, WorkExists, WorkDead, WorkSpends
<1>4. RotationSpends'
  BY DEF IInv, TableInv, RotationSpends, Exists
<1>5. ASSUME NEW q \in Request \ {r} PROVE LocalInv(q)'
  <2>1. SameRequest(q) /\ Grows
    BY DEF Others, Grows, Exists
  <2>2. pc[q] # "done" => ~Exists(Token(q))' /\ ~Exists(Session(q))'
    BY DEF IInv, LocalInv, Exists
  <2> QED BY <2>1, <2>2, SameRequestKeeps
<1> QED BY <1>2, <1>3, <1>4, <1>5 DEF IInv, TableInv

LEMMA VersionsOf ==
    ASSUME IInv, NEW r \in Request
    PROVE  Versions(r)
BY DEF IInv, TableInv, ReuseRevoked, WorkExists, SessionKnown, WorkDead, WorkSpends, Versions

(* What r sees of an existing row: its session and its predecessor.        *)
LEMMA SeenFacts ==
    ASSUME IInv, NEW r \in Request, NEW i \in Id, Exists(Token(i)),
           NEW v, v = Seen(r, Token(i))
    PROVE  /\ \/ row[Session(v.session)] # None
              \/ work[r][Session(v.session)] # None
           /\ v.from # None => /\ row[Token(v.from)] # None
                               /\ \/ Dead(row[Token(v.from)])
                                  \/ work[r][Token(v.from)] # None
<1>1. CASE work[r][Token(i)] = None
  BY <1>1 DEF Seen, IInv, TableInv, SessionKnown, RotationSpends, Exists
<1>2. CASE work[r][Token(i)] # None
  BY <1>2, VersionsOf DEF Seen, Versions, Held, Exists
<1> QED BY <1>1, <1>2

LEMMA WriteKeeps ==
    ASSUME IInv, NEW r \in Request, NEW k \in Key, Write(r, k)
    PROVE  IInv'
<1> DEFINE v == entity[r][k]
           w == Seen(r, k)
           m == Merged(v, w, changed[r])
<1>1. pc[r] = "write" /\ k \in todo[r] /\ row[k] # None /\ v # None
      /\ (k[1] = "token" => v.revoked /\ "revoked" \in changed[r])
  BY NearestTokens DEF Write, IInv, LocalInv, Exists
<1>2. v \in Row /\ w \in Row
  BY <1>1 DEF IInv, TypeOK, Seen
<1>3. m \in Row /\ m.session = w.session /\ m.from = w.from
      /\ (k[1] = "token" => m.revoked)
  BY <1>1, <1>2, MergedTypes
<1>4. /\ work' = [work EXCEPT ![r][k] = m]
      /\ changed' = [changed EXCEPT ![r] = {}]
      /\ Updates(r, todo[r] \ {k}, next[r])
      /\ UNCHANGED <<row, born, suspended>> /\ presented' = presented /\ entity' = entity
  BY DEF Write
<1>5. work'[r][k] = m /\ \A l \in Key \ {k} : work'[r][l] = work[r][l]
  BY <1>4 DEF IInv, TypeOK
<1>6. \A l \in Key : work[r][l] # None => work'[r][l] # None
  BY <1>3, <1>5, NoneFacts
<1>7. ASSUME NEW i \in Id, k = Token(i)
      PROVE  /\ row[Session(m.session)] # None \/ work'[r][Session(m.session)] # None
             /\ m.revoked
             /\ m.from # None => /\ row[Token(m.from)] # None
                                 /\ Dead(row[Token(m.from)]) \/ work'[r][Token(m.from)] # None
  <2>1. /\ row[Session(w.session)] # None \/ work[r][Session(w.session)] # None
        /\ w.from # None => /\ row[Token(w.from)] # None
                            /\ Dead(row[Token(w.from)]) \/ work[r][Token(w.from)] # None
    BY <1>1, <1>7, SeenFacts DEF Exists
  <2>2. Session(w.session) \in Key /\ (w.from # None => Token(w.from) \in Key)
    BY <1>2, RowTypes, KeyFacts
  <2>3. k[1] = "token"
    BY <1>7, KeyFacts
  <2> QED BY <1>3, <1>6, <2>1, <2>2, <2>3
<1> HIDE DEF v, w, m
<1>8. TypeOK'
  <2>1. work' \in [Request -> [Key -> Row \cup {None}]]
    BY <1>3, <1>4 DEF IInv, TypeOK
  <2>2. next[r] \in Continuation /\ todo[r] \ {k} \in SUBSET Key
    BY DEF IInv, TypeOK, Continuation
  <2> QED BY <1>4, <2>1, <2>2, UpdatesTypes DEF IInv, TypeOK, Place, Continuation
<1>9. Others(r)
  BY <1>4 DEF Others, SameRequest, IInv, TypeOK, Updates
<1>10. Versions(r)'
  <2>1. ASSUME NEW l \in Key, work'[r][l] # None PROVE row[l] # None \/ l[2] = r
    BY <1>1, <1>5, <2>1, VersionsOf DEF Versions, Held, Exists
  <2>2. ASSUME NEW i \in Id, work'[r][Token(i)] # None
        PROVE  LET x == work'[r][Token(i)] IN
               /\ row[Session(x.session)] # None \/ work'[r][Session(x.session)] # None
               /\ row[Token(i)] # None => x.revoked
               /\ x.reuse => x.revoked
               /\ x.from # None => /\ row[Token(x.from)] # None
                                   /\ Dead(row[Token(x.from)]) \/ work'[r][Token(x.from)] # None
    <3>1. CASE k = Token(i)
      BY <1>5, <1>7, <3>1
    <3>2. CASE k # Token(i)
      <4>1. work'[r][Token(i)] = work[r][Token(i)]
        BY <1>5, <3>2, KeyFacts
      <4>2. work[r][Token(i)] \in Row
        BY <2>2, <4>1, KeyFacts DEF IInv, TypeOK
      <4>3. Session(work[r][Token(i)].session) \in Key
            /\ (work[r][Token(i)].from # None => Token(work[r][Token(i)].from) \in Key)
        BY <4>2, RowTypes, KeyFacts
      <4> QED BY <1>6, <2>2, <4>1, <4>3, VersionsOf DEF Versions, Held, Exists
    <3> QED BY <3>1, <3>2
  <2> QED BY <1>4, <2>1, <2>2 DEF Versions, Held, Exists
<1>11. LocalInv(r)'
  <2>1. /\ pc'[r] = IF todo[r] \ {k} = {} THEN next[r] ELSE "update"
        /\ todo'[r] = todo[r] \ {k} /\ next'[r] = next[r]
    BY <1>4 DEF IInv, TypeOK, Updates
  <2>2. next[r] \in Continuation
    BY DEF IInv, TypeOK, Continuation
  <2>3. Stored(r)' = Stored(r) /\ SessionOf(r)' = SessionOf(r)
    BY <1>4 DEF Stored, SessionOf
  <2>4. next[r] \in {"reread", "issue"} =>
           /\ presented[r] \in Id /\ row[Stored(r)] # None /\ entity[r][Stored(r)] # None
           /\ Stored(r) \in Key
    BY <1>1, StoredTypes DEF Presenting, IInv, LocalInv, Exists
  <2>5. next[r] = "issue" => Stored(r) \in todo[r] \ {k} \/ work'[r][Stored(r)] # None
    BY <1>1, <1>3, <1>5, <1>6, <2>4, NoneFacts DEF IInv, LocalInv, Held
  <2>6. Presenting(r)' => next[r] \in {"reread", "issue"}
    BY <2>1, <2>2 DEF Presenting, Continuation
  <2>7. pc'[r] \notin {"done", "organization", "write", "sessions"}
    BY <2>1, <2>2 DEF Continuation
  <2> QED BY <1>1, <1>4, <2>1, <2>3, <2>4, <2>5, <2>6, <2>7
          DEF IInv, LocalInv, Held, Exists
<1> QED BY <1>4, <1>8, <1>9, <1>10, <1>11, WorkKeeps

(* Before the end, r inserts a row v under its own names.                   *)
Inserts(r, ks, v) ==
    /\ pc[r] \in {"issue", "open"} /\ Goto(r, "commit")
    /\ \A k \in ks : work'[r][k] = v
    /\ \A k \in Key \ ks : work'[r][k] = work[r][k]
    /\ work' \in [Request -> [Key -> Row \cup {None}]]
    /\ \A q \in Request \ {r} : work'[q] = work[q]
    /\ born' = [born EXCEPT ![r] = Rank]
    /\ UNCHANGED <<row, suspended, entity, todo, changed, next>>
    /\ presented' = presented
    /\ ~v.reuse
    /\ row[Session(v.session)] # None \/ Session(v.session) \in ks
    /\ v.from # None => row[Token(v.from)] # None /\ work[r][Token(v.from)] # None

LEMMA InsertKeeps ==
    ASSUME IInv, NEW r \in Request, NEW ks \in SUBSET {Token(r), Session(r)}, NEW v \in Row,
           Inserts(r, ks, v)
    PROVE  IInv'
<1> USE DEF Inserts
<1>1. TypeOK'
  <2>1. born' \in [Id -> Nat]
    BY RankIsNat, RequestIsId DEF IInv, TypeOK
  <2> QED BY <2>1, GotoTypes DEF IInv, TypeOK, Place
<1>2. Others(r)
  BY DEF Others, SameRequest, IInv, TypeOK, Goto
<1>3. row[Token(r)] = None /\ row[Session(r)] = None
  BY DEF IInv, LocalInv, Exists
<1>4. \A k \in Key : work[r][k] # None => work'[r][k] # None
  BY NoneFacts
<1>5. Versions(r)'
  <2>1. ASSUME NEW l \in Key, work'[r][l] # None PROVE row[l] # None \/ l[2] = r
    BY <2>1, KeyFacts, RequestIsId, VersionsOf DEF Versions, Held, Exists
  <2>2. ASSUME NEW i \in Id, work'[r][Token(i)] # None
        PROVE  LET x == work'[r][Token(i)] IN
               /\ row[Session(x.session)] # None \/ work'[r][Session(x.session)] # None
               /\ row[Token(i)] # None => x.revoked
               /\ x.reuse => x.revoked
               /\ x.from # None => /\ row[Token(x.from)] # None
                                   /\ Dead(row[Token(x.from)]) \/ work'[r][Token(x.from)] # None
    <3>1. CASE Token(i) \in ks
      <4>1. work'[r][Token(i)] = v /\ row[Token(i)] = None
        BY <1>3, <3>1, KeyFacts, RequestIsId
      <4>2. Session(v.session) \in ks => work'[r][Session(v.session)] # None
        BY NoneFacts
      <4>3. v.from # None => Token(v.from) \in Key
        BY RowTypes, KeyFacts
      <4> QED BY <1>4, <4>1, <4>2, <4>3
    <3>2. CASE Token(i) \notin ks
      <4>1. work'[r][Token(i)] = work[r][Token(i)]
        BY <3>2, KeyFacts
      <4>2. work[r][Token(i)] \in Row
        BY <2>2, <4>1, KeyFacts DEF IInv, TypeOK
      <4>3. Session(work[r][Token(i)].session) \in Key
            /\ (work[r][Token(i)].from # None => Token(work[r][Token(i)].from) \in Key)
        BY <4>2, RowTypes, KeyFacts
      <4> QED BY <1>4, <2>2, <4>1, <4>3, VersionsOf DEF Versions, Held, Exists
    <3> QED BY <3>1, <3>2
  <2> QED BY <2>1, <2>2 DEF Versions, Held, Exists
<1>6. pc'[r] = "commit"
  BY DEF IInv, TypeOK, Goto
<1>7. LocalInv(r)'
  BY <1>3, <1>6 DEF IInv, LocalInv, Presenting, Held, Exists
<1> QED BY <1>1, <1>2, <1>5, <1>7, WorkKeeps

LEMMA IssueInserts ==
    ASSUME IInv, NEW r \in Request, Issue(r)
    PROVE  LET e == entity[r][Stored(r)]
               v == NewRow(e.session, presented[r], e.user)
           IN  v \in Row /\ Inserts(r, {Token(r)}, v)
<1> DEFINE e == entity[r][Stored(r)]
           v == NewRow(e.session, presented[r], e.user)
           ks == {Token(r)}
<1>1. pc[r] = "issue" /\ Presenting(r)
  BY DEF Issue, Presenting
<1>2. /\ presented[r] \in Id /\ Stored(r) = Token(presented[r]) /\ Stored(r) \in Key
      /\ e \in Row /\ row[Stored(r)] # None
      /\ row[Session(e.session)] # None
  BY <1>1, StoredTypes DEF Exists, SessionOf
<1>3. work[r][Stored(r)] # None
  BY <1>1 DEF IInv, LocalInv, Held
<1>4. v \in Row /\ v.session = e.session /\ v.from = presented[r] /\ ~v.reuse
  <2>1. e.session \in Id /\ e.user \in User
    BY <1>2, RowTypes
  <2> QED BY <1>2, <2>1, NewRowTypes DEF NewRow
<1>5. /\ work' = [work EXCEPT ![r][Token(r)] = v]
      /\ born' = [born EXCEPT ![r] = Rank] /\ Goto(r, "commit")
      /\ presented' = presented
  BY DEF Issue
<1>10. UNCHANGED <<row, suspended, entity, todo, changed, next>>
  BY DEF Issue
<1> HIDE DEF e, v
<1>6. Token(r) \in Key
  BY KeyFacts, RequestIsId
<1>7. /\ \A k \in ks : work'[r][k] = v
      /\ \A k \in Key \ ks : work'[r][k] = work[r][k]
      /\ work' \in [Request -> [Key -> Row \cup {None}]]
      /\ \A q \in Request \ {r} : work'[q] = work[q]
  BY <1>4, <1>5, <1>6 DEF IInv, TypeOK
<1>8. row[Session(v.session)] # None \/ Session(v.session) \in ks
  BY <1>2, <1>4
<1>11. v.from # None => row[Token(v.from)] # None /\ work[r][Token(v.from)] # None
  BY <1>2, <1>3, <1>4
<1>9. ks \in SUBSET {Token(r), Session(r)} /\ pc[r] \in {"issue", "open"}
  BY <1>1
<1> HIDE DEF ks
<1>12. Inserts(r, ks, v)
  BY <1>4, <1>5, <1>7, <1>8, <1>9, <1>10, <1>11 DEF Inserts
<1> QED BY <1>4, <1>12 DEF e, v, ks

LEMMA IssueKeeps ==
    ASSUME IInv, NEW r \in Request, Issue(r)
    PROVE  IInv'
BY IssueInserts, InsertKeeps

LEMMA OpenSessionInserts ==
    ASSUME IInv, NEW r \in Request, OpenSession(r)
    PROVE  LET v == NewRow(r, None, UserOf[r])
           IN  v \in Row /\ Inserts(r, {Token(r), Session(r)}, v)
<1> DEFINE v == NewRow(r, None, UserOf[r])
           ks == {Token(r), Session(r)}
<1>1. v \in Row /\ v.session = r /\ v.from = None /\ ~v.reuse
  <2>1. r \in Id /\ UserOf[r] \in User
    BY RequestIsId, ConstantsAssumption
  <2> QED BY <2>1, NewRowTypes DEF NewRow
<1>2. /\ pc[r] = "open"
      /\ work' = [work EXCEPT ![r][Session(r)] = v, ![r][Token(r)] = v]
      /\ born' = [born EXCEPT ![r] = Rank] /\ Goto(r, "commit")
      /\ presented' = presented
  BY DEF OpenSession
<1>7. UNCHANGED <<row, suspended, entity, todo, changed, next>>
  BY DEF OpenSession
<1> HIDE DEF v
<1>3. Token(r) \in Key /\ Session(r) \in Key
  BY KeyFacts, RequestIsId
<1>4. /\ \A k \in ks : work'[r][k] = v
      /\ \A k \in Key \ ks : work'[r][k] = work[r][k]
      /\ work' \in [Request -> [Key -> Row \cup {None}]]
      /\ \A q \in Request \ {r} : work'[q] = work[q]
  BY <1>1, <1>2, <1>3 DEF IInv, TypeOK
<1>5. /\ row[Session(v.session)] # None \/ Session(v.session) \in ks
      /\ v.from # None => row[Token(v.from)] # None /\ work[r][Token(v.from)] # None
  BY <1>1
<1>6. ks \in SUBSET {Token(r), Session(r)} /\ pc[r] \in {"issue", "open"}
  BY <1>2
<1> HIDE DEF ks
<1>8. Inserts(r, ks, v)
  BY <1>1, <1>2, <1>4, <1>5, <1>6, <1>7 DEF Inserts
<1> QED BY <1>1, <1>8 DEF v, ks

LEMMA OpenSessionKeeps ==
    ASSUME IInv, NEW r \in Request, OpenSession(r)
    PROVE  IInv'
BY OpenSessionInserts, InsertKeeps

-----------------------------------------------------------------------------
(* The ends of a transaction.                                               *)

LEMMA RollbackKeeps ==
    ASSUME IInv, NEW r \in Request, NEW o \in {"failed", "rejected"}, Rollback(r, o),
           pc[r] # "done"
    PROVE  IInv'
<1>1. TypeOK'
  <2>1. o \in Place
    BY DEF Place, Ended
  <2> QED BY <2>1, RollbackTypes DEF IInv
<1>2. row' = row /\ presented' = presented /\ End(r, o)
  BY DEF Rollback
<1>3. Others(r)
  BY <1>2 DEF Others, SameRequest, IInv, TypeOK, End, Goto
<1>4. pc'[r] = o /\ work'[r] = Blank /\ entity'[r] = Blank /\ todo'[r] = {}
  BY <1>2 DEF IInv, TypeOK, End, Goto
<1>5. Versions(r)'
  BY <1>4, BlankTypes, KeyFacts DEF Versions, Held
<1>6. LocalInv(r)'
  <2>1. row[Token(r)] = None /\ row[Session(r)] = None
    BY DEF IInv, LocalInv, Exists
  <2>2. \A i \in Id : entity'[r][Token(i)] = None
    BY <1>4, BlankTypes, KeyFacts
  <2> QED BY <1>2, <1>4, <2>1, <2>2 DEF LocalInv, Presenting, Held, Exists
<1> QED BY <1>1, <1>2, <1>3, <1>5, <1>6, WorkKeeps

LEMMA CommitFacts ==
    ASSUME IInv, NEW r \in Request, Commit(r)
    PROVE  /\ \A k \in Key : row'[k] = IF work[r][k] = None THEN row[k] ELSE work[r][k]
           /\ Grows
           /\ \A i \in Id : row[Token(i)] # None /\ Dead(row[Token(i)])
                  => row'[Token(i)] # None /\ Dead(row'[Token(i)])
<1>1. \A k \in Key : row'[k] = IF work[r][k] = None THEN row[k] ELSE work[r][k]
  BY DEF Commit, Seen
<1>2. Grows
  BY <1>1 DEF Grows, Exists
<1>3. ASSUME NEW i \in Id, row[Token(i)] # None, Dead(row[Token(i)])
      PROVE  row'[Token(i)] # None /\ Dead(row'[Token(i)])
  <2>1. work[r][Token(i)] # None => work[r][Token(i)].revoked
    BY <1>3, VersionsOf DEF Versions, Held, Exists
  <2> QED BY <1>1, <1>3, <2>1, KeyFacts DEF Dead
<1> QED BY <1>1, <1>2, <1>3

LEMMA CommitKeeps ==
    ASSUME IInv, NEW r \in Request, Commit(r)
    PROVE  IInv'
<1>1. /\ \A k \in Key : row'[k] = IF work[r][k] = None THEN row[k] ELSE work[r][k]
      /\ Grows
      /\ \A i \in Id : row[Token(i)] # None /\ Dead(row[Token(i)])
             => row'[Token(i)] # None /\ Dead(row'[Token(i)])
  BY CommitFacts
<1>2. /\ End(r, "done") /\ pc[r] = "commit" /\ presented' = presented /\ born' = born
      /\ suspended' = (suspended \/ Kind[r] = "suspend")
      /\ row' = [k \in Key |-> Seen(r, k)]
  BY DEF Commit
<1>3. TypeOK'
  <2>1. row' \in [Key -> Row \cup {None}]
    BY <1>2, SeenTypes DEF IInv
  <2>2. "done" \in Place
    BY DEF Place, Ended
  <2> QED BY <1>2, <2>1, <2>2, EndTypes DEF IInv, TypeOK, Place, Continuation
<1>4. Others(r) /\ pc'[r] = "done" /\ work'[r] = Blank /\ entity'[r] = Blank
      /\ todo'[r] = {}
  BY <1>2 DEF Others, SameRequest, IInv, TypeOK, End, Goto
<1>5. ASSUME NEW k \in Key, row[k] = None, row'[k] # None PROVE k[2] = r
  BY <1>1, <1>5, VersionsOf DEF Versions, Held, Exists
<1>6. ASSUME NEW i \in Id, row'[Token(i)] # None
      PROVE  LET x == row'[Token(i)] IN
             /\ x.reuse => x.revoked
             /\ row'[Session(x.session)] # None
             /\ x.from # None => row'[Token(x.from)] # None /\ Dead(row'[Token(x.from)])
  <2>1. Token(i) \in Key /\ row'[Token(i)] \in Row
    BY <1>3, <1>6, KeyFacts DEF TypeOK
  <2>2. Session(row'[Token(i)].session) \in Key
        /\ (row'[Token(i)].from # None => row'[Token(i)].from \in Id
                                          /\ Token(row'[Token(i)].from) \in Key)
    BY <2>1, RowTypes, KeyFacts
  <2>3. CASE work[r][Token(i)] = None
    <3>1. row'[Token(i)] = row[Token(i)]
      BY <1>1, <2>1, <2>3
    <3> QED BY <1>1, <1>6, <2>2, <3>1
            DEF IInv, TableInv, ReuseRevoked, SessionKnown, RotationSpends, Grows, Exists
  <2>4. CASE work[r][Token(i)] # None
    <3>1. row'[Token(i)] = work[r][Token(i)]
      BY <1>1, <2>1, <2>4
    <3>2. /\ work[r][Token(i)].reuse => work[r][Token(i)].revoked
          /\ row'[Session(work[r][Token(i)].session)] # None
      BY <1>1, <2>2, <2>4, <3>1, VersionsOf DEF Versions, Held, Exists, Grows
    <3>3. ASSUME work[r][Token(i)].from # None
          PROVE  LET p == work[r][Token(i)].from IN
                 row'[Token(p)] # None /\ Dead(row'[Token(p)])
      <4> DEFINE p == work[r][Token(i)].from
      <4>1. /\ p \in Id /\ Token(p) \in Key /\ row[Token(p)] # None
            /\ Dead(row[Token(p)]) \/ work[r][Token(p)] # None
        BY <2>2, <2>4, <3>1, <3>3, VersionsOf DEF Versions, Held, Exists
      <4>2. work[r][Token(p)] # None => work[r][Token(p)].revoked
        BY <4>1, VersionsOf DEF Versions, Held, Exists
      <4> QED BY <1>1, <4>1, <4>2 DEF Dead
    <3> QED BY <3>1, <3>2, <3>3
  <2> QED BY <2>3, <2>4
<1>7. ASSUME NEW q \in Request PROVE Versions(q)'
  <2>1. CASE q = r
    BY <1>4, <2>1, BlankTypes, KeyFacts DEF Versions, Held
  <2>2. CASE q # r
    <3>1. work'[q] = work[q]
      BY <1>4, <2>2 DEF Others, SameRequest
    <3>2. ASSUME NEW k \in Key, work[q][k] # None PROVE row'[k] # None \/ k[2] = q
      BY <1>1, <3>2, VersionsOf DEF Versions, Held, Exists, Grows
    <3>3. ASSUME NEW i \in Id, work[q][Token(i)] # None
          PROVE  LET x == work[q][Token(i)] IN
                 /\ row'[Session(x.session)] # None \/ work[q][Session(x.session)] # None
                 /\ row'[Token(i)] # None => x.revoked
                 /\ x.reuse => x.revoked
                 /\ x.from # None => /\ row'[Token(x.from)] # None
                                     /\ Dead(row'[Token(x.from)]) \/ work[q][Token(x.from)] # None
      <4>1. Token(i) \in Key /\ work[q][Token(i)] \in Row
        BY <3>3, KeyFacts DEF IInv, TypeOK
      <4>2. Session(work[q][Token(i)].session) \in Key
            /\ (work[q][Token(i)].from # None => work[q][Token(i)].from \in Id
                                                 /\ Token(work[q][Token(i)].from) \in Key)
        BY <4>1, RowTypes, KeyFacts
      <4>3. row'[Token(i)] # None => row[Token(i)] # None
        BY <1>5, <2>2, <3>3, <4>1, VersionsOf DEF Versions, Held, Exists
      <4> QED BY <1>1, <3>3, <4>2, <4>3, VersionsOf DEF Versions, Held, Exists, Grows
    <3> QED BY <3>1, <3>2, <3>3 DEF Versions, Held, Exists
  <2> QED BY <2>1, <2>2
<1>8. TableInv'
  <2>1. ReuseRevoked' /\ SessionKnown'
    BY <1>6, <1>7 DEF Versions, ReuseRevoked, SessionKnown, Exists
  <2>2. WorkExists' /\ WorkDead' /\ WorkSpends'
    BY <1>7 DEF Versions, WorkExists, WorkDead, WorkSpends
  <2>3. RotationSpends'
    BY <1>6 DEF RotationSpends, Exists
  <2> QED BY <2>1, <2>2, <2>3 DEF TableInv
<1>9. ASSUME NEW q \in Request PROVE LocalInv(q)'
  <2>1. CASE q = r
    <3>1. \A i \in Id : entity'[r][Token(i)] = None
      BY <1>4, BlankTypes, KeyFacts
    <3> QED BY <1>4, <2>1, <3>1 DEF LocalInv, Presenting, Held, Exists
  <2>2. CASE q # r
    <3>1. SameRequest(q)
      BY <1>4, <2>2 DEF Others
    <3>2. ASSUME pc[q] # "done" PROVE row'[Token(q)] = None /\ row'[Session(q)] = None
      <4>1. row[Token(q)] = None /\ row[Session(q)] = None
        BY <3>2 DEF IInv, LocalInv, Exists
      <4> QED BY <1>5, <2>2, <4>1, KeyFacts, RequestIsId
    <3> QED BY <1>1, <3>1, <3>2, SameRequestKeeps DEF Exists
  <2> QED BY <2>1, <2>2
<1> QED BY <1>3, <1>8, <1>9 DEF IInv

-----------------------------------------------------------------------------
(* The theorems.                                                            *)

LEMMA InitIInv == Init => IInv
<1> SUFFICES ASSUME Init PROVE IInv
  OBVIOUS
<1>1. TypeOK
  BY InitTypes
<1>2. \A r \in Request, k \in Key : work[r][k] = None /\ entity[r][k] = None
  BY BlankTypes DEF Init
<1>3. \A i \in Id : /\ row[Token(i)] = IF i \in Old THEN NewRow(i, None, UserOf[i]) ELSE None
                    /\ row[Session(i)] = IF i \in Old THEN NewRow(i, None, UserOf[i]) ELSE None
  BY KeyFacts DEF Init
<1>4. \A i \in Old : /\ i \in Id /\ NewRow(i, None, UserOf[i]) \in Row
                     /\ NewRow(i, None, UserOf[i]).session = i
                     /\ NewRow(i, None, UserOf[i]).from = None
                     /\ ~NewRow(i, None, UserOf[i]).reuse
  <2>1. SUFFICES ASSUME NEW i \in Old
                 PROVE  /\ i \in Id /\ NewRow(i, None, UserOf[i]) \in Row
                        /\ NewRow(i, None, UserOf[i]).session = i
                        /\ NewRow(i, None, UserOf[i]).from = None
                        /\ ~NewRow(i, None, UserOf[i]).reuse
    OBVIOUS
  <2>2. i \in Id /\ UserOf[i] \in User
    BY ConstantsAssumption DEF Id
  <2> QED BY <2>2, NewRowTypes DEF NewRow
<1>5. TableInv
  <2>1. ReuseRevoked /\ SessionKnown /\ RotationSpends
    BY <1>2, <1>3, <1>4, KeyFacts, NoneFacts
       DEF ReuseRevoked, SessionKnown, RotationSpends, Exists, Held
  <2>2. WorkExists /\ WorkDead /\ WorkSpends
    BY <1>2, KeyFacts DEF WorkExists, WorkDead, WorkSpends, Held
  <2> QED BY <2>1, <2>2 DEF TableInv
<1>6. ASSUME NEW r \in Request PROVE LocalInv(r)
  <2>1. row[Token(r)] = None /\ row[Session(r)] = None
    BY <1>3, RequestIsId, ConstantsAssumption
  <2>2. pc[r] = "idle" /\ todo[r] = {}
    BY DEF Init
  <2>3. \A i \in Id : entity[r][Token(i)] = None
    BY <1>2, KeyFacts
  <2> QED BY <2>1, <2>2, <2>3 DEF LocalInv, Presenting, Exists
<1> QED BY <1>1, <1>5, <1>6 DEF IInv

LEMMA StepIInv == IInv /\ [Next]_vars => IInv'
<1> SUFFICES ASSUME IInv, [Next]_vars PROVE IInv'
  OBVIOUS
<1>1. CASE UNCHANGED vars
  BY <1>1 DEF vars, IInv, TypeOK, TableInv, ReuseRevoked, WorkExists, SessionKnown, WorkDead,
     WorkSpends, RotationSpends, LocalInv, Presenting, Held, Exists, Stored, SessionOf
<1>2. CASE Next
  <2> SUFFICES ASSUME NEW r \in Request, Start(r) \/ Continue(r) \/ Abort(r)
               PROVE  IInv'
    BY <1>2 DEF Next
  <2>1. CASE Start(r)
    BY <2>1, PresentUnknownKeeps, PresentDeadKeeps, PresentLiveKeeps, PresentToLogoutKeeps,
       StartKeeps DEF Start
  <2>2. CASE ReadSession(r)
    <3>1. CASE Rollback(r, "failed")
      BY <2>2, <3>1, RollbackKeeps DEF ReadSession
    <3>2. CASE ~Rollback(r, "failed")
      BY <2>2, <3>2, ReadSessionKeeps
    <3> QED BY <3>1, <3>2
  <2>3. CASE RefuseSuspended(r) \/ Rotate(r) \/ Reread(r)
    BY <2>3, RefuseSuspendedKeeps, RotateKeeps, RereadKeeps
  <2>4. CASE Raise(r)
    BY <2>4, RollbackKeeps DEF Raise
  <2>5. CASE LockOrganization(r) \/ ListTokens(r) \/ ListSessions(r)
    BY <2>5, StartKeeps, ListTokensKeeps, ListSessionsKeeps
  <2>6. CASE \E k \in Key : Prepare(r, k) \/ Write(r, k)
    BY <2>6, PrepareKeeps, WriteKeeps
  <2>7. CASE Issue(r) \/ OpenSession(r) \/ Commit(r)
    BY <2>7, IssueKeeps, OpenSessionKeeps, CommitKeeps
  <2>8. CASE Abort(r)
    BY <2>8, RollbackKeeps DEF Abort, Open, Ended
  <2> QED BY <2>1, <2>2, <2>3, <2>4, <2>5, <2>6, <2>7, <2>8 DEF Continue
<1> QED BY <1>1, <1>2 DEF Next

(* What the steps rest on holds in every state of every execution.         *)
THEOREM InductiveInvariant == Spec => []IInv
<1>1. Init => IInv
  BY InitIInv
<1>2. IInv /\ [Next]_vars => IInv'
  BY StepIInv
<1> QED BY <1>1, <1>2, PTL DEF Spec

(* Rows, transactions and requests keep their types: no request ends up    *)
(* at a place, with an entity or with a row that its code does not know.   *)
THEOREM TypeCorrect == Spec => []TypeOK
<1>1. IInv => TypeOK
  BY DEF IInv
<1> QED BY <1>1, InductiveInvariant, PTL

(* A committed successor follows a token that is used or revoked: a        *)
(* rotation commits both or neither, with any number of requests that      *)
(* write back entities read before one another's commits.                  *)
THEOREM RotationIsAtomic == Spec => []RotationSpends
<1>1. IInv => RotationSpends
  BY DEF IInv, TableInv
<1> QED BY <1>1, InductiveInvariant, PTL

(* No stale entity brings a used or revoked token back.                    *)
THEOREM TokensStayDead == Spec => DeadTokenStaysDead
<1> DEFINE Keeps == \A i \in Id : (Exists(Token(i)) /\ Dead(row[Token(i)]))
                        => (row'[Token(i)] # None /\ Dead(row'[Token(i)]))
<1>1. IInv /\ [Next]_vars => [Keeps]_vars
  <2> SUFFICES ASSUME IInv, Next PROVE Keeps
    OBVIOUS
  <2>1. PICK r \in Request : Start(r) \/ Continue(r) \/ Abort(r)
    BY DEF Next
  <2>2. CASE Commit(r)
    BY <2>2, CommitFacts DEF Exists
  <2>3. CASE row' = row
    BY <2>3 DEF Exists
  <2>4. Commit(r) \/ row' = row
    BY <2>1 DEF Start, Continue, Abort, Rollback, PresentUnknown, PresentDead, PresentLive,
       PresentToLogout, StartLogin, StartPassword, StartSuspend, ReadSession,
       RefuseSuspended, Rotate, Reread, Raise, LockOrganization, ListTokens, ListSessions,
       Prepare, Write, Issue, OpenSession
  <2> QED BY <2>2, <2>3, <2>4
<1> QED BY <1>1, InductiveInvariant, PTL DEF Spec, DeadTokenStaysDead

-------------------------------------------------------------------------------
(***************************************************************************)
(* What revocations, renewals and locks of SessionTokens rely on, for      *)
(* every set of requests, users and sessions.                              *)
(*                                                                         *)
(* That a revocation revokes what it listed, that a live session keeps a   *)
(* token, that a finished session stays finished and that no requests wait *)
(* for one another rest on the plans of the open transactions: which       *)
(* entities they hold, what they have written of them, and in which order. *)
(* Planned says so of one request; it speaks of the request and of rows    *)
(* that exist, so the steps of others keep it (OthersPlanned).             *)
(***************************************************************************)

(* No UPDATE changes whose row it is.                                       *)
SameRow(v, w) == v.user = w.user /\ v.session = w.session

(* The request is at l or on its way there.                                 *)
UpTo(r, l) == pc[r] = l \/ (pc[r] \in {"update", "write"} /\ next[r] = l)

Presents(r) == presented[r] \in Id /\ entity[r][Stored(r)] # None
OfOneToken(r) == Kind[r] \in {"refresh", "logout"}

(* Each use case keeps to its own places.                                   *)
OnCourse(r) ==
    /\ (pc[r] \in {"session", "organization", "issue", "raise"}
           \/ next[r] \in {"issue", "raise"}) => Kind[r] = "refresh"
    /\ (pc[r] = "reread" \/ next[r] = "reread") => OfOneToken(r)
    /\ (pc[r] \in {"lock", "tokens", "sessions", "open"} \/ next[r] = "open")
           => ~OfOneToken(r)
    /\ next[r] = "commit" => Kind[r] # "refresh"
    /\ pc[r] \in {"update", "write"} => next[r] # "idle"

(* An entity is of an existing row: of the token presented or its session, *)
(* or of a listed row, which is written before the transaction ends.       *)
EntitiesOK(r) ==
    \A k \in Key : entity[r][k] # None =>
        /\ pc[r] \notin {"idle", "lock", "tokens"} \cup Ended
        /\ Exists(k) /\ SameRow(entity[r][k], row[k])
        /\ Kind[r] # "refresh" => entity[r][k].revoked
        /\ IF OfOneToken(r)
           THEN Presents(r) /\ k \in {Stored(r), SessionOf(r)}
           ELSE row[k].user \in Affected(r) /\ (k \in todo[r] \/ Held(r, k))

(* A version of an existing row comes from an entity.                       *)
VersionsOK(r) ==
    \A k \in Key : Held(r, k) =>
        /\ pc[r] \notin {"idle", "lock", "tokens", "sessions", "session", "organization"}
                        \cup Ended
        /\ UpTo(r, "reread") => k[1] = "token"
        /\ Exists(k) => /\ entity[r][k] # None
                        /\ SameRow(work[r][k], row[k])
                        /\ entity[r][k].revoked => work[r][k].revoked

(* What a request inserts is alive, and a session comes with its token.    *)
InsertsOK(r) ==
    /\ \A k \in Key : Held(r, k) /\ ~Exists(k) =>
          LET v == work[r][k] IN
          /\ pc[r] = "commit" /\ k[2] = r /\ ~Dead(v)
          /\ work[r][Token(r)] = v
          /\ k = Session(r) => v.session = r
          /\ Seen(r, Session(v.session)) # None
          /\ Seen(r, Session(v.session)).user = v.user
    /\ Kind[r] = "refresh" /\ pc[r] = "commit"
          => /\ Presents(r) /\ Held(r, Token(r))
             /\ work[r][Token(r)].session = entity[r][Stored(r)].session

(* A renewal holds a live session, every other update revokes.              *)
UpdatesOK(r) ==
    /\ pc[r] = "organization" \/ UpTo(r, "issue")
          => entity[r][SessionOf(r)] # None /\ ~entity[r][SessionOf(r)].revoked
    /\ UpTo(r, "reread") => \A k \in todo[r] : k[1] = "token"
    /\ pc[r] = "write" /\ next[r] # "issue" => "revoked" \in changed[r]

(* What is written comes before what is still to write.                    *)
OrderOK(r) == \A k \in Key, l \in todo[r] : Held(r, k) => Before(k, l)

(* A row is given its date when it is inserted.                             *)
BirthOK(r) == /\ born[r] # 0 => pc[r] \in {"commit"} \cup Ended
              /\ \A k \in Key : Held(r, k) => born[k[2]] # 0

Planned(r) == /\ OnCourse(r) /\ EntitiesOK(r) /\ VersionsOK(r) /\ InsertsOK(r)
              /\ UpdatesOK(r) /\ OrderOK(r) /\ BirthOK(r)

(* Every row has a date of creation of its own.                             *)
BirthsDiffer ==
    /\ \A k \in Key : Exists(k) => born[k[2]] # 0
    /\ \A i, j \in Id : born[i] = born[j] /\ born[i] # 0 => i = j
    /\ \A i \in Id : born[i] < Rank

(* A token belongs to the owner of its session.                             *)
OwnersAgree ==
    \A i \in Id : Exists(Token(i))
        => row[Token(i)].user = row[Session(row[Token(i)].session)].user

(* A live session has a live token that no open transaction takes without   *)
(* taking, or not yet having looked at, the session.  A refresh that takes  *)
(* it leaves a successor.                                                   *)
Takes(r, i) == Kind[r] # "refresh" /\ (Token(i) \in todo[r] \/ Held(r, Token(i)))
Ends(r, s)  == \/ pc[r] = "sessions" \/ UpTo(r, "reread")
               \/ Session(s) \in todo[r] \/ Held(r, Session(s))
Renewable(s) == \E i \in Id : /\ LiveRow(Token(i)) /\ row[Token(i)].session = s
                              /\ \A r \in Request : Takes(r, i) => Ends(r, s)
SessionsRenewable == \A s \in Id : LiveRow(Session(s)) => Renewable(s)

PlanInv == /\ \A r \in Request : Planned(r)
           /\ BirthsDiffer /\ OwnersAgree /\ SessionsRenewable

-----------------------------------------------------------------------------
(* What a step of r leaves of the plans of the others.                      *)

(* Rows stay and keep their owners, new ones are r's, and dates stand.      *)
Steady == \A k \in Key : Exists(k) => Exists(k)' /\ SameRow(row'[k], row[k])
Fresh(r) == \A k \in Key : Exists(k)' /\ ~Exists(k) => k[2] = r
BornSteady(r) == /\ \A i \in Id \ {r} : born'[i] = born[i]
                 /\ \A k \in Key : Exists(k) => born'[k[2]] = born[k[2]]

LEMMA OthersPlanned ==
    ASSUME IInv, NEW r \in Request, NEW q \in Request \ {r}, Planned(q),
           SameRequest(q), Steady, Fresh(r), BornSteady(r)
    PROVE  Planned(q)'
<1>1. /\ pc'[q] = pc[q] /\ work'[q] = work[q] /\ entity'[q] = entity[q]
      /\ todo'[q] = todo[q] /\ next'[q] = next[q]
      /\ changed'[q] = changed[q] /\ presented'[q] = presented[q]
  BY DEF SameRequest
<1>2. /\ Stored(q)' = Stored(q) /\ SessionOf(q)' = SessionOf(q)
      /\ Presents(q)' <=> Presents(q)
      /\ \A l : UpTo(q, l)' <=> UpTo(q, l)
  BY <1>1 DEF Stored, SessionOf, Presents, UpTo
<1>3. \A k \in Key : Held(q, k)' <=> Held(q, k)
  BY <1>1 DEF Held
<1>4. \A k \in Key : Held(q, k) => Exists(k) \/ k[2] = q
  BY DEF IInv, TableInv, WorkExists
<1>5. \A k \in Key : Held(q, k) => (Exists(k)' <=> Exists(k))
  BY <1>4 DEF Steady, Fresh
<1>6. \A k \in Key : Held(q, k) \/ Exists(k) => born'[k[2]] = born[k[2]]
  BY <1>4, RequestIsId DEF BornSteady
<1>7. OnCourse(q)'
  BY <1>1 DEF Planned, OnCourse, OfOneToken
<1>8. EntitiesOK(q)'
  <2>1. SUFFICES ASSUME NEW k \in Key, entity[q][k] # None
                 PROVE  /\ pc[q] \notin {"idle", "lock", "tokens"} \cup Ended
                        /\ Exists(k)' /\ SameRow(entity[q][k], row'[k])
                        /\ Kind[q] # "refresh" => entity[q][k].revoked
                        /\ IF OfOneToken(q)
                           THEN Presents(q) /\ k \in {Stored(q), SessionOf(q)}
                           ELSE row'[k].user \in Affected(q) /\ (k \in todo[q] \/ Held(q, k))
    BY <1>1, <1>2, <1>3 DEF EntitiesOK, OfOneToken, Affected
  <2>2. /\ pc[q] \notin {"idle", "lock", "tokens"} \cup Ended
        /\ Exists(k) /\ SameRow(entity[q][k], row[k])
        /\ Kind[q] # "refresh" => entity[q][k].revoked
        /\ IF OfOneToken(q)
           THEN Presents(q) /\ k \in {Stored(q), SessionOf(q)}
           ELSE row[k].user \in Affected(q) /\ (k \in todo[q] \/ Held(q, k))
    BY <2>1 DEF Planned, EntitiesOK
  <2>3. Exists(k)' /\ SameRow(row'[k], row[k])
    BY <2>2 DEF Steady
  <2> QED BY <2>2, <2>3 DEF SameRow
<1>9. VersionsOK(q)'
  <2>1. SUFFICES ASSUME NEW k \in Key, Held(q, k)
                 PROVE  /\ pc[q] \notin {"idle", "lock", "tokens", "sessions", "session",
                                         "organization"} \cup Ended
                        /\ UpTo(q, "reread") => k[1] = "token"
                        /\ Exists(k) => /\ entity[q][k] # None
                                        /\ SameRow(work[q][k], row'[k])
                                        /\ entity[q][k].revoked => work[q][k].revoked
    BY <1>1, <1>2, <1>3, <1>5 DEF VersionsOK
  <2>2. Exists(k) => SameRow(row'[k], row[k])
    BY DEF Steady
  <2> QED BY <2>1, <2>2 DEF Planned, VersionsOK, SameRow
<1>10. InsertsOK(q)'
  <2>1. ASSUME NEW k \in Key, Held(q, k), ~Exists(k)
        PROVE  LET v == work[q][k] IN
               /\ pc[q] = "commit" /\ k[2] = q /\ ~Dead(v)
               /\ work[q][Token(q)] = v
               /\ k = Session(q) => v.session = q
               /\ Seen(q, Session(v.session))' # None
               /\ Seen(q, Session(v.session))'.user = v.user
    <3> DEFINE v == work[q][k]
               s == Session(v.session)
    <3>1. /\ pc[q] = "commit" /\ k[2] = q /\ ~Dead(v)
          /\ work[q][Token(q)] = v
          /\ k = Session(q) => v.session = q
          /\ Seen(q, s) # None /\ Seen(q, s).user = v.user
      BY <2>1 DEF Planned, InsertsOK
    <3>2. s \in Key
      <4>1. v \in Row
        BY <2>1 DEF Held, IInv, TypeOK
      <4>2. v.session \in Id
        BY <4>1, RowTypes
      <4> QED BY <4>2, KeyFacts
    <3>3. Seen(q, s)' # None /\ Seen(q, s)'.user = Seen(q, s).user
      BY <1>1, <3>1, <3>2 DEF Seen, Steady, Exists, SameRow
    <3> QED BY <3>1, <3>3
  <2>2. \A k \in Key : Held(q, k) /\ ~Exists(k)' => ~Exists(k)
    BY <1>5
  <2>3. Kind[q] = "refresh" /\ pc[q] = "commit"
          => /\ Presents(q) /\ Held(q, Token(q))
             /\ work[q][Token(q)].session = entity[q][Stored(q)].session
    BY DEF Planned, InsertsOK
  <2> QED BY <1>1, <1>2, <1>3, <2>1, <2>2, <2>3, KeyFacts, RequestIsId DEF InsertsOK
<1>11. UpdatesOK(q)'
  BY <1>1, <1>2 DEF Planned, UpdatesOK
<1>12. OrderOK(q)'
  <2>1. ASSUME NEW k \in Key, NEW l \in todo[q], Held(q, k) PROVE Before(k, l)'
    <3>1. Exists(l) /\ l \in Key
      BY DEF IInv, TypeOK, LocalInv
    <3> QED BY <1>6, <2>1, <3>1 DEF Before, Planned, OrderOK
  <2> QED BY <1>1, <1>3, <2>1 DEF OrderOK
<1>13. BirthOK(q)'
  <2>1. born'[q] = born[q]
    BY RequestIsId DEF BornSteady
  <2> QED BY <1>1, <1>3, <1>6, <2>1 DEF Planned, BirthOK
<1> QED BY <1>7, <1>8, <1>9, <1>10, <1>11, <1>12, <1>13 DEF Planned

(* A step of r that commits nothing may take a token only if it will look   *)
(* at its session.                                                          *)
Careful(r) ==
    \A i \in Id : LiveRow(Token(i)) /\ LiveRow(Session(row[Token(i)].session))
                  /\ Takes(r, i)'
        => \/ Ends(r, row[Token(i)].session)'
           \/ Takes(r, i) /\ ~Ends(r, row[Token(i)].session)

LEMMA StepPlanned ==
    ASSUME IInv, PlanInv, NEW r \in Request, row' = row, Others(r), BornSteady(r),
           BirthsDiffer', Planned(r)', Careful(r)
    PROVE  PlanInv'
<1>1. ASSUME NEW q \in Request PROVE Planned(q)'
  <2>1. CASE q = r
    BY <2>1
  <2>2. CASE q # r
    <3>1. SameRequest(q)
      BY <2>2 DEF Others
    <3>2. Steady /\ Fresh(r)
      BY DEF Steady, Fresh, Exists, SameRow
    <3>3. Planned(q)
      BY DEF PlanInv
    <3> QED BY <2>2, <3>1, <3>2, <3>3, OthersPlanned
  <2> QED BY <2>1, <2>2
<1>2. OwnersAgree'
  BY DEF PlanInv, OwnersAgree, Exists
<1>3. ASSUME NEW s \in Id, LiveRow(Session(s))' PROVE Renewable(s)'
  <2>1. LiveRow(Session(s))
    BY <1>3 DEF LiveRow, Exists
  <2>2. PICK i \in Id : /\ LiveRow(Token(i)) /\ row[Token(i)].session = s
                        /\ \A q \in Request : Takes(q, i) => Ends(q, s)
    BY <2>1 DEF PlanInv, SessionsRenewable, Renewable
  <2>3. LiveRow(Token(i))' /\ row'[Token(i)].session = s
    BY <2>2 DEF LiveRow, Exists
  <2>4. ASSUME NEW q \in Request, Takes(q, i)' PROVE Ends(q, s)'
    <3>1. CASE q = r
      BY <2>1, <2>2, <2>4, <3>1 DEF Careful
    <3>2. CASE q # r
      <4>1. SameRequest(q)
        BY <3>2 DEF Others
      <4> QED BY <2>2, <2>4, <4>1 DEF SameRequest, Takes, Ends, UpTo, Held
    <3> QED BY <3>1, <3>2
  <2> QED BY <2>3, <2>4 DEF Renewable
<1> QED BY <1>1, <1>2, <1>3 DEF PlanInv, SessionsRenewable

(* A step that changes no row, version or date of creation.                *)
LEMMA QuietPlanned ==
    ASSUME IInv, PlanInv, NEW r \in Request, UNCHANGED <<row, work, born>>, Others(r),
           Planned(r)', Careful(r)
    PROVE  PlanInv'
<1>1. BornSteady(r)
  BY DEF BornSteady
<1>2. BirthsDiffer'
  BY DEF PlanInv, BirthsDiffer, Exists, Rank
<1> QED BY <1>1, <1>2, StepPlanned

-----------------------------------------------------------------------------
(* Requests that have read and written nothing, and the end of one.        *)

LEMMA NothingPlanned ==
    ASSUME NEW r \in Request, OnCourse(r)',
           \A k \in Key : entity'[r][k] = None /\ work'[r][k] = None,
           pc'[r] \in {"idle", "lock", "tokens"} \cup Ended,
           todo'[r] = {}, born'[r] # 0 => pc'[r] \in Ended
    PROVE  Planned(r)'
<1>1. pc'[r] \notin {"organization", "issue", "update", "write", "commit"}
  BY DEF Ended
<1>2. EntitiesOK(r)' /\ VersionsOK(r)' /\ InsertsOK(r)' /\ OrderOK(r)'
  BY <1>1 DEF EntitiesOK, VersionsOK, InsertsOK, OrderOK, Held
<1>3. UpdatesOK(r)' /\ BirthOK(r)'
  BY <1>1 DEF UpdatesOK, UpTo, BirthOK, Held
<1> QED BY <1>2, <1>3 DEF Planned

LEMMA NothingYet ==
    ASSUME IInv, NEW r \in Request, Planned(r), pc[r] \in {"idle", "lock", "tokens"}
    PROVE  /\ \A k \in Key : entity[r][k] = None /\ work[r][k] = None
           /\ todo[r] = {} /\ born[r] = 0
<1>1. \A k \in Key : entity[r][k] = None
  BY DEF Planned, EntitiesOK
<1>2. \A k \in Key : work[r][k] = None
  BY DEF Planned, VersionsOK, Held
<1>3. born[r] = 0
  BY DEF Planned, BirthOK, Ended
<1>4. todo[r] = {}
  BY DEF IInv, LocalInv
<1> QED BY <1>1, <1>2, <1>3, <1>4

(* A step that only goes from one place to another.                         *)
LEMMA GotoPlanned ==
    ASSUME IInv, PlanInv, NEW r \in Request, NEW l \in {"failed", "done", "tokens", "lock"},
           Goto(r, l), pc[r] \in {"idle", "lock"}, l \in {"tokens", "lock"} => ~OfOneToken(r),
           UNCHANGED <<row, born, work, entity, todo, changed, next>>,
           \A q \in Request \ {r} : presented'[q] = presented[q]
    PROVE  PlanInv'
<1>1. Planned(r)
  BY DEF PlanInv
<1>2. pc'[r] = l /\ \A q \in Request \ {r} : pc'[q] = pc[q]
  BY DEF Goto, IInv, TypeOK
<1>3. Others(r)
  BY <1>2 DEF Others, SameRequest
<1>4. OnCourse(r)'
  BY <1>1, <1>2 DEF Planned, OnCourse, OfOneToken
<1>5. Planned(r)'
  BY <1>1, <1>2, <1>4, NothingYet, NothingPlanned DEF Ended
<1>6. Careful(r)
  BY <1>1, NothingYet, KeyFacts DEF Careful, Takes, Held
<1> QED BY <1>3, <1>5, <1>6, QuietPlanned

LEMMA StartPlanned ==
    ASSUME IInv, PlanInv, NEW r \in Request,
           \/ StartLogin(r) \/ StartPassword(r) \/ StartSuspend(r) \/ LockOrganization(r)
           \/ \E t \in Id : PresentUnknown(r, t)
    PROVE  PlanInv'
<1>1. CASE StartLogin(r)
  BY <1>1, GotoPlanned DEF StartLogin, OfOneToken
<1>2. CASE StartPassword(r)
  BY <1>2, GotoPlanned DEF StartPassword, OfOneToken
<1>3. CASE StartSuspend(r)
  BY <1>3, GotoPlanned DEF StartSuspend, OfOneToken
<1>4. CASE LockOrganization(r)
  <2>1. ~OfOneToken(r)
    BY <1>4 DEF LockOrganization, PlanInv, Planned, OnCourse
  <2> QED BY <1>4, <2>1, GotoPlanned DEF LockOrganization
<1>5. ASSUME NEW t \in Id, PresentUnknown(r, t) PROVE PlanInv'
  <2>1. \A q \in Request \ {r} : presented'[q] = presented[q]
    BY <1>5 DEF PresentUnknown, IInv, TypeOK
  <2>2. PICK l \in {"failed", "done"} : Goto(r, l)
    BY <1>5 DEF PresentUnknown
  <2> QED BY <1>5, <2>1, <2>2, GotoPlanned DEF PresentUnknown
<1> QED BY <1>1, <1>2, <1>3, <1>4, <1>5

LEMMA EndEmpties ==
    ASSUME IInv, NEW r \in Request, NEW o \in Ended, End(r, o)
    PROVE  /\ \A k \in Key : entity'[r][k] = None /\ work'[r][k] = None
           /\ todo'[r] = {} /\ pc'[r] = o /\ next'[r] = "idle"
           /\ \A q \in Request \ {r} :
                 /\ pc'[q] = pc[q] /\ work'[q] = work[q] /\ entity'[q] = entity[q]
                 /\ todo'[q] = todo[q] /\ next'[q] = next[q] /\ changed'[q] = changed[q]
BY BlankTypes DEF IInv, TypeOK, End, Goto

LEMMA EndPlanned ==
    ASSUME IInv, NEW r \in Request, NEW o \in Ended, End(r, o)
    PROVE  Planned(r)'
<1>1. OnCourse(r)'
  BY EndEmpties DEF OnCourse, Ended
<1> QED BY <1>1, EndEmpties, NothingPlanned DEF Ended

LEMMA RollbackPlanned ==
    ASSUME IInv, PlanInv, NEW r \in Request, NEW o \in Ended, Rollback(r, o)
    PROVE  PlanInv'
<1>1. End(r, o) /\ row' = row /\ born' = born /\ presented' = presented
  BY DEF Rollback
<1>2. Others(r)
  BY <1>1, EndEmpties DEF Others, SameRequest
<1>3. Planned(r)'
  BY <1>1, EndPlanned
<1>4. Careful(r)
  BY <1>1, EndEmpties, KeyFacts DEF Careful, Takes, Held
<1>5. BornSteady(r) /\ BirthsDiffer'
  BY <1>1 DEF BornSteady, PlanInv, BirthsDiffer, Exists, Rank
<1> QED BY <1>1, <1>2, <1>3, <1>4, <1>5, StepPlanned

-----------------------------------------------------------------------------
(* The steps of refresh and logout that read.                               *)

(* A step that reads v of row k, of the token presented or of its session,  *)
(* and starts the updates of ks.                                            *)
LEMMA ReadsPlanned ==
    ASSUME IInv, PlanInv, NEW r \in Request, OfOneToken(r),
           NEW k \in Key, NEW v \in Row, NEW ks \in SUBSET Key, NEW n \in Continuation,
           UNCHANGED <<row, work, born, changed>>, Reads(r, k, v), Updates(r, ks, n),
           \A q \in Request \ {r} : presented'[q] = presented[q],
           Exists(k), SameRow(v, row[k]), Kind[r] # "refresh" => v.revoked,
           \/ /\ pc[r] = "idle" /\ presented'[r] \in Id /\ k = Token(presented'[r])
              /\ n = "reread"
           \/ /\ pc[r] = "organization" /\ Presents(r) /\ presented'[r] = presented[r]
              /\ k = Stored(r) /\ n \in {"reread", "issue"}
           \/ /\ pc[r] = "reread" /\ Presents(r) /\ presented'[r] = presented[r]
              /\ k = SessionOf(r) /\ n \in {"raise", "commit"},
           n # "issue" => ks \subseteq {k},
           n \in {"issue", "raise"} => Kind[r] = "refresh",
           n = "commit" => Kind[r] # "refresh",
           Careful(r)
    PROVE  PlanInv'
<1>1. Planned(r)
  BY DEF PlanInv
<1>2. /\ entity'[r][k] = v /\ todo'[r] = ks /\ next'[r] = n
      /\ pc'[r] = IF ks = {} THEN n ELSE "update"
      /\ \A l \in Key \ {k} : entity'[r][l] = entity[r][l]
      /\ work'[r] = work[r] /\ born'[r] = born[r]
  BY DEF IInv, TypeOK, Reads, Updates
<1>3. Others(r)
  BY DEF Others, SameRequest, IInv, TypeOK, Reads, Updates
<1>4. v # None
  BY NoneFacts
<1>5. presented'[r] \in Id /\ Stored(r)' = Token(presented'[r]) /\ Stored(r)' \in Key
  BY KeyFacts DEF Stored, Presents
<1>6. pc[r] # "idle" => /\ Stored(r)' = Stored(r) /\ entity[r][Stored(r)] # None
                        /\ Presenting(r)
  BY DEF Stored, Presents, Presenting
<1>7. Presents(r)' /\ (pc[r] # "idle" => SessionOf(r)' = SessionOf(r))
  <2>1. CASE pc[r] = "idle"
    BY <1>2, <1>4, <1>5, <2>1 DEF Presents
  <2>2. CASE pc[r] = "organization"
    <3>1. SameRow(entity[r][Stored(r)], row[Stored(r)])
      BY <1>1, <1>5, <1>6, <2>2 DEF Planned, EntitiesOK
    <3> QED BY <1>2, <1>4, <1>5, <1>6, <2>2, <3>1 DEF SameRow, SessionOf, Presents
  <2>3. CASE pc[r] = "reread"
    <3>1. k # Stored(r)
      <4>1. entity[r][Stored(r)].session \in Id
        BY <1>5, <1>6, <2>3, RowTypes, StoredTypes
      <4> QED BY <1>5, <1>6, <2>3, <4>1, KeyFacts DEF SessionOf
    <3> QED BY <1>2, <1>5, <1>6, <2>3, <3>1 DEF SessionOf, Presents
  <2> QED BY <2>1, <2>2, <2>3
<1>8. k \in {Stored(r)', SessionOf(r)'}
  BY <1>5, <1>6, <1>7
<1>9. pc'[r] \in {"update", "reread", "issue", "raise", "commit"}
      /\ (pc'[r] # "update" => pc'[r] = n)
  BY <1>2
<1>10. \A k1 \in Key : Held(r, k1)' => /\ pc[r] = "reread" /\ Held(r, k1)
                                       /\ k1[1] = "token" /\ Exists(k1) /\ k1 # k
  <2>1. SUFFICES ASSUME NEW k1 \in Key, Held(r, k1)
                 PROVE  /\ pc[r] = "reread"
                        /\ k1[1] = "token" /\ Exists(k1) /\ k1 # k
    BY <1>2 DEF Held
  <2>2. pc[r] = "reread" /\ k1[1] = "token"
    BY <1>1, <2>1 DEF Planned, VersionsOK, UpTo
  <2>3. Exists(k1)
    BY <1>1, <2>1, <2>2 DEF Planned, InsertsOK
  <2>4. k[1] = "session"
    <3>1. entity[r][Stored(r)].session \in Id
      BY <1>5, <1>6, <2>2, RowTypes, StoredTypes
    <3> QED BY <2>2, <3>1, KeyFacts DEF SessionOf
  <2> QED BY <2>2, <2>3, <2>4
<1>11. OnCourse(r)'
  BY <1>2, <1>9 DEF OnCourse, OfOneToken
<1>12. EntitiesOK(r)'
  <2>1. SUFFICES ASSUME NEW l \in Key, entity'[r][l] # None
                 PROVE  /\ row[l] # None /\ SameRow(entity'[r][l], row[l])
                        /\ Kind[r] # "refresh" => entity'[r][l].revoked
                        /\ l \in {Stored(r)', SessionOf(r)'}
    BY <1>7, <1>9 DEF EntitiesOK, Exists, OfOneToken, Ended, Affected
  <2>2. CASE l = k
    BY <1>2, <1>8, <2>2 DEF Exists
  <2>3. CASE l # k
    <3>1. entity[r][l] # None /\ entity'[r][l] = entity[r][l]
      BY <1>2, <2>1, <2>3
    <3>2. pc[r] # "idle" /\ Exists(l) /\ SameRow(entity[r][l], row[l])
          /\ (Kind[r] # "refresh" => entity[r][l].revoked)
          /\ l \in {Stored(r), SessionOf(r)}
      BY <1>1, <3>1 DEF Planned, EntitiesOK
    <3> QED BY <1>6, <1>7, <3>1, <3>2 DEF Exists
  <2> QED BY <2>2, <2>3
<1>13. VersionsOK(r)'
  <2>1. SUFFICES ASSUME NEW l \in Key, Held(r, l)'
                 PROVE  /\ l[1] = "token" /\ entity'[r][l] # None
                        /\ SameRow(work[r][l], row[l])
                        /\ entity'[r][l].revoked => work[r][l].revoked
    BY <1>2, <1>9 DEF VersionsOK, Held, Exists, Ended
  <2>2. /\ pc[r] = "reread" /\ Held(r, l) /\ l[1] = "token" /\ Exists(l) /\ l # k
    BY <1>10, <2>1
  <2> QED BY <1>1, <1>2, <2>2 DEF Planned, VersionsOK
<1>14. InsertsOK(r)'
  BY <1>2, <1>9, <1>10 DEF InsertsOK, Exists
<1>15. UpdatesOK(r)'
  <2>1. UpTo(r, "issue")' => n = "issue"
    BY <1>2, <1>9 DEF UpTo
  <2>2. ASSUME n = "issue"
        PROVE  entity'[r][SessionOf(r)'] # None /\ ~entity'[r][SessionOf(r)'].revoked
    <3>1. pc[r] = "organization" /\ k = Stored(r)
      BY <2>2
    <3>2. entity[r][SessionOf(r)] # None /\ ~entity[r][SessionOf(r)].revoked
      BY <1>1, <3>1 DEF Planned, UpdatesOK
    <3>3. entity[r][Stored(r)].session \in Id
      BY <1>5, <1>6, <3>1, RowTypes, StoredTypes
    <3>4. SessionOf(r) \in Key /\ SessionOf(r) # k
      BY <1>5, <1>6, <3>1, <3>3, KeyFacts DEF SessionOf
    <3> QED BY <1>2, <1>7, <3>1, <3>2, <3>4
  <2>3. UpTo(r, "reread")' => \A l \in todo'[r] : l[1] = "token"
    <3>1. UpTo(r, "reread")' => n = "reread"
      BY <1>2, <1>9 DEF UpTo
    <3>2. n = "reread" => k[1] = "token"
      BY <1>5, <1>6, KeyFacts
    <3> QED BY <1>2, <3>1, <3>2
  <2> QED BY <1>9, <2>1, <2>2, <2>3 DEF UpdatesOK
<1>16. OrderOK(r)'
  <2>1. SUFFICES ASSUME NEW h \in Key, NEW l \in ks, Held(r, h)' PROVE Before(h, l)'
    BY <1>2 DEF OrderOK
  <2>2. pc[r] = "reread" /\ h[1] = "token" /\ l = k
    BY <1>10, <2>1
  <2>3. k[1] = "session"
    <3>1. entity[r][Stored(r)].session \in Id
      BY <1>5, <1>6, <2>2, RowTypes, StoredTypes
    <3> QED BY <2>2, <3>1, KeyFacts DEF SessionOf
  <2> QED BY <2>2, <2>3 DEF Before
<1>17. BirthOK(r)'
  BY <1>1, <1>2, <1>10 DEF Planned, BirthOK, Ended
<1>18. Planned(r)'
  BY <1>11, <1>12, <1>13, <1>14, <1>15, <1>16, <1>17 DEF Planned
<1> QED BY <1>3, <1>18, QuietPlanned

(* A refresh takes no token for good.                                       *)
LEMMA RefreshIsCareful ==
    ASSUME NEW r \in Request, Kind[r] = "refresh"
    PROVE  Careful(r)
BY DEF Careful, Takes

LEMMA PresentDeadPlanned ==
    ASSUME IInv, PlanInv, NEW r \in Request, NEW t \in Id, PresentDead(r, t)
    PROVE  PlanInv'
<1> DEFINE v == row[Token(t)]
           w == IF v.reuse THEN v ELSE [v EXCEPT !.reuse = TRUE, !.revoked = TRUE]
<1>1. Token(t) \in Key /\ v \in Row /\ Exists(Token(t))
  BY TokenRead DEF PresentDead, Exists
<1>2. w \in Row /\ SameRow(w, v)
  BY <1>1, RowTypes DEF SameRow, Row
<1>3. /\ Reads(r, Token(t), w) /\ Updates(r, {Token(t)}, "reread")
      /\ UNCHANGED <<row, work, born, changed>>
      /\ pc[r] = "idle" /\ Kind[r] = "refresh"
      /\ presented' = [presented EXCEPT ![r] = t]
  BY DEF PresentDead
<1>4. presented'[r] = t /\ \A q \in Request \ {r} : presented'[q] = presented[q]
  BY <1>3 DEF IInv, TypeOK
<1>5. {Token(t)} \in SUBSET Key /\ "reread" \in Continuation
  BY <1>1 DEF Continuation
<1> HIDE DEF w
<1> QED BY <1>1, <1>2, <1>3, <1>4, <1>5, RefreshIsCareful, ReadsPlanned DEF OfOneToken

LEMMA PresentToLogoutPlanned ==
    ASSUME IInv, PlanInv, NEW r \in Request, NEW t \in Id, PresentToLogout(r, t)
    PROVE  PlanInv'
<1> DEFINE v == row[Token(t)]
           w == Revoked(v)
           ks == IF v.revoked THEN {} ELSE {Token(t)}
<1>1. Token(t) \in Key /\ v \in Row /\ Exists(Token(t))
  BY TokenRead DEF PresentToLogout, Exists
<1>2. w \in Row /\ SameRow(w, v) /\ w.revoked
  BY <1>1, RowTypes DEF SameRow
<1>3. /\ Reads(r, Token(t), w) /\ Updates(r, ks, "reread")
      /\ UNCHANGED <<row, work, born, changed>>
      /\ pc[r] = "idle" /\ Kind[r] = "logout"
      /\ presented' = [presented EXCEPT ![r] = t]
  BY DEF PresentToLogout
<1>4. presented'[r] = t /\ \A q \in Request \ {r} : presented'[q] = presented[q]
  BY <1>3 DEF IInv, TypeOK
<1>5. ks \in SUBSET Key /\ ks \subseteq {Token(t)} /\ "reread" \in Continuation
  BY <1>1 DEF Continuation
<1>6. Careful(r)
  <2>1. pc'[r] \in {"update", "reread"} /\ next'[r] = "reread"
    BY <1>3 DEF Updates, IInv, TypeOK
  <2> QED BY <2>1 DEF Careful, Ends, UpTo
<1> HIDE DEF w, ks
<1> QED BY <1>1, <1>2, <1>3, <1>4, <1>5, <1>6, ReadsPlanned DEF OfOneToken

(* What a request that has read the token presented holds.                  *)
LEMMA Presented ==
    ASSUME IInv, PlanInv, NEW r \in Request, Presenting(r)
    PROVE  /\ Presents(r) /\ Stored(r) = Token(presented[r]) /\ Stored(r) \in Key
           /\ Exists(Stored(r)) /\ entity[r][Stored(r)] \in Row
           /\ SameRow(entity[r][Stored(r)], row[Stored(r)])
           /\ entity[r][Stored(r)].session \in Id
           /\ SessionOf(r) \in Key /\ SessionOf(r) # Stored(r) /\ SessionOf(r)[1] = "session"
           /\ Exists(SessionOf(r)) /\ row[SessionOf(r)] \in Row
<1>1. /\ presented[r] \in Id /\ Stored(r) \in Key /\ Stored(r) = Token(presented[r])
      /\ entity[r][Stored(r)] \in Row /\ Exists(Stored(r))
      /\ SessionOf(r) \in Key /\ Exists(SessionOf(r)) /\ row[SessionOf(r)] \in Row
  BY StoredTypes
<1>2. entity[r][Stored(r)] # None /\ entity[r][Stored(r)].session \in Id
  BY <1>1, NoneFacts, RowTypes
<1>3. SameRow(entity[r][Stored(r)], row[Stored(r)])
  BY <1>1, <1>2 DEF PlanInv, Planned, EntitiesOK
<1>4. SessionOf(r) # Stored(r) /\ SessionOf(r)[1] = "session"
  BY <1>1, <1>2, KeyFacts DEF SessionOf
<1> QED BY <1>1, <1>2, <1>3, <1>4 DEF Presents

LEMMA OrganizationPlanned ==
    ASSUME IInv, PlanInv, NEW r \in Request, RefuseSuspended(r) \/ Rotate(r)
    PROVE  PlanInv'
<1> DEFINE v == entity[r][Stored(r)]
<1>1. pc[r] = "organization" /\ Presenting(r) /\ Kind[r] = "refresh"
  BY DEF RefuseSuspended, Rotate, Presenting, PlanInv, Planned, OnCourse
<1>2. /\ Presents(r) /\ Stored(r) \in Key /\ Exists(Stored(r)) /\ v \in Row
      /\ SameRow(v, row[Stored(r)]) /\ SessionOf(r) \in Key
  BY <1>1, Presented
<1>3. UNCHANGED <<row, work, born, changed>> /\ presented' = presented
  BY DEF RefuseSuspended, Rotate
<1>4. CASE RefuseSuspended(r)
  <2>1. Reads(r, Stored(r), Revoked(v)) /\ Updates(r, {Stored(r)}, "reread")
    BY <1>4 DEF RefuseSuspended
  <2>2. Revoked(v) \in Row /\ SameRow(Revoked(v), row[Stored(r)])
    BY <1>2, RowTypes DEF SameRow
  <2>3. {Stored(r)} \in SUBSET Key /\ "reread" \in Continuation
    BY <1>2 DEF Continuation
  <2> HIDE DEF v
  <2> QED BY <1>1, <1>2, <1>3, <2>1, <2>2, <2>3, RefreshIsCareful, ReadsPlanned
          DEF OfOneToken
<1>5. CASE Rotate(r)
  <2> DEFINE ks == {Stored(r), SessionOf(r)}
  <2>1. Reads(r, Stored(r), Rotated(v)) /\ Updates(r, ks, "issue")
    BY <1>5 DEF Rotate
  <2>2. Rotated(v) \in Row /\ SameRow(Rotated(v), row[Stored(r)])
    BY <1>2, RowTypes DEF SameRow
  <2>3. ks \in SUBSET Key /\ "issue" \in Continuation
    BY <1>2 DEF Continuation
  <2> HIDE DEF v, ks
  <2> QED BY <1>1, <1>2, <1>3, <2>1, <2>2, <2>3, RefreshIsCareful, ReadsPlanned
          DEF OfOneToken
<1> QED BY <1>4, <1>5

(* The tokens that a logout takes.                                          *)
LEMMA LogoutTakes ==
    ASSUME IInv, PlanInv, NEW r \in Request, Kind[r] = "logout", Presenting(r),
           NEW i \in Id, Exists(Token(i)), Held(r, Token(i)) \/ Token(i) \in todo[r]
    PROVE  SessionOf(r) = Session(row[Token(i)].session)
<1>1. Token(i) \in Key /\ entity[r][Token(i)] # None
  BY KeyFacts DEF PlanInv, Planned, VersionsOK, IInv, LocalInv
<1>2. Token(i) \in {Stored(r), SessionOf(r)}
  BY <1>1 DEF PlanInv, Planned, EntitiesOK, OfOneToken
<1>3. Token(i) = Stored(r)
  BY <1>2, Presented, KeyFacts
<1> QED BY <1>3, Presented DEF SameRow, SessionOf

LEMMA RereadPlanned ==
    ASSUME IInv, PlanInv, NEW r \in Request, Reread(r)
    PROVE  PlanInv'
<1> DEFINE k == SessionOf(r)
           w == Revoked(row[k])
           ks == IF row[k].revoked THEN {} ELSE {k}
           n == AfterRevoking(r)
<1>1. pc[r] = "reread" /\ Presenting(r) /\ OfOneToken(r)
  BY DEF Reread, Presenting, PlanInv, Planned, OnCourse
<1>2. /\ Presents(r) /\ k \in Key /\ k[1] = "session" /\ Exists(k) /\ row[k] \in Row
  BY <1>1, Presented
<1>3. w \in Row /\ w.revoked /\ SameRow(w, row[k])
  BY <1>2, RowTypes DEF SameRow
<1>4. /\ Reads(r, k, w) /\ Updates(r, ks, n)
      /\ UNCHANGED <<row, work, born, changed>> /\ presented' = presented
  BY DEF Reread
<1>5. /\ ks \in SUBSET Key /\ ks \subseteq {k} /\ n \in Continuation
      /\ n \in {"raise", "commit"} /\ (n = "raise" <=> Kind[r] = "refresh")
  BY <1>2 DEF Continuation, AfterRevoking
<1>6. Careful(r)
  <2>1. CASE Kind[r] = "refresh"
    BY <2>1, RefreshIsCareful
  <2>2. CASE Kind[r] # "refresh"
    <3>1. Kind[r] = "logout" /\ todo'[r] = ks /\ work' = work
      BY <1>1, <1>4, <2>2 DEF OfOneToken, Updates, IInv, TypeOK
    <3>2. SUFFICES ASSUME NEW i \in Id, LiveRow(Token(i)), Takes(r, i)',
                          LiveRow(Session(row[Token(i)].session))
                   PROVE  Session(row[Token(i)].session) \in ks
      BY <1>4, <3>1 DEF Careful, Ends
    <3>3. Held(r, Token(i))
      BY <1>2, <1>5, <3>1, <3>2, KeyFacts DEF Takes, Held
    <3>4. k = Session(row[Token(i)].session)
      BY <1>1, <3>1, <3>2, <3>3, LogoutTakes DEF LiveRow
    <3> QED BY <3>2, <3>4 DEF LiveRow, Dead
  <2> QED BY <2>1, <2>2
<1> HIDE DEF k, w, ks, n
<1> QED BY <1>1, <1>2, <1>3, <1>4, <1>5, <1>6, ReadsPlanned DEF k

LEMMA ReadingPlanned ==
    ASSUME IInv, PlanInv, NEW r \in Request, Kind[r] = "refresh", NEW k \in Key,
           NEW l \in {"session", "organization"}, Reads(r, k, row[k]), Goto(r, l),
           UNCHANGED <<row, born, work, todo, changed, next>>,
           \A q \in Request \ {r} : presented'[q] = presented[q], Exists(k),
           \/ /\ pc[r] = "idle" /\ l = "session" /\ presented'[r] \in Id
              /\ k = Token(presented'[r])
           \/ /\ pc[r] = "session" /\ l = "organization" /\ presented'[r] = presented[r]
              /\ k = SessionOf(r) /\ ~row[k].revoked
    PROVE  PlanInv'
<1>1. Planned(r)
  BY DEF PlanInv
<1>2. /\ entity'[r][k] = row[k] /\ pc'[r] = l
      /\ \A h \in Key \ {k} : entity'[r][h] = entity[r][h]
  BY DEF IInv, TypeOK, Reads, Goto
<1>3. Others(r)
  BY DEF Others, SameRequest, IInv, TypeOK, Reads, Goto
<1>4. \A h \in Key : ~Held(r, h)
  BY <1>1 DEF Planned, VersionsOK
<1>5. todo[r] = {} /\ born[r] = 0
  BY <1>1 DEF IInv, LocalInv, Planned, BirthOK, Ended
<1>6. pc[r] = "session" => /\ Presents(r) /\ Stored(r) \in Key /\ Stored(r) # k
                           /\ Stored(r)' = Stored(r) /\ SessionOf(r)' = SessionOf(r)
  <2>1. SUFFICES ASSUME pc[r] = "session"
                 PROVE  /\ Presents(r) /\ Stored(r) \in Key /\ Stored(r) # k
                        /\ Stored(r)' = Stored(r) /\ SessionOf(r)' = SessionOf(r)
    OBVIOUS
  <2>2. Presents(r) /\ Stored(r) \in Key /\ Stored(r) # k
    BY <2>1, Presented DEF Presenting
  <2> QED BY <1>2, <2>1, <2>2 DEF Stored, SessionOf
<1>7. Presents(r)'
  BY <1>2, <1>6 DEF Presents, Stored, Exists
<1>8. OnCourse(r)'
  BY <1>1, <1>2 DEF Planned, OnCourse, OfOneToken
<1>9. EntitiesOK(r)'
  <2>1. SUFFICES ASSUME NEW h \in Key, entity'[r][h] # None
                 PROVE  /\ row[h] # None /\ SameRow(entity'[r][h], row[h])
                        /\ h \in {Stored(r)', SessionOf(r)'}
    BY <1>2, <1>7 DEF EntitiesOK, Exists, OfOneToken, Ended
  <2>2. CASE h = k
    BY <1>2, <1>6, <2>2 DEF Exists, SameRow, Stored
  <2>3. CASE h # k
    <3>1. entity[r][h] # None /\ entity'[r][h] = entity[r][h]
      BY <1>2, <2>1, <2>3
    <3>2. pc[r] = "session" /\ Exists(h) /\ SameRow(entity[r][h], row[h])
          /\ h \in {Stored(r), SessionOf(r)}
      BY <1>1, <3>1 DEF Planned, EntitiesOK, OfOneToken
    <3> QED BY <1>6, <3>1, <3>2 DEF Exists
  <2> QED BY <2>2, <2>3
<1>10. VersionsOK(r)' /\ InsertsOK(r)' /\ OrderOK(r)' /\ BirthOK(r)'
  BY <1>2, <1>4, <1>5 DEF VersionsOK, InsertsOK, OrderOK, BirthOK, Held
<1>11. UpdatesOK(r)'
  BY <1>2, <1>5, <1>6 DEF UpdatesOK, UpTo, Exists
<1>12. Planned(r)'
  BY <1>8, <1>9, <1>10, <1>11 DEF Planned
<1> QED BY <1>3, <1>12, RefreshIsCareful, QuietPlanned

LEMMA PresentLivePlanned ==
    ASSUME IInv, PlanInv, NEW r \in Request, NEW t \in Id, PresentLive(r, t)
    PROVE  PlanInv'
<1>1. Token(t) \in Key /\ Exists(Token(t))
  BY TokenRead DEF PresentLive, Exists
<1>2. presented'[r] = t /\ \A q \in Request \ {r} : presented'[q] = presented[q]
  BY DEF PresentLive, IInv, TypeOK
<1> QED BY <1>1, <1>2, ReadingPlanned DEF PresentLive

LEMMA ReadSessionPlanned ==
    ASSUME IInv, PlanInv, NEW r \in Request, ReadSession(r)
    PROVE  PlanInv'
<1>1. pc[r] = "session" /\ Presenting(r) /\ Kind[r] = "refresh"
  BY DEF ReadSession, Presenting, PlanInv, Planned, OnCourse
<1>2. SessionOf(r) \in Key /\ Exists(SessionOf(r))
  BY <1>1, Presented
<1>3. CASE row[SessionOf(r)].revoked
  BY <1>3, RollbackPlanned DEF ReadSession, Ended
<1>4. CASE ~row[SessionOf(r)].revoked
  BY <1>1, <1>2, <1>4, ReadingPlanned DEF ReadSession
<1> QED BY <1>3, <1>4

-----------------------------------------------------------------------------
(* Listing the rows to revoke.                                              *)

LEMMA ListsPlan ==
    ASSUME IInv, NEW r \in Request, NEW table \in Table, Lists(r, Live(r, table))
    PROVE  /\ \A k \in Live(r, table) :
                 /\ k \in Key /\ k[1] = table /\ Exists(k) /\ row[k].user \in Affected(r)
                 /\ entity'[r][k] # None /\ entity'[r][k].revoked
                 /\ SameRow(entity'[r][k], row[k])
           /\ \A k \in Key \ Live(r, table) : entity'[r][k] = entity[r][k]
<1>1. \A k \in Live(r, table) : /\ k \in Key /\ k[1] = table /\ Exists(k)
                                /\ row[k].user \in Affected(r) /\ row[k] \in Row
  BY DEF Live, Key, Exists, IInv, TypeOK
<1>2. entity'[r] = [k \in Key |-> IF k \in Live(r, table) THEN Revoked(row[k])
                                                           ELSE entity[r][k]]
  BY DEF Lists, IInv, TypeOK
<1>3. ASSUME NEW k \in Live(r, table)
      PROVE  /\ entity'[r][k] # None /\ entity'[r][k].revoked
             /\ SameRow(entity'[r][k], row[k])
  <2>1. entity'[r][k] = Revoked(row[k]) /\ row[k] \in Row
    BY <1>1, <1>2
  <2>2. Revoked(row[k]) \in Row /\ Revoked(row[k]).revoked /\ SameRow(Revoked(row[k]), row[k])
    BY <2>1, RowTypes DEF SameRow
  <2> QED BY <2>1, <2>2, NoneFacts
<1> QED BY <1>1, <1>2, <1>3

LEMMA ListTokensPlanned ==
    ASSUME IInv, PlanInv, NEW r \in Request, ListTokens(r)
    PROVE  PlanInv'
<1> DEFINE ks == Live(r, "token")
<1>1. Planned(r) /\ pc[r] = "tokens" /\ ~OfOneToken(r)
  BY DEF PlanInv, ListTokens, Planned, OnCourse
<1>2. /\ \A k \in Key : entity[r][k] = None /\ work[r][k] = None
      /\ todo[r] = {} /\ born[r] = 0
  BY <1>1, NothingYet
<1>3. /\ \A k \in ks : /\ k \in Key /\ k[1] = "token" /\ Exists(k)
                       /\ row[k].user \in Affected(r)
                       /\ entity'[r][k] # None /\ entity'[r][k].revoked
                       /\ SameRow(entity'[r][k], row[k])
      /\ \A k \in Key \ ks : entity'[r][k] = None
  BY <1>2, ListsPlan DEF ListTokens, Table
<1>4. /\ pc'[r] = "sessions" /\ todo'[r] = ks
      /\ UNCHANGED <<row, work, born, presented, next>>
  BY DEF ListTokens, IInv, TypeOK, Goto
<1>5. Others(r)
  BY DEF ListTokens, Others, SameRequest, IInv, TypeOK, Goto, Lists
<1> HIDE DEF ks
<1>6. OnCourse(r)'
  BY <1>1, <1>4 DEF Planned, OnCourse, OfOneToken
<1>7. EntitiesOK(r)'
  <2>1. SUFFICES ASSUME NEW k \in Key, entity'[r][k] # None
                 PROVE  /\ row[k] # None /\ SameRow(entity'[r][k], row[k])
                        /\ entity'[r][k].revoked /\ row[k].user \in Affected(r) /\ k \in ks
    BY <1>1, <1>4 DEF EntitiesOK, Exists, OfOneToken, Ended, Affected
  <2> QED BY <1>3, <2>1 DEF Exists
<1>8. VersionsOK(r)' /\ InsertsOK(r)' /\ OrderOK(r)' /\ BirthOK(r)' /\ UpdatesOK(r)'
  BY <1>2, <1>4 DEF VersionsOK, InsertsOK, OrderOK, BirthOK, UpdatesOK, UpTo, Held
<1>9. Careful(r)
  BY <1>4 DEF Careful, Ends
<1>10. Planned(r)'
  BY <1>6, <1>7, <1>8 DEF Planned
<1> QED BY <1>4, <1>5, <1>9, <1>10, QuietPlanned

LEMMA ListSessionsPlanned ==
    ASSUME IInv, PlanInv, NEW r \in Request, ListSessions(r)
    PROVE  PlanInv'
<1> DEFINE ks == Live(r, "session")
<1>1. Planned(r) /\ pc[r] = "sessions" /\ ~OfOneToken(r)
  BY DEF PlanInv, ListSessions, Planned, OnCourse
<1>2. (\A k \in Key : ~Held(r, k)) /\ born[r] = 0
  BY <1>1 DEF Planned, VersionsOK, BirthOK, Ended
<1>3. /\ \A k \in ks : /\ k \in Key /\ k[1] = "session" /\ Exists(k)
                       /\ row[k].user \in Affected(r)
                       /\ entity'[r][k] # None /\ entity'[r][k].revoked
                       /\ SameRow(entity'[r][k], row[k])
      /\ \A k \in Key \ ks : entity'[r][k] = entity[r][k]
  BY ListsPlan DEF ListSessions, Table
<1>4. /\ todo'[r] = todo[r] \cup ks /\ next'[r] = AfterRevokingAll(r)
      /\ pc'[r] = IF todo'[r] = {} THEN next'[r] ELSE "update"
      /\ UNCHANGED <<row, work, born, presented>>
  BY DEF ListSessions, IInv, TypeOK, Updates
<1>5. AfterRevokingAll(r) \in {"open", "commit"}
  BY DEF AfterRevokingAll
<1>6. Others(r)
  BY DEF ListSessions, Others, SameRequest, IInv, TypeOK, Updates, Lists
<1>7. OnCourse(r)'
  BY <1>1, <1>4, <1>5 DEF OnCourse, OfOneToken
<1>8. EntitiesOK(r)'
  <2>1. SUFFICES ASSUME NEW k \in Key, entity'[r][k] # None
                 PROVE  /\ row[k] # None /\ SameRow(entity'[r][k], row[k])
                        /\ entity'[r][k].revoked /\ row[k].user \in Affected(r)
                        /\ k \in todo'[r]
    BY <1>1, <1>4, <1>5 DEF EntitiesOK, Exists, OfOneToken, Ended, Affected
  <2>2. CASE k \in ks
    BY <1>3, <1>4, <2>2 DEF Exists
  <2>3. CASE k \notin ks
    <3>1. entity[r][k] # None /\ entity'[r][k] = entity[r][k]
      BY <1>3, <2>1, <2>3
    <3> QED BY <1>1, <1>2, <1>4, <3>1 DEF Planned, EntitiesOK, Exists, OfOneToken
  <2> QED BY <2>2, <2>3
<1>9. VersionsOK(r)' /\ OrderOK(r)' /\ BirthOK(r)'
  BY <1>2, <1>4 DEF VersionsOK, OrderOK, BirthOK, Held
<1>10. InsertsOK(r)' /\ UpdatesOK(r)'
  BY <1>1, <1>2, <1>4, <1>5 DEF InsertsOK, UpdatesOK, UpTo, Held, OfOneToken
<1>11. Careful(r)
  <2>1. SUFFICES ASSUME NEW i \in Id, LiveRow(Token(i)), Takes(r, i)',
                        LiveRow(Session(row[Token(i)].session))
                 PROVE  Session(row[Token(i)].session) \in ks
    BY <1>4 DEF Careful, Ends
  <2>2. Token(i) \in todo[r]
    BY <1>2, <1>3, <1>4, <2>1, KeyFacts DEF Takes, Held
  <2>3. row[Token(i)].user \in Affected(r)
    BY <1>1, <2>2, KeyFacts DEF IInv, LocalInv, Planned, EntitiesOK
  <2>4. row[Session(row[Token(i)].session)].user \in Affected(r)
    BY <2>1, <2>3 DEF PlanInv, OwnersAgree, LiveRow
  <2>5. row[Token(i)].session \in Id
    BY <2>1, TokenRead, RowTypes DEF LiveRow, Exists
  <2> QED BY <2>1, <2>4, <2>5 DEF Live, LiveRow, Exists, Session
<1>12. Planned(r)'
  BY <1>7, <1>8, <1>9, <1>10 DEF Planned
<1> QED BY <1>4, <1>6, <1>11, <1>12, QuietPlanned

-----------------------------------------------------------------------------
(* Updates and inserts.                                                     *)

LEMMA PreparePlanned ==
    ASSUME IInv, PlanInv, NEW r \in Request, NEW k \in Key, Prepare(r, k)
    PROVE  PlanInv'
<1>1. Planned(r) /\ pc[r] = "update"
  BY DEF PlanInv, Prepare
<1>2. /\ pc'[r] = "write" /\ UNCHANGED <<row, born, work, presented, entity, todo, next>>
      /\ next[r] # "issue" => "revoked" \in changed'[r]
  BY DEF Prepare, Goto, Stamped, IInv, TypeOK
<1>3. Others(r)
  BY DEF Prepare, Others, SameRequest, IInv, TypeOK, Goto
<1>4. /\ Stored(r)' = Stored(r) /\ SessionOf(r)' = SessionOf(r) /\ Presents(r)' = Presents(r)
      /\ \A l : l \notin {"update", "write"} => (UpTo(r, l)' <=> UpTo(r, l))
      /\ \A h \in Key : Held(r, h)' <=> Held(r, h)
  BY <1>1, <1>2 DEF Stored, SessionOf, Presents, UpTo, Held
<1>5. OnCourse(r)'
  BY <1>1, <1>2 DEF Planned, OnCourse, OfOneToken
<1>6. EntitiesOK(r)'
  BY <1>1, <1>2, <1>4 DEF Planned, EntitiesOK, OfOneToken, Exists, Ended, Affected
<1>7. VersionsOK(r)'
  BY <1>1, <1>2, <1>4 DEF Planned, VersionsOK, Exists, Ended
<1>8. InsertsOK(r)' /\ OrderOK(r)' /\ BirthOK(r)'
  BY <1>1, <1>2, <1>4 DEF Planned, InsertsOK, OrderOK, BirthOK, Exists, Before, Ended
<1>9. UpdatesOK(r)'
  BY <1>1, <1>2, <1>4 DEF Planned, UpdatesOK
<1>10. Careful(r)
  BY <1>1, <1>2, <1>4, KeyFacts DEF Careful, Takes, Ends, Held
<1>11. Planned(r)'
  BY <1>5, <1>6, <1>7, <1>8, <1>9 DEF Planned
<1> QED BY <1>2, <1>3, <1>10, <1>11, QuietPlanned

(* Rows that exist are ordered.                                             *)
LEMMA NearestFirst ==
    ASSUME IInv, BirthsDiffer, NEW r \in Request, NEW k \in Nearest(r), NEW l \in todo[r],
           l # k
    PROVE  Before(k, l)
<1>1. k \in todo[r] /\ ~Before(l, k)
  BY DEF Nearest
<1>2. k \in Key /\ l \in Key /\ Exists(k) /\ Exists(l)
  BY <1>1 DEF IInv, TypeOK, LocalInv
<1>3. /\ k[1] \in {"token", "session"} /\ l[1] \in {"token", "session"}
      /\ k[2] \in Id /\ l[2] \in Id
      /\ k[1] = l[1] => k[2] # l[2]
  BY <1>2 DEF Key, Table
<1>4. k[1] = l[1] => born[k[2]] # born[l[2]]
  BY <1>2, <1>3 DEF BirthsDiffer
<1>5. born[k[2]] \in Nat /\ born[l[2]] \in Nat
  BY <1>3 DEF IInv, TypeOK
<1> QED BY <1>1, <1>3, <1>4, <1>5 DEF Before

(* What is written of a row revokes it, unless it renews a session.         *)
LEMMA WritePlan ==
    ASSUME IInv, PlanInv, NEW r \in Request, NEW k \in Key, Write(r, k)
    PROVE  /\ work'[r][k] # None /\ SameRow(work'[r][k], row[k])
           /\ entity[r][k].revoked => work'[r][k].revoked
           /\ \A l \in Key \ {k} : work'[r][l] = work[r][l]
<1> DEFINE v == entity[r][k]
           w == Seen(r, k)
           m == Merged(v, w, changed[r])
<1>1. /\ pc[r] = "write" /\ k \in todo[r] /\ Exists(k) /\ v # None
      /\ (k[1] = "token" => "revoked" \in changed[r])
  BY NearestTokens DEF Write, IInv, LocalInv
<1>2. v \in Row /\ w \in Row /\ SameRow(w, row[k])
  BY <1>1 DEF IInv, TypeOK, Seen, SameRow, Exists, PlanInv, Planned, VersionsOK, Held
<1>3. v.revoked => "revoked" \in changed[r]
  <2>1. CASE next[r] # "issue"
    BY <1>1, <2>1 DEF PlanInv, Planned, UpdatesOK
  <2>2. CASE next[r] = "issue" /\ k[1] # "token"
    <3>1. /\ Presenting(r) /\ OfOneToken(r) /\ UpTo(r, "issue")
      BY <1>1, <2>2 DEF Presenting, UpTo, PlanInv, Planned, OnCourse, OfOneToken
    <3>2. k = SessionOf(r)
      <4>1. k \in {Stored(r), SessionOf(r)}
        BY <1>1, <3>1 DEF PlanInv, Planned, EntitiesOK
      <4>2. Stored(r) = Token(presented[r]) /\ presented[r] \in Id
        BY <3>1, Presented DEF Presents
      <4> QED BY <2>2, <4>1, <4>2, KeyFacts
    <3> QED BY <3>1, <3>2 DEF PlanInv, Planned, UpdatesOK
  <2> QED BY <1>1, <2>1, <2>2
<1>4. /\ m \in Row /\ m.session = w.session /\ (v.revoked => m.revoked)
  BY <1>2, <1>3, MergedTypes
<1>5. m.user = w.user
  BY <1>2 DEF Merged, Row
<1>6. work' = [work EXCEPT ![r][k] = m]
  BY DEF Write
<1> HIDE DEF m
<1>7. work'[r][k] = m /\ \A l \in Key \ {k} : work'[r][l] = work[r][l]
  BY <1>6 DEF IInv, TypeOK
<1> QED BY <1>2, <1>4, <1>5, <1>7, NoneFacts DEF SameRow

LEMMA WritePlanned ==
    ASSUME IInv, PlanInv, NEW r \in Request, NEW k \in Key, Write(r, k)
    PROVE  PlanInv'
<1>1. /\ Planned(r) /\ pc[r] = "write" /\ k \in Nearest(r) /\ k \in todo[r]
      /\ Exists(k) /\ entity[r][k] # None
  BY NearestTokens DEF PlanInv, Write, IInv, LocalInv
<1>2. /\ todo'[r] = todo[r] \ {k} /\ next'[r] = next[r]
      /\ pc'[r] = IF todo'[r] = {} THEN next[r] ELSE "update"
      /\ UNCHANGED <<row, born, presented, entity>>
  BY DEF Write, Updates, IInv, TypeOK
<1>3. Others(r)
  BY DEF Write, Others, SameRequest, IInv, TypeOK, Updates
<1>4. /\ work'[r][k] # None /\ SameRow(work'[r][k], row[k])
      /\ entity[r][k].revoked => work'[r][k].revoked
      /\ \A l \in Key \ {k} : work'[r][l] = work[r][l]
  BY WritePlan
<1>5. /\ Stored(r)' = Stored(r) /\ SessionOf(r)' = SessionOf(r) /\ Presents(r)' = Presents(r)
      /\ \A l \in {"reread", "issue"} : UpTo(r, l)' => UpTo(r, l)
      /\ UpTo(r, "reread") => UpTo(r, "reread")'
      /\ \A h \in Key : Held(r, h)' <=> (Held(r, h) \/ h = k)
  BY <1>1, <1>2, <1>4 DEF Stored, SessionOf, Presents, UpTo, Held
<1>6. pc'[r] \in {"update", "reread", "raise", "issue", "open", "commit"}
      /\ (pc'[r] # "update" => pc'[r] = next[r])
  BY <1>1, <1>2 DEF IInv, TypeOK, Planned, OnCourse
<1>7. OnCourse(r)'
  BY <1>1, <1>2, <1>6 DEF Planned, OnCourse, OfOneToken
<1>8. EntitiesOK(r)'
  BY <1>1, <1>2, <1>5, <1>6 DEF Planned, EntitiesOK, OfOneToken, Exists, Ended, Affected
<1>9. VersionsOK(r)'
  <2>1. SUFFICES ASSUME NEW h \in Key, Held(r, h)'
                 PROVE  /\ UpTo(r, "reread")' => h[1] = "token"
                        /\ Exists(h) => /\ entity[r][h] # None
                                        /\ SameRow(work'[r][h], row[h])
                                        /\ entity[r][h].revoked => work'[r][h].revoked
    BY <1>2, <1>6 DEF VersionsOK, Exists, Ended
  <2>2. CASE h = k
    BY <1>1, <1>4, <1>5, <2>2 DEF Planned, UpdatesOK
  <2>3. CASE h # k
    BY <1>1, <1>4, <1>5, <2>1, <2>3 DEF Planned, VersionsOK
  <2> QED BY <2>2, <2>3
<1>10. \A h \in Key : Held(r, h)' => Exists(h)
  BY <1>1, <1>5 DEF Planned, InsertsOK
<1>11. InsertsOK(r)'
  BY <1>1, <1>2, <1>6, <1>10 DEF InsertsOK, Exists, Planned, OnCourse
<1>12. UpdatesOK(r)'
  BY <1>1, <1>2, <1>5, <1>6 DEF Planned, UpdatesOK
<1>13. OrderOK(r)'
  <2>1. ASSUME NEW h \in Key, NEW l \in todo[r] \ {k}, Held(r, h)' PROVE Before(h, l)
    <3>1. CASE h = k
      BY <1>1, <2>1, <3>1, NearestFirst DEF PlanInv
    <3>2. CASE h # k
      BY <1>1, <1>5, <2>1, <3>2 DEF Planned, OrderOK
    <3> QED BY <3>1, <3>2
  <2> QED BY <1>2, <2>1 DEF OrderOK, Before
<1>14. BirthOK(r)'
  BY <1>1, <1>2, <1>10 DEF Planned, BirthOK, PlanInv, BirthsDiffer, Ended
<1>15. Careful(r)
  <2>1. SUFFICES ASSUME NEW i \in Id, LiveRow(Token(i)), Takes(r, i)'
                 PROVE  /\ Takes(r, i)
                        /\ LET s == row[Token(i)].session IN Ends(r, s) => Ends(r, s)'
    BY DEF Careful
  <2>2. Takes(r, i)
    BY <1>1, <1>2, <1>5, <2>1, KeyFacts DEF Takes
  <2>3. ASSUME NEW s \in Id, Ends(r, s) PROVE Ends(r, s)'
    <3>1. CASE UpTo(r, "reread")
      BY <1>5, <3>1 DEF Ends
    <3>2. CASE Session(s) \in todo[r] \/ Held(r, Session(s))
      BY <1>2, <1>5, <3>2, KeyFacts DEF Ends
    <3> QED BY <1>1, <2>3, <3>1, <3>2 DEF Ends
  <2>4. row[Token(i)].session \in Id
    BY <2>1, TokenRead, RowTypes DEF LiveRow, Exists
  <2> QED BY <1>2, <2>2, <2>3, <2>4
<1>16. BornSteady(r) /\ BirthsDiffer'
  BY <1>2 DEF BornSteady, PlanInv, BirthsDiffer, Exists, Rank
<1>17. Planned(r)'
  BY <1>7, <1>8, <1>9, <1>11, <1>12, <1>13, <1>14 DEF Planned
<1> QED BY <1>2, <1>3, <1>15, <1>16, <1>17, StepPlanned

LEMMA RankGrows ==
    ASSUME IInv, BirthsDiffer, NEW r \in Request, born[r] = 0,
           born' = [born EXCEPT ![r] = Rank],
           row' = row, \A k \in Key : Exists(k) => k[2] # r
    PROVE  BirthsDiffer' /\ BornSteady(r) /\ born'[r] # 0
<1> DEFINE S == {i \in Id : born[i] # 0}
<1>1. /\ r \in Id /\ born'[r] = Rank /\ \A i \in Id \ {r} : born'[i] = born[i]
      /\ born \in [Id -> Nat]
  BY RequestIsId DEF IInv, TypeOK
<1>2. IsFiniteSet(S)
  <2>1. IsFiniteSet(Id)
    BY ConstantsAssumption, FS_Union DEF Id
  <2> QED BY <2>1, FS_Subset
<1>3. Cardinality(S) \in Nat /\ Rank = 1 + Cardinality(S)
  BY <1>2, FS_CardinalityType DEF Rank
<1>4. {i \in Id : born'[i] # 0} = S \cup {r}
  BY <1>1, <1>3
<1>5. Cardinality(S \cup {r}) = Cardinality(S) + 1
  BY <1>2, FS_AddElement
<1>6. Rank' = Rank + 1
  BY <1>3, <1>4, <1>5 DEF Rank
<1> HIDE DEF S
<1>7. \A i \in Id : born'[i] < Rank'
  BY <1>1, <1>3, <1>6 DEF BirthsDiffer
<1>8. \A i, j \in Id : born'[i] = born'[j] /\ born'[i] # 0 => i = j
  BY <1>1, <1>3 DEF BirthsDiffer
<1>9. \A k \in Key : Exists(k) => born'[k[2]] = born[k[2]]
  BY <1>1, KeyFacts
<1> QED BY <1>1, <1>3, <1>7, <1>8, <1>9 DEF BirthsDiffer, BornSteady, Exists

(* Before the end, r inserts the row v under its own names.                *)
LEMMA InsertPlanned ==
    ASSUME IInv, PlanInv, NEW r \in Request, NEW ks \in SUBSET {Token(r), Session(r)},
           NEW v \in Row, Inserts(r, ks, v), Token(r) \in ks, ~Dead(v),
           Session(r) \in ks => v.session = r,
           Seen(r, Session(v.session))' # None, Seen(r, Session(v.session))'.user = v.user,
           Kind[r] = "refresh" => Presents(r) /\ v.session = entity[r][Stored(r)].session
    PROVE  PlanInv'
<1>1. Planned(r) /\ pc[r] \in {"issue", "open"}
  BY DEF PlanInv, Inserts
<1>2. /\ pc'[r] = "commit"
      /\ \A k \in ks : work'[r][k] = v
      /\ \A k \in Key \ ks : work'[r][k] = work[r][k]
      /\ UNCHANGED <<row, entity, todo, changed, next, presented>>
      /\ born' = [born EXCEPT ![r] = Rank]
  BY DEF Inserts, Goto, IInv, TypeOK
<1>3. Others(r)
  BY DEF Inserts, Others, SameRequest, IInv, TypeOK, Goto
<1>4. \A k \in Key : k \in ks => ~Exists(k) /\ k[2] = r
  BY <1>1, KeyFacts, RequestIsId DEF IInv, LocalInv
<1>5. \A k \in Key : Exists(k) => k[2] # r
  <2>1. ~Exists(Token(r)) /\ ~Exists(Session(r))
    BY <1>1 DEF IInv, LocalInv
  <2> QED BY <2>1, KeyFacts
<1>6. born[r] = 0 /\ todo[r] = {}
  BY <1>1 DEF Planned, BirthOK, Ended, IInv, LocalInv
<1>7. BirthsDiffer' /\ BornSteady(r) /\ born'[r] # 0
  BY <1>2, <1>5, <1>6, RankGrows DEF PlanInv
<1>8. \A k \in Key : Held(r, k)' <=> Held(r, k) \/ k \in ks
  BY <1>2, NoneFacts DEF Held
<1>9. \A k \in Key : Held(r, k) => Exists(k)
  BY <1>1 DEF Planned, InsertsOK
<1>10. Stored(r)' = Stored(r) /\ Presents(r)' = Presents(r) /\ SessionOf(r)' = SessionOf(r)
  BY <1>2 DEF Stored, Presents, SessionOf
<1>11. OnCourse(r)'
  BY <1>1, <1>2 DEF Planned, OnCourse, OfOneToken
<1>12. EntitiesOK(r)'
  BY <1>1, <1>2, <1>8, <1>10 DEF Planned, EntitiesOK, OfOneToken, Exists, Ended, Affected
<1>13. VersionsOK(r)'
  BY <1>1, <1>2, <1>4, <1>8 DEF Planned, VersionsOK, UpTo, Exists, Ended
<1>14. InsertsOK(r)'
  <2>1. ASSUME NEW k \in ks
        PROVE  /\ k[2] = r /\ work'[r][k] = v /\ work'[r][Token(r)] = v
               /\ k = Session(r) => v.session = r
    BY <1>2, <1>4, KeyFacts, RequestIsId
  <2>2. \A k \in Key : Held(r, k)' /\ ~Exists(k)' => k \in ks
    BY <1>2, <1>8, <1>9 DEF Exists
  <2>3. Held(r, Token(r))'
    BY <2>1, NoneFacts DEF Held
  <2> QED BY <1>2, <1>10, <2>1, <2>2, <2>3 DEF InsertsOK
<1>15. UpdatesOK(r)' /\ OrderOK(r)'
  BY <1>2, <1>6 DEF UpdatesOK, OrderOK, UpTo
<1>16. BirthOK(r)'
  BY <1>1, <1>2, <1>4, <1>7, <1>8, <1>9 DEF BirthOK, BornSteady, Planned
<1>17. Planned(r)'
  BY <1>11, <1>12, <1>13, <1>14, <1>15, <1>16 DEF Planned
<1>18. Careful(r)
  <2>1. SUFFICES ASSUME NEW i \in Id, LiveRow(Token(i)), Takes(r, i)',
                        Ends(r, row[Token(i)].session)
                 PROVE  Ends(r, row[Token(i)].session)'
    BY <1>2, <1>4, <1>6, <1>8, KeyFacts DEF Careful, Takes, LiveRow
  <2>2. row[Token(i)].session \in Id
    BY <2>1, TokenRead, RowTypes DEF LiveRow, Exists
  <2> QED BY <1>1, <1>2, <1>6, <1>8, <2>1, <2>2, KeyFacts DEF Ends, UpTo
<1> QED BY <1>2, <1>3, <1>7, <1>17, <1>18, StepPlanned

LEMMA IssuePlanned ==
    ASSUME IInv, PlanInv, NEW r \in Request, Issue(r)
    PROVE  PlanInv'
<1>1. PICK e : e = entity[r][Stored(r)]
  OBVIOUS
<1>2. PICK v : v = NewRow(e.session, presented[r], e.user)
  OBVIOUS
<1>3. pc[r] = "issue" /\ Presenting(r)
  BY DEF Issue, Presenting
<1>4. /\ Presents(r) /\ Exists(Stored(r)) /\ Stored(r) = Token(presented[r])
      /\ e \in Row /\ SameRow(e, row[Stored(r)]) /\ presented[r] \in Id
      /\ SessionOf(r) \in Key /\ Exists(SessionOf(r))
  BY <1>1, <1>3, Presented DEF Presents
<1>5. /\ v \in Row /\ v.session = e.session /\ v.user = e.user /\ ~Dead(v)
      /\ e.session \in Id
  <2>1. e.session \in Id /\ e.user \in User
    BY <1>4, RowTypes
  <2> QED BY <1>2, <1>4, <2>1, NewRowTypes DEF NewRow, Dead
<1>6. Inserts(r, {Token(r)}, v)
  BY <1>1, <1>2, IssueInserts
<1>7. Session(v.session) = SessionOf(r) /\ SessionOf(r) # Token(r)
  BY <1>1, <1>5, KeyFacts, RequestIsId DEF SessionOf
<1>8. Seen(r, SessionOf(r)) # None /\ Seen(r, SessionOf(r)).user = v.user
  <2>1. row[SessionOf(r)].user = row[Stored(r)].user
    BY <1>1, <1>4 DEF PlanInv, OwnersAgree, SameRow, SessionOf
  <2>2. Held(r, SessionOf(r)) => SameRow(work[r][SessionOf(r)], row[SessionOf(r)])
    BY <1>4 DEF PlanInv, Planned, VersionsOK
  <2> QED BY <1>4, <1>5, <2>1, <2>2 DEF Seen, SameRow, Exists, Held
<1>9. Seen(r, Session(v.session))' = Seen(r, Session(v.session))
  BY <1>4, <1>6, <1>7 DEF Inserts, Seen
<1>10. {Token(r)} \in SUBSET {Token(r), Session(r)} /\ Session(r) # Token(r)
  BY KeyFacts, RequestIsId
<1> QED BY <1>1, <1>4, <1>5, <1>6, <1>7, <1>8, <1>9, <1>10, InsertPlanned

LEMMA OpenSessionPlanned ==
    ASSUME IInv, PlanInv, NEW r \in Request, OpenSession(r)
    PROVE  PlanInv'
<1> DEFINE v == NewRow(r, None, UserOf[r])
           ks == {Token(r), Session(r)}
<1>1. v \in Row /\ v.session = r /\ v.user = UserOf[r] /\ ~Dead(v)
  <2>1. r \in Id /\ UserOf[r] \in User
    BY RequestIsId, ConstantsAssumption
  <2> QED BY <2>1, NewRowTypes DEF NewRow, Dead
<1>2. Inserts(r, ks, v)
  BY OpenSessionInserts
<1>3. Seen(r, Session(r))' = v
  BY <1>1, <1>2, NoneFacts DEF Inserts, Seen
<1>4. Kind[r] # "refresh"
  BY DEF OpenSession, PlanInv, Planned, OnCourse, OfOneToken
<1>5. ks \in SUBSET {Token(r), Session(r)} /\ Token(r) \in ks
  OBVIOUS
<1> HIDE DEF v, ks
<1> QED BY <1>1, <1>2, <1>3, <1>4, <1>5, NoneFacts, InsertPlanned

-----------------------------------------------------------------------------
(* A commit: what the transaction holds becomes the rows.                   *)

LEMMA CommitSteady ==
    ASSUME IInv, PlanInv, NEW r \in Request, Commit(r)
    PROVE  /\ \A k \in Key : row'[k] = Seen(r, k)
           /\ \A k \in Key : row'[k] = IF Held(r, k) THEN work[r][k] ELSE row[k]
           /\ Steady /\ Fresh(r) /\ BornSteady(r)
           /\ \A q \in Request \ {r} : SameRequest(q)
           /\ pc[r] = "commit" /\ Planned(r) /\ End(r, "done") /\ born' = born
<1>1. /\ End(r, "done") /\ pc[r] = "commit" /\ presented' = presented /\ born' = born
      /\ row' = [k \in Key |-> Seen(r, k)]
  BY DEF Commit
<1>2. \A k \in Key : row'[k] = IF Held(r, k) THEN work[r][k] ELSE row[k]
  BY <1>1 DEF Seen, Held
<1>3. Planned(r)
  BY DEF PlanInv
<1>4. Steady
  BY <1>2, <1>3 DEF Steady, Held, Exists, Planned, VersionsOK, SameRow
<1>5. Fresh(r)
  BY <1>2, VersionsOf DEF Fresh, Versions, Exists
<1>6. BornSteady(r)
  BY <1>1 DEF BornSteady
<1>7. \A q \in Request \ {r} : SameRequest(q)
  BY <1>1, EndEmpties DEF SameRequest, Ended
<1> QED BY <1>1, <1>2, <1>3, <1>4, <1>5, <1>6, <1>7

LEMMA CommitOwners ==
    ASSUME IInv, PlanInv, NEW r \in Request, Commit(r)
    PROVE  OwnersAgree'
<1> SUFFICES ASSUME NEW i \in Id, row'[Token(i)] # None
             PROVE  row'[Token(i)].user = row'[Session(row'[Token(i)].session)].user
  BY DEF OwnersAgree, Exists
<1>1. /\ \A k \in Key : row'[k] = Seen(r, k)
      /\ \A k \in Key : row'[k] = IF Held(r, k) THEN work[r][k] ELSE row[k]
      /\ Steady /\ Planned(r)
  BY CommitSteady
<1>2. Token(i) \in Key
  BY KeyFacts
<1>3. CASE Exists(Token(i))
  <2>1. SameRow(row'[Token(i)], row[Token(i)])
    BY <1>1, <1>2, <1>3 DEF Steady
  <2>2. row[Token(i)].session \in Id /\ Exists(Session(row[Token(i)].session))
    BY <1>3, TokenRead, RowTypes DEF Exists
  <2>3. SameRow(row'[Session(row[Token(i)].session)], row[Session(row[Token(i)].session)])
    BY <1>1, <2>2, KeyFacts DEF Steady
  <2>4. row[Token(i)].user = row[Session(row[Token(i)].session)].user
    BY <1>3 DEF PlanInv, OwnersAgree
  <2> QED BY <2>1, <2>3, <2>4 DEF SameRow
<1>4. CASE ~Exists(Token(i))
  <2>1. Held(r, Token(i)) /\ row'[Token(i)] = work[r][Token(i)]
    BY <1>1, <1>2, <1>4 DEF Exists
  <2>2. Seen(r, Session(work[r][Token(i)].session)).user = work[r][Token(i)].user
    BY <1>1, <1>2, <1>4, <2>1 DEF Planned, InsertsOK
  <2>3. work[r][Token(i)] \in Row
    BY <1>2, <2>1 DEF Held, IInv, TypeOK
  <2>4. Session(work[r][Token(i)].session) \in Key
    BY <2>3, RowTypes, KeyFacts
  <2> QED BY <1>1, <2>1, <2>2, <2>4
<1> QED BY <1>3, <1>4

(* Only a refresh or a login leaves a session that it wrote alive, and it   *)
(* brings the token of it.                                                  *)
LEMMA CommitRenews ==
    ASSUME IInv, PlanInv, NEW r \in Request, Commit(r), NEW s \in Id,
           Held(r, Session(s)), LiveRow(Session(s))'
    PROVE  /\ row[Token(r)] = None
           /\ LiveRow(Token(r))' /\ row'[Token(r)].session = s
<1>1. /\ \A k \in Key : row'[k] = IF Held(r, k) THEN work[r][k] ELSE row[k]
      /\ Planned(r) /\ pc[r] = "commit"
  BY CommitSteady
<1>2. /\ Session(s) \in Key /\ Token(r) \in Key /\ Token(r)[2] = r
      /\ Session(s)[1] = "session" /\ Session(s)[2] = s
  BY KeyFacts, RequestIsId
<1>3. row[Token(r)] = None
  BY <1>1 DEF IInv, LocalInv, Exists
<1>4. ~work[r][Session(s)].revoked
  BY <1>1, <1>2 DEF LiveRow, Dead
<1>5. CASE ~Exists(Session(s))
  <2>1. /\ s = r /\ ~Dead(work[r][Session(s)]) /\ work[r][Token(r)] = work[r][Session(s)]
        /\ work[r][Session(s)].session = r
    BY <1>1, <1>2, <1>5 DEF Planned, InsertsOK
  <2>2. row'[Token(r)] = work[r][Session(s)] /\ work[r][Session(s)] # None
    BY <1>1, <1>2, <2>1 DEF Held
  <2> QED BY <1>3, <2>1, <2>2 DEF LiveRow, Exists
<1>6. CASE Exists(Session(s))
  <2>1. entity[r][Session(s)] # None /\ ~entity[r][Session(s)].revoked
    BY <1>1, <1>2, <1>4, <1>6 DEF Planned, VersionsOK
  <2>2. Kind[r] = "refresh" /\ Presents(r) /\ Session(s) \in {Stored(r), SessionOf(r)}
    BY <1>1, <1>2, <2>1 DEF Planned, EntitiesOK, OfOneToken
  <2>3. Session(s) = SessionOf(r) /\ Stored(r) \in Key
    BY <2>2, KeyFacts DEF Presents, Stored
  <2>4. entity[r][Stored(r)].session = s
    <3>1. entity[r][Stored(r)] \in Row
      BY <2>2, <2>3 DEF Presents, IInv, TypeOK
    <3>2. entity[r][Stored(r)].session \in Id
      BY <3>1, RowTypes
    <3> QED BY <2>3, <3>2, KeyFacts DEF SessionOf
  <2>5. Held(r, Token(r)) /\ work[r][Token(r)].session = s /\ ~Dead(work[r][Token(r)])
    BY <1>1, <1>2, <1>3, <2>2, <2>4 DEF Planned, InsertsOK, Exists
  <2> QED BY <1>1, <1>2, <1>3, <2>5 DEF LiveRow, Exists, Held
<1> QED BY <1>5, <1>6

LEMMA CommitRenewable ==
    ASSUME IInv, PlanInv, NEW r \in Request, Commit(r), NEW s \in Id, LiveRow(Session(s))'
    PROVE  Renewable(s)'
<1>1. /\ \A k \in Key : row'[k] = IF Held(r, k) THEN work[r][k] ELSE row[k]
      /\ Steady /\ Fresh(r) /\ Planned(r) /\ pc[r] = "commit" /\ End(r, "done")
      /\ \A q \in Request \ {r} : SameRequest(q)
  BY CommitSteady
<1>2. /\ Session(s) \in Key /\ Token(r) \in Key
  BY KeyFacts, RequestIsId
<1>3. \A i \in Id : ~Takes(r, i)'
  BY <1>1, EndEmpties, KeyFacts DEF Takes, Held, Ended
<1>4. /\ \A i \in Id, q \in Request \ {r} : Takes(q, i)' <=> Takes(q, i)
      /\ \A q \in Request \ {r} : Ends(q, s) => Ends(q, s)'
  BY <1>1 DEF SameRequest, Takes, Ends, UpTo, Held
<1>5. ASSUME row[Token(r)] = None, LiveRow(Token(r))', row'[Token(r)].session = s
      PROVE  Renewable(s)'
  <2>1. ASSUME NEW q \in Request \ {r} PROVE ~Takes(q, r)
    <3>1. Token(r) \notin todo[q]
      BY <1>5 DEF IInv, LocalInv, Exists
    <3>2. ~Held(q, Token(r))
      BY <1>2, <1>5, KeyFacts, RequestIsId, VersionsOf DEF Versions, Exists
    <3> QED BY <3>1, <3>2 DEF Takes
  <2> QED BY <1>3, <1>4, <1>5, <2>1, RequestIsId DEF Renewable
<1>6. CASE Held(r, Session(s))
  BY <1>5, <1>6, CommitRenews
<1>7. CASE ~Held(r, Session(s))
  <2>1. LiveRow(Session(s))
    BY <1>1, <1>2, <1>7 DEF LiveRow, Exists
  <2>2. PICK i \in Id : /\ LiveRow(Token(i)) /\ row[Token(i)].session = s
                        /\ \A q \in Request : Takes(q, i) => Ends(q, s)
    BY <2>1 DEF PlanInv, SessionsRenewable, Renewable
  <2>3. CASE ~Held(r, Token(i))
    <3>1. LiveRow(Token(i))' /\ row'[Token(i)].session = s
      BY <1>1, <2>2, <2>3, KeyFacts DEF LiveRow, Exists
    <3> QED BY <1>3, <1>4, <2>2, <3>1 DEF Renewable
  <2>4. CASE Held(r, Token(i))
    <3>1. Kind[r] = "refresh"
      <4>1. todo[r] = {} /\ ~Ends(r, s)
        BY <1>1, <1>7 DEF IInv, LocalInv, Ends, UpTo
      <4> QED BY <2>2, <2>4, <4>1 DEF Takes
    <3>2. Token(i) = Stored(r) /\ SameRow(entity[r][Stored(r)], row[Stored(r)])
      <4>1. Token(i) \in Key /\ entity[r][Token(i)] # None
        BY <1>1, <2>2, <2>4, KeyFacts DEF Planned, VersionsOK, LiveRow
      <4>2. /\ Presents(r) /\ Token(i) \in {Stored(r), SessionOf(r)}
            /\ SameRow(entity[r][Token(i)], row[Token(i)])
        BY <1>1, <3>1, <4>1 DEF Planned, EntitiesOK, OfOneToken
      <4>3. entity[r][Stored(r)].session \in Id
        <5>1. Stored(r) \in Key
          BY <4>2, KeyFacts DEF Presents, Stored
        <5>2. entity[r][Stored(r)] \in Row
          BY <4>2, <5>1 DEF Presents, IInv, TypeOK
        <5> QED BY <5>2, RowTypes
      <4> QED BY <4>2, <4>3, KeyFacts DEF SessionOf
    <3>3. /\ Held(r, Token(r)) /\ work[r][Token(r)].session = s
          /\ row[Token(r)] = None
      <4>1. row[Token(r)] = None
        BY <1>1 DEF IInv, LocalInv, Exists
      <4> QED BY <1>1, <2>2, <3>1, <3>2, <4>1 DEF Planned, InsertsOK, SameRow
    <3>4. ~Dead(work[r][Token(r)])
      BY <1>1, <1>2, <3>3 DEF Planned, InsertsOK, Exists
    <3> QED BY <1>1, <1>2, <1>5, <3>3, <3>4 DEF LiveRow, Exists, Held
  <2> QED BY <2>3, <2>4
<1> QED BY <1>6, <1>7

LEMMA CommitPlanned ==
    ASSUME IInv, PlanInv, NEW r \in Request, Commit(r)
    PROVE  PlanInv'
<1>1. /\ \A k \in Key : row'[k] = IF Held(r, k) THEN work[r][k] ELSE row[k]
      /\ Steady /\ Fresh(r) /\ BornSteady(r) /\ Planned(r) /\ End(r, "done")
      /\ \A q \in Request \ {r} : SameRequest(q)
      /\ born' = born
  BY CommitSteady
<1>2. ASSUME NEW q \in Request PROVE Planned(q)'
  <2>1. CASE q = r
    BY <1>1, <2>1, EndPlanned DEF Ended
  <2>2. CASE q # r
    BY <1>1, <2>2, OthersPlanned DEF PlanInv
  <2> QED BY <2>1, <2>2
<1>3. BirthsDiffer'
  <2>1. \A k \in Key : row'[k] # None => born[k[2]] # 0
    BY <1>1 DEF PlanInv, BirthsDiffer, Exists, Planned, BirthOK
  <2> QED BY <1>1, <2>1 DEF PlanInv, BirthsDiffer, Exists, Rank
<1>4. OwnersAgree'
  BY CommitOwners
<1>5. SessionsRenewable'
  BY CommitRenewable DEF SessionsRenewable
<1> QED BY <1>2, <1>3, <1>4, <1>5 DEF PlanInv

-----------------------------------------------------------------------------
(* The plans of every execution.                                            *)

LEMMA InitPlanned == Init => PlanInv
<1> SUFFICES ASSUME Init PROVE PlanInv
  OBVIOUS
<1>1. IInv
  BY InitIInv
<1>2. \A r \in Request : /\ \A k \in Key : entity[r][k] = None /\ work[r][k] = None
                         /\ todo[r] = {} /\ pc[r] = "idle" /\ next[r] = "idle"
  BY BlankTypes DEF Init
<1>3. /\ \A i \in Id : born[i] # 0 <=> i \in Old
      /\ \A i, j \in Old : born[i] = born[j] => i = j
      /\ born \in [Id -> 0 .. Cardinality(Old)]
  BY DEF Init
<1>4. \A i \in Id : /\ row[Token(i)] = IF i \in Old THEN NewRow(i, None, UserOf[i]) ELSE None
                    /\ row[Session(i)] = IF i \in Old THEN NewRow(i, None, UserOf[i]) ELSE None
  BY KeyFacts DEF Init
<1>5. ASSUME NEW r \in Request PROVE Planned(r)
  <2>1. born[r] = 0
    BY <1>3, RequestIsId, ConstantsAssumption
  <2>2. OnCourse(r) /\ EntitiesOK(r) /\ VersionsOK(r) /\ InsertsOK(r)
    BY <1>2 DEF OnCourse, EntitiesOK, VersionsOK, InsertsOK, Held
  <2>3. UpdatesOK(r) /\ OrderOK(r) /\ BirthOK(r)
    BY <1>2, <2>1 DEF UpdatesOK, UpTo, OrderOK, BirthOK, Held
  <2> QED BY <2>2, <2>3 DEF Planned
<1>6. BirthsDiffer
  <2>1. {i \in Id : born[i] # 0} = Old
    BY <1>3 DEF Id
  <2>2. Cardinality(Old) \in Nat /\ Rank = 1 + Cardinality(Old)
    BY <2>1, ConstantsAssumption, FS_CardinalityType DEF Rank
  <2>3. \A i \in Id : born[i] < Rank
    BY <1>3, <2>2
  <2>4. \A k \in Key : Exists(k) => born[k[2]] # 0
    BY <1>3, KeyFacts DEF Init, Exists
  <2> QED BY <1>3, <2>3, <2>4 DEF BirthsDiffer
<1>7. \A i \in Old : /\ i \in Id /\ NewRow(i, None, UserOf[i]).session = i
                     /\ NewRow(i, None, UserOf[i]).user = UserOf[i]
                     /\ ~Dead(NewRow(i, None, UserOf[i])) /\ NewRow(i, None, UserOf[i]) # None
  <2>1. SUFFICES ASSUME NEW i \in Old
                 PROVE  /\ i \in Id /\ NewRow(i, None, UserOf[i]).session = i
                        /\ NewRow(i, None, UserOf[i]).user = UserOf[i]
                        /\ ~Dead(NewRow(i, None, UserOf[i])) /\ NewRow(i, None, UserOf[i]) # None
    OBVIOUS
  <2>2. i \in Id /\ UserOf[i] \in User
    BY ConstantsAssumption DEF Id
  <2> QED BY <2>2, NewRowTypes, NoneFacts DEF NewRow, Dead
<1>8. OwnersAgree
  BY <1>4, <1>7 DEF OwnersAgree, Exists
<1>9. SessionsRenewable
  <2>1. SUFFICES ASSUME NEW s \in Id, LiveRow(Session(s)) PROVE Renewable(s)
    BY DEF SessionsRenewable
  <2>2. s \in Old
    BY <1>4, <2>1 DEF LiveRow, Exists
  <2>3. LiveRow(Token(s)) /\ row[Token(s)].session = s
    BY <1>4, <1>7, <2>2 DEF LiveRow, Exists
  <2>4. \A r \in Request : ~Takes(r, s)
    BY <1>2, KeyFacts DEF Takes, Held
  <2> QED BY <2>3, <2>4 DEF Renewable
<1> QED BY <1>5, <1>6, <1>8, <1>9 DEF PlanInv

LEMMA StepPlanInv == IInv /\ PlanInv /\ [Next]_vars => PlanInv'
<1> SUFFICES ASSUME IInv, PlanInv, [Next]_vars PROVE PlanInv'
  OBVIOUS
<1>1. CASE UNCHANGED vars
  <2>1. \A r \in Request : Planned(r)'
    <3>1. SUFFICES ASSUME NEW r \in Request PROVE Planned(r)'
      OBVIOUS
    <3>2. Planned(r)
      BY DEF PlanInv
    <3>3. OnCourse(r)' /\ EntitiesOK(r)' /\ VersionsOK(r)'
      BY <1>1, <3>2 DEF vars, Planned, OnCourse, EntitiesOK, VersionsOK, OfOneToken, Presents,
         Stored, SessionOf, UpTo, Held, Exists, Affected
    <3>4. InsertsOK(r)' /\ UpdatesOK(r)'
      BY <1>1, <3>2 DEF vars, Planned, InsertsOK, UpdatesOK, Presents,
         Stored, SessionOf, UpTo, Held, Exists, Seen
    <3>5. OrderOK(r)' /\ BirthOK(r)'
      BY <1>1, <3>2 DEF vars, Planned, OrderOK, BirthOK, Held, Before
    <3> QED BY <3>3, <3>4, <3>5 DEF Planned
  <2>2. BirthsDiffer' /\ OwnersAgree'
    BY <1>1 DEF vars, PlanInv, BirthsDiffer, OwnersAgree, Exists, Rank
  <2>3. SessionsRenewable'
    BY <1>1 DEF vars, PlanInv, SessionsRenewable, Renewable, LiveRow, Exists, Takes, Ends,
       UpTo, Held
  <2> QED BY <2>1, <2>2, <2>3 DEF PlanInv
<1>2. CASE Next
  <2> SUFFICES ASSUME NEW r \in Request, Start(r) \/ Continue(r) \/ Abort(r)
               PROVE  PlanInv'
    BY <1>2 DEF Next
  <2>1. CASE Start(r)
    BY <2>1, StartPlanned, PresentDeadPlanned, PresentLivePlanned, PresentToLogoutPlanned
       DEF Start
  <2>2. CASE ReadSession(r) \/ RefuseSuspended(r) \/ Rotate(r) \/ Reread(r)
    BY <2>2, ReadSessionPlanned, OrganizationPlanned, RereadPlanned
  <2>3. CASE Raise(r) \/ Abort(r)
    BY <2>3, RollbackPlanned DEF Raise, Abort, Ended
  <2>4. CASE LockOrganization(r) \/ ListTokens(r) \/ ListSessions(r)
    BY <2>4, StartPlanned, ListTokensPlanned, ListSessionsPlanned
  <2>5. CASE \E k \in Key : Prepare(r, k) \/ Write(r, k)
    BY <2>5, PreparePlanned, WritePlanned
  <2>6. CASE Issue(r) \/ OpenSession(r) \/ Commit(r)
    BY <2>6, IssuePlanned, OpenSessionPlanned, CommitPlanned
  <2> QED BY <2>1, <2>2, <2>3, <2>4, <2>5, <2>6 DEF Continue
<1> QED BY <1>1, <1>2 DEF Next

(* Every open transaction keeps to its plan, and every live session has a   *)
(* token that no plan takes from it.                                        *)
THEOREM PlansAreKept == Spec => [](IInv /\ PlanInv)
<1>1. Init => IInv /\ PlanInv
  BY InitIInv, InitPlanned
<1>2. IInv /\ PlanInv /\ [Next]_vars => (IInv /\ PlanInv)'
  BY StepIInv, StepPlanInv
<1> QED BY <1>1, <1>2, PTL DEF Spec

(* Revoking everything never leaves a session alive without a token to     *)
(* renew it with, whatever requests and however many run at once.          *)
THEOREM LiveSessionsAreRenewable == Spec => []LiveSessionHasToken
<1>1. PlanInv => LiveSessionHasToken
  BY DEF PlanInv, SessionsRenewable, Renewable, LiveSessionHasToken
<1> QED BY <1>1, PlansAreKept, PTL

-----------------------------------------------------------------------------
(* What a revocation leaves.                                                *)

(* A step of r moves r alone, and only Commit brings it from "commit" to    *)
(* "done".                                                                  *)
LEMMA MovesAlone ==
    ASSUME IInv, NEW r \in Request, Start(r) \/ Continue(r) \/ Abort(r)
    PROVE  /\ \A q \in Request \ {r} : pc'[q] = pc[q]
           /\ pc[r] = "commit" /\ pc'[r] = "done" => Commit(r)
<1>1. CASE Start(r)
  BY <1>1 DEF Start, PresentUnknown, PresentDead, PresentLive, PresentToLogout, StartLogin,
     StartPassword, StartSuspend, Goto, Updates, IInv, TypeOK
<1>2. CASE ReadSession(r) \/ RefuseSuspended(r) \/ Rotate(r) \/ Reread(r)
           \/ Raise(r) \/ LockOrganization(r) \/ ListTokens(r) \/ ListSessions(r)
  BY <1>2 DEF ReadSession, RefuseSuspended, Rotate, Reread, Raise, LockOrganization,
     ListTokens, ListSessions, Rollback, End, Goto, Updates, IInv, TypeOK
<1>3. CASE \/ \E k \in Key : Prepare(r, k) \/ Write(r, k)
           \/ Issue(r) \/ OpenSession(r) \/ Commit(r)
  BY <1>3 DEF Prepare, Write, Issue, OpenSession, Commit, End, Goto, Updates, IInv, TypeOK
<1>4. CASE Abort(r)
  BY <1>4 DEF Abort, Rollback, End, Goto, IInv, TypeOK
<1> QED BY <1>1, <1>2, <1>3, <1>4 DEF Continue

(* A login, a password change or a suspension that commits leaves every     *)
(* row that it listed dead, whatever others committed in between.          *)
THEOREM RevocationsReachTheirList == Spec => RevokesWhatItListed
<1> DEFINE Leaves == \A r \in Request :
                        (pc[r] = "commit" /\ pc'[r] = "done"
                         /\ Kind[r] \in {"login", "password", "suspend"})
                        => \A k \in Key : entity[r][k] # None => Dead(row'[k])
<1>1. IInv /\ PlanInv /\ [Next]_vars => [Leaves]_vars
  <2>1. SUFFICES ASSUME IInv, PlanInv, Next, NEW r \in Request,
                        pc[r] = "commit", pc'[r] = "done",
                        Kind[r] \in {"login", "password", "suspend"},
                        NEW k \in Key, entity[r][k] # None
                 PROVE  Dead(row'[k])
    OBVIOUS
  <2>2. PICK q \in Request : Start(q) \/ Continue(q) \/ Abort(q)
    BY <2>1 DEF Next
  <2>3. Commit(r)
    BY <2>1, <2>2, MovesAlone
  <2>4. todo[r] = {} /\ Planned(r)
    BY <2>1 DEF IInv, LocalInv, PlanInv
  <2>5. Exists(k) /\ entity[r][k].revoked /\ Held(r, k)
    BY <2>1, <2>4 DEF Planned, EntitiesOK, OfOneToken
  <2>6. work[r][k].revoked
    BY <2>4, <2>5 DEF Planned, VersionsOK
  <2>7. row'[k] = work[r][k]
    BY <2>1, <2>3, <2>5, CommitSteady
  <2> QED BY <2>6, <2>7 DEF Dead
<1> QED BY <1>1, PlansAreKept, PTL DEF Spec, RevokesWhatItListed

-----------------------------------------------------------------------------
(* A finished session stays finished.                                       *)

(* A refresh gets to hold a session alive only by reading it alive.         *)
LEMMA AliveWhenRead ==
    ASSUME IInv, PlanInv, NEW r \in Request, Kind[r] = "refresh",
           Start(r) \/ Continue(r) \/ Abort(r), NEW s \in Id,
           entity'[r][Session(s)] # None, ~entity'[r][Session(s)].revoked
    PROVE  entity'[r][Session(s)] = entity[r][Session(s)] \/ ~row[Session(s)].revoked
<1> DEFINE k == Session(s)
<1>1. k \in Key /\ \A t \in Id : Token(t) # k
  BY KeyFacts
<1>2. ASSUME NEW h \in Key, NEW v, Reads(r, h, v), v.revoked \/ v = row[h] \/ h # k
      PROVE  entity'[r][k] = entity[r][k] \/ ~row[k].revoked
  <2>1. h # k => entity'[r][k] = entity[r][k]
    BY <1>1, <1>2 DEF Reads, IInv, TypeOK
  <2>2. h = k => entity'[r][k] = v
    BY <1>1, <1>2 DEF Reads, IInv, TypeOK
  <2> QED BY <1>2, <2>1, <2>2
<1>3. ASSUME NEW o, End(r, o) PROVE FALSE
  BY <1>1, <1>3, BlankTypes DEF End, IInv, TypeOK
<1>4. CASE Start(r)
  <2>1. \A t \in Id : Token(t) \in Key /\ Token(t) # k
    BY <1>1, KeyFacts
  <2>2. entity' = entity \/ \E t \in Id : \E v : Reads(r, Token(t), v)
    BY <1>4 DEF Start, PresentUnknown, PresentDead, PresentLive, PresentToLogout,
       StartLogin, StartPassword, StartSuspend
  <2> QED BY <1>2, <2>1, <2>2
<1>5. CASE ReadSession(r)
  <2>1. SessionOf(r) \in Key
    BY <1>5, Presented DEF ReadSession, Presenting
  <2> QED BY <1>2, <1>3, <1>5, <2>1 DEF ReadSession, Rollback
<1>6. CASE RefuseSuspended(r) \/ Rotate(r)
  <2>1. Stored(r) \in Key /\ Stored(r) # k
    BY <1>1, <1>6, Presented DEF RefuseSuspended, Rotate, Presenting, Presents
  <2> QED BY <1>2, <1>6, <2>1 DEF RefuseSuspended, Rotate
<1>7. CASE Reread(r)
  <2>1. /\ SessionOf(r) \in Key /\ row[SessionOf(r)] \in Row
        /\ Revoked(row[SessionOf(r)]).revoked
    BY <1>7, Presented, RowTypes DEF Reread, Presenting
  <2> QED BY <1>2, <1>7, <2>1 DEF Reread
<1>8. CASE \/ LockOrganization(r) \/ Issue(r) \/ OpenSession(r)
           \/ \E h \in Key : Prepare(r, h) \/ Write(r, h)
  BY <1>8 DEF LockOrganization, Issue, OpenSession, Prepare, Write
<1>9. CASE Raise(r) \/ Abort(r) \/ Commit(r)
  BY <1>3, <1>9 DEF Raise, Abort, Commit, Rollback
<1>10. CASE ListTokens(r) \/ ListSessions(r)
  BY <1>10 DEF ListTokens, ListSessions, PlanInv, Planned, OnCourse, OfOneToken
<1> QED BY <1>4, <1>5, <1>6, <1>7, <1>8, <1>9, <1>10 DEF Continue

(* What a step of r leaves of the entities and places of the others.       *)
LEMMA ActsAlone ==
    ASSUME IInv, NEW r \in Request, Start(r) \/ Continue(r) \/ Abort(r)
    PROVE  /\ \A q \in Request \ {r} : pc'[q] = pc[q] /\ entity'[q] = entity[q]
           /\ Commit(r) \/ row' = row
<1>1. \A q \in Request \ {r} : pc'[q] = pc[q]
  BY MovesAlone
<1>2. CASE Start(r)
  BY <1>1, <1>2 DEF Start, PresentUnknown, PresentDead, PresentLive, PresentToLogout,
     StartLogin, StartPassword, StartSuspend, Reads, IInv, TypeOK
<1>3. CASE ReadSession(r) \/ RefuseSuspended(r) \/ Rotate(r) \/ Reread(r)
           \/ Raise(r) \/ LockOrganization(r) \/ ListTokens(r) \/ ListSessions(r)
  BY <1>1, <1>3 DEF ReadSession, RefuseSuspended, Rotate, Reread, Raise, LockOrganization,
     ListTokens, ListSessions, Rollback, End, Reads, Lists, IInv, TypeOK
<1>4. CASE \/ \E k \in Key : Prepare(r, k) \/ Write(r, k)
           \/ Issue(r) \/ OpenSession(r) \/ Commit(r)
  BY <1>1, <1>4 DEF Prepare, Write, Issue, OpenSession, Commit, End, IInv, TypeOK
<1>5. CASE Abort(r)
  BY <1>1, <1>5 DEF Abort, Rollback, End, IInv, TypeOK
<1> QED BY <1>2, <1>3, <1>4, <1>5 DEF Continue

LEMMA CommitLeavesRevoked ==
    ASSUME IInv, PlanInv, NEW r \in Request, Commit(r), NEW s \in Id, Finished(s)
    PROVE  row'[Session(s)] # None /\ row'[Session(s)].revoked
<1>1. /\ \A k \in Key : row'[k] = IF Held(r, k) THEN work[r][k] ELSE row[k]
      /\ Planned(r) /\ pc[r] = "commit"
  BY CommitSteady
<1>2. Session(s) \in Key /\ Exists(Session(s)) /\ row[Session(s)].revoked /\ ~InFlight(s)
  BY KeyFacts DEF Finished
<1>3. CASE Held(r, Session(s))
  <2>1. entity[r][Session(s)] # None
        /\ (entity[r][Session(s)].revoked => work[r][Session(s)].revoked)
    BY <1>1, <1>2, <1>3 DEF Planned, VersionsOK
  <2>2. entity[r][Session(s)].revoked
    <3>1. SUFFICES ASSUME ~entity[r][Session(s)].revoked PROVE FALSE
      OBVIOUS
    <3>2. Kind[r] = "refresh"
      BY <1>1, <1>2, <2>1, <3>1 DEF Planned, EntitiesOK
    <3>3. Open(r)
      BY <1>1 DEF Open, Ended, Waiting
    <3> QED BY <1>2, <2>1, <3>1, <3>2, <3>3 DEF InFlight
  <2> QED BY <1>1, <1>2, <1>3, <2>1, <2>2 DEF Held
<1> QED BY <1>1, <1>2, <1>3 DEF Exists

(* A revoked session that no open refresh has read alive is never brought   *)
(* back, by no stale entity and by no refresh that starts later.            *)
THEOREM FinishedSessionsStayFinished == Spec => FinishedForGood
<1> DEFINE Stays == \A s \in Id : Finished(s) => Finished(s)'
<1>1. IInv /\ PlanInv /\ [Next]_vars => [Stays]_vars
  <2>1. SUFFICES ASSUME IInv, PlanInv, Next, NEW s \in Id, Finished(s) PROVE Finished(s)'
    OBVIOUS
  <2>2. PICK r \in Request : Start(r) \/ Continue(r) \/ Abort(r)
    BY <2>1 DEF Next
  <2>3. row'[Session(s)] # None /\ row'[Session(s)].revoked
    BY <2>1, <2>2, ActsAlone, CommitLeavesRevoked DEF Finished, Exists
  <2>4. SUFFICES ASSUME NEW q \in Request, Kind[q] = "refresh", Open(q)',
                        entity'[q][Session(s)] # None, ~entity'[q][Session(s)].revoked
                 PROVE  FALSE
    BY <2>3 DEF Finished, InFlight, Exists
  <2>5. entity'[q][Session(s)] = entity[q][Session(s)]
    BY <2>1, <2>2, <2>4, ActsAlone, AliveWhenRead DEF Finished
  <2>6. Open(q)
    BY <2>1, <2>4, <2>5, KeyFacts DEF PlanInv, Planned, EntitiesOK, Open, Ended, Waiting
  <2> QED BY <2>1, <2>4, <2>5, <2>6 DEF Finished, InFlight
<1> QED BY <1>1, PlansAreKept, PTL DEF Spec, FinishedForGood

-----------------------------------------------------------------------------
(* No requests wait for one another.                                        *)

Want(r, k) == pc[r] = "write" /\ k \in Nearest(r)

(* No requests wait in a circle for row locks: each holds only rows before  *)
(* those that it has still to write, and all of them go by one order.       *)
THEOREM LocksAreOrdered == Spec => []NoDeadlock
<1> DEFINE Remaining(k) == IF k[1] = "token" THEN 2 * Rank - born[k[2]] ELSE Rank - born[k[2]]
           Blocked(R) == \A r \in R : \E q \in R : WaitsFor(r, q)
<1>1. ASSUME IInv, PlanInv, NEW R \in SUBSET Request, R # {}, Blocked(R) PROVE FALSE
  <2> DEFINE K == {k \in Key : \E r \in R : Want(r, k) /\ \E q \in R \ {r} : Held(q, k)}
             T == {Remaining(k) : k \in K}
             O == OpToRel(<, Nat)
  <2>1. ASSUME NEW r \in R PROVE \E k \in K : Want(r, k)
    <3>1. PICK q \in R : WaitsFor(r, q)
      BY <1>1
    <3>2. PICK k \in Nearest(r) : work[q][k] # None
      BY <3>1 DEF WaitsFor
    <3>3. k \in Key
      BY <1>1, <3>2, NearestTokens
    <3> QED BY <3>1, <3>2, <3>3 DEF WaitsFor, Want, Held
  <2>2. \A k \in K : Remaining(k) \in Nat
    <3>1. SUFFICES ASSUME NEW k \in Key PROVE Remaining(k) \in Nat
      OBVIOUS
    <3>2. k[2] \in Id /\ born[k[2]] \in Nat /\ born[k[2]] < Rank /\ Rank \in Nat
      BY <1>1, KeyFacts, RankIsNat DEF IInv, TypeOK, PlanInv, BirthsDiffer
    <3> QED BY <3>2
  <2>3. T \subseteq Nat /\ T # {}
    BY <1>1, <2>1, <2>2
  <2>4. \A x \in Nat, y \in Nat : <<y, x>> \in O <=> y < x
    BY DEF OpToRel
  <2>5. IsWellFoundedOn(O, Nat)
    BY NatLessThanWellFounded, Zenon
  <2>6. PICK x \in T : \A y \in T : ~(<<y, x>> \in O)
    <3> HIDE DEF T, O
    <3> QED BY <2>3, <2>5, WFMin
  <2>7. PICK k \in K : x = Remaining(k)
    BY <2>6
  <2>8. PICK q \in R : Held(q, k)
    BY <2>7
  <2>9. PICK l \in K : Want(q, l)
    BY <2>1, <2>8
  <2>10. Before(k, l)
    <3>1. l \in todo[q] /\ q \in Request /\ k \in Key
      BY <1>1, <2>9, NearestTokens DEF Want
    <3> QED BY <1>1, <2>8, <3>1 DEF PlanInv, Planned, OrderOK
  <2>11. Remaining(l) < Remaining(k)
    <3>1. /\ k[2] \in Id /\ l[2] \in Id /\ born[k[2]] \in Nat /\ born[l[2]] \in Nat
          /\ born[k[2]] < Rank /\ born[l[2]] < Rank /\ Rank \in Nat
      BY <1>1, KeyFacts, RankIsNat DEF IInv, TypeOK, PlanInv, BirthsDiffer
    <3> QED BY <2>10, <3>1 DEF Before
  <2> QED BY <2>2, <2>3, <2>4, <2>6, <2>7, <2>9, <2>11
<1>2. IInv /\ PlanInv => NoDeadlock
  BY <1>1 DEF NoDeadlock
<1> QED BY <1>2, PlansAreKept, PTL
==============================================================================
