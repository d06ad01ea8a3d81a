----------------------------- MODULE SessionTokens -----------------------------
(***************************************************************************)
(* Sessions and refresh tokens: login, refresh with rotation, logout,      *)
(* password change and organisation suspension, as the transactions they   *)
(* are on PostgreSQL READ COMMITTED.                                       *)
(*                                                                         *)
(* A use case reads rows into entities, changes the entities, and writes   *)
(* them back one by one through repository.update: read the row again      *)
(* (the identity map is weak and has dropped it), compare it with the      *)
(* entity, and UPDATE the columns that differ, waiting for the row lock.   *)
(* Between any two of these statements another transaction may commit.     *)
(*                                                                         *)
(* A request inserts at most one session and one token, so a request names *)
(* them: its token is Token(r), its session Session(r).  Time is left out: *)
(* no token expires.                                                       *)
(***************************************************************************)
EXTENDS Naturals, FiniteSets

CONSTANTS
    Request,    \* requests; each one is one transaction
    Old,        \* sessions that exist at the start, each with a live token
    User,
    Member,     \* users of the organisation, without the super admins
    Kind,       \* Kind[r]: which use case request r runs
    UserOf,     \* UserOf[r]: whose login or password change, whose old session
    None

Id    == Request \cup Old
Table == {"token", "session"}
Key   == Table \X Id
Token(i)   == <<"token", i>>
Session(i) == <<"session", i>>

ASSUME ConstantsAssumption ==
    /\ Request \cap Old = {}
    /\ IsFiniteSet(Request) /\ IsFiniteSet(Old)
    /\ Member \subseteq User
    /\ Kind \in [Request -> {"login", "refresh", "logout", "password", "suspend"}]
    /\ UserOf \in [Id -> User]
    /\ None \notin Id

(* The columns of either table.  A session uses only revoked; user is the  *)
(* owner of the session, which a query of tokens reaches through a join.   *)
Column == {"used", "revoked", "reuse"}
Row    == [used : BOOLEAN, revoked : BOOLEAN, reuse : BOOLEAN,
           session : Id, from : Id \cup {None}, user : User]

NoRow(v) == v = None
ASSUME NoneIsNoRow == None \notin Row

VARIABLES
    row,        \* committed rows of both tables
    born,       \* created_at of the rows named i, as a rank; 0 before
    suspended,  \* the organisation is suspended
    pc,         \* where each request is
    work,       \* work[r][k]: version of row k that request r has locked or inserted
    presented,  \* the token a refresh or a logout was called with
    entity,     \* entity[r][k]: the entity r holds of row k, with r's changes
    todo,       \* todo[r]: rows r has still to write
    changed,    \* changed[r]: columns of the UPDATE about to run
    next        \* next[r]: where r goes after its last UPDATE

vars == <<row, born, suspended, pc, work, presented, entity, todo, changed, next>>

-----------------------------------------------------------------------------
(* Rows, transactions and locks.                                            *)

NewRow(s, t, u) == [used |-> FALSE, revoked |-> FALSE, reuse |-> FALSE,
                    session |-> s, from |-> t, user |-> u]
Blank   == [k \in Key |-> None]
Dead(v) == v.used \/ v.revoked
Revoked(v) == [v EXCEPT !.revoked = TRUE]

(* What a statement of r sees of row k.                                     *)
Seen(r, k) == IF work[r][k] = None THEN row[k] ELSE work[r][k]

Ended   == {"done", "rejected", "failed"}
Waiting == {"idle"}
Open(r) == pc[r] \notin Ended \cup Waiting

(* Row locks on other tables: a password change holds its user's row from  *)
(* its first UPDATE, a suspension the organisation's.                      *)
HoldsUser(r, u) == Open(r) /\ Kind[r] = "password" /\ UserOf[r] = u
HoldsOrganization(r) == Open(r) /\ Kind[r] = "suspend" /\ pc[r] # "lock"
LockedByOther(r, k)  == \E q \in Request \ {r} : work[q][k] # None

(* The order of the UPDATEs: tokens before sessions, each by created_at.   *)
Before(k, l) == \/ k[1] = "token" /\ l[1] = "session"
                \/ k[1] = l[1] /\ born[k[2]] < born[l[2]]
(* Mutant: no ORDER BY, and sessions among the tokens.                      *)
NearestAny(r) == todo[r]
Nearest(r)   == {k \in todo[r] : \A l \in todo[r] \ {k} : ~Before(l, k)}

(* Go on with the UPDATEs of the rows ks, and then to n.                    *)
Updates(r, ks, n) ==
    /\ todo' = [todo EXCEPT ![r] = ks]
    /\ next' = [next EXCEPT ![r] = n]
    /\ pc'   = [pc EXCEPT ![r] = IF ks = {} THEN n ELSE "update"]

Reads(r, k, v) == entity' = [entity EXCEPT ![r][k] = v]
Goto(r, l)     == pc' = [pc EXCEPT ![r] = l]

(* The end of a transaction: nothing of it is left but the outcome o.      *)
End(r, o) ==
    /\ Goto(r, o)
    /\ work'    = [work EXCEPT ![r] = Blank]
    /\ entity'  = [entity EXCEPT ![r] = Blank]
    /\ todo'    = [todo EXCEPT ![r] = {}]
    /\ changed' = [changed EXCEPT ![r] = {}]
    /\ next'    = [next EXCEPT ![r] = "idle"]

Rollback(r, o) == End(r, o) /\ UNCHANGED <<row, born, suspended, presented>>

-----------------------------------------------------------------------------
(* RefreshSessionUseCase.execute and LogoutUseCase.execute                  *)

Stored(r)    == Token(presented[r])
SessionOf(r) == Session(entity[r][Stored(r)].session)

(* The token is unknown: a refresh is refused, a logout has nothing to do. *)
PresentUnknown(r, t) ==
    /\ pc[r] = "idle" /\ Kind[r] \in {"refresh", "logout"}
    /\ row[Token(t)] = None
    /\ presented' = [presented EXCEPT ![r] = t]
    /\ Goto(r, IF Kind[r] = "refresh" THEN "failed" ELSE "done")
    /\ UNCHANGED <<row, born, suspended, work, entity, todo, changed, next>>

(* A refresh with a token that was used or revoked marks the reuse and     *)
(* revokes the session, before the exception.                              *)
PresentDead(r, t) ==
    LET v == row[Token(t)] IN
    /\ pc[r] = "idle" /\ Kind[r] = "refresh"
    /\ v # None /\ Dead(v)
    /\ presented' = [presented EXCEPT ![r] = t]
    /\ Reads(r, Token(t), IF v.reuse THEN v
                          ELSE [v EXCEPT !.reuse = TRUE, !.revoked = TRUE])
    /\ Updates(r, {Token(t)}, "reread")
    /\ UNCHANGED <<row, born, suspended, work, changed>>

PresentLive(r, t) ==
    LET v == row[Token(t)] IN
    /\ pc[r] = "idle" /\ Kind[r] = "refresh"
    /\ v # None /\ ~Dead(v)
    /\ presented' = [presented EXCEPT ![r] = t]
    /\ Reads(r, Token(t), v)
    /\ Goto(r, "session")
    /\ UNCHANGED <<row, born, suspended, work, todo, changed, next>>

(* Mutant: instead of assert_active, a refresh renews the session.          *)
RenewSession(r) ==
    LET k == SessionOf(r) IN
    /\ pc[r] = "session"
    /\ Reads(r, k, [row[k] EXCEPT !.revoked = FALSE])
    /\ Goto(r, "organization")
    /\ UNCHANGED <<row, born, suspended, presented, work, todo, changed, next>>

(* A session that is not active refuses the refresh.                        *)
ReadSession(r) ==
    LET k == SessionOf(r) IN
    /\ pc[r] = "session"
    /\ IF row[k].revoked
       THEN Rollback(r, "failed")
       ELSE /\ Reads(r, k, row[k])
            /\ Goto(r, "organization")
            /\ UNCHANGED <<row, born, suspended, presented, work, todo, changed, next>>

(* The organisation is suspended: revoke, and then raise.                  *)
RefuseSuspended(r) ==
    /\ pc[r] = "organization"
    /\ suspended /\ entity[r][Stored(r)].user \in Member
    /\ Reads(r, Stored(r), Revoked(entity[r][Stored(r)]))
    /\ Updates(r, {Stored(r)}, "reread")
    /\ UNCHANGED <<row, born, suspended, presented, work, changed>>

(* Mutant: the token is written back as it was read.                        *)
RotatedNot(v) == v

(* The rotation: the token is used and revoked, the session's activity is  *)
(* recorded, and a new token follows.                                      *)
Rotated(v) == [v EXCEPT !.used = TRUE, !.revoked = TRUE]

Rotate(r) ==
    /\ pc[r] = "organization"
    /\ ~(suspended /\ entity[r][Stored(r)].user \in Member)
    /\ Reads(r, Stored(r), Rotated(entity[r][Stored(r)]))
    /\ Updates(r, {Stored(r), SessionOf(r)}, "issue")
    /\ UNCHANGED <<row, born, suspended, presented, work, changed>>

PresentToLogout(r, t) ==
    LET v == row[Token(t)] IN
    /\ pc[r] = "idle" /\ Kind[r] = "logout"
    /\ v # None
    /\ presented' = [presented EXCEPT ![r] = t]
    /\ Reads(r, Token(t), Revoked(v))
    /\ Updates(r, IF v.revoked THEN {} ELSE {Token(t)}, "reread")
    /\ UNCHANGED <<row, born, suspended, work, changed>>

(* The session is read for its own sake and revoked if it is active.       *)
AfterRevoking(r) == IF Kind[r] = "refresh" THEN "raise" ELSE "commit"

Reread(r) ==
    LET k == SessionOf(r)
        v == row[k] IN
    /\ pc[r] = "reread"
    /\ Reads(r, k, Revoked(v))
    /\ Updates(r, IF v.revoked THEN {} ELSE {k}, AfterRevoking(r))
    /\ UNCHANGED <<row, born, suspended, presented, work, changed>>

(* The use case's exception becomes an AppException, and get_db, which     *)
(* sees it, rolls the revocation back.                                     *)
Raise(r) == pc[r] = "raise" /\ Rollback(r, "rejected")

-----------------------------------------------------------------------------
(* RevokeAllUserSessionsUseCase and RevokeOrganizationSessionsUseCase, as  *)
(* login, password change and suspension run them.                         *)

Affected(r) == IF Kind[r] = "suspend" THEN Member ELSE {UserOf[r]}

(* Mutant: the sessions are listed before the tokens.                       *)
LiveSwapped(r, table) == {k \in (Table \ {table}) \X Id :
    row[k] # None /\ ~Dead(row[k]) /\ row[k].user \in Affected(r)}
Live(r, table) == {k \in {table} \X Id :
    row[k] # None /\ ~Dead(row[k]) /\ row[k].user \in Affected(r)}

Lists(r, ks) == entity' = [entity EXCEPT ![r] =
    [k \in Key |-> IF k \in ks THEN Revoked(row[k]) ELSE @[k]]]

StartLogin(r) ==
    /\ pc[r] = "idle" /\ Kind[r] = "login"
    /\ Goto(r, IF suspended /\ UserOf[r] \in Member THEN "failed" ELSE "tokens")
    /\ UNCHANGED <<row, born, suspended, work, presented, entity, todo, changed, next>>

StartPassword(r) ==
    /\ pc[r] = "idle" /\ Kind[r] = "password"
    /\ \A q \in Request : ~HoldsUser(q, UserOf[r])
    /\ Goto(r, "tokens")
    /\ UNCHANGED <<row, born, suspended, work, presented, entity, todo, changed, next>>

StartSuspend(r) ==
    /\ pc[r] = "idle" /\ Kind[r] = "suspend"
    /\ Goto(r, IF suspended THEN "failed" ELSE "lock")
    /\ UNCHANGED <<row, born, suspended, work, presented, entity, todo, changed, next>>

LockOrganization(r) ==
    /\ pc[r] = "lock"
    /\ \A q \in Request : ~HoldsOrganization(q)
    /\ Goto(r, "tokens")
    /\ UNCHANGED <<row, born, suspended, work, presented, entity, todo, changed, next>>

(* Two queries, the tokens first.                                           *)
ListTokens(r) ==
    /\ pc[r] = "tokens"
    /\ Lists(r, Live(r, "token"))
    /\ todo' = [todo EXCEPT ![r] = Live(r, "token")]
    /\ Goto(r, "sessions")
    /\ UNCHANGED <<row, born, suspended, work, presented, changed, next>>

AfterRevokingAll(r) == IF Kind[r] = "login" THEN "open" ELSE "commit"

ListSessions(r) ==
    /\ pc[r] = "sessions"
    /\ Lists(r, Live(r, "session"))
    /\ Updates(r, todo[r] \cup Live(r, "session"), AfterRevokingAll(r))
    /\ UNCHANGED <<row, born, suspended, work, presented, changed>>

-----------------------------------------------------------------------------
(* repository.update                                                        *)

(* Mutant: only columns that differ are written.                            *)
StampedNever(r, k) == {}

(* The columns the use case has just set to "now"; writing them is never   *)
(* skipped, because two requests never read the same clock.                *)
Stamped(r, k) == IF next[r] = "issue"
                 THEN IF k[1] = "token" THEN {"used", "revoked"} ELSE {}
                 ELSE {"revoked"}

Differing(v, w) == {c \in Column : v[c] # w[c]}

(* Read the row again and compare.                                          *)
Prepare(r, k) ==
    /\ pc[r] = "update" /\ k \in Nearest(r)
    /\ changed' = [changed EXCEPT ![r] =
                      Stamped(r, k) \cup Differing(entity[r][k], Seen(r, k))]
    /\ Goto(r, "write")
    /\ UNCHANGED <<row, born, suspended, work, presented, entity, todo, next>>

(* What the UPDATE makes of the row it finds under the lock.               *)
Merged(v, w, cs) ==
    [w EXCEPT !.used    = IF "used" \in cs THEN v.used ELSE w.used,
              !.revoked = IF "revoked" \in cs THEN v.revoked ELSE w.revoked,
              !.reuse   = IF "reuse" \in cs THEN v.reuse ELSE w.reuse]

Write(r, k) ==
    /\ pc[r] = "write" /\ k \in Nearest(r)
    /\ ~LockedByOther(r, k)
    /\ work' = [work EXCEPT ![r][k] = Merged(entity[r][k], Seen(r, k), changed[r])]
    /\ changed' = [changed EXCEPT ![r] = {}]
    /\ Updates(r, todo[r] \ {k}, next[r])
    /\ UNCHANGED <<row, born, suspended, presented, entity>>

-----------------------------------------------------------------------------
(* Inserts, and the end of the transaction.                                 *)

Rank == 1 + Cardinality({i \in Id : born[i] # 0})

(* TokenPairIssuer.issue at the end of a refresh.                          *)
Issue(r) ==
    LET v == entity[r][Stored(r)] IN
    /\ pc[r] = "issue"
    /\ work' = [work EXCEPT ![r][Token(r)] = NewRow(v.session, presented[r], v.user)]
    /\ born' = [born EXCEPT ![r] = Rank]
    /\ Goto(r, "commit")
    /\ UNCHANGED <<row, suspended, presented, entity, todo, changed, next>>

(* The session of a login, and its token.                                   *)
OpenSession(r) ==
    LET v == NewRow(r, None, UserOf[r]) IN
    /\ pc[r] = "open"
    /\ work' = [work EXCEPT ![r][Session(r)] = v, ![r][Token(r)] = v]
    /\ born' = [born EXCEPT ![r] = Rank]
    /\ Goto(r, "commit")
    /\ UNCHANGED <<row, suspended, presented, entity, todo, changed, next>>

Commit(r) ==
    /\ pc[r] = "commit"
    /\ row' = [k \in Key |-> Seen(r, k)]
    /\ suspended' = (suspended \/ Kind[r] = "suspend")
    /\ End(r, "done")
    /\ UNCHANGED <<born, presented>>

(* A lost connection, an error, or the death of the process.               *)
Abort(r) == Open(r) /\ Rollback(r, "failed")

Init ==
    /\ row = [k \in Key |-> IF k[2] \in Old THEN NewRow(k[2], None, UserOf[k[2]])
                                           ELSE None]
    /\ born \in {b \in [Id -> 0..Cardinality(Old)] :
                    /\ \A i \in Id : b[i] # 0 <=> i \in Old
                    /\ \A i, j \in Old : b[i] = b[j] => i = j}
    /\ suspended = FALSE
    /\ pc        = [r \in Request |-> "idle"]
    /\ work      = [r \in Request |-> Blank]
    /\ presented = [r \in Request |-> None]
    /\ entity    = [r \in Request |-> Blank]
    /\ todo      = [r \in Request |-> {}]
    /\ changed   = [r \in Request |-> {}]
    /\ next      = [r \in Request |-> "idle"]

Start(r) ==
    \/ \E t \in Id : \/ PresentUnknown(r, t) \/ PresentDead(r, t)
                     \/ PresentLive(r, t)    \/ PresentToLogout(r, t)
    \/ StartLogin(r) \/ StartPassword(r) \/ StartSuspend(r)

Continue(r) ==
    \/ ReadSession(r) \/ RefuseSuspended(r) \/ Rotate(r)
    \/ Reread(r) \/ Raise(r)
    \/ LockOrganization(r) \/ ListTokens(r) \/ ListSessions(r)
    \/ \E k \in Key : Prepare(r, k) \/ Write(r, k)
    \/ Issue(r) \/ OpenSession(r) \/ Commit(r)

Next == \E r \in Request : Start(r) \/ Continue(r) \/ Abort(r)

Spec == Init /\ [][Next]_vars

(* A request thread that has started goes on until its transaction ends.   *)
FairSpec == Spec /\ \A r \in Request : WF_vars(Continue(r))

-----------------------------------------------------------------------------
(* Properties.                                                              *)

(* Every variable has its type.                                             *)
TypeOK ==
    /\ row  \in [Key -> Row \cup {None}]
    /\ born \in [Id -> Nat]
    /\ suspended \in BOOLEAN
    /\ pc \in [Request -> Waiting \cup Ended \cup
                 {"session", "organization", "lock", "tokens", "sessions", "update",
                  "write", "reread", "raise", "issue", "open", "commit"}]
    /\ work \in [Request -> [Key -> Row \cup {None}]]
    /\ presented \in [Request -> Id \cup {None}]
    /\ entity \in [Request -> [Key -> Row \cup {None}]]
    /\ todo \in [Request -> SUBSET Key]
    /\ changed \in [Request -> SUBSET Column]
    /\ next \in [Request -> {"idle", "reread", "raise", "issue", "open", "commit"}]

Exists(k)      == row[k] # None
LiveRow(k)     == Exists(k) /\ ~Dead(row[k])

(* A new refresh token follows a token that can no longer be used: the     *)
(* rotation commits both or neither.                                        *)
RotationSpends ==
    \A i \in Id : (Exists(Token(i)) /\ row[Token(i)].from # None)
        => Exists(Token(row[Token(i)].from)) /\ Dead(row[Token(row[Token(i)].from)])

(* A token that is used or revoked never becomes usable again, although    *)
(* every update writes back an entity that may be stale.                    *)
DeadTokenStaysDead ==
    [][\A i \in Id : (Exists(Token(i)) /\ Dead(row[Token(i)]))
        => (row'[Token(i)] # None /\ Dead(row'[Token(i)]))]_vars

(* A session that is alive can be renewed: revoking everything never takes *)
(* the last token of a session it leaves alive, because it lists the       *)
(* tokens before the sessions.                                              *)
LiveSessionHasToken ==
    \A s \in Id : LiveRow(Session(s))
        => \E i \in Id : LiveRow(Token(i)) /\ row[Token(i)].session = s

(* Whatever other transactions did in between, a login, password change or *)
(* suspension that commits leaves every row it had listed dead.             *)
RevokesWhatItListed ==
    [][\A r \in Request : (pc[r] = "commit" /\ pc'[r] = "done"
                           /\ Kind[r] \in {"login", "password", "suspend"})
        => \A k \in Key : entity[r][k] # None => Dead(row'[k])]_vars

(* A revoked session that no open refresh has read is dead for good, and a *)
(* refresh that starts now does not get past it.                            *)
InFlight(s) == \E r \in Request : Kind[r] = "refresh" /\ Open(r)
                                 /\ entity[r][Session(s)] # None
                                 /\ ~entity[r][Session(s)].revoked
Finished(s) == Exists(Session(s)) /\ row[Session(s)].revoked /\ ~InFlight(s)
FinishedForGood == [][\A s \in Id : Finished(s) => Finished(s)']_vars

(* No set of requests waits for one another's row locks.                    *)
WaitsFor(r, q) == /\ q # r /\ pc[r] = "write"
                  /\ \E k \in Nearest(r) : work[q][k] # None
NoDeadlock == \A R \in SUBSET Request :
    R # {} => \E r \in R : \A q \in R : ~WaitsFor(r, q)

(* Every request that has started ends.                                     *)
EveryRequestEnds == \A r \in Request : Open(r) ~> ~Open(r)

(* What the tests and messages of the repository say, and the code does    *)
(* not keep under concurrency.                                              *)

(* tests/.../test_application_use_cases.py: a logout revokes the session.   *)
LoggedOutStaysOut ==
    \A r \in Request : (Kind[r] = "logout" /\ pc[r] = "done" /\ Exists(Stored(r)))
        => row[Session(row[Stored(r)].session)].revoked

=============================================================================
