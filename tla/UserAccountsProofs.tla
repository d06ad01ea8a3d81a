-------------------------- MODULE UserAccountsProofs --------------------------
(***************************************************************************)
(* Safety of UserAccounts for every set of requests, users and roles.      *)
(*                                                                         *)
(* That an active super admin remains depends on what the open             *)
(* transactions are about to write: AdminInv says that two of them never   *)
(* write one user, that one at most removes a super admin, and that it     *)
(* still leaves another.  That a token is consumed by exactly one act      *)
(* depends on what they hold: TokenInv says that they hold open tokens,    *)
(* each of them alone.                                                     *)
(***************************************************************************)
EXTENDS UserAccounts, TLAPS, WellFoundedInduction

TypeInv ==
    /\ DOMAIN user = User
    /\ DOMAIN call = Request /\ DOMAIN patch = Request
    /\ pc \in [Request -> {"idle", "consumed", "read", "ready", "flushed", "done"}]
    /\ token \in [Request -> TokenRow \cup {None}]
    /\ held \in [Request -> SUBSET Request]
    /\ acts \in [Request -> Nat]

(* A request that is under way, and not about a role, is about a user.      *)
Addressed ==
    \A r \in Request : (pc[r] # "idle" /\ call[r].op # "retire") => call[r].user \in User

(* r has the row lock of its user.                                          *)
Writing(r) == pc[r] = "flushed" /\ Writes(r)

RowIsHeld == \A q, r \in Request :
    (Writing(q) /\ Writing(r) /\ q # r) => call[q].user # call[r].user
OneRemoval == \A q, r \in Request :
    (Writing(q) /\ Removes(q) /\ Writing(r) /\ Removes(r)) => q = r
RemoverLeavesOne == \A r \in Request :
    (Writing(r) /\ Removes(r)) => OtherSuper(call[r].user)

AdminInv == RowIsHeld /\ OneRemoval /\ RemoverLeavesOne /\ SuperAdminRemains

(* A token comes with the commit of its request, and nobody acts before.    *)
Issued == \A t \in Request : /\ token[t] # None => pc[t] = "done"
                             /\ token[t] = None => acts[t] = 0
HeldIsOpen == \A q \in Request : \A t \in held[q] :
    token[t] # None /\ token[t].state = "open" /\ Open(q)
HeldOnce == \A p, q \in Request : \A t \in held[p] : t \in held[q] => p = q

TokenInv == Issued /\ HeldIsOpen /\ HeldOnce /\ ConsumptionIsTheAct

IInv == TypeInv /\ Addressed /\ AdminInv /\ TokenInv

-----------------------------------------------------------------------------
(* Types                                                                    *)

(* The initial states are typed and satisfy the invariant.                  *)
LEMMA InitIInv == Init => IInv
  <1> SUFFICES ASSUME Init PROVE IInv
    OBVIOUS
  <1>1. TypeInv
    BY DEF Init, TypeInv
  <1>2. Addressed
    BY DEF Init, Addressed
  <1>3. AdminInv
    <2>1. PICK u \in Founder : TRUE
      BY AccountsAssumption
    <2>2. u \in User
      BY AccountsAssumption
    <2>3. user[u] = [status |-> "active", password |-> u, super |-> TRUE,
                     org |-> None, deleted |-> None]
      BY <2>1, <2>2 DEF Init
    <2>4. user[u] \in UserRow
      BY <2>2, <2>3 DEF UserRow
    <2>5. user[u] # None
      BY <2>4, AccountsAssumption
    <2>6. ActiveSuper(user[u])
      BY <2>3, <2>5 DEF ActiveSuper, Alive
    <2>7. \A r \in Request : ~Writing(r)
      BY DEF Init, Writing
    <2> QED
      BY <2>2, <2>6, <2>7 DEF AdminInv, RowIsHeld, OneRemoval, RemoverLeavesOne,
                              SuperAdminRemains
  <1>4. TokenInv
    BY DEF Init, TokenInv, Issued, HeldIsOpen, HeldOnce, ConsumptionIsTheAct
  <1> QED
    BY <1>1, <1>2, <1>3, <1>4 DEF IInv

(* What Begins does to the variables of the proof.                          *)
LEMMA BeginsTyped ==
  ASSUME TypeInv, Addressed, NEW r \in Request, NEW op, NEW u, NEW l,
         l \in {"consumed", "read", "ready"}, Begins(r, op, u, l),
         op # "retire" => u \in User,
         held' \in [Request -> SUBSET Request], DOMAIN patch' = Request
  PROVE  TypeInv' /\ Addressed'
  <1>1. TypeInv'
    BY DEF TypeInv, Begins, rows
  <1>2. ASSUME NEW q \in Request PROVE
          (pc'[q] # "idle" /\ call'[q].op # "retire") => call'[q].user \in User
    <2>1. CASE q = r
      <3>1. call'[q] = [op |-> op, user |-> u]
        BY <2>1 DEF TypeInv, Begins
      <3> QED BY <3>1
    <2>2. CASE q # r
      <3>1. call'[q] = call[q] /\ pc'[q] = pc[q]
        BY <2>2 DEF TypeInv, Begins
      <3> QED BY <3>1 DEF Addressed
    <2> QED BY <2>1, <2>2
  <1> QED BY <1>1, <1>2 DEF Addressed

(* A request that ends, with or without a commit.                           *)
LEMMA EndsTyped ==
  ASSUME TypeInv, Addressed, NEW r \in Request, pc[r] # "idle", Ends(r),
         DOMAIN user' = User, token' \in [Request -> TokenRow \cup {None}],
         acts' \in [Request -> Nat]
  PROVE  TypeInv' /\ Addressed'
  BY DEF TypeInv, Addressed, Ends

(* Every step keeps to the types.                                           *)
LEMMA TypeKeeps ==
  ASSUME TypeInv, Addressed, HeldIsOpen, [Next]_vars
  PROVE  TypeInv' /\ Addressed'
  <1>1. CASE UNCHANGED vars
    BY <1>1 DEF TypeInv, Addressed, vars, rows, request
  <1>2. ASSUME NEW r \in Request, Read(r) PROVE TypeInv' /\ Addressed'
    <2>1. ASSUME NEW u \in User, PublicSignup(r, u) PROVE TypeInv' /\ Addressed'
      <3>1. held' = held /\ DOMAIN patch' = Request
        BY <2>1 DEF PublicSignup, Holds, TypeInv
      <3> QED BY <2>1, <3>1, BeginsTyped DEF PublicSignup, TypeInv
    <2>2. ASSUME NEW u \in User, ForgotPassword(r, u) PROVE TypeInv' /\ Addressed'
      BY <2>2, BeginsTyped DEF ForgotPassword, TypeInv
    <2>3. ASSUME NEW u \in User, ChangePassword(r, u) PROVE TypeInv' /\ Addressed'
      BY <2>3, BeginsTyped DEF ChangePassword, TypeInv
    <2>4. ASSUME NEW u \in User, NEW o \in Org, UpdateUser(r, u, o)
          PROVE TypeInv' /\ Addressed'
      <3>1. Begins(r, "update", u, "ready")
        BY <2>4 DEF UpdateUser
      <3>2. \E p, a : Holds(r, p, a)
        BY <2>4 DEF UpdateUser
      <3>3. held' = held /\ DOMAIN patch' = Request
        BY <3>2 DEF Holds, TypeInv
      <3> QED BY <3>1, <3>3, BeginsTyped DEF TypeInv
    <2>5. ASSUME NEW u \in User, NEW o \in Org, DeleteUser(r, u, o)
          PROVE TypeInv' /\ Addressed'
      <3>1. held' = held /\ DOMAIN patch' = Request
        BY <2>5 DEF DeleteUser, Holds, TypeInv
      <3> QED BY <2>5, <3>1, BeginsTyped DEF DeleteUser, TypeInv
    <2>6. ASSUME NEW u \in User, NEW o \in Org, RestoreDeletedUser(r, u, o)
          PROVE TypeInv' /\ Addressed'
      <3>1. held' = held /\ DOMAIN patch' = Request
        BY <2>6 DEF RestoreDeletedUser, Holds, TypeInv
      <3> QED BY <2>6, <3>1, BeginsTyped DEF RestoreDeletedUser, TypeInv
    <2>7. ASSUME NEW u \in User, NEW o \in Org, CreateUser(r, u, o)
          PROVE TypeInv' /\ Addressed'
      <3>1. \E p, a : Holds(r, p, a)
        BY <2>7 DEF CreateUser
      <3>2. held' = held /\ DOMAIN patch' = Request
        BY <3>1 DEF Holds, TypeInv
      <3> QED BY <2>7, <3>2, BeginsTyped DEF CreateUser, TypeInv
    <2>8. ASSUME NEW p \in Roles, DeleteOrganizationRole(r, p)
          PROVE TypeInv' /\ Addressed'
      BY <2>8, BeginsTyped DEF DeleteOrganizationRole, TypeInv
    <2> QED
      BY <1>2, <2>1, <2>2, <2>3, <2>4, <2>5, <2>6, <2>7, <2>8 DEF Read
  <1>3. ASSUME NEW r \in Request, NEW t \in Request, Consume(r, t)
        PROVE TypeInv' /\ Addressed'
    <2>1. token[t].user \in User
      BY <1>3 DEF Consume, TypeInv, TokenRow
    <2> QED BY <1>3, <2>1, BeginsTyped DEF Consume, TypeInv
  <1>4. ASSUME NEW r \in Request, ReadRedeemer(r) PROVE TypeInv' /\ Addressed'
    BY <1>4 DEF ReadRedeemer, TypeInv, Addressed, rows
  <1>5. ASSUME NEW r \in Request, RejectRedeemer(r) PROVE TypeInv' /\ Addressed'
    BY <1>5, EndsTyped DEF RejectRedeemer, Fails, TypeInv, rows
  <1>6. ASSUME NEW r \in Request, Reload(r) PROVE TypeInv' /\ Addressed'
    BY <1>6 DEF Reload, TypeInv, Addressed, rows
  <1>7. ASSUME NEW r \in Request, FlushUser(r) PROVE TypeInv' /\ Addressed'
    <2>1. CASE Accepted(r)
      BY <1>7, <2>1 DEF FlushUser, TypeInv, Addressed, rows
    <2>2. CASE ~Accepted(r)
      BY <1>7, <2>2, EndsTyped DEF FlushUser, Fails, TypeInv, rows
    <2> QED BY <2>1, <2>2
  <1>8. ASSUME NEW r \in Request, FlushForgot(r) PROVE TypeInv' /\ Addressed'
    BY <1>8 DEF FlushForgot, TypeInv, Addressed, rows, Outstanding
  <1>9. ASSUME NEW r \in Request, CommitUser(r) PROVE TypeInv' /\ Addressed'
    <2>1. Ends(r) /\ pc[r] # "idle"
      BY <1>9 DEF CommitUser
    <2>2. DOMAIN user' = User /\ acts' \in [Request -> Nat]
      BY <1>9 DEF CommitUser, TypeInv
    <2>3. call[r].op = "signup" => call[r].user \in User
      BY <2>1 DEF Addressed
    <2>4. token' \in [Request -> TokenRow \cup {None}]
      <3>1. ASSUME NEW t \in Request, t \in held[r]
            PROVE  [token[t] EXCEPT !.state = "consumed"] \in TokenRow
        BY <3>1 DEF TypeInv, TokenRow, HeldIsOpen
      <3>2. call[r].op = "signup" =>
              [user |-> call[r].user, purpose |-> "activate", state |-> "open"] \in TokenRow
        BY <2>3 DEF TokenRow
      <3>3. ASSUME NEW t \in Request PROVE token'[t] \in TokenRow \cup {None}
        BY <1>9, <3>1, <3>2 DEF CommitUser, TypeInv
      <3> QED BY <1>9, <3>3 DEF CommitUser
    <2> QED BY <2>1, <2>2, <2>4, EndsTyped
  <1>10. ASSUME NEW r \in Request, CommitForgot(r) PROVE TypeInv' /\ Addressed'
    <2>1. Ends(r) /\ pc[r] # "idle"
      BY <1>10 DEF CommitForgot
    <2>2. call[r].user \in User
      BY <1>10 DEF CommitForgot, Addressed
    <2>3. token' \in [Request -> TokenRow \cup {None}]
      <3>1. PICK queued \in BOOLEAN :
              LET gone == held[r] \cup (IF queued THEN {} ELSE Outstanding(call[r].user)) IN
              token' = [t \in Request |->
                IF t = r THEN [user |-> call[r].user, purpose |-> "reset",
                               state |-> IF queued THEN "open" ELSE "invalidated"]
                ELSE IF t \in gone THEN [token[t] EXCEPT !.state = "invalidated"]
                ELSE token[t]]
        BY <1>10 DEF CommitForgot
      <3> DEFINE gone == held[r] \cup (IF queued THEN {} ELSE Outstanding(call[r].user))
      <3>2. ASSUME NEW t \in Request, t \in gone
            PROVE  [token[t] EXCEPT !.state = "invalidated"] \in TokenRow
        <4>1. token[t] # None
          BY <3>2 DEF HeldIsOpen, Outstanding
        <4> QED BY <4>1 DEF TypeInv, TokenRow
      <3>3. [user |-> call[r].user, purpose |-> "reset",
             state |-> IF queued THEN "open" ELSE "invalidated"] \in TokenRow
        BY <2>2 DEF TokenRow
      <3>4. ASSUME NEW t \in Request PROVE token'[t] \in TokenRow \cup {None}
        BY <3>1, <3>2, <3>3 DEF TypeInv
      <3> QED BY <3>1, <3>4
    <2> QED BY <1>10, <2>1, <2>3, EndsTyped DEF CommitForgot, TypeInv
  <1>11. ASSUME NEW r \in Request, CommitRetire(r) PROVE TypeInv' /\ Addressed'
    BY <1>11, EndsTyped DEF CommitRetire, TypeInv
  <1>12. ASSUME NEW t \in Request, Expire(t) PROVE TypeInv' /\ Addressed'
    BY <1>12 DEF Expire, TypeInv, Addressed, TokenRow, request
  <1> QED
    BY <1>1, <1>2, <1>3, <1>4, <1>5, <1>6, <1>7, <1>8, <1>9, <1>10, <1>11, <1>12 DEF Next

-----------------------------------------------------------------------------
(* A super admin remains                                                    *)

(* Steps that leave the users, and what the writing requests will do to     *)
(* them, as they are.                                                       *)
LEMMA AdminQuiet ==
  ASSUME AdminInv, user' = user,
         \A q \in Request : Writing(q)' =>
            Writing(q) /\ call'[q] = call[q] /\ patch'[q] = patch[q]
  PROVE  AdminInv'
  <1>1. ASSUME NEW q \in Request, Writing(q)'
        PROVE  /\ Writing(q) /\ call'[q] = call[q]
               /\ Removes(q)' => Removes(q)
    BY <1>1 DEF Removes, NewUser, Creates, Patched
  <1>2. \A u : OtherSuper(u) => OtherSuper(u)'
    BY DEF OtherSuper
  <1>3. RowIsHeld' /\ OneRemoval' /\ RemoverLeavesOne'
    BY <1>1, <1>2 DEF AdminInv, RowIsHeld, OneRemoval, RemoverLeavesOne
  <1> QED BY <1>3 DEF AdminInv, SuperAdminRemains

(* A request that begins writes nothing yet.                                *)
LEMMA AdminBegins ==
  ASSUME TypeInv, AdminInv, NEW r \in Request, NEW op, NEW u, NEW l,
         l \in {"consumed", "read", "ready"}, Begins(r, op, u, l),
         \A q \in Request : q # r => patch'[q] = patch[q]
  PROVE  AdminInv'
  <1>1. user' = user
    BY DEF Begins, rows
  <1>2. ASSUME NEW q \in Request, Writing(q)'
        PROVE  Writing(q) /\ call'[q] = call[q] /\ patch'[q] = patch[q]
    <2>1. pc'[q] = "flushed"
      BY <1>2 DEF Writing
    <2>2. q # r
      BY <2>1 DEF Begins, TypeInv
    <2>3. pc'[q] = pc[q] /\ call'[q] = call[q]
      BY <2>2 DEF Begins, TypeInv
    <2> QED BY <1>2, <2>1, <2>2, <2>3 DEF Writing, Writes, Creates
  <1> QED BY <1>1, <1>2, AdminQuiet

(* A request that ends, but for what its commit does to the users.          *)
LEMMA AdminEnds ==
  ASSUME TypeInv, AdminInv, NEW r \in Request, Ends(r), user' = user
  PROVE  AdminInv'
  <1>1. ASSUME NEW q \in Request, Writing(q)'
        PROVE  Writing(q) /\ call'[q] = call[q] /\ patch'[q] = patch[q]
    <2>1. pc'[q] = "flushed" /\ call' = call
      BY <1>1 DEF Writing, Ends
    <2>2. q # r
      BY <2>1 DEF Ends, TypeInv
    <2>3. pc'[q] = pc[q] /\ patch'[q] = patch[q]
      BY <2>2 DEF Ends, TypeInv
    <2> QED BY <1>1, <2>1, <2>3 DEF Writing, Writes, Creates
  <1> QED BY <1>1, AdminQuiet

(* The trigger lets a removal through that leaves another super admin, and *)
(* only when no other removal is open.                                      *)
LEMMA AdminFlush ==
  ASSUME TypeInv, AdminInv, NEW r \in Request, FlushUser(r)
  PROVE  AdminInv'
  <1>1. CASE ~Accepted(r)
    BY <1>1, AdminEnds DEF FlushUser, Fails, rows
  <1>2. CASE Accepted(r)
    <2>1. user' = user /\ call' = call /\ patch' = patch
      BY <1>2 DEF FlushUser, rows
    <2>2. \A q \in Request : Writing(q)' => q = r \/ Writing(q)
      BY <1>2, <2>1 DEF FlushUser, TypeInv, Writing, Writes, Creates
    <2>3. \A q \in Request : Removes(q)' <=> Removes(q)
      BY <2>1 DEF Removes, NewUser, Creates, Patched
    <2>4. \A u : OtherSuper(u)' <=> OtherSuper(u)
      BY <2>1 DEF OtherSuper
    <2>5. Removes(r) => ~Creates(r)
      BY <1>2 DEF Accepted, Removes, ActiveSuper, Alive
    <2>6. RowIsHeld'
      <3>1. \A q \in Request \ {r} : Writing(q) => call[q].user # call[r].user
        BY DEF FlushUser, LocksUser, Writing
      <3> QED BY <2>1, <2>2, <3>1 DEF AdminInv, RowIsHeld
    <2>7. OneRemoval'
      <3>1. Removes(r) => \A q \in Request \ {r} : ~(Writing(q) /\ Removes(q))
        BY <2>5 DEF FlushUser, SuperLock, Writing
      <3> QED BY <2>2, <2>3, <3>1 DEF AdminInv, OneRemoval
    <2>8. RemoverLeavesOne'
      <3>1. Removes(r) => OtherSuper(call[r].user)
        BY <1>2, <2>5 DEF Accepted
      <3> QED BY <2>1, <2>2, <2>3, <2>4, <3>1 DEF AdminInv, RemoverLeavesOne
    <2> QED BY <2>1, <2>6, <2>7, <2>8 DEF AdminInv, SuperAdminRemains
  <1> QED BY <1>1, <1>2

(* The commit of one writing request leaves what the others wait to do.     *)
LEMMA AdminCommit ==
  ASSUME TypeInv, Addressed, AdminInv, NEW r \in Request, CommitUser(r)
  PROVE  AdminInv'
  <1> DEFINE u == call[r].user
  <1>1. Writing(r) /\ Ends(r) /\ call' = call
    BY DEF CommitUser, Writing, Ends
  <1>2. u \in User
    BY <1>1 DEF Addressed, Writing, Writes, Creates
  <1>3. /\ user'[u] = NewUser(r)
        /\ \A v \in User : v # u => user'[v] = user[v]
    BY <1>2 DEF CommitUser, TypeInv
  <1>4. ASSUME NEW q \in Request, Writing(q)'
        PROVE  /\ q # r /\ Writing(q) /\ patch'[q] = patch[q]
               /\ call[q].user \in User /\ call[q].user # u
    <2>1. pc'[q] = "flushed"
      BY <1>4 DEF Writing
    <2>2. q # r
      BY <2>1, <1>1 DEF Ends, TypeInv
    <2>3. pc'[q] = pc[q] /\ patch'[q] = patch[q]
      BY <1>1, <2>2 DEF Ends, TypeInv
    <2>4. Writing(q)
      BY <1>1, <1>4, <2>1, <2>3 DEF Writing, Writes, Creates
    <2>5. call[q].user \in User
      BY <2>4 DEF Addressed, Writing, Writes, Creates
    <2> QED BY <1>1, <2>2, <2>3, <2>4, <2>5 DEF AdminInv, RowIsHeld
  <1>5. ASSUME NEW q \in Request, Writing(q)' PROVE Removes(q)' => Removes(q)
    <2>1. user'[call[q].user] = user[call[q].user] /\ patch'[q] = patch[q]
      BY <1>3, <1>4, <1>5
    <2>2. NewUser(q)' = NewUser(q)
      BY <1>1, <2>1 DEF NewUser, Creates, Patched
    <2> QED BY <1>1, <2>1, <2>2 DEF Removes, ActiveSuper, Alive
  <1>6. RowIsHeld' /\ OneRemoval'
    BY <1>1, <1>4, <1>5 DEF AdminInv, RowIsHeld, OneRemoval
  <1>7. ASSUME NEW v \in User, ActiveSuper(user[v]), ~(v = u /\ Removes(r))
        PROVE  ActiveSuper(user'[v])
    <2>1. CASE v = u
      BY <1>3, <1>7, <2>1 DEF Removes
    <2>2. CASE v # u
      BY <1>3, <1>7, <2>2
    <2> QED BY <2>1, <2>2
  <1>8. RemoverLeavesOne'
    <2>1. ASSUME NEW q \in Request, Writing(q)', Removes(q)'
          PROVE  OtherSuper(call[q].user)'
      <3>1. q # r /\ Writing(q) /\ Removes(q)
        BY <1>4, <1>5, <2>1
      <3>2. ~Removes(r)
        BY <1>1, <3>1 DEF AdminInv, OneRemoval
      <3>3. PICK v \in User \ {call[q].user} : ActiveSuper(user[v])
        BY <3>1 DEF AdminInv, RemoverLeavesOne, OtherSuper
      <3>4. ActiveSuper(user'[v])
        BY <1>7, <3>2, <3>3
      <3> QED BY <1>1, <3>3, <3>4 DEF OtherSuper, ActiveSuper, Alive
    <2> QED BY <2>1 DEF RemoverLeavesOne
  <1>9. SuperAdminRemains'
    <2>1. CASE Removes(r)
      <3>1. PICK v \in User \ {u} : ActiveSuper(user[v])
        BY <1>1, <2>1 DEF AdminInv, RemoverLeavesOne, OtherSuper
      <3>2. ActiveSuper(user'[v])
        BY <1>7, <3>1
      <3> QED BY <3>1, <3>2 DEF SuperAdminRemains, ActiveSuper, Alive
    <2>2. CASE ~Removes(r)
      <3>1. PICK v \in User : ActiveSuper(user[v])
        BY DEF AdminInv, SuperAdminRemains
      <3>2. ActiveSuper(user'[v])
        BY <1>7, <2>2, <3>1
      <3> QED BY <3>1, <3>2 DEF SuperAdminRemains, ActiveSuper, Alive
    <2> QED BY <2>1, <2>2
  <1> QED BY <1>6, <1>8, <1>9 DEF AdminInv

-----------------------------------------------------------------------------
(* A token is consumed by its act                                           *)

(* Steps that take no token and change none.                                *)
LEMMA TokenQuiet ==
  ASSUME TokenInv, token' = token, acts' = acts,
         \A q \in Request : /\ pc[q] = "done" => pc'[q] = "done"
                            /\ held'[q] \subseteq held[q]
                            /\ held'[q] # {} => Open(q)'
  PROVE  TokenInv'
  BY DEF TokenInv, Issued, HeldIsOpen, HeldOnce, ConsumptionIsTheAct

(* Steps that take the locks of open tokens nobody holds.                   *)
LEMMA TokenTakes ==
  ASSUME TypeInv, TokenInv, NEW r \in Request, NEW ts \in SUBSET Request,
         token' = token, acts' = acts, held' = [held EXCEPT ![r] = ts],
         \A t \in ts : /\ token[t] # None /\ token[t].state = "open"
                       /\ t \notin HeldElsewhere(r),
         \A q \in Request : /\ pc[q] = "done" => pc'[q] = "done"
                            /\ Open(q) => Open(q)',
         Open(r)'
  PROVE  TokenInv'
  <1>1. held'[r] = ts /\ \A q \in Request \ {r} : held'[q] = held[q]
    BY DEF TypeInv
  <1>2. Issued' /\ ConsumptionIsTheAct'
    BY DEF TokenInv, Issued, ConsumptionIsTheAct
  <1>3. HeldIsOpen'
    BY <1>1 DEF TokenInv, HeldIsOpen
  <1>4. HeldOnce'
    BY <1>1 DEF TokenInv, HeldOnce, HeldElsewhere
  <1> QED BY <1>2, <1>3, <1>4 DEF TokenInv

(* A request that begins without a token.                                   *)
LEMMA TokenBegins ==
  ASSUME TypeInv, TokenInv, NEW r \in Request, NEW op, NEW u, NEW l,
         l \in {"consumed", "read", "ready"}, Begins(r, op, u, l), held' = held
  PROVE  TokenInv'
  <1>1. token' = token /\ acts' = acts
    BY DEF Begins, rows
  <1>2. pc[r] = "idle" /\ pc'[r] = l /\ \A q \in Request \ {r} : pc'[q] = pc[q]
    BY DEF Begins, TypeInv
  <1>3. \A q \in Request : Open(q) => Open(q)'
    BY <1>2 DEF Open
  <1>4. \A q \in Request : held[q] # {} => Open(q)
    BY DEF TokenInv, HeldIsOpen, TypeInv
  <1> QED BY <1>1, <1>2, <1>3, <1>4, TokenQuiet

(* A request that ends and changes no token.                                *)
LEMMA TokenEnds ==
  ASSUME TypeInv, TokenInv, NEW r \in Request, Ends(r), token' = token, acts' = acts
  PROVE  TokenInv'
  <1>1. /\ pc'[r] = "done" /\ held'[r] = {}
        /\ \A q \in Request \ {r} : pc'[q] = pc[q] /\ held'[q] = held[q]
    BY DEF Ends, TypeInv
  <1>2. \A q \in Request : held[q] # {} => Open(q)
    BY DEF TokenInv, HeldIsOpen, TypeInv
  <1>3. \A q \in Request : held'[q] # {} => Open(q)'
    BY <1>1, <1>2 DEF Open
  <1> QED BY <1>1, <1>3, TokenQuiet

(* A commit that consumes what it holds, and may issue one token.           *)
LEMMA TokenCommit ==
  ASSUME TypeInv, TokenInv, NEW r \in Request, CommitUser(r)
  PROVE  TokenInv'
  <1>1. /\ pc[r] = "flushed" /\ pc'[r] = "done" /\ held'[r] = {}
        /\ \A q \in Request \ {r} : pc'[q] = pc[q] /\ held'[q] = held[q]
    BY DEF CommitUser, Ends, TypeInv
  <1>2. token[r] = None /\ acts[r] = 0
    BY <1>1 DEF TokenInv, Issued
  <1>3. \A q \in Request : r \notin held[q]
    BY <1>2 DEF TokenInv, HeldIsOpen
  <1>4. ASSUME NEW t \in held[r]
        PROVE  /\ t \in Request /\ t # r /\ token[t] \in TokenRow
               /\ token'[t] = [token[t] EXCEPT !.state = "consumed"]
               /\ acts[t] = 0 /\ acts'[t] = 1
    <2>1. t \in Request /\ token[t] # None /\ token[t].state = "open"
      BY DEF TokenInv, HeldIsOpen, TypeInv
    <2>2. acts[t] = 0
      BY <2>1 DEF TokenInv, ConsumptionIsTheAct
    <2>3. token'[t] = [token[t] EXCEPT !.state = "consumed"] /\ acts'[t] = acts[t] + 1
      BY <2>1 DEF CommitUser, TypeInv
    <2> QED BY <1>3, <2>1, <2>2, <2>3 DEF TypeInv
  <1>5. ASSUME NEW t \in held[r]
        PROVE  token'[t] # None /\ token'[t].state = "consumed" /\ acts'[t] = 1
    <2>1. token'[t] \in TokenRow /\ token'[t].state = "consumed"
      BY <1>4 DEF TokenRow
    <2> QED BY <1>4, <2>1, AccountsAssumption
  <1>6. ASSUME NEW t \in Request \ held[r], t # r
        PROVE  token'[t] = token[t] /\ acts'[t] = acts[t]
    BY <1>6 DEF CommitUser, TypeInv
  <1>7. /\ token'[r] = None \/ token'[r].state = "open"
        /\ acts'[r] = 0
    BY <1>2, <1>3 DEF CommitUser, TypeInv
  <1>8. Issued'
    <2>1. ASSUME NEW t \in Request
          PROVE  (token'[t] # None => pc'[t] = "done") /\ (token'[t] = None => acts'[t] = 0)
      <3>1. CASE t = r
        BY <1>1, <1>7, <3>1
      <3>2. CASE t \in held[r]
        <4>1. token[t] # None
          BY <3>2 DEF TokenInv, HeldIsOpen
        <4> QED BY <1>1, <1>4, <1>5, <3>2, <4>1 DEF TokenInv, Issued
      <3>3. CASE t # r /\ t \notin held[r]
        BY <1>1, <1>6, <3>3 DEF TokenInv, Issued
      <3> QED BY <3>1, <3>2, <3>3
    <2> QED BY <2>1 DEF Issued
  <1>9. ConsumptionIsTheAct'
    <2>1. ASSUME NEW t \in Request, token'[t] # None
          PROVE  acts'[t] = IF token'[t].state = "consumed" THEN 1 ELSE 0
      BY <1>5, <1>6, <1>7, <2>1 DEF TokenInv, ConsumptionIsTheAct
    <2> QED BY <2>1 DEF ConsumptionIsTheAct
  <1>10. HeldIsOpen'
    <2>1. ASSUME NEW q \in Request, NEW t \in held'[q]
          PROVE  token'[t] # None /\ token'[t].state = "open" /\ Open(q)'
      <3>1. q # r /\ t \in held[q] /\ t \in Request
        BY <1>1, <2>1 DEF TypeInv
      <3>2. t \notin held[r] /\ t # r
        BY <1>3, <3>1 DEF TokenInv, HeldOnce
      <3> QED BY <1>1, <1>6, <3>1, <3>2 DEF TokenInv, HeldIsOpen, Open
    <2> QED BY <2>1 DEF HeldIsOpen
  <1>11. HeldOnce'
    BY <1>1 DEF TokenInv, HeldOnce
  <1> QED BY <1>8, <1>9, <1>10, <1>11 DEF TokenInv

(* A commit that invalidates what it holds, or all that is open.            *)
LEMMA TokenForgot ==
  ASSUME TypeInv, TokenInv, NEW r \in Request, CommitForgot(r)
  PROVE  TokenInv'
  <1>1. /\ pc[r] = "flushed" /\ pc'[r] = "done" /\ held'[r] = {} /\ acts' = acts
        /\ \A q \in Request \ {r} : pc'[q] = pc[q] /\ held'[q] = held[q]
    BY DEF CommitForgot, Ends, TypeInv
  <1>2. PICK gone :
          /\ \A t \in gone : t \in held[r] \/ t \in Outstanding(call[r].user)
          /\ gone \cap HeldElsewhere(r) = {}
          /\ \E s \in {"open", "invalidated"} :
               token' = [t \in Request |->
                 IF t = r THEN [user |-> call[r].user, purpose |-> "reset", state |-> s]
                 ELSE IF t \in gone THEN [token[t] EXCEPT !.state = "invalidated"]
                 ELSE token[t]]
    <2>1. PICK queued \in BOOLEAN :
            LET out == held[r] \cup (IF queued THEN {} ELSE Outstanding(call[r].user)) IN
            /\ out \cap HeldElsewhere(r) = {}
            /\ token' = [t \in Request |->
                 IF t = r THEN [user |-> call[r].user, purpose |-> "reset",
                                state |-> IF queued THEN "open" ELSE "invalidated"]
                 ELSE IF t \in out THEN [token[t] EXCEPT !.state = "invalidated"]
                 ELSE token[t]]
      BY DEF CommitForgot
    <2> DEFINE out == held[r] \cup (IF queued THEN {} ELSE Outstanding(call[r].user))
    <2>2. \A t \in out : t \in held[r] \/ t \in Outstanding(call[r].user)
      OBVIOUS
    <2>3. (IF queued THEN "open" ELSE "invalidated") \in {"open", "invalidated"}
      OBVIOUS
    <2> QED BY <2>1, <2>2, <2>3
  <1>3. token[r] = None /\ acts[r] = 0 /\ \A q \in Request : r \notin held[q]
    BY <1>1 DEF TokenInv, Issued, HeldIsOpen
  <1>4. ASSUME NEW t \in gone, t \in Request
        PROVE  token[t] # None /\ token[t].state = "open" /\ acts[t] = 0
    <2>1. token[t] # None /\ token[t].state = "open"
      BY <1>2, <1>4 DEF TokenInv, HeldIsOpen, Outstanding
    <2> QED BY <1>4, <2>1 DEF TokenInv, ConsumptionIsTheAct
  <1>5. ASSUME NEW t \in Request, t \in gone, t # r
        PROVE  token'[t] # None /\ token'[t].state = "invalidated"
    <2>1. token'[t] = [token[t] EXCEPT !.state = "invalidated"]
      BY <1>2, <1>5
    <2>2. token'[t] \in TokenRow /\ token'[t].state = "invalidated"
      BY <1>4, <1>5, <2>1 DEF TypeInv, TokenRow
    <2> QED BY <2>2, AccountsAssumption
  <1>6. ASSUME NEW t \in Request, t \notin gone, t # r PROVE token'[t] = token[t]
    BY <1>2, <1>6
  <1>7. token'[r].state \in {"open", "invalidated"}
    BY <1>2
  <1>8. Issued'
    BY <1>1, <1>3, <1>4, <1>5, <1>6 DEF TokenInv, Issued
  <1>9. ConsumptionIsTheAct'
    <2>1. ASSUME NEW t \in Request, token'[t] # None
          PROVE  acts'[t] = IF token'[t].state = "consumed" THEN 1 ELSE 0
      BY <1>1, <1>3, <1>4, <1>5, <1>6, <1>7, <2>1 DEF TokenInv, ConsumptionIsTheAct
    <2> QED BY <2>1 DEF ConsumptionIsTheAct
  <1>10. HeldIsOpen'
    <2>1. ASSUME NEW q \in Request, NEW t \in held'[q]
          PROVE  token'[t] # None /\ token'[t].state = "open" /\ Open(q)'
      <3>1. q # r /\ t \in held[q] /\ t \in Request
        BY <1>1, <2>1 DEF TypeInv
      <3>2. t \notin gone /\ t # r
        BY <1>2, <1>3, <3>1 DEF HeldElsewhere
      <3> QED BY <1>1, <1>6, <3>1, <3>2 DEF TokenInv, HeldIsOpen, Open
    <2> QED BY <2>1 DEF HeldIsOpen
  <1>11. HeldOnce'
    BY <1>1 DEF TokenInv, HeldOnce
  <1> QED BY <1>8, <1>9, <1>10, <1>11 DEF TokenInv

(* A token that expires is held by nobody.                                  *)
LEMMA TokenExpires ==
  ASSUME TypeInv, TokenInv, NEW t \in Request, Expire(t)
  PROVE  TokenInv'
  <1>1. pc' = pc /\ held' = held /\ acts' = acts
    BY DEF Expire, request
  <1>2. token[t] \in TokenRow /\ token[t].state = "open" /\ acts[t] = 0
    BY DEF Expire, TypeInv, TokenInv, ConsumptionIsTheAct
  <1>3. token'[t] \in TokenRow /\ token'[t].state = "expired"
    BY <1>2 DEF Expire, TypeInv, TokenRow
  <1>4. token'[t] # None
    BY <1>3, AccountsAssumption
  <1>5. \A s \in Request \ {t} : token'[s] = token[s]
    BY DEF Expire, TypeInv
  <1>6. \A q \in Request : t \notin held[q]
    BY AccountsAssumption DEF Expire, HeldElsewhere
  <1>7. Issued' /\ ConsumptionIsTheAct'
    BY <1>1, <1>2, <1>3, <1>4, <1>5 DEF Expire, TokenInv, Issued, ConsumptionIsTheAct
  <1>8. HeldIsOpen'
    BY <1>1, <1>5, <1>6 DEF TypeInv, TokenInv, HeldIsOpen, Open
  <1>9. HeldOnce'
    BY <1>1 DEF TokenInv, HeldOnce
  <1> QED BY <1>7, <1>8, <1>9 DEF TokenInv

-----------------------------------------------------------------------------
(* The invariant                                                            *)

(* A request that begins without a token.                                   *)
LEMMA ReadKeeps ==
  ASSUME IInv, NEW r \in Request, Read(r)
  PROVE  AdminInv' /\ TokenInv'
  <1>1. PICK op, x, l : l \in {"read", "ready"} /\ Begins(r, op, x, l)
    BY DEF Read, PublicSignup, ForgotPassword, ChangePassword, UpdateUser, DeleteUser,
           RestoreDeletedUser, CreateUser, DeleteOrganizationRole
  <1>2. held' = held /\ \A q \in Request : q # r => patch'[q] = patch[q]
    <2>1. (\E p, a : Holds(r, p, a)) \/ (held' = held /\ patch' = patch)
      <3>1. ASSUME NEW u \in User, NEW o \in Org,
                   \/ UpdateUser(r, u, o) \/ DeleteUser(r, u, o)
                   \/ RestoreDeletedUser(r, u, o) \/ CreateUser(r, u, o)
            PROVE  \E p, a : Holds(r, p, a)
        <4>1. CASE UpdateUser(r, u, o)
          BY <4>1 DEF UpdateUser
        <4>2. CASE DeleteUser(r, u, o)
          BY <4>2 DEF DeleteUser
        <4>3. CASE RestoreDeletedUser(r, u, o)
          BY <4>3 DEF RestoreDeletedUser
        <4>4. CASE CreateUser(r, u, o)
          BY <4>4 DEF CreateUser
        <4> QED BY <3>1, <4>1, <4>2, <4>3, <4>4
      <3>2. ASSUME NEW u \in User, PublicSignup(r, u) PROVE \E p, a : Holds(r, p, a)
        BY <3>2 DEF PublicSignup
      <3>3. ASSUME NEW u, \/ ForgotPassword(r, u) \/ ChangePassword(r, u)
                          \/ DeleteOrganizationRole(r, u)
            PROVE  held' = held /\ patch' = patch
        BY <3>3 DEF ForgotPassword, ChangePassword, DeleteOrganizationRole
      <3> QED BY <3>1, <3>2, <3>3 DEF Read
    <2> QED BY <2>1 DEF Holds, IInv, TypeInv
  <1> QED BY <1>1, <1>2, AdminBegins, TokenBegins DEF IInv

(* Steps of a request between its start and its flush.                      *)
LEMMA WorkKeeps ==
  ASSUME IInv, NEW r \in Request, ReadRedeemer(r) \/ Reload(r)
  PROVE  AdminInv' /\ TokenInv'
  <1>1. /\ user' = user /\ token' = token /\ acts' = acts /\ held' = held /\ call' = call
        /\ pc[r] \in {"consumed", "read"} /\ pc'[r] \in {"read", "ready"}
        /\ \A q \in Request \ {r} : pc'[q] = pc[q] /\ patch'[q] = patch[q]
    BY DEF IInv, TypeInv, ReadRedeemer, Reload, rows
  <1>2. ASSUME NEW q \in Request, Writing(q)'
        PROVE  Writing(q) /\ call'[q] = call[q] /\ patch'[q] = patch[q]
    <2>1. q # r
      BY <1>1, <1>2 DEF Writing
    <2> QED BY <1>1, <1>2, <2>1 DEF Writing, Writes, Creates
  <1>3. \A q \in Request : held[q] # {} => Open(q)
    BY DEF IInv, TokenInv, HeldIsOpen, TypeInv
  <1>4. \A q \in Request : Open(q) => Open(q)'
    BY <1>1 DEF Open
  <1> QED BY <1>1, <1>2, <1>3, <1>4, AdminQuiet, TokenQuiet DEF IInv

(* Every step keeps the invariant.                                          *)
LEMMA StepIInv == IInv /\ [Next]_vars => IInv'
  <1> SUFFICES ASSUME IInv, [Next]_vars PROVE IInv'
    OBVIOUS
  <1>1. TypeInv' /\ Addressed'
    BY TypeKeeps DEF IInv, TokenInv
  <1>2. CASE UNCHANGED vars
    <2>1. AdminInv'
      BY <1>2 DEF IInv, AdminInv, RowIsHeld, OneRemoval, RemoverLeavesOne, SuperAdminRemains,
                  Writing, Writes, Creates, Removes, NewUser, OtherSuper, ActiveSuper, Alive,
                  Patched, vars, rows, request
    <2>2. TokenInv'
      BY <1>2 DEF IInv, TokenInv, Issued, HeldIsOpen, HeldOnce, ConsumptionIsTheAct, Open,
                  vars, rows, request
    <2> QED BY <1>1, <2>1, <2>2 DEF IInv
  <1>3. ASSUME NEW r \in Request, Read(r) PROVE AdminInv' /\ TokenInv'
    BY <1>3, ReadKeeps
  <1>4. ASSUME NEW r \in Request, NEW t \in Request, Consume(r, t)
        PROVE  AdminInv' /\ TokenInv'
    <2>1. Begins(r, token[t].purpose, token[t].user, "consumed") /\ patch' = patch
      BY <1>4 DEF Consume
    <2>2. AdminInv'
      BY <2>1, AdminBegins DEF IInv
    <2>3. pc'[r] = "consumed" /\ \A q \in Request \ {r} : pc'[q] = pc[q]
      BY <2>1 DEF Begins, IInv, TypeInv
    <2>4. /\ token' = token /\ acts' = acts /\ held' = [held EXCEPT ![r] = {t}]
          /\ token[t] # None /\ token[t].state = "open" /\ t \notin HeldElsewhere(r)
          /\ pc[r] = "idle"
      BY <1>4 DEF Consume, Begins, IsAvailable, rows
    <2>5. /\ Open(r)'
          /\ \A q \in Request : /\ pc[q] = "done" => pc'[q] = "done"
                                /\ Open(q) => Open(q)'
      BY <2>3, <2>4 DEF Open
    <2> DEFINE ts == {t}
    <2>6. ts \in SUBSET Request /\ held' = [held EXCEPT ![r] = ts]
      BY <2>4
    <2>7. \A s \in ts : /\ token[s] # None /\ token[s].state = "open"
                        /\ s \notin HeldElsewhere(r)
      BY <2>4
    <2> HIDE DEF ts
    <2>8. TokenInv'
      BY <2>4, <2>5, <2>6, <2>7, TokenTakes DEF IInv
    <2> QED BY <2>2, <2>8
  <1>5. ASSUME NEW r \in Request, ReadRedeemer(r) \/ Reload(r) PROVE AdminInv' /\ TokenInv'
    BY <1>5, WorkKeeps
  <1>6. ASSUME NEW r \in Request, RejectRedeemer(r) PROVE AdminInv' /\ TokenInv'
    BY <1>6, AdminEnds, TokenEnds DEF IInv, RejectRedeemer, Fails, rows
  <1>7. ASSUME NEW r \in Request, FlushUser(r) PROVE AdminInv' /\ TokenInv'
    <2>1. AdminInv'
      BY <1>7, AdminFlush DEF IInv
    <2>2. CASE Accepted(r)
      <3>1. /\ token' = token /\ acts' = acts /\ held' = held /\ pc[r] = "ready"
            /\ pc'[r] = "flushed" /\ \A q \in Request \ {r} : pc'[q] = pc[q]
        BY <1>7, <2>2 DEF FlushUser, rows, IInv, TypeInv
      <3>2. \A q \in Request : held[q] # {} => Open(q)
        BY DEF IInv, TokenInv, HeldIsOpen, TypeInv
      <3>3. \A q \in Request : Open(q) => Open(q)'
        BY <3>1 DEF Open
      <3> QED BY <2>1, <3>1, <3>2, <3>3, TokenQuiet DEF IInv
    <2>3. CASE ~Accepted(r)
      BY <1>7, <2>1, <2>3, TokenEnds DEF FlushUser, Fails, IInv, rows
    <2> QED BY <2>2, <2>3
  <1>8. ASSUME NEW r \in Request, FlushForgot(r) PROVE AdminInv' /\ TokenInv'
    <2> DEFINE ts == Outstanding(call[r].user)
    <2>1. /\ pc[r] = "ready" /\ pc'[r] = "flushed" /\ call[r].op = "forgot" /\ call' = call
          /\ patch' = patch /\ user' = user /\ token' = token /\ acts' = acts
          /\ held' = [held EXCEPT ![r] = ts] /\ ts \cap HeldElsewhere(r) = {}
          /\ \A q \in Request \ {r} : pc'[q] = pc[q]
      BY <1>8 DEF FlushForgot, rows, IInv, TypeInv
    <2>2. ASSUME NEW q \in Request, Writing(q)' PROVE Writing(q)
      <3>1. q # r
        BY <2>1, <2>2 DEF Writing, Writes, Creates
      <3> QED BY <2>1, <2>2, <3>1 DEF Writing, Writes, Creates
    <2>3. AdminInv'
      BY <2>1, <2>2, AdminQuiet DEF IInv
    <2>4. ts \in SUBSET Request /\ \A t \in ts : token[t] # None /\ token[t].state = "open"
      BY DEF Outstanding
    <2>5. /\ Open(r)'
          /\ \A q \in Request : /\ pc[q] = "done" => pc'[q] = "done"
                                /\ Open(q) => Open(q)'
      BY <2>1 DEF Open
    <2>6. \A t \in ts : t \notin HeldElsewhere(r)
      BY <2>1
    <2> HIDE DEF ts
    <2>7. TokenInv'
      BY <2>1, <2>4, <2>5, <2>6, TokenTakes DEF IInv
    <2> QED BY <2>3, <2>7
  <1>9. ASSUME NEW r \in Request, CommitUser(r) PROVE AdminInv' /\ TokenInv'
    BY <1>9, AdminCommit, TokenCommit DEF IInv
  <1>10. ASSUME NEW r \in Request, CommitForgot(r) PROVE AdminInv' /\ TokenInv'
    BY <1>10, AdminEnds, TokenForgot DEF IInv, CommitForgot
  <1>11. ASSUME NEW r \in Request, CommitRetire(r) PROVE AdminInv' /\ TokenInv'
    BY <1>11, AdminEnds, TokenEnds DEF IInv, CommitRetire
  <1>12. ASSUME NEW t \in Request, Expire(t) PROVE AdminInv' /\ TokenInv'
    <2>1. user' = user /\ call' = call /\ patch' = patch /\ pc' = pc
      BY <1>12 DEF Expire, request
    <2>2. AdminInv'
      BY <2>1, AdminQuiet DEF IInv, Writing, Writes, Creates
    <2> QED BY <1>12, <2>2, TokenExpires DEF IInv
  <1>13. CASE Next
    BY <1>1, <1>3, <1>4, <1>5, <1>6, <1>7, <1>8, <1>9, <1>10, <1>11, <1>12, <1>13
       DEF Next, IInv
  <1> QED BY <1>2, <1>13

(* There is always an active super admin.                                   *)
THEOREM AnAdminRemains == Spec => []SuperAdminRemains
  <1>1. IInv => SuperAdminRemains
    BY DEF IInv, AdminInv
  <1> QED BY InitIInv, StepIInv, <1>1, PTL DEF Spec

(* Each token is consumed by the one request that acts by it.               *)
THEOREM ActsConsume == Spec => []ConsumptionIsTheAct
  <1>1. IInv => ConsumptionIsTheAct
    BY DEF IInv, TokenInv
  <1> QED BY InitIInv, StepIInv, <1>1, PTL DEF Spec

-------------------------------------------------------------------------------
(***************************************************************************)
(* Role assignments and reset tokens of UserAccounts, for every set of     *)
(* requests, users and roles.                                              *)
(*                                                                         *)
(* Nothing stops two requests from passing each other, so the properties   *)
(* allow what requests under way at once did.  The invariant says that a   *)
(* request knows everything else: what it planned when it read (Planned)   *)
(* still covers, when it commits, every row but those that a request       *)
(* beside it has written since (Current).                                  *)
(***************************************************************************)
(* q and r were under way at once.                                          *)
Met(q, r) == q \in beside[r] /\ r \in beside[q]

Company ==
    /\ \A r \in Request : pc[r] = "idle" => beside[r] = {}
    /\ \A q, r \in Request : q # r /\ Open(q) /\ Open(r) => q \in beside[r]

-----------------------------------------------------------------------------
(* What the rows are                                                        *)

RowsInv ==
    /\ \A i \in Request \cup User : assignment[i] # None =>
         /\ user[assignment[i].user] # None
         /\ assignment[i].at <= clock
         /\ i \in Request => pc[i] = "done"
    /\ \A t \in Request : token[t] # None /\ token[t].purpose = "activate"
         => user[token[t].user] # None

-----------------------------------------------------------------------------
(* What a request is about to do, by what it was asked                      *)

Waits(r) == pc[r] \in {"ready", "flushed"}

(* Operations on whole entities, and operations on a user that is there.    *)
Rewrites(r) == call[r].op \in {"change", "activate", "reset"}
Edits(r)    == call[r].op \in {"update", "delete", "restore"}

(* A patch of a user's row leaves a user's row.                             *)
Fits(p) == \A v \in UserRow : Patched(v, p) \in UserRow

Undeletes(p) == "deleted" \in DOMAIN p => p["deleted"] = None

GrantsNew(r)   == plan[r].grants \in [user : {call[r].user}, org : Org, role : Roles]
GrantsAgain(r) == /\ plan[r].grants \in [again : Request \cup User, revived : BOOLEAN]
                  /\ plan[r].grants.again \notin plan[r].revokes

PlannedUpdate(r) == /\ plan[r].grants = None \/ GrantsNew(r)
                    /\ Fits(patch[r]) /\ "deleted" \notin DOMAIN patch[r]
PlannedDelete(r) == /\ plan[r].grants = None
                    /\ Fits(patch[r])
                    /\ "deleted" \in DOMAIN patch[r] /\ patch[r]["deleted"] = r
PlannedRestore(r) == /\ GrantsAgain(r)
                     /\ Fits(patch[r])
                     /\ "deleted" \in DOMAIN patch[r] /\ patch[r]["deleted"] = None
PlannedCreate(r) == /\ plan[r].revokes = {}
                    /\ plan[r].grants = None \/ GrantsNew(r)
                    /\ patch[r] \in UserRow /\ patch[r].deleted = None
PlannedRewrite(r) == /\ plan[r] = NoPlan
                     /\ Fits(patch[r]) /\ Undeletes(patch[r])

Planned(r) ==
    /\ plan[r].at \in Nat /\ plan[r].at <= clock
    /\ ~Waits(r) => plan[r] = NoPlan
    /\ pc[r] \in {"consumed", "read"} => Rewrites(r)
    /\ pc[r] = "read" => entity[r] \in UserRow /\ entity[r].deleted = None
    /\ Waits(r) =>
         /\ Rewrites(r) \/ Edits(r) \/ Creates(r) \/ call[r].op \in {"retire", "forgot"}
         /\ call[r].op = "update"  => PlannedUpdate(r)
         /\ call[r].op = "delete"  => PlannedDelete(r)
         /\ call[r].op = "restore" => PlannedRestore(r)
         /\ Creates(r)  => PlannedCreate(r)
         /\ Rewrites(r) => PlannedRewrite(r)
         /\ call[r].op \in {"retire", "forgot"} => plan[r] = NoPlan
         /\ call[r].op = "retire" => call[r].user \in Roles

-----------------------------------------------------------------------------
(* What has become of what it read                                          *)

(* The user is still there.                                                 *)
UserStands(r) ==
    (pc[r] = "read" \/ (Waits(r) /\ (Rewrites(r) \/ Edits(r)))) => user[call[r].user] # None

(* The email of a user that is being written for the first time is free.    *)
EmailStands(r) == (pc[r] = "flushed" /\ Creates(r)) => user[call[r].user] = None

(* A user that is updated was deleted beside the update, if at all.         *)
UpdateStands(r) ==
    (Waits(r) /\ call[r].op = "update" /\ user[call[r].user].deleted # None)
        => user[call[r].user].deleted \in beside[r]

(* The assignment that is granted again is still one of the user.           *)
AgainStands(r) ==
    (Waits(r) /\ call[r].op = "restore") =>
        /\ assignment[plan[r].grants.again] # None
        /\ assignment[plan[r].grants.again].user = call[r].user

(* So are those that are revoked.                                           *)
RevokedStand(r) == plan[r].revokes \subseteq Ids

(* A role that is granted was deleted beside the request, if at all.        *)
RoleOf(r) == IF call[r].op = "restore" THEN assignment[plan[r].grants.again].role
             ELSE plan[r].grants.role
RoleStands(r) ==
    (Waits(r) /\ plan[r].grants # None /\ retired[RoleOf(r)] # None)
        => retired[RoleOf(r)] \in beside[r]

(* What it does not revoke, a request beside it has granted.                *)
Settles(r) == call[r].op \in {"delete", "restore"}
              \/ (call[r].op = "update" /\ plan[r].grants # None)
RevokesStand(r) ==
    (Waits(r) /\ Settles(r)) =>
        \A i \in Active(call[r].user) \ plan[r].revokes :
            \/ call[r].op = "restore" /\ i = plan[r].grants.again
            \/ assignment[i].by \in Request /\ Met(assignment[i].by, r)

(* A role that is being deleted is in use beside the request, if at all.    *)
UnuseStands(r) ==
    (Waits(r) /\ call[r].op = "retire") =>
        \A i \in Ids : (assignment[i].active /\ assignment[i].role = call[r].user)
            => assignment[i].by \in Request /\ Met(assignment[i].by, r)

(* A reset token that will not be invalidated was issued beside the request. *)
TokensStand(r) ==
    (pc[r] = "flushed" /\ call[r].op = "forgot") =>
        \A t \in Outstanding(call[r].user) : t \in held[r] \/ Met(t, r)

Current(r) ==
    /\ UserStands(r) /\ EmailStands(r) /\ UpdateStands(r) /\ AgainStands(r)
    /\ RevokedStand(r) /\ RoleStands(r) /\ RevokesStand(r) /\ UnuseStands(r)
    /\ TokensStand(r)

Promises == OneRole /\ AssignmentsAreLawful /\ OneOpenToken

AInv ==
    /\ IInv /\ TypeOK /\ DOMAIN entity = Request /\ DOMAIN plan = Request
    /\ Company /\ RowsInv
    /\ \A r \in Request : Planned(r) /\ Current(r)
    /\ Promises

-----------------------------------------------------------------------------
(* Operators                                                                *)

(* The difference of two rows of users, put on a third, makes a row.        *)
LEMMA DifferingFits ==
  ASSUME NEW w \in UserRow, NEW v \in UserRow
  PROVE  /\ Fits(Differing(w, v))
         /\ "deleted" \in DOMAIN Differing(w, v) <=> w.deleted # v.deleted
         /\ w.deleted # v.deleted => Differing(w, v)["deleted"] = w.deleted
  <1>1. /\ DOMAIN Differing(w, v) = {d \in Column : w[d] # v[d]}
        /\ \A c \in DOMAIN Differing(w, v) : Differing(w, v)[c] = w[c]
    BY DEF Differing
  <1>2. ASSUME NEW x \in UserRow PROVE Patched(x, Differing(w, v)) \in UserRow
    <2>1. PICK y : y = Patched(x, Differing(w, v))
      OBVIOUS
    <2>2. y = [c \in Column |-> IF w[c] # v[c] THEN w[c] ELSE x[c]]
      BY <1>1, <2>1 DEF Patched
    <2>3. y \in UserRow
      BY <2>2 DEF UserRow, Column
    <2> QED BY <2>1, <2>3
  <1>3. "deleted" \in Column /\ w["deleted"] = w.deleted /\ v["deleted"] = v.deleted
    BY DEF Column
  <1> QED BY <1>1, <1>2, <1>3 DEF Fits

(* A patch without the column leaves the deletion as it was.                *)
LEMMA PatchedDeleted ==
  ASSUME NEW v, NEW p
  PROVE  Patched(v, p).deleted = IF "deleted" \in DOMAIN p THEN p["deleted"] ELSE v.deleted
  BY DEF Patched, Column

(* Stamps do not exceed the clock, so that one assignment is the latest.    *)
LEMMA LatestIsOne ==
  ASSUME NEW ids, ids # {}, clock \in Nat,
         \A i \in ids : assignment[i].at \in Nat /\ assignment[i].at <= clock
  PROVE  Latest(ids) \in ids
  <1> DEFINE T == {clock - assignment[j].at : j \in ids}
             R == OpToRel(<, Nat)
  <1>1. T \subseteq Nat /\ T # {}
    OBVIOUS
  <1>2. \A x \in Nat, y \in Nat : <<y, x>> \in R <=> y < x
    BY DEF OpToRel
  <1>3. IsWellFoundedOn(R, Nat)
    BY NatLessThanWellFounded, Zenon
  <1> HIDE DEF R, T
  <1>4. PICK x \in T : \A y \in T : ~(<<y, x>> \in R)
    BY <1>1, <1>3, WFMin
  <1>5. PICK i \in ids : x = clock - assignment[i].at
    BY <1>4 DEF T
  <1>6. ASSUME NEW j \in ids PROVE assignment[j].at <= assignment[i].at
    <2>1. PICK y \in T : y = clock - assignment[j].at
      BY DEF T
    <2>2. ~(y < x)
      BY <1>1, <1>2, <1>4, <2>1
    <2> QED BY <1>5, <2>1, <2>2
  <1> QED BY <1>6 DEF Latest

-----------------------------------------------------------------------------
(* Requests that meet                                                       *)

(* A request that begins meets those that are open.                         *)
LEMMA CompanyBegins ==
  ASSUME TypeOK, Company, NEW r \in Request, NEW op, NEW u, NEW l,
         l \in {"consumed", "read", "ready"}, Begins(r, op, u, l)
  PROVE  /\ Company' /\ beside' \in [Request -> SUBSET Request]
         /\ \A q \in Request : beside[q] \subseteq beside'[q]
  <1>1. /\ pc[r] = "idle" /\ pc'[r] = l
        /\ \A q \in Request \ {r} : pc'[q] = pc[q]
    BY DEF Begins, TypeOK
  <1>2. /\ beside'[r] = {x \in Request : Open(x)}
        /\ \A q \in Request \ {r} :
             beside'[q] = IF Open(q) THEN beside[q] \cup {r} ELSE beside[q]
    BY DEF Begins
  <1>3. Open(r)' /\ \A q \in Request \ {r} : Open(q)' <=> Open(q)
    BY <1>1 DEF Open
  <1>4. beside' \in [Request -> SUBSET Request]
    BY DEF Begins, TypeOK
  <1>5. \A q \in Request : beside[q] \subseteq beside'[q]
    BY <1>1, <1>2 DEF Company
  <1>6. \A q \in Request : pc'[q] = "idle" => beside'[q] = {}
    BY <1>1, <1>2 DEF Company, Open
  <1>7. ASSUME NEW p \in Request, NEW q \in Request, p # q, Open(p)', Open(q)'
        PROVE  p \in beside'[q]
    BY <1>2, <1>3, <1>7 DEF Company
  <1> QED BY <1>4, <1>5, <1>6, <1>7 DEF Company

(* The other steps leave it at that.                                        *)
LEMMA CompanyStays ==
  ASSUME Company, beside' = beside,
         \A q \in Request : /\ pc'[q] = "idle" => pc[q] = "idle"
                            /\ Open(q)' => Open(q)
  PROVE  Company'
  BY DEF Company

-----------------------------------------------------------------------------
(* What one request does to the plans of another                            *)

Meets(q, r) == q \in beside'[r] /\ r \in beside'[q]

(* A step that, as far as q is open, changes what others may change.        *)
Gently(q) ==
    /\ \A u \in User :
         /\ user[u] # None => user'[u] # None
         /\ (user[u] # None /\ user'[u].deleted # None)
              => user'[u].deleted = user[u].deleted \/ user'[u].deleted \in beside'[q]
    /\ (pc[q] = "flushed" /\ Creates(q)) => user'[call[q].user] = user[call[q].user]
    /\ \A i \in Request \cup User :
         /\ assignment[i] # None => /\ assignment'[i] # None
                                    /\ assignment'[i].user = assignment[i].user
                                    /\ assignment'[i].role = assignment[i].role
         /\ (assignment'[i] # None /\ assignment'[i].active) =>
              \/ /\ assignment[i] # None /\ assignment[i].active
                 /\ assignment'[i].by = assignment[i].by
              \/ assignment'[i].by \in Request /\ Meets(assignment'[i].by, q)
    /\ \A p \in Roles : retired'[p] = retired[p] \/ retired'[p] \in beside'[q]
    /\ \A t \in Request :
         (/\ token'[t] # None /\ token'[t].purpose = "reset" /\ token'[t].state = "open")
           => \/ token'[t] = token[t]
              \/ Meets(t, q)

(* Nobody else's step makes a plan wrong, or out of date.                   *)
LEMMA OthersStand ==
  ASSUME AInv, TypeOK', NEW q \in Request,
         pc'[q] = pc[q], call'[q] = call[q], entity'[q] = entity[q],
         patch'[q] = patch[q], plan'[q] = plan[q], held'[q] = held[q],
         clock <= clock',
         \A x \in Request : beside[x] \subseteq beside'[x],
         Open(q) => Gently(q)
  PROVE  Planned(q)' /\ Current(q)'
  <1>1. /\ Planned(q) /\ Current(q) /\ TypeOK /\ Addressed
        /\ clock \in Nat /\ clock' \in Nat
    BY DEF AInv, TypeOK, IInv
  <1>2. /\ Waits(q)' <=> Waits(q)
        /\ Rewrites(q)' <=> Rewrites(q)
        /\ Edits(q)' <=> Edits(q)
        /\ Creates(q)' <=> Creates(q)
        /\ Settles(q)' <=> Settles(q)
    BY DEF Waits, Rewrites, Edits, Creates, Settles
  <1>3. Planned(q)'
    <2>1. plan[q].at \in Nat /\ plan[q].at <= clock'
      BY <1>1 DEF Planned
    <2>2. /\ PlannedUpdate(q)' <=> PlannedUpdate(q)
          /\ PlannedDelete(q)' <=> PlannedDelete(q)
          /\ PlannedRestore(q)' <=> PlannedRestore(q)
          /\ PlannedCreate(q)' <=> PlannedCreate(q)
          /\ PlannedRewrite(q)' <=> PlannedRewrite(q)
      BY DEF PlannedUpdate, PlannedDelete, PlannedRestore, PlannedCreate, PlannedRewrite,
             GrantsNew, GrantsAgain
    <2> QED BY <1>1, <1>2, <2>1, <2>2 DEF Planned
  <1>4. CASE ~Open(q)
    <2>1. pc'[q] \in {"idle", "done"}
      BY <1>4 DEF Open, TypeOK, AInv
    <2>2. Current(q)'
      <3>1. plan'[q].revokes = {}
        BY <1>3, <2>1 DEF Planned, Waits, NoPlan
      <3> QED
        BY <2>1, <3>1 DEF Current, UserStands, EmailStands, UpdateStands, AgainStands,
             RevokedStand, RoleStands, RevokesStand, UnuseStands, TokensStand, Waits
    <2> QED BY <1>3, <2>2
  <1>5. CASE Open(q)
    <2>1. Gently(q)
      BY <1>5
    <2>2. pc[q] = "read" => Rewrites(q)
      BY <1>1 DEF Planned
    <2>3. (Rewrites(q) \/ Edits(q) \/ Creates(q) \/ call[q].op = "forgot")
             => call[q].user \in User
      BY <1>1, <1>5 DEF Addressed, Open, Rewrites, Edits, Creates
    <2>4. UserStands(q)'
      BY <1>1, <1>2, <2>1, <2>2, <2>3 DEF Current, UserStands, Gently
    <2>5. EmailStands(q)'
      BY <1>1, <1>2, <2>1 DEF Current, EmailStands, Gently
    <2>6. UpdateStands(q)'
      <3>1. SUFFICES ASSUME Waits(q), call[q].op = "update",
                            user'[call[q].user].deleted # None
                     PROVE  user'[call[q].user].deleted \in beside'[q]
        BY <1>2 DEF UpdateStands
      <3>2. call[q].user \in User /\ user[call[q].user] # None
        BY <1>1, <2>3, <3>1 DEF Edits, Current, UserStands
      <3> QED BY <1>1, <2>1, <3>1, <3>2 DEF Current, UpdateStands, Gently
    <2>7. (Waits(q) /\ call[q].op = "restore") =>
             /\ plan[q].grants.again \in Request \cup User
             /\ plan[q].grants.revived \in BOOLEAN
             /\ assignment[plan[q].grants.again] # None
             /\ assignment[plan[q].grants.again] \in AssignmentRow
      BY <1>1 DEF Planned, PlannedRestore, GrantsAgain, Current, AgainStands, TypeOK
    <2>8. AgainStands(q)'
      BY <1>1, <1>2, <2>1, <2>7 DEF Current, AgainStands, Gently
    <2>15. RevokedStand(q)'
      BY <1>1, <2>1 DEF Current, RevokedStand, Ids, Gently, TypeOK
    <2>9. RoleStands(q)'
      <3>1. SUFFICES ASSUME Waits(q), plan[q].grants # None, RoleStands(q)
                     PROVE  /\ RoleOf(q)' = RoleOf(q) /\ RoleOf(q) \in Roles
        BY <1>1, <1>2, <2>1 DEF Current, RoleStands, Gently
      <3>2. CASE call[q].op = "restore"
        BY <1>1, <2>1, <2>7, <3>1, <3>2 DEF RoleOf, Gently, AssignmentRow
      <3>3. CASE call[q].op # "restore"
        <4>1. GrantsNew(q)
          BY <1>1, <3>1, <3>3 DEF Planned, PlannedUpdate, PlannedDelete, PlannedCreate,
                                  PlannedRewrite, NoPlan, Edits
        <4> QED BY <3>3, <4>1 DEF RoleOf, GrantsNew
      <3> QED BY <3>2, <3>3
    <2>10. \A i : (i \in Ids' /\ assignment'[i].active) =>
             /\ i \in Request \cup User /\ assignment'[i] # None
             /\ \/ /\ i \in Ids /\ assignment[i].active
                   /\ assignment'[i].by = assignment[i].by
                   /\ assignment'[i].user = assignment[i].user
                   /\ assignment'[i].role = assignment[i].role
                \/ assignment'[i].by \in Request /\ Meets(assignment'[i].by, q)
      BY <1>1, <2>1 DEF Ids, Gently, TypeOK
    <2>11. \A x \in Request : Met(x, q) => Meets(x, q)
      BY DEF Met, Meets
    <2>12. RevokesStand(q)'
      <3>1. SUFFICES ASSUME Waits(q), Settles(q),
                            NEW i \in Active(call[q].user)', i \notin plan[q].revokes
                     PROVE  \/ call[q].op = "restore" /\ i = plan[q].grants.again
                            \/ assignment'[i].by \in Request /\ Meets(assignment'[i].by, q)
        BY <1>2 DEF RevokesStand, Active, Met, Meets
      <3>2. i \in Ids' /\ assignment'[i].active /\ assignment'[i].user = call[q].user
        BY <3>1 DEF Active
      <3> QED BY <1>1, <2>10, <2>11, <3>1, <3>2 DEF Current, RevokesStand, Active
    <2>13. UnuseStands(q)'
      BY <1>1, <1>2, <2>10, <2>11 DEF Current, UnuseStands, Met, Meets
    <2>14. TokensStand(q)'
      <3>1. SUFFICES ASSUME pc[q] = "flushed", call[q].op = "forgot",
                            NEW t \in Outstanding(call[q].user)'
                     PROVE  t \in held[q] \/ Meets(t, q)
        BY DEF TokensStand, Outstanding, Met, Meets
      <3>2. t \in Request /\ (token'[t] = token[t] \/ Meets(t, q))
        BY <2>1, <3>1 DEF Outstanding, Gently
      <3>3. token'[t] = token[t] => t \in Outstanding(call[q].user)
        BY <3>1 DEF Outstanding
      <3> QED BY <1>1, <2>11, <3>1, <3>2, <3>3 DEF Current, TokensStand
    <2> QED BY <1>3, <2>4, <2>5, <2>6, <2>8, <2>9, <2>12, <2>13, <2>14, <2>15
       DEF Current
  <1> QED BY <1>4, <1>5

(* As long as the rows stay, the promises about them do.                    *)
LEMMA PromisesStay ==
  ASSUME TypeOK, TypeOK', Promises,
         user' = user, retired' = retired, assignment' = assignment,
         \A t \in Request : (token'[t] # None /\ token'[t].state = "open")
           => token'[t] = token[t],
         \A x \in Request : beside[x] \subseteq beside'[x]
  PROVE  Promises'
  <1>1. ASSUME NEW p, NEW q \in Request \cup {None}, Beside(p, q)
        PROVE  p # None /\ q # None /\ p \in beside'[q]
    BY <1>1 DEF Beside
  <1>2. Ids' = Ids /\ \A u : Active(u)' = Active(u)
    BY DEF Ids, Active
  <1>3. \A i \in Ids : assignment[i].by \in Request \cup {None}
    BY DEF Ids, TypeOK, AssignmentRow
  <1>4. \A u : \A i \in Active(u) : i \in Ids
    BY DEF Active
  <1>5. OneRole'
    BY <1>1, <1>2, <1>3, <1>4 DEF Promises, OneRole, Beside
  <1>6. AssignmentsAreLawful'
    BY <1>1, <1>2, <1>3, <1>4 DEF Promises, AssignmentsAreLawful, Beside, Alive
  <1>7. OneOpenToken'
    BY <1>1 DEF Promises, OneOpenToken, Beside
  <1> QED BY <1>5, <1>6, <1>7 DEF Promises

(* A request begins: it owes a plan.                                        *)
LEMMA BeginKeeps ==
  ASSUME AInv, IInv', NEW r \in Request, NEW op, NEW u, NEW l,
         l \in {"consumed", "read", "ready"}, Begins(r, op, u, l),
         \A q \in Request \ {r} : /\ entity'[q] = entity[q] /\ patch'[q] = patch[q]
                                  /\ plan'[q] = plan[q] /\ held'[q] = held[q],
         DOMAIN entity' = Request, DOMAIN plan' = Request,
         clock' \in Nat, clock <= clock',
         Planned(r)', Current(r)'
  PROVE  AInv'
  <1>1. /\ Company' /\ beside' \in [Request -> SUBSET Request]
        /\ \A q \in Request : beside[q] \subseteq beside'[q]
    BY CompanyBegins DEF AInv
  <1>2. /\ user' = user /\ org' = org /\ retired' = retired /\ assignment' = assignment
        /\ token' = token /\ acts' = acts
    BY DEF Begins, rows
  <1>3. /\ pc[r] = "idle"
        /\ \A q \in Request \ {r} : pc'[q] = pc[q] /\ call'[q] = call[q]
    BY DEF Begins, AInv, IInv, TypeInv
  <1>4. TypeOK'
    BY <1>1, <1>2 DEF AInv, IInv, TypeInv, TypeOK
  <1>5. RowsInv'
    <2>1. \A i \in Request \cup User : assignment[i] # None => assignment[i].at \in Nat
      BY DEF AInv, TypeOK, AssignmentRow
    <2> QED BY <1>2, <1>3, <2>1 DEF AInv, RowsInv, TypeOK
  <1>6. Promises'
    BY <1>1, <1>2, <1>4, PromisesStay DEF AInv
  <1>7. ASSUME NEW q \in Request \ {r} PROVE Planned(q)' /\ Current(q)'
    <2>1. Gently(q)
      BY <1>2 DEF Gently
    <2> QED BY <1>1, <1>3, <1>4, <2>1, OthersStand
  <1> QED BY <1>1, <1>4, <1>5, <1>6, <1>7 DEF AInv

(* A request works on: it changes nothing but its own plan.                 *)
LEMMA WorkKeepsPlans ==
  ASSUME AInv, IInv', NEW r \in Request, NEW l, l \in {"read", "ready", "flushed"},
         Open(r), pc' = [pc EXCEPT ![r] = l], UNCHANGED <<rows, call, plan, clock, beside, acts>>,
         \A q \in Request \ {r} : /\ entity'[q] = entity[q] /\ patch'[q] = patch[q]
                                  /\ held'[q] = held[q],
         DOMAIN entity' = Request, Planned(r)', Current(r)'
  PROVE  AInv'
  <1>1. \A q \in Request \ {r} : pc'[q] = pc[q]
    BY DEF AInv, TypeOK
  <1>2. Open(r) /\ pc[r] # "idle" /\ pc[r] # "done"
    BY DEF Open
  <1>3. Company'
    <2>1. \A q \in Request : /\ pc'[q] = "idle" => pc[q] = "idle"
                             /\ Open(q)' => Open(q)
      BY <1>1, <1>2 DEF Open, AInv, TypeOK
    <2> QED BY <2>1, CompanyStays DEF AInv
  <1>4. TypeOK'
    BY DEF AInv, IInv, TypeInv, TypeOK, rows
  <1>5. RowsInv'
    BY <1>1, <1>2 DEF AInv, RowsInv, rows
  <1>6. Promises'
    BY <1>4, PromisesStay DEF AInv, rows
  <1>7. ASSUME NEW q \in Request \ {r} PROVE Planned(q)' /\ Current(q)'
    <2>1. Gently(q)
      BY DEF Gently, rows
    <2>2. clock <= clock'
      BY DEF AInv, TypeOK
    <2> QED BY <1>1, <1>4, <2>1, <2>2, OthersStand
  <1> QED BY <1>3, <1>4, <1>5, <1>6, <1>7 DEF AInv

(* A request ends: the others must be able to live with what it has done.   *)
LEMMA EndKeeps ==
  ASSUME AInv, IInv', TypeOK', NEW r \in Request, Open(r), Ends(r),
         \A q \in Request \ {r} : Open(q) => Gently(q),
         RowsInv', Promises'
  PROVE  AInv'
  <1>1. /\ \A q \in Request \ {r} :
             /\ pc'[q] = pc[q] /\ entity'[q] = entity[q] /\ patch'[q] = patch[q]
             /\ plan'[q] = plan[q] /\ held'[q] = held[q]
        /\ pc'[r] = "done" /\ plan'[r] = NoPlan
        /\ call' = call /\ clock' = clock /\ beside' = beside
        /\ DOMAIN entity' = Request /\ DOMAIN plan' = Request
    BY DEF Ends, AInv, IInv, TypeInv
  <1>2. Company'
    <2>1. \A q \in Request : /\ pc'[q] = "idle" => pc[q] = "idle"
                             /\ Open(q)' => Open(q)
      BY <1>1 DEF Open
    <2> QED BY <1>1, <2>1, CompanyStays DEF AInv
  <1>3. ASSUME NEW q \in Request \ {r} PROVE Planned(q)' /\ Current(q)'
    <2>1. clock <= clock'
      BY <1>1 DEF AInv, TypeOK
    <2> QED BY <1>1, <2>1, OthersStand
  <1>4. Planned(r)'
    BY <1>1 DEF Planned, Waits, NoPlan, AInv, TypeOK
  <1>5. Current(r)'
    BY <1>1 DEF Current, UserStands, EmailStands, UpdateStands, AgainStands, RevokedStand,
                RoleStands, RevokesStand, UnuseStands, TokensStand, Waits, NoPlan
  <1> QED BY <1>1, <1>2, <1>3, <1>4, <1>5 DEF AInv

-----------------------------------------------------------------------------
(* Reading                                                                  *)

(* What a plan finds when it is made.                                       *)
LEMMA ReadsStand ==
  ASSUME NEW r \in Request, NEW op, NEW u, Begins(r, op, u, "ready"), AInv
  PROVE  /\ pc'[r] = "ready" /\ call'[r].op = op /\ call'[r].user = u
         /\ user' = user /\ retired' = retired /\ assignment' = assignment
         /\ Waits(r)' /\ EmailStands(r)' /\ TokensStand(r)'
         /\ \A x : Active(x)' = Active(x) /\ Active(x) \subseteq Ids'
         /\ clock \in Nat
  <1>1. pc'[r] = "ready" /\ call'[r] = [op |-> op, user |-> u]
    BY DEF Begins, AInv, IInv, TypeInv
  <1> QED BY <1>1 DEF Begins, rows, Waits, EmailStands, TokensStand, Active, Ids, AInv, TypeOK

(* An update keeps the deletion as it read it, and covers the assignments.  *)
LEMMA UpdateKeeps ==
  ASSUME AInv, IInv', NEW r \in Request, NEW u \in User, NEW o \in Org, UpdateUser(r, u, o)
  PROVE  AInv'
  <1> DEFINE v == user[u]
  <1>1. Begins(r, "update", u, "ready") /\ Alive(v) /\ clock' = clock + 1
    BY DEF UpdateUser
  <1>2. v \in UserRow /\ v # None /\ v.deleted = None
    BY <1>1 DEF Alive, AInv, TypeOK
  <1>3. PICK c \in Change :
          LET super == IF c.super = None THEN v.super ELSE c.super
              w == [v EXCEPT !.super = super,
                             !.status = IF c.status = None THEN @ ELSE c.status,
                             !.password = IF c.password THEN r ELSE @,
                             !.org = IF ~super \/ @ = None THEN o ELSE @]
          IN  IF super \/ c.role = None THEN Holds(r, Differing(w, v), NoPlan)
              ELSE /\ Available(c.role, o)
                   /\ \E a \in Assigned(u, o, c.role) : Holds(r, Differing(w, v), a)
    BY DEF UpdateUser
  <1>4. c \in [super : BOOLEAN \cup {None}, status : {"active", "inactive", None},
               password : BOOLEAN, role : Roles \cup {None}]
    BY AccountsAssumption
  <1>11. PICK w \in UserRow :
          /\ w.deleted = None
          /\ \E a : /\ Holds(r, Differing(w, v), a)
                    /\ \/ a = NoPlan
                       \/ /\ c.role \in Roles /\ Available(c.role, o)
                          /\ a \in Assigned(u, o, c.role)
    <2> DEFINE super == IF c.super = None THEN v.super ELSE c.super
               status == IF c.status = None THEN v.status ELSE c.status
               password == IF c.password THEN r ELSE v.password
               home == IF ~super \/ v.org = None THEN o ELSE v.org
               x == [v EXCEPT !.super = super, !.status = status,
                              !.password = password, !.org = home]
    <2>1. super \in BOOLEAN /\ status \in {"active", "inactive"}
      BY <1>2, <1>4 DEF UserRow
    <2>4. password \in Request \cup User \cup {None} /\ home \in Org \cup {None}
      BY <1>2, <1>4 DEF UserRow
    <2>2. x \in UserRow /\ x.deleted = None
      <3> HIDE DEF super, status, password, home
      <3> QED BY <1>2, <2>1, <2>4 DEF UserRow
    <2>3. \E a : /\ Holds(r, Differing(x, v), a)
                 /\ \/ a = NoPlan
                    \/ c.role \in Roles /\ Available(c.role, o) /\ a \in Assigned(u, o, c.role)
      <3>1. CASE super \/ c.role = None
        BY <1>3, <3>1
      <3>2. CASE ~(super \/ c.role = None)
        <4>1. c.role \in Roles
          BY <1>4, <3>2
        <4>2. /\ Available(c.role, o)
              /\ \E a \in Assigned(u, o, c.role) : Holds(r, Differing(x, v), a)
          BY <1>3, <3>2
        <4> HIDE DEF x, super
        <4> QED BY <4>1, <4>2
      <3> QED BY <3>1, <3>2
    <2> HIDE DEF x, super
    <2> QED BY <2>2, <2>3
  <1>5. PICK a :
          /\ w.deleted = None /\ Holds(r, Differing(w, v), a)
          /\ \/ a = NoPlan
             \/ c.role \in Roles /\ Available(c.role, o) /\ a \in Assigned(u, o, c.role)
    BY <1>11
  <1>6. /\ clock \in Nat /\ a.at \in Nat /\ a.at <= clock
        /\ \/ a.grants = None
           \/ /\ a.grants = [user |-> u, org |-> o, role |-> c.role]
              /\ c.role \in Roles /\ retired[c.role] = None /\ a.revokes = Active(u)
        /\ a.revokes \subseteq Active(u)
    <2>1. clock \in Nat
      BY DEF AInv, TypeOK
    <2>2. CASE a = NoPlan
      BY <2>1, <2>2 DEF NoPlan
    <2>3. CASE c.role \in Roles /\ Available(c.role, o) /\ a \in Assigned(u, o, c.role)
      <3> DEFINE same == {i \in Active(u) : assignment[i].org = o /\ assignment[i].role = c.role}
      <3>1. CASE same = {}
        <4>1. Active(u) \ same = Active(u)
          BY <3>1
        <4>2. a = Plan(Active(u), [user |-> u, org |-> o, role |-> c.role])
          BY <2>3, <3>1, <4>1 DEF Assigned
        <4> QED BY <2>1, <2>3, <4>2 DEF Plan, Available
      <3>2. CASE same # {}
        <4>1. PICK s \in SUBSET (Active(u) \ same) : a = Plan(s, None)
          BY <2>3, <3>2 DEF Assigned
        <4> QED BY <2>1, <4>1 DEF Plan
      <3> QED BY <3>1, <3>2
    <2> QED BY <1>5, <2>2, <2>3
  <1>7. /\ patch'[r] = Differing(w, v) /\ plan'[r] = a
        /\ entity' = entity /\ held' = held
        /\ DOMAIN entity' = Request /\ DOMAIN plan' = Request
        /\ \A q \in Request \ {r} : patch'[q] = patch[q] /\ plan'[q] = plan[q]
    BY <1>5 DEF Holds, AInv, IInv, TypeInv
  <1>8. Fits(patch[r])' /\ "deleted" \notin DOMAIN patch'[r]
    BY <1>2, <1>5, <1>7, DifferingFits DEF Fits
  <1>9. Planned(r)'
    <2>1. PlannedUpdate(r)'
      BY <1>1, <1>6, <1>7, <1>8, ReadsStand DEF PlannedUpdate, GrantsNew
    <2> QED
      BY <1>1, <1>6, <1>7, <2>1, ReadsStand
         DEF Planned, Waits, Edits, Rewrites, Creates
  <1>10. Current(r)'
    <2>1. UserStands(r)' /\ UpdateStands(r)' /\ AgainStands(r)' /\ UnuseStands(r)'
      BY <1>1, <1>2, ReadsStand DEF UserStands, UpdateStands, AgainStands, UnuseStands
    <2>2. RoleStands(r)'
      BY <1>1, <1>6, <1>7, ReadsStand DEF RoleStands, RoleOf
    <2>3. RevokesStand(r)'
      BY <1>1, <1>6, <1>7, ReadsStand DEF RevokesStand, Settles
    <2>4. RevokedStand(r)'
      BY <1>1, <1>6, <1>7, ReadsStand DEF RevokedStand
    <2> QED BY <1>1, <2>1, <2>2, <2>3, <2>4, ReadsStand DEF Current
  <1> QED BY <1>1, <1>6, <1>7, <1>9, <1>10, BeginKeeps

(* A deletion covers every assignment of the user.                          *)
LEMMA DeleteKeeps ==
  ASSUME AInv, IInv', NEW r \in Request, NEW u \in User, NEW o \in Org, DeleteUser(r, u, o)
  PROVE  AInv'
  <1> DEFINE v == user[u]
             w == [v EXCEPT !.deleted = r, !.status = "inactive"]
             a == Plan(Active(u), None)
  <1>1. /\ Begins(r, "delete", u, "ready") /\ Alive(v) /\ clock' = clock
        /\ Holds(r, Differing(w, v), a)
    BY DEF DeleteUser
  <1>2. v \in UserRow /\ v # None /\ v.deleted = None
    BY <1>1 DEF Alive, AInv, TypeOK
  <1>3. w \in UserRow /\ w.deleted = r /\ r # None
    BY <1>2, AccountsAssumption DEF UserRow
  <1>4. a.revokes = Active(u) /\ a.grants = None /\ a.at = clock /\ clock \in Nat
    BY DEF Plan, AInv, TypeOK
  <1>5. /\ patch'[r] = Differing(w, v) /\ plan'[r] = a
        /\ entity' = entity /\ held' = held
        /\ DOMAIN entity' = Request /\ DOMAIN plan' = Request
        /\ \A q \in Request \ {r} : patch'[q] = patch[q] /\ plan'[q] = plan[q]
    BY <1>1 DEF Holds, AInv, IInv, TypeInv
  <1> HIDE DEF a, w
  <1>6. /\ Fits(patch[r])'
        /\ "deleted" \in DOMAIN patch'[r] /\ patch'[r]["deleted"] = r
    BY <1>2, <1>3, <1>5, DifferingFits DEF Fits
  <1>7. Planned(r)'
    <2>1. PlannedDelete(r)'
      BY <1>4, <1>5, <1>6 DEF PlannedDelete
    <2> QED
      BY <1>1, <1>4, <1>5, <2>1, ReadsStand DEF Planned, Waits, Edits, Rewrites, Creates
  <1>8. Current(r)'
    <2>1. /\ UserStands(r)' /\ UpdateStands(r)' /\ AgainStands(r)' /\ UnuseStands(r)'
          /\ RoleStands(r)'
      BY <1>1, <1>2, <1>4, <1>5, ReadsStand
         DEF UserStands, UpdateStands, AgainStands, UnuseStands, RoleStands
    <2>2. RevokesStand(r)'
      BY <1>1, <1>4, <1>5, ReadsStand DEF RevokesStand
    <2>3. RevokedStand(r)'
      BY <1>1, <1>4, <1>5, ReadsStand DEF RevokedStand
    <2> QED BY <1>1, <2>1, <2>2, <2>3, ReadsStand DEF Current
  <1> QED BY <1>1, <1>4, <1>5, <1>7, <1>8, BeginKeeps

(* A restoration covers every assignment but the latest.                    *)
LEMMA RestoreKeeps ==
  ASSUME AInv, IInv', NEW r \in Request, NEW u \in User, NEW o \in Org,
         RestoreDeletedUser(r, u, o)
  PROVE  AInv'
  <1> DEFINE v == user[u]
             w == [v EXCEPT !.deleted = None, !.status = "active"]
             i == Latest(Restorable(u, o))
             a == Plan(Active(u) \ {i}, [again |-> i, revived |-> ~assignment[i].active])
  <1>1. /\ Begins(r, "restore", u, "ready") /\ v # None /\ ~Alive(v) /\ clock' = clock + 1
        /\ Restorable(u, o) # {} /\ Holds(r, Differing(w, v), a)
    BY DEF RestoreDeletedUser
  <1>2. v \in UserRow /\ v.deleted # None
    BY <1>1 DEF Alive, AInv, TypeOK
  <1>3. w \in UserRow /\ w.deleted = None
    BY <1>2 DEF UserRow
  <1>4. /\ i \in Request \cup User /\ assignment[i] # None /\ assignment[i].user = u
        /\ retired[assignment[i].role] = None
    <2>1. \A j \in Restorable(u, o) :
            /\ j \in Request \cup User /\ assignment[j] # None /\ assignment[j].user = u
            /\ retired[assignment[j].role] = None
            /\ assignment[j].at \in Nat /\ assignment[j].at <= clock
      BY DEF Restorable, Ids, Available, AInv, TypeOK, AssignmentRow, RowsInv
    <2>2. i \in Restorable(u, o)
      BY <1>1, <2>1, LatestIsOne DEF AInv, TypeOK
    <2> QED BY <2>1, <2>2
  <1> HIDE DEF i
  <1>5. /\ a.revokes = Active(u) \ {i} /\ a.at = clock /\ clock \in Nat
        /\ a.grants = [again |-> i, revived |-> ~assignment[i].active]
    BY DEF Plan, AInv, TypeOK
  <1>6. /\ patch'[r] = Differing(w, v) /\ plan'[r] = a
        /\ entity' = entity /\ held' = held
        /\ DOMAIN entity' = Request /\ DOMAIN plan' = Request
        /\ \A q \in Request \ {r} : patch'[q] = patch[q] /\ plan'[q] = plan[q]
    BY <1>1 DEF Holds, AInv, IInv, TypeInv
  <1> HIDE DEF a, w
  <1>7. /\ Fits(patch[r])'
        /\ "deleted" \in DOMAIN patch'[r] /\ patch'[r]["deleted"] = None
    BY <1>2, <1>3, <1>6, DifferingFits DEF Fits
  <1>8. Planned(r)'
    <2>1. PICK b \in BOOLEAN : a.grants = [again |-> i, revived |-> b]
      BY <1>5
    <2>2. GrantsAgain(r)'
      BY <1>4, <1>5, <1>6, <2>1 DEF GrantsAgain
    <2>3. PlannedRestore(r)'
      BY <1>7, <2>2 DEF PlannedRestore
    <2> QED
      BY <1>1, <1>5, <1>6, <2>3, ReadsStand DEF Planned, Waits, Edits, Rewrites, Creates
  <1>9. Current(r)'
    <2>1. UserStands(r)' /\ UpdateStands(r)' /\ UnuseStands(r)'
      BY <1>1, ReadsStand DEF UserStands, UpdateStands, UnuseStands
    <2>2. AgainStands(r)' /\ RoleStands(r)'
      BY <1>1, <1>4, <1>5, <1>6, ReadsStand DEF AgainStands, RoleStands, RoleOf
    <2>3. RevokesStand(r)'
      BY <1>1, <1>5, <1>6, ReadsStand DEF RevokesStand
    <2>4. RevokedStand(r)'
      BY <1>1, <1>5, <1>6, ReadsStand DEF RevokedStand
    <2> QED BY <1>1, <2>1, <2>2, <2>3, <2>4, ReadsStand DEF Current
  <1> QED BY <1>1, <1>5, <1>6, <1>8, <1>9, BeginKeeps

(* A new user has a role that is there, or none.                            *)
LEMMA CreateKeeps ==
  ASSUME AInv, IInv', NEW r \in Request, NEW op \in {"create", "signup"}, NEW u \in User,
         NEW w \in UserRow, NEW a, Begins(r, op, u, "ready"), Holds(r, w, a),
         w.deleted = None, a.revokes = {}, a.at \in Nat, a.at <= clock,
         \/ a.grants = None
         \/ \E o \in Org, p \in Roles : /\ a.grants = [user |-> u, org |-> o, role |-> p]
                                        /\ retired[p] = None,
         clock' = clock + 1
  PROVE  AInv'
  <1>1. /\ patch'[r] = w /\ plan'[r] = a
        /\ entity' = entity /\ held' = held
        /\ DOMAIN entity' = Request /\ DOMAIN plan' = Request
        /\ \A q \in Request \ {r} : patch'[q] = patch[q] /\ plan'[q] = plan[q]
    BY DEF Holds, AInv, IInv, TypeInv
  <1>2. Planned(r)'
    <2>1. PlannedCreate(r)'
      <3>1. call'[r].user = u
        BY ReadsStand
      <3>2. a.grants = None \/ a.grants \in [user : {u}, org : Org, role : Roles]
        <4>1. CASE a.grants # None
          <5>1. PICK o \in Org, p \in Roles : a.grants = [user |-> u, org |-> o, role |-> p]
            BY <4>1
          <5> QED BY <5>1
        <4> QED BY <4>1
      <3> QED BY <1>1, <3>1, <3>2 DEF PlannedCreate, GrantsNew
    <2>2. /\ Waits(r)' /\ Creates(r)' /\ ~Rewrites(r)' /\ call'[r].op \in {"create", "signup"}
          /\ pc'[r] = "ready"
      BY ReadsStand DEF Rewrites, Creates
    <2>3. plan'[r].at \in Nat /\ plan'[r].at <= clock'
      BY <1>1, ReadsStand
    <2> QED BY <2>1, <2>2, <2>3 DEF Planned
  <1>3. Current(r)'
    <2>1. /\ UserStands(r)' /\ UpdateStands(r)' /\ AgainStands(r)' /\ UnuseStands(r)'
          /\ RevokesStand(r)'
      BY ReadsStand DEF UserStands, UpdateStands, AgainStands, UnuseStands, RevokesStand,
                        Rewrites, Edits, Settles
    <2>2. RoleStands(r)'
      <3>1. call'[r].op # "restore" /\ retired' = retired
        BY ReadsStand
      <3>2. a.grants = None \/ retired[a.grants.role] = None
        <4>1. CASE a.grants # None
          <5>1. PICK o \in Org, p \in Roles :
                  a.grants = [user |-> u, org |-> o, role |-> p] /\ retired[p] = None
            BY <4>1
          <5> QED BY <5>1
        <4> QED BY <4>1
      <3> QED BY <1>1, <3>1, <3>2 DEF RoleStands, RoleOf
    <2>3. RevokedStand(r)'
      BY <1>1 DEF RevokedStand
    <2> QED BY <2>1, <2>2, <2>3, ReadsStand DEF Current
  <1>4. clock' \in Nat /\ clock <= clock'
    BY DEF AInv, TypeOK
  <1>5. "ready" \in {"consumed", "read", "ready"}
    OBVIOUS
  <1> QED BY <1>1, <1>2, <1>3, <1>4, <1>5, BeginKeeps

(* A request that begins with nothing planned yet.                          *)
LEMMA NoPlanYet ==
  ASSUME AInv, NEW r \in Request, NEW op, NEW u, NEW l,
         l \in {"consumed", "read", "ready"}, Begins(r, op, u, l), plan' = plan,
         clock' = clock
  PROVE  /\ plan'[r] = NoPlan /\ pc'[r] = l /\ call'[r].op = op /\ call'[r].user = u
         /\ user' = user /\ assignment' = assignment
         /\ DOMAIN entity = Request /\ DOMAIN plan' = Request
         /\ plan'[r].at \in Nat /\ plan'[r].at <= clock'
         /\ clock' \in Nat /\ clock <= clock'
         /\ RevokedStand(r)' /\ RoleStands(r)' /\ TokensStand(r)' /\ EmailStands(r)'
  <1>1. pc[r] = "idle" /\ pc'[r] = l /\ call'[r] = [op |-> op, user |-> u]
    BY DEF Begins, AInv, IInv, TypeInv
  <1>2. plan[r] = NoPlan
    BY <1>1 DEF AInv, Planned, Waits
  <1>3. clock \in Nat
    BY DEF AInv, TypeOK
  <1> QED
    BY <1>1, <1>2, <1>3 DEF Begins, rows, AInv, RevokedStand, RoleStands, TokensStand, EmailStands,
                            AgainStands, Waits, NoPlan

(* Every step that begins a request keeps the invariant.                    *)
LEMMA ReadKeepsPlans ==
  ASSUME AInv, IInv', NEW r \in Request, Read(r)
  PROVE  AInv'
  <1>1. ASSUME NEW u \in User, PublicSignup(r, u) PROVE AInv'
    <2> DEFINE w == [status |-> "inactive", password |-> None, super |-> FALSE,
                     org |-> r, deleted |-> None]
               a == Plan({}, [user |-> u, org |-> r, role |-> AdminRole])
    <2>1. /\ Begins(r, "signup", u, "ready") /\ Holds(r, w, a) /\ clock' = clock + 1
          /\ retired[AdminRole] = None
      BY <1>1 DEF PublicSignup
    <2>2. w \in UserRow /\ w.deleted = None
      BY DEF UserRow, Org
    <2>3. /\ a.revokes = {} /\ a.at = clock
          /\ a.grants = [user |-> u, org |-> r, role |-> AdminRole]
      BY DEF Plan
    <2>4. clock \in Nat /\ r \in Org /\ AdminRole \in Roles
      BY DEF AInv, TypeOK, Org, Roles
    <2>5. \E o \in Org, p \in Roles :
            a.grants = [user |-> u, org |-> o, role |-> p] /\ retired[p] = None
      BY <2>1, <2>3, <2>4
    <2> HIDE DEF w, a
    <2>6. a.at \in Nat /\ a.at <= clock
      BY <2>3, <2>4
    <2> QED BY <2>1, <2>2, <2>3, <2>5, <2>6, CreateKeeps
  <1>2. ASSUME NEW u \in User, NEW o \in Org, CreateUser(r, u, o) PROVE AInv'
    <2>1. Begins(r, "create", u, "ready") /\ clock' = clock + 1
      BY <1>2 DEF CreateUser
    <2>2. PICK status \in {"active", "inactive"} :
            LET new(s) == [status |-> status, password |-> r, super |-> s, org |-> o,
                           deleted |-> None]
            IN  \/ Holds(r, new(TRUE), NoPlan)
                \/ \E p \in Roles :
                     /\ Available(p, o)
                     /\ Holds(r, new(FALSE), Plan({}, [user |-> u, org |-> o, role |-> p]))
      BY <1>2 DEF CreateUser
    <2> DEFINE new(s) == [status |-> status, password |-> r, super |-> s, org |-> o,
                          deleted |-> None]
    <2>3. \A s \in BOOLEAN : new(s) \in UserRow /\ new(s).deleted = None
      BY DEF UserRow
    <2>4. clock \in Nat /\ clock <= clock /\ 0 <= clock
      BY DEF AInv, TypeOK
    <2>5. CASE Holds(r, new(TRUE), NoPlan)
      <3>1. NoPlan.revokes = {} /\ NoPlan.at \in Nat /\ NoPlan.at <= clock
            /\ NoPlan.grants = None
        BY <2>4 DEF NoPlan
      <3>2. new(TRUE) \in UserRow /\ new(TRUE).deleted = None
        BY <2>3
      <3> HIDE DEF new
      <3> QED BY <2>1, <2>5, <3>1, <3>2, CreateKeeps
    <2>6. ASSUME NEW p \in Roles, Available(p, o),
                 Holds(r, new(FALSE), Plan({}, [user |-> u, org |-> o, role |-> p]))
          PROVE  AInv'
      <3> DEFINE a == Plan({}, [user |-> u, org |-> o, role |-> p])
      <3>1. /\ a.revokes = {} /\ a.at \in Nat /\ a.at <= clock
            /\ a.grants = [user |-> u, org |-> o, role |-> p] /\ retired[p] = None
        BY <2>4, <2>6 DEF Plan, Available
      <3>2. new(FALSE) \in UserRow /\ new(FALSE).deleted = None
        BY <2>3
      <3>3. Holds(r, new(FALSE), a)
        BY <2>6
      <3> HIDE DEF new, a
      <3> QED BY <2>1, <3>1, <3>2, <3>3, CreateKeeps
    <2> QED BY <2>2, <2>5, <2>6
  <1>3. ASSUME NEW p \in Roles, DeleteOrganizationRole(r, p) PROVE AInv'
    <2>1. /\ Begins(r, "retire", p, "ready") /\ ~InUse(p)
          /\ UNCHANGED <<entity, patch, plan, held, clock>>
      BY <1>3 DEF DeleteOrganizationRole
    <2>2. Planned(r)'
      BY <2>1, NoPlanYet DEF Planned, Waits, Edits, Rewrites, Creates
    <2>3. Current(r)'
      BY <2>1, NoPlanYet DEF Current, UserStands, UpdateStands, RevokesStand, UnuseStands,
           AgainStands, Waits, Edits, Rewrites, Settles, InUse, Ids
    <2> QED BY <2>1, <2>2, <2>3, NoPlanYet, BeginKeeps
  <1>4. ASSUME NEW u \in User, ForgotPassword(r, u) PROVE AInv'
    <2>1. /\ Begins(r, "forgot", u, "ready")
          /\ UNCHANGED <<entity, patch, plan, held, clock>>
      BY <1>4 DEF ForgotPassword
    <2>2. Planned(r)'
      BY <2>1, NoPlanYet DEF Planned, Waits, Edits, Rewrites, Creates
    <2>3. Current(r)'
      BY <2>1, NoPlanYet DEF Current, UserStands, UpdateStands, RevokesStand, UnuseStands,
           AgainStands, Waits, Edits, Rewrites, Settles
    <2> QED BY <2>1, <2>2, <2>3, NoPlanYet, BeginKeeps
  <1>5. ASSUME NEW u \in User, ChangePassword(r, u) PROVE AInv'
    <2>1. /\ Begins(r, "change", u, "read") /\ Alive(user[u])
          /\ entity' = [entity EXCEPT ![r] = [user[u] EXCEPT !.password = r]]
          /\ UNCHANGED <<patch, plan, held, clock>>
      BY <1>5 DEF ChangePassword, Changeable
    <2>2. user[u] \in UserRow /\ user[u] # None /\ user[u].deleted = None
      BY <2>1 DEF Alive, AInv, TypeOK
    <2>3. [user[u] EXCEPT !.password = r] \in UserRow
          /\ [user[u] EXCEPT !.password = r].deleted = None
      BY <2>2 DEF UserRow
    <2>4. /\ entity'[r] \in UserRow /\ entity'[r].deleted = None
          /\ \A q \in Request \ {r} : entity'[q] = entity[q]
          /\ DOMAIN entity' = Request
      BY <2>1, <2>3 DEF AInv
    <2>5. Planned(r)'
      BY <2>1, <2>4, NoPlanYet DEF Planned, Waits, Edits, Rewrites, Creates
    <2>6. Current(r)'
      BY <2>1, <2>2, NoPlanYet DEF Current, UserStands, UpdateStands, RevokesStand,
           UnuseStands, AgainStands, Waits, Settles
    <2> QED BY <2>1, <2>4, <2>5, <2>6, NoPlanYet, BeginKeeps
  <1> QED BY <1>1, <1>2, <1>3, <1>4, <1>5, UpdateKeeps, DeleteKeeps, RestoreKeeps DEF Read

(* A token leads to an activation or to a reset.                            *)
LEMMA ConsumeKeeps ==
  ASSUME AInv, IInv', NEW r \in Request, NEW t \in Request, Consume(r, t)
  PROVE  AInv'
  <1>1. /\ Begins(r, token[t].purpose, token[t].user, "consumed")
        /\ held' = [held EXCEPT ![r] = {t}]
        /\ UNCHANGED <<entity, patch, plan, clock>>
    BY DEF Consume
  <1>2. token[t].purpose \in {"activate", "reset"}
    BY DEF Consume, AInv, TypeOK, TokenRow
  <1>3. \A q \in Request \ {r} : held'[q] = held[q]
    BY <1>1 DEF AInv, TypeOK
  <1>4. Planned(r)'
    BY <1>1, <1>2, NoPlanYet DEF Planned, Waits, Rewrites
  <1>5. Current(r)'
    BY <1>1, NoPlanYet DEF Current, UserStands, UpdateStands, RevokesStand,
         UnuseStands, AgainStands, Waits
  <1> QED BY <1>1, <1>3, <1>4, <1>5, NoPlanYet, BeginKeeps

-----------------------------------------------------------------------------
(* Working and failing                                                      *)

(* A request that fails leaves nothing behind.                              *)
LEMMA FailKeeps ==
  ASSUME AInv, IInv', NEW r \in Request, Open(r), Fails(r)
  PROVE  AInv'
  <1>1. Ends(r) /\ UNCHANGED <<rows, acts>>
    BY DEF Fails
  <1>2. pc'[r] = "done" /\ \A q \in Request \ {r} : pc'[q] = pc[q]
    BY <1>1 DEF Ends, AInv, TypeOK
  <1>3. TypeOK'
    BY <1>1 DEF AInv, IInv, TypeInv, TypeOK, Ends, rows
  <1>4. RowsInv'
    BY <1>1, <1>2 DEF AInv, RowsInv, rows, Ends
  <1>5. Promises'
    BY <1>1, <1>3, PromisesStay DEF AInv, rows, Ends
  <1>6. \A q \in Request : Gently(q)
    BY <1>1 DEF Gently, rows
  <1> QED BY <1>1, <1>3, <1>4, <1>5, <1>6, EndKeeps

(* The entity is one that is there when it is read.                         *)
LEMMA RedeemerKeeps ==
  ASSUME AInv, IInv', NEW r \in Request, ReadRedeemer(r)
  PROVE  AInv'
  <1> DEFINE v == user[call[r].user]
             w == [v EXCEPT !.password = r, !.status = "active"]
  <1>1. /\ pc[r] = "consumed" /\ pc' = [pc EXCEPT ![r] = "read"]
        /\ entity' = [entity EXCEPT ![r] = w]
        /\ UNCHANGED <<rows, call, patch, plan, held, clock, beside, acts>>
        /\ Alive(v)
    BY DEF ReadRedeemer, Activatable, Eligible
  <1>2. Planned(r) /\ Rewrites(r) /\ Open(r)
    BY <1>1 DEF AInv, Planned, Open
  <1>3. call[r].user \in User
    BY <1>1, <1>2 DEF AInv, IInv, Addressed, Rewrites
  <1>4. v \in UserRow /\ v # None /\ v.deleted = None
    BY <1>1, <1>3 DEF Alive, AInv, TypeOK
  <1>5. w \in UserRow /\ w.deleted = None
    BY <1>4 DEF UserRow
  <1>6. /\ pc'[r] = "read" /\ entity'[r] = w /\ DOMAIN entity' = Request
        /\ \A q \in Request \ {r} : entity'[q] = entity[q]
    BY <1>1 DEF AInv, TypeOK
  <1> HIDE DEF w
  <1>7. Planned(r)'
    BY <1>1, <1>2, <1>5, <1>6 DEF Planned, Waits, Rewrites
  <1>8. Current(r)'
    BY <1>1, <1>2, <1>4, <1>6 DEF Planned, Current, UserStands, EmailStands, UpdateStands, AgainStands,
         RevokedStand, RoleStands, RevokesStand, UnuseStands, TokensStand, Waits, NoPlan, rows
  <1> QED BY <1>1, <1>2, <1>6, <1>7, <1>8, WorkKeepsPlans

(* A patch taken from an entity that was not deleted deletes nobody.        *)
LEMMA ReloadKeeps ==
  ASSUME AInv, IInv', NEW r \in Request, Reload(r)
  PROVE  AInv'
  <1> DEFINE v == user[call[r].user]
  <1>1. /\ pc[r] = "read" /\ pc' = [pc EXCEPT ![r] = "ready"]
        /\ patch' = [patch EXCEPT ![r] = Differing(entity[r], v)]
        /\ UNCHANGED <<rows, call, entity, plan, held, clock, beside, acts>>
    BY DEF Reload
  <1>2. /\ Planned(r) /\ Rewrites(r) /\ Open(r) /\ UserStands(r)
        /\ plan[r] = NoPlan /\ entity[r] \in UserRow /\ entity[r].deleted = None
    BY <1>1 DEF AInv, Planned, Open, Waits, Current
  <1>3. call[r].user \in User
    BY <1>1, <1>2 DEF AInv, IInv, Addressed, Rewrites
  <1>4. v \in UserRow /\ v # None
    BY <1>1, <1>2, <1>3 DEF UserStands, AInv, TypeOK
  <1>5. /\ pc'[r] = "ready" /\ patch'[r] = Differing(entity[r], v)
        /\ \A q \in Request \ {r} : patch'[q] = patch[q]
    BY <1>1 DEF AInv, TypeOK, IInv, TypeInv
  <1>6. PlannedRewrite(r)'
    <2>1. Fits(patch[r])' /\ Undeletes(patch'[r])
      BY <1>2, <1>4, <1>5, DifferingFits DEF Fits, Undeletes
    <2> QED BY <1>1, <1>2, <2>1 DEF PlannedRewrite, Undeletes
  <1>7. Planned(r)'
    BY <1>1, <1>2, <1>5, <1>6 DEF Planned, Waits, Rewrites, Creates, Edits
  <1>8. Current(r)'
    BY <1>1, <1>2, <1>4, <1>5 DEF Current, UserStands, EmailStands, UpdateStands, AgainStands,
         RevokedStand, RoleStands, RevokesStand, UnuseStands, TokensStand, Waits, Rewrites, Settles,
         NoPlan, rows
  <1>9. DOMAIN entity' = Request
    BY <1>1 DEF AInv
  <1> QED BY <1>1, <1>2, <1>5, <1>7, <1>8, <1>9, WorkKeepsPlans

(* A flush finds the email of a new user free.                              *)
LEMMA FlushKeeps ==
  ASSUME AInv, IInv', NEW r \in Request, FlushUser(r)
  PROVE  AInv'
  <1>1. pc[r] = "ready" /\ Writes(r) /\ Open(r)
    BY DEF FlushUser, Open
  <1>2. CASE ~Accepted(r)
    BY <1>1, <1>2, FailKeeps DEF FlushUser
  <1>3. CASE Accepted(r)
    <2>1. /\ pc' = [pc EXCEPT ![r] = "flushed"]
          /\ UNCHANGED <<rows, call, entity, patch, plan, held, clock, beside, acts>>
      BY <1>3 DEF FlushUser
    <2>2. pc'[r] = "flushed"
      BY <2>1 DEF AInv, TypeOK
    <2>3. Planned(r) /\ Current(r)
      BY DEF AInv
    <2>4. /\ Waits(r) /\ Waits(r)'
          /\ Rewrites(r)' <=> Rewrites(r)
          /\ Edits(r)' <=> Edits(r)
          /\ Creates(r)' <=> Creates(r)
          /\ Settles(r)' <=> Settles(r)
      BY <1>1, <2>1, <2>2 DEF Waits, Rewrites, Edits, Creates, Settles
    <2>5. Planned(r)'
      <3>1. /\ PlannedUpdate(r)' <=> PlannedUpdate(r)
            /\ PlannedDelete(r)' <=> PlannedDelete(r)
            /\ PlannedRestore(r)' <=> PlannedRestore(r)
            /\ PlannedCreate(r)' <=> PlannedCreate(r)
            /\ PlannedRewrite(r)' <=> PlannedRewrite(r)
        BY <2>1 DEF PlannedUpdate, PlannedDelete, PlannedRestore, PlannedCreate,
             PlannedRewrite, GrantsNew, GrantsAgain
      <3> QED BY <2>1, <2>2, <2>3, <2>4, <3>1 DEF Planned
    <2>6. Current(r)'
      <3>1. EmailStands(r)'
        BY <1>3, <2>1, <2>4 DEF Accepted, EmailStands, rows
      <3>2. TokensStand(r)'
        BY <1>1, <2>1 DEF TokensStand, Writes, Creates
      <3>3. UserStands(r)' /\ UpdateStands(r)' /\ AgainStands(r)' /\ RoleStands(r)'
        BY <2>1, <2>2, <2>3, <2>4
           DEF Current, UserStands, UpdateStands, AgainStands, RoleStands, RoleOf, rows
      <3>4. RevokesStand(r)' /\ UnuseStands(r)'
        BY <2>1, <2>3, <2>4
           DEF Current, RevokesStand, UnuseStands, Active, Ids, Met, rows
      <3>5. RevokedStand(r)'
        BY <2>1, <2>3 DEF Current, RevokedStand, Ids, rows
      <3> QED BY <3>1, <3>2, <3>3, <3>4, <3>5 DEF Current
    <2>7. DOMAIN entity' = Request
      BY <2>1 DEF AInv
    <2> QED BY <1>1, <2>1, <2>5, <2>6, <2>7, WorkKeepsPlans
  <1> QED BY <1>2, <1>3

(* The tokens that are to be invalidated are all that are outstanding.      *)
LEMMA FlushForgotKeeps ==
  ASSUME AInv, IInv', NEW r \in Request, FlushForgot(r)
  PROVE  AInv'
  <1>1. /\ pc[r] = "ready" /\ call[r].op = "forgot" /\ Open(r)
        /\ held' = [held EXCEPT ![r] = Outstanding(call[r].user)]
        /\ pc' = [pc EXCEPT ![r] = "flushed"]
        /\ UNCHANGED <<rows, call, entity, patch, plan, clock, beside, acts>>
    BY DEF FlushForgot, Open
  <1>2. /\ pc'[r] = "flushed" /\ held'[r] = Outstanding(call[r].user)
        /\ \A q \in Request \ {r} : held'[q] = held[q]
    BY <1>1 DEF AInv, TypeOK
  <1>3. Planned(r)
    BY DEF AInv
  <1>4. Planned(r)'
    BY <1>1, <1>2, <1>3 DEF Planned, Waits, Rewrites, Creates, Edits
  <1>5. Outstanding(call[r].user)' = Outstanding(call[r].user)
    BY <1>1 DEF Outstanding, rows
  <1>6. plan[r] = NoPlan
    BY <1>1, <1>3 DEF Planned, Waits
  <1>7. Current(r)'
    BY <1>1, <1>2, <1>5, <1>6 DEF Current, UserStands, EmailStands, UpdateStands, AgainStands,
         RevokedStand, RoleStands, RevokesStand, UnuseStands, TokensStand, Waits, Rewrites, Edits, Creates,
         Settles, NoPlan
  <1>8. DOMAIN entity' = Request
    BY <1>1 DEF AInv
  <1> QED BY <1>1, <1>2, <1>4, <1>7, <1>8, WorkKeepsPlans

-----------------------------------------------------------------------------
(* Committing                                                               *)

(* What a commit makes of the user.                                         *)
LEMMA CommitsUser ==
  ASSUME AInv, NEW r \in Request, CommitUser(r)
  PROVE  /\ pc[r] = "flushed" /\ Writes(r) /\ Waits(r) /\ Open(r) /\ Writing(r) /\ Ends(r)
         /\ Rewrites(r) \/ Edits(r) \/ Creates(r)
         /\ Planned(r) /\ Current(r)
         /\ call[r].user \in User
         /\ user'[call[r].user] \in UserRow /\ user'[call[r].user] # None
         /\ Creates(r) => user[call[r].user] = None
         /\ ~Creates(r) => user[call[r].user] # None
         /\ (Creates(r) \/ call[r].op = "restore") => user'[call[r].user].deleted = None
         /\ call[r].op = "update" => user'[call[r].user].deleted = user[call[r].user].deleted
         /\ call[r].op = "delete" => user'[call[r].user].deleted = r
         /\ Rewrites(r) => user'[call[r].user].deleted \in {user[call[r].user].deleted, None}
         /\ \A u \in User : u # call[r].user => user'[u] = user[u]
  <1> DEFINE u == call[r].user
             v == user[u]
  <1>1. /\ pc[r] = "flushed" /\ Writes(r) /\ Waits(r) /\ Open(r) /\ Writing(r) /\ Ends(r)
        /\ Rewrites(r) \/ Edits(r) \/ Creates(r)
        /\ Planned(r) /\ Current(r)
    BY DEF CommitUser, Waits, Open, Writing, Writes, Rewrites, Edits, AInv
  <1>2. u \in User
    BY <1>1 DEF AInv, IInv, Addressed, Writes, Creates
  <1>3. user'[u] = NewUser(r) /\ \A x \in User : x # u => user'[x] = user[x]
    BY <1>2 DEF CommitUser, AInv, TypeOK
  <1>4. None \notin UserRow
    BY AccountsAssumption
  <1>5. CASE Creates(r)
    <2>1. NewUser(r) = patch[r] /\ PlannedCreate(r) /\ v = None
      BY <1>1, <1>5 DEF NewUser, Planned, Current, EmailStands
    <2>2. ~Rewrites(r) /\ call[r].op \in {"create", "signup"}
      BY <1>5 DEF Rewrites, Creates
    <2> QED BY <1>1, <1>2, <1>3, <1>4, <1>5, <2>1, <2>2 DEF PlannedCreate
  <1>6. CASE ~Creates(r)
    <2>1. NewUser(r) = Patched(v, patch[r])
      BY <1>6 DEF NewUser
    <2>2. v # None /\ v \in UserRow
      BY <1>1, <1>2, <1>6 DEF Current, UserStands, AInv, TypeOK
    <2>3. Fits(patch[r])
      BY <1>1, <1>6 DEF Planned, PlannedUpdate, PlannedDelete, PlannedRestore,
                        PlannedRewrite, Edits
    <2>4. user'[u] \in UserRow
      BY <1>3, <2>1, <2>2, <2>3 DEF Fits
    <2>5. user'[u].deleted = IF "deleted" \in DOMAIN patch[r] THEN patch[r]["deleted"]
                             ELSE v.deleted
      BY <1>3, <2>1, PatchedDeleted
    <2>6. /\ call[r].op = "update"  => "deleted" \notin DOMAIN patch[r]
          /\ call[r].op = "delete"  => "deleted" \in DOMAIN patch[r] /\ patch[r]["deleted"] = r
          /\ call[r].op = "restore" => "deleted" \in DOMAIN patch[r] /\ patch[r]["deleted"] = None
          /\ Rewrites(r) => ("deleted" \in DOMAIN patch[r] => patch[r]["deleted"] = None)
      BY <1>1 DEF Planned, PlannedUpdate, PlannedDelete, PlannedRestore, PlannedRewrite,
                  Undeletes
    <2> QED BY <1>1, <1>2, <1>3, <1>4, <1>6, <2>2, <2>4, <2>5, <2>6
  <1> QED BY <1>5, <1>6

(* The assignment a request grants, if it grants one.                       *)
Target(r) == IF call[r].op = "restore" THEN plan[r].grants.again ELSE r
Grants(r) == call[r].op \in {"update", "create", "signup", "restore"} /\ plan[r].grants # None

(* What the commit of r makes of assignment i.                              *)
Commits(r, i) ==
    /\ assignment'[i] \in AssignmentRow \cup {None}
    /\ assignment[i] # None => /\ assignment'[i] # None
                               /\ assignment'[i].user = assignment[i].user
                               /\ assignment'[i].role = assignment[i].role
    /\ assignment'[i] # None => /\ assignment'[i].at <= clock
                                /\ \/ i = r /\ assignment'[i].user = call[r].user
                                   \/ assignment[i] # None
    /\ (assignment'[i] # None /\ assignment'[i].active) =>
         \/ /\ assignment'[i] = assignment[i] /\ i \notin plan[r].revokes
            /\ ~(call[r].op = "restore" /\ i = plan[r].grants.again)
         \/ /\ Grants(r) /\ i = Target(r) /\ assignment'[i].by = r
            /\ assignment'[i].user = call[r].user
            /\ assignment'[i].role = RoleOf(r)

(* A commit makes of the assignments what was planned.                      *)
LEMMA CommitsAssignments ==
  ASSUME AInv, NEW r \in Request, CommitUser(r)
  PROVE  /\ DOMAIN assignment' = Request \cup User
         /\ \A i \in Request \cup User : Commits(r, i)
  <1>1. /\ pc[r] = "flushed" /\ Waits(r) /\ (Rewrites(r) \/ Edits(r) \/ Creates(r))
        /\ Planned(r) /\ Current(r) /\ call[r].user \in User
    BY CommitsUser
  <1>2. /\ DOMAIN assignment = Request \cup User
        /\ assignment' = WithPlan(r)
        /\ clock \in Nat /\ plan[r].at \in Nat /\ plan[r].at <= clock
    BY <1>1 DEF CommitUser, AInv, TypeOK, Planned
  <1>3. \A i \in Request \cup User : assignment[i] # None =>
          assignment[i] \in AssignmentRow /\ assignment[i].at <= clock
    BY DEF AInv, TypeOK, RowsInv
  <1>4. None \notin AssignmentRow
    BY AccountsAssumption
  <1>5. assignment[r] = None
    BY <1>1 DEF AInv, RowsInv
  <1>6. ASSUME NEW i \in Request \cup User, assignment[i] # None,
               assignment'[i] = [assignment[i] EXCEPT !.active = FALSE]
        PROVE  Commits(r, i)
    <2>1. PICK y : y = [assignment[i] EXCEPT !.active = FALSE]
      OBVIOUS
    <2>2. /\ y \in AssignmentRow /\ y.active = FALSE /\ y.user = assignment[i].user
          /\ y.role = assignment[i].role /\ y.at = assignment[i].at
      BY <1>3, <1>6, <2>1 DEF AssignmentRow
    <2>3. assignment'[i] = y
      BY <1>6, <2>1
    <2> QED BY <1>3, <1>4, <1>6, <2>2, <2>3 DEF Commits
  <1>11. ASSUME NEW i \in Request \cup User, assignment'[i] = assignment[i],
                i \notin plan[r].revokes,
                ~(call[r].op = "restore" /\ i = plan[r].grants.again)
         PROVE  Commits(r, i)
    BY <1>3, <1>11 DEF Commits
  <1>12. DOMAIN assignment' = Request \cup User
    BY <1>2 DEF WithPlan
  <1>7. \A i \in plan[r].revokes : i \in Request \cup User /\ assignment[i] # None
    BY <1>1, <1>2 DEF Current, RevokedStand, Ids
  <1>8. CASE plan[r].grants = None
    <2>1. \A i \in Request \cup User :
            assignment'[i] = IF i \in plan[r].revokes
                             THEN [assignment[i] EXCEPT !.active = FALSE] ELSE assignment[i]
      BY <1>2, <1>8 DEF WithPlan
    <2>2. call[r].op # "restore"
      <3>1. call[r].op = "restore" => plan[r].grants \in Grant
        BY <1>1 DEF Planned, PlannedRestore, GrantsAgain, Grant
      <3> QED BY <1>8, <3>1, AccountsAssumption
    <2> QED BY <1>6, <1>7, <1>11, <1>12, <2>1, <2>2
  <1>9. CASE plan[r].grants # None /\ call[r].op # "restore"
    <2> DEFINE g == plan[r].grants
               new == [user |-> g.user, org |-> g.org, role |-> g.role,
                       active |-> TRUE, at |-> plan[r].at, by |-> r]
    <2>1. /\ g \in [user : {call[r].user}, org : Org, role : Roles]
          /\ call[r].op \in {"update", "create", "signup"}
      BY <1>1, <1>9 DEF Planned, PlannedUpdate, PlannedDelete, PlannedCreate, PlannedRewrite,
                        GrantsNew, NoPlan, Edits, Creates
    <2>2. "role" \in DOMAIN g /\ "again" \notin DOMAIN g
      BY <2>1
    <2>3. /\ new \in AssignmentRow /\ new.user = call[r].user /\ new.role = g.role
          /\ new.by = r /\ new.at <= clock
      <3>1. g.user = call[r].user /\ g.org \in Org /\ g.role \in Roles
        BY <2>1
      <3> HIDE DEF g
      <3> QED BY <1>1, <1>2, <3>1 DEF AssignmentRow
    <2>5. new # None /\ new.role = RoleOf(r)
      BY <1>4, <1>9, <2>3 DEF RoleOf
    <2> HIDE DEF new
    <2>4. \A i \in Request \cup User :
            assignment'[i] = IF i = r THEN new
                             ELSE IF i \in plan[r].revokes
                             THEN [assignment[i] EXCEPT !.active = FALSE] ELSE assignment[i]
      BY <1>2, <1>9, <2>2 DEF WithPlan, new
    <2>6. Grants(r) /\ Target(r) = r
      BY <1>9, <2>1 DEF Grants, Target
    <2>7. assignment'[r] = new
      BY <2>4
    <2>8. Commits(r, r)
      BY <1>5, <2>3, <2>5, <2>6, <2>7 DEF Commits
    <2> QED BY <1>6, <1>7, <1>9, <1>11, <1>12, <2>4, <2>8
  <1>10. CASE plan[r].grants # None /\ call[r].op = "restore"
    <2> DEFINE k == plan[r].grants.again
               again == [assignment[k] EXCEPT !.active = plan[r].grants.revived \/ @,
                                              !.at = plan[r].at, !.by = r]
    <2>1. /\ plan[r].grants \in [again : Request \cup User, revived : BOOLEAN]
          /\ k \notin plan[r].revokes /\ assignment[k] # None
          /\ assignment[k].user = call[r].user
      BY <1>1, <1>10 DEF Planned, PlannedRestore, GrantsAgain, Current, AgainStands
    <2>2. /\ "role" \notin DOMAIN plan[r].grants /\ "again" \in DOMAIN plan[r].grants
          /\ k \in Request \cup User /\ plan[r].grants.revived \in BOOLEAN
      BY <2>1
    <2>3. /\ again \in AssignmentRow /\ again.user = call[r].user
          /\ again.role = assignment[k].role /\ again.by = r /\ again.at <= clock
          /\ again # None
      BY <1>2, <1>3, <1>4, <2>1, <2>2 DEF AssignmentRow
    <2>4. \A i \in Request \cup User :
            assignment'[i] = IF i \in plan[r].revokes
                             THEN [assignment[i] EXCEPT !.active = FALSE]
                             ELSE IF i = k THEN again ELSE assignment[i]
      BY <1>2, <1>10, <2>2 DEF WithPlan
    <2>6. Grants(r) /\ Target(r) = k /\ RoleOf(r) = assignment[k].role
      BY <1>10 DEF Grants, Target, RoleOf
    <2> HIDE DEF again, k
    <2>7. plan[r].grants.again = k
      BY DEF k
    <2>8. Commits(r, k)
      <3>1. assignment'[k] = again
        BY <2>1, <2>2, <2>4
      <3> QED BY <2>1, <2>3, <2>6, <3>1 DEF Commits
    <2> QED BY <1>6, <1>7, <1>11, <1>12, <2>4, <2>7, <2>8
  <1> QED BY <1>8, <1>9, <1>10

(* A commit's rows are rows.                                                *)
LEMMA CommitTyped ==
  ASSUME AInv, IInv', NEW r \in Request, CommitUser(r)
  PROVE  TypeOK' /\ RowsInv'
  <1> DEFINE u == call[r].user
  <1>1. /\ Ends(r) /\ u \in User /\ pc[r] = "flushed"
        /\ user'[u] \in UserRow /\ user'[u] # None
        /\ \A x \in User : x # u => user'[x] = user[x]
    BY CommitsUser
  <1>2. user' \in [User -> UserRow \cup {None}]
    <2>1. DOMAIN user' = User
      BY DEF CommitUser, AInv, TypeOK
    <2>2. user' = [x \in User |-> user'[x]]
      BY <2>1 DEF CommitUser, AInv, TypeOK
    <2>3. \A x \in User : user'[x] \in UserRow \cup {None}
      BY <1>1 DEF AInv, TypeOK
    <2> QED BY <2>2, <2>3
  <1>3. org' \in [Org -> {"pending", "active", None}]
    <2>1. \/ org' = [org EXCEPT ![r] = "pending"]
          \/ org' = [org EXCEPT ![entity[r].org] = "active"]
          \/ org' = org
      BY DEF CommitUser
    <2> QED BY <2>1 DEF AInv, TypeOK
  <1>4. assignment' \in [Request \cup User -> AssignmentRow \cup {None}]
    <2>1. assignment' = [i \in DOMAIN assignment |-> assignment'[i]]
      BY DEF CommitUser, WithPlan
    <2>2. DOMAIN assignment = Request \cup User
      BY DEF AInv, TypeOK
    <2> QED BY <2>1, <2>2, CommitsAssignments DEF Commits
  <1>5. /\ retired' = retired /\ clock' = clock /\ beside' = beside
    BY DEF CommitUser, Ends
  <1>6. TypeOK'
    BY <1>2, <1>3, <1>4, <1>5 DEF AInv, IInv, TypeInv, TypeOK
  <1>7. \A x \in User : user[x] # None => user'[x] # None
    BY <1>1
  <1>8. ASSUME NEW i \in Request \cup User, assignment'[i] # None
        PROVE  /\ user'[assignment'[i].user] # None
               /\ assignment'[i].at <= clock'
               /\ i \in Request => pc'[i] = "done"
    <2>1. Commits(r, i)
      BY CommitsAssignments
    <2>2. pc'[r] = "done" /\ \A q \in Request \ {r} : pc'[q] = pc[q]
      BY <1>1 DEF Ends, AInv, TypeOK
    <2>3. CASE assignment[i] # None
      <3>1. /\ assignment[i].user \in User /\ user[assignment[i].user] # None
            /\ i \in Request => pc[i] = "done"
        BY <2>3 DEF AInv, TypeOK, RowsInv, AssignmentRow
      <3> QED BY <1>5, <1>7, <1>8, <2>1, <2>2, <2>3, <3>1 DEF Commits
    <2>4. CASE assignment[i] = None
      BY <1>1, <1>5, <1>8, <2>1, <2>2, <2>4 DEF Commits
    <2> QED BY <2>3, <2>4
  <1>9. ASSUME NEW t \in Request, token'[t] # None, token'[t].purpose = "activate"
        PROVE  user'[token'[t].user] # None
    <2>1. CASE t \in held[r]
      <3>1. token[t] \in TokenRow /\ token[t] # None
        BY <2>1 DEF AInv, TypeOK, IInv, TokenInv, HeldIsOpen
      <3>2. token'[t] = [token[t] EXCEPT !.state = "consumed"]
        BY <2>1 DEF CommitUser
      <3>3. token'[t].user = token[t].user /\ token'[t].purpose = token[t].purpose
            /\ token[t].user \in User
        BY <3>1, <3>2 DEF TokenRow
      <3> QED BY <1>7, <1>9, <3>1, <3>3 DEF AInv, RowsInv
    <2>2. CASE t \notin held[r] /\ t = r /\ call[r].op = "signup"
      <3>1. token'[t] = [user |-> u, purpose |-> "activate", state |-> "open"]
        BY <2>2 DEF CommitUser
      <3> QED BY <1>1, <3>1
    <2>3. CASE t \notin held[r] /\ ~(t = r /\ call[r].op = "signup")
      <3>1. token'[t] = token[t]
        BY <2>3 DEF CommitUser
      <3>2. token[t].user \in User
        BY <1>9, <3>1 DEF AInv, TypeOK, TokenRow
      <3> QED BY <1>7, <1>9, <3>1, <3>2 DEF AInv, RowsInv
    <2> QED BY <2>1, <2>2, <2>3
  <1> QED BY <1>6, <1>8, <1>9 DEF RowsInv

(* Two requests that are open have met.                                     *)
LEMMA OpenMeet ==
  ASSUME AInv, NEW q \in Request, NEW r \in Request, q # r, Open(q), Open(r),
         beside' = beside
  PROVE  Meets(r, q) /\ Met(r, q)
  BY DEF AInv, Company, Meets, Met

(* What a commit changes, the requests beside it may see changed.           *)
LEMMA CommitIsGentle ==
  ASSUME AInv, NEW r \in Request, CommitUser(r), NEW q \in Request, q # r, Open(q)
  PROVE  Gently(q)
  <1> DEFINE u == call[r].user
  <1>1. /\ Open(r) /\ Ends(r) /\ Writing(r) /\ u \in User
        /\ user'[u] # None /\ \A x \in User : x # u => user'[x] = user[x]
    BY CommitsUser
  <1>2. Meets(r, q)
    <2>1. beside' = beside
      BY <1>1 DEF Ends
    <2> QED BY <1>1, <2>1, OpenMeet
  <1>3. ASSUME NEW x \in User
        PROVE  /\ user[x] # None => user'[x] # None
               /\ (user[x] # None /\ user'[x].deleted # None)
                    => user'[x].deleted = user[x].deleted \/ user'[x].deleted \in beside'[q]
    <2>1. CASE x # u
      BY <1>1, <2>1
    <2>2. CASE x = u
      <3>1. user[u] # None => user'[u].deleted \in {user[u].deleted, None, r}
        BY CommitsUser DEF Writing, Writes, Edits, Rewrites
      <3> QED BY <1>1, <1>2, <2>2, <3>1 DEF Meets
    <2> QED BY <2>1, <2>2
  <1>4. ASSUME pc[q] = "flushed", Creates(q)
        PROVE  user'[call[q].user] = user[call[q].user]
    <2>1. Writing(q) /\ call[q].user \in User
      BY <1>4 DEF Writing, Writes, Creates, AInv, IInv, Addressed
    <2>2. call[q].user # u
      BY <1>1, <2>1 DEF AInv, IInv, AdminInv, RowIsHeld
    <2> QED BY <1>1, <2>1, <2>2
  <1>5. ASSUME NEW i \in Request \cup User
        PROVE  /\ assignment[i] # None => /\ assignment'[i] # None
                                          /\ assignment'[i].user = assignment[i].user
                                          /\ assignment'[i].role = assignment[i].role
               /\ (assignment'[i] # None /\ assignment'[i].active) =>
                    \/ /\ assignment[i] # None /\ assignment[i].active
                       /\ assignment'[i].by = assignment[i].by
                    \/ assignment'[i].by \in Request /\ Meets(assignment'[i].by, q)
    BY <1>2, CommitsAssignments DEF Commits
  <1>6. ASSUME NEW t \in Request,
               token'[t] # None, token'[t].purpose = "reset", token'[t].state = "open"
        PROVE  token'[t] = token[t]
    <2>1. CASE t \in held[r]
      <3>1. token[t] \in TokenRow
        BY <2>1 DEF AInv, TypeOK, IInv, TokenInv, HeldIsOpen
      <3>2. token'[t] = [token[t] EXCEPT !.state = "consumed"]
        BY <2>1 DEF CommitUser
      <3>3. token'[t].state = "consumed"
        BY <3>1, <3>2 DEF TokenRow
      <3> QED BY <1>6, <3>3
    <2>2. CASE t \notin held[r] /\ t = r /\ call[r].op = "signup"
      <3>1. token'[t] = [user |-> u, purpose |-> "activate", state |-> "open"]
        BY <2>2 DEF CommitUser
      <3> QED BY <1>6, <3>1
    <2>3. CASE t \notin held[r] /\ ~(t = r /\ call[r].op = "signup")
      BY <2>3 DEF CommitUser
    <2> QED BY <2>1, <2>2, <2>3
  <1>7. retired' = retired
    BY DEF CommitUser
  <1> QED BY <1>3, <1>4, <1>5, <1>6, <1>7 DEF Gently

(* An assignment that is active after a commit stayed as it was, or is the  *)
(* one granted.                                                             *)
Stayed(r, i) ==
    /\ i \in Ids /\ assignment[i].active /\ assignment'[i] = assignment[i]
    /\ assignment[i] \in AssignmentRow /\ i \notin plan[r].revokes
    /\ ~(call[r].op = "restore" /\ i = plan[r].grants.again)
IsGranted(r, i) ==
    /\ Grants(r) /\ i = Target(r) /\ assignment'[i].by = r
    /\ assignment'[i].user = call[r].user /\ assignment'[i].role = RoleOf(r)

LEMMA StayedOrGranted ==
  ASSUME AInv, NEW r \in Request, CommitUser(r), NEW u \in User, NEW i \in Active(u)'
  PROVE  /\ Stayed(r, i) \/ IsGranted(r, i)
         /\ assignment'[i].user = u /\ assignment'[i] # None /\ i \in Request \cup User
  <1>1. /\ DOMAIN assignment' = Request \cup User
        /\ \A j \in Request \cup User : Commits(r, j)
    BY CommitsAssignments
  <1>2. /\ i \in Request \cup User /\ assignment'[i] # None /\ assignment'[i].active
        /\ assignment'[i].user = u
    BY <1>1 DEF Active, Ids
  <1>3. Commits(r, i) /\ DOMAIN assignment = Request \cup User
    BY <1>1, <1>2 DEF AInv, TypeOK
  <1>4. assignment'[i] \in AssignmentRow
    BY <1>2, <1>3 DEF Commits
  <1> QED BY <1>2, <1>3, <1>4 DEF Commits, Stayed, IsGranted, Ids

(* What stayed beside a grant or a deletion is due to a request beside it.  *)
LEMMA StayedMet ==
  ASSUME AInv, NEW r \in Request, CommitUser(r), NEW i, Stayed(r, i),
         assignment[i].user = call[r].user,
         Grants(r) \/ call[r].op = "delete"
  PROVE  assignment[i].by \in Request /\ Met(assignment[i].by, r)
  <1>1. /\ Waits(r) /\ Current(r)
        /\ Creates(r) => user[call[r].user] = None
    BY CommitsUser
  <1>2. i \in Active(call[r].user) \ plan[r].revokes
    BY DEF Stayed, Active
  <1>3. user[call[r].user] # None
    BY <1>2 DEF Active, Ids, AInv, RowsInv, TypeOK
  <1>4. Settles(r)
    BY <1>1, <1>3 DEF Grants, Settles, Creates
  <1> QED BY <1>1, <1>2, <1>4 DEF Current, RevokesStand, Stayed

(* A commit leaves a user one role, but for those granted beside it.        *)
LEMMA CommitOneRole ==
  ASSUME AInv, NEW r \in Request, CommitUser(r)
  PROVE  OneRole'
  <1>1. beside' = beside
    BY DEF CommitUser, Ends
  <1>2. r # None /\ None \notin Request
    BY AccountsAssumption
  <1>3. SUFFICES ASSUME NEW u \in User, NEW i \in Active(u)', NEW j \in Active(u)', i # j
                 PROVE  Beside(assignment'[i].by, assignment'[j].by)
    BY <1>1 DEF OneRole, Beside
  <1>4. /\ Stayed(r, i) \/ IsGranted(r, i)
        /\ Stayed(r, j) \/ IsGranted(r, j)
        /\ assignment'[i].user = u /\ assignment'[j].user = u
    BY <1>3, StayedOrGranted
  <1>5. CASE Stayed(r, i) /\ Stayed(r, j)
    <2>1. i \in Active(u) /\ j \in Active(u)
      BY <1>4, <1>5 DEF Stayed, Active
    <2>2. Beside(assignment[i].by, assignment[j].by)
      BY <1>3, <2>1 DEF AInv, Promises, OneRole
    <2> QED BY <1>5, <2>2 DEF Stayed
  <1>6. CASE Stayed(r, i) /\ IsGranted(r, j)
    <2>1. assignment[i].by \in Request /\ Met(assignment[i].by, r)
      BY <1>4, <1>6, StayedMet DEF Stayed, IsGranted
    <2> QED BY <1>2, <1>6, <2>1 DEF Stayed, IsGranted, Beside, Met
  <1>7. CASE IsGranted(r, i) /\ Stayed(r, j)
    <2>1. assignment[j].by \in Request /\ Met(assignment[j].by, r)
      BY <1>4, <1>7, StayedMet DEF Stayed, IsGranted
    <2> QED BY <1>2, <1>7, <2>1 DEF Stayed, IsGranted, Beside, Met
  <1>8. CASE IsGranted(r, i) /\ IsGranted(r, j)
    BY <1>3, <1>8 DEF IsGranted
  <1> QED BY <1>4, <1>5, <1>6, <1>7, <1>8

(* A commit leaves assignments lawful, but for what was deleted beside it.  *)
LEMMA CommitLawful ==
  ASSUME AInv, NEW r \in Request, CommitUser(r)
  PROVE  AssignmentsAreLawful'
  <1> DEFINE w == call[r].user
  <1>1. beside' = beside /\ retired' = retired
    BY DEF CommitUser, Ends
  <1>2. r # None /\ None \notin Request
    BY AccountsAssumption
  <1>3. SUFFICES ASSUME NEW u \in User, NEW i \in Active(u)'
                 PROVE  /\ retired[assignment'[i].role] # None
                            => Beside(retired[assignment'[i].role], assignment'[i].by)
                        /\ ~Alive(user'[u]) => Beside(user'[u].deleted, assignment'[i].by)
    BY <1>1 DEF AssignmentsAreLawful, Beside, Alive
  <1>4. /\ Stayed(r, i) \/ IsGranted(r, i)
        /\ assignment'[i].user = u
    BY <1>3, StayedOrGranted
  <1>5. /\ Waits(r) /\ Current(r) /\ w \in User
        /\ user'[w] # None
        /\ \A x \in User : x # w => user'[x] = user[x]
    BY CommitsUser
  <1>6. CASE Stayed(r, i)
    <2>1. i \in Active(u)
      BY <1>4, <1>6 DEF Stayed, Active
    <2>2. /\ retired[assignment[i].role] # None
               => Beside(retired[assignment[i].role], assignment[i].by)
          /\ ~Alive(user[u]) => Beside(user[u].deleted, assignment[i].by)
      BY <2>1 DEF AInv, Promises, AssignmentsAreLawful
    <2>3. ASSUME ~Alive(user'[u]) PROVE Beside(user'[u].deleted, assignment[i].by)
      <3>1. CASE u # w
        BY <1>5, <2>2, <2>3, <3>1
      <3>2. CASE u = w
        <4>1. user'[w].deleted # None
          BY <1>5, <2>3, <3>2 DEF Alive
        <4>2. user[w] # None
          BY <2>1, <3>2 DEF Active, Ids, AInv, RowsInv, TypeOK
        <4>3. CASE call[r].op = "delete"
          <5>1. user'[w].deleted = r
            BY <4>3, CommitsUser
          <5>2. assignment[i].by \in Request /\ Met(assignment[i].by, r)
            BY <1>4, <1>6, <3>2, <4>3, StayedMet DEF Stayed
          <5> QED BY <1>2, <3>2, <5>1, <5>2 DEF Beside, Met
        <4>4. CASE call[r].op # "delete"
          <5>1. user'[w].deleted = user[w].deleted
            BY <4>1, <4>4, CommitsUser DEF Edits
          <5>2. ~Alive(user[w])
            BY <4>1, <5>1 DEF Alive
          <5> QED BY <2>2, <3>2, <5>1, <5>2
        <4> QED BY <4>3, <4>4
      <3> QED BY <3>1, <3>2
    <2> QED BY <1>6, <2>2, <2>3 DEF Stayed
  <1>7. CASE IsGranted(r, i)
    <2>1. assignment'[i].by = r /\ assignment'[i].role = RoleOf(r) /\ u = w /\ Grants(r)
      BY <1>4, <1>7 DEF IsGranted
    <2>2. retired[RoleOf(r)] # None => Beside(retired[RoleOf(r)], r)
      BY <1>2, <1>5, <2>1 DEF Current, RoleStands, Beside, Grants
    <2>3. ASSUME ~Alive(user'[w]) PROVE Beside(user'[w].deleted, r)
      <3>1. user'[w].deleted # None
        BY <1>5, <2>3 DEF Alive
      <3>2. call[r].op = "update"
        BY <2>1, <3>1, CommitsUser DEF Grants, Creates
      <3>3. user'[w].deleted = user[w].deleted
        BY <3>2, CommitsUser
      <3> QED BY <1>2, <1>5, <3>1, <3>2, <3>3 DEF Current, UpdateStands, Beside
    <2> QED BY <2>1, <2>2, <2>3
  <1> QED BY <1>4, <1>6, <1>7

(* An activation token is the only one of its user.                         *)
LEMMA CommitTokens ==
  ASSUME AInv, IInv', NEW r \in Request, CommitUser(r)
  PROVE  OneOpenToken'
  <1>1. beside' = beside /\ IInv
    BY DEF CommitUser, Ends, AInv
  <1>2. call[r].op = "signup" => user[call[r].user] = None
    BY CommitsUser DEF Creates
  <1>3. ASSUME NEW t \in Request, token'[t] # None, token'[t].state = "open"
        PROVE  \/ token'[t] = token[t]
               \/ /\ t = r /\ call[r].op = "signup"
                  /\ token'[t] = [user |-> call[r].user, purpose |-> "activate", state |-> "open"]
    <2>1. t \in held[r] => token[t] \in TokenRow
      BY <1>1 DEF AInv, TypeOK, IInv, TokenInv, HeldIsOpen
    <2>2. t \in held[r] => token'[t] = [token[t] EXCEPT !.state = "consumed"]
      BY DEF CommitUser
    <2>3. t \notin held[r]
      BY <1>3, <2>1, <2>2 DEF TokenRow
    <2> QED BY <2>3 DEF CommitUser
  <1>4. SUFFICES ASSUME NEW t \in Request, NEW s \in Request,
                        t # s, token'[t] # None, token'[s] # None,
                        token'[t].purpose = token'[s].purpose,
                        token'[t].state = "open", token'[s].state = "open",
                        token'[t].user = token'[s].user
                 PROVE  Beside(t, s)
    BY <1>1 DEF OneOpenToken, Beside
  <1>5. CASE token'[t] = token[t] /\ token'[s] = token[s]
    BY <1>4, <1>5 DEF AInv, Promises, OneOpenToken
  <1>6. ASSUME NEW x \in Request, token'[x] # None, token'[x] = token[x],
               token'[x].purpose = "activate", token'[x].user = call[r].user,
               call[r].op = "signup"
        PROVE  FALSE
    BY <1>2, <1>6 DEF AInv, RowsInv
  <1>7. (token'[t] = token[t] \/ t = r) /\ (token'[s] = token[s] \/ s = r)
    BY <1>3, <1>4
  <1>8. CASE token'[t] # token[t]
    <2>1. /\ t = r /\ call[r].op = "signup" /\ token'[t].user = call[r].user
          /\ token'[t].purpose = "activate"
      BY <1>3, <1>4, <1>8
    <2>2. token'[s] = token[s]
      BY <1>4, <1>7, <2>1
    <2> QED BY <1>4, <1>6, <2>1, <2>2
  <1>9. CASE token'[s] # token[s]
    <2>1. /\ s = r /\ call[r].op = "signup" /\ token'[s].user = call[r].user
          /\ token'[s].purpose = "activate"
      BY <1>3, <1>4, <1>9
    <2>2. token'[t] = token[t]
      BY <1>4, <1>7, <2>1
    <2> QED BY <1>4, <1>6, <2>1, <2>2
  <1> QED BY <1>5, <1>8, <1>9

(* The commit of a request that writes a user.                              *)
LEMMA CommitKeeps ==
  ASSUME AInv, IInv', NEW r \in Request, CommitUser(r)
  PROVE  AInv'
  <1>1. Open(r) /\ Ends(r)
    BY CommitsUser
  <1>2. TypeOK' /\ RowsInv'
    BY CommitTyped
  <1>3. Promises'
    BY CommitOneRole, CommitLawful, CommitTokens DEF Promises
  <1>4. \A q \in Request \ {r} : Open(q) => Gently(q)
    BY CommitIsGentle
  <1> QED BY <1>1, <1>2, <1>3, <1>4, EndKeeps

(* A new reset token stands beside those that were issued beside it.        *)
LEMMA ForgotKeeps ==
  ASSUME AInv, IInv', NEW r \in Request, CommitForgot(r)
  PROVE  AInv'
  <1> DEFINE u == call[r].user
  <1>1. /\ pc[r] = "flushed" /\ call[r].op = "forgot" /\ Open(r) /\ Ends(r)
        /\ UNCHANGED <<user, org, retired, assignment, acts>>
        /\ clock' = clock /\ beside' = beside
    BY DEF CommitForgot, Open, Ends
  <1>2. PICK queued \in BOOLEAN :
          LET gone == held[r] \cup (IF queued THEN {} ELSE Outstanding(u)) IN
          token' = [t \in Request |->
            IF t = r THEN [user |-> u, purpose |-> "reset",
                           state |-> IF queued THEN "open" ELSE "invalidated"]
            ELSE IF t \in gone THEN [token[t] EXCEPT !.state = "invalidated"]
            ELSE token[t]]
    BY DEF CommitForgot
  <1> DEFINE gone == held[r] \cup (IF queued THEN {} ELSE Outstanding(u))
  <1>3. \A t \in gone : t \in Request /\ token[t] \in TokenRow /\ token[t] # None
    BY DEF AInv, TypeOK, IInv, TokenInv, HeldIsOpen, Outstanding
  <1>4. held[r] \subseteq gone
    OBVIOUS
  <1>5. ASSUME NEW t \in Request \ {r}
        PROVE  \/ token'[t] = token[t] /\ t \notin held[r]
               \/ /\ t \in gone /\ token'[t].state = "invalidated"
                  /\ token'[t].purpose = token[t].purpose /\ token'[t].user = token[t].user
    <2>1. CASE t \in gone
      <3>1. token'[t] = [token[t] EXCEPT !.state = "invalidated"]
        BY <1>2, <2>1
      <3> HIDE DEF gone
      <3> QED BY <1>3, <2>1, <3>1 DEF TokenRow
    <2>2. CASE t \notin gone
      BY <1>2, <1>4, <2>2
    <2> QED BY <2>1, <2>2
  <1>6. token'[r].purpose = "reset" /\ token'[r].user = u
    BY <1>2
  <1> HIDE DEF gone
  <1>7. pc'[r] = "done" /\ \A q \in Request \ {r} : pc'[q] = pc[q]
    BY <1>1 DEF Ends, AInv, TypeOK
  <1>8. TypeOK'
    BY <1>1 DEF AInv, IInv, TypeInv, TypeOK
  <1>9. RowsInv'
    <2>1. ASSUME NEW t \in Request, token'[t] # None, token'[t].purpose = "activate"
          PROVE  user'[token'[t].user] # None
      <3>1. t # r
        BY <1>6, <2>1
      <3>2. token[t] # None /\ token[t].purpose = "activate" /\ token'[t].user = token[t].user
        BY <1>3, <1>5, <2>1, <3>1
      <3> QED BY <1>1, <3>2 DEF AInv, RowsInv
    <2> QED BY <1>1, <1>7, <2>1 DEF AInv, RowsInv
  <1>10. Promises'
    <2>1. OneRole' /\ AssignmentsAreLawful'
      BY <1>1 DEF AInv, Promises, OneRole, AssignmentsAreLawful, Active, Ids, Beside, Alive
    <2>2. ASSUME NEW t \in Request \ {r}, token'[t] # None, token'[t].state = "open",
                 token'[t].purpose = "reset", token'[t].user = u
          PROVE  Met(t, r)
      <3>1. token'[t] = token[t] /\ t \notin held[r]
        BY <1>5, <2>2
      <3>2. t \in Outstanding(u)
        BY <2>2, <3>1 DEF Outstanding
      <3> QED BY <1>1, <3>1, <3>2 DEF AInv, Current, TokensStand
    <2>3. None \notin Request
      BY AccountsAssumption
    <2>4. ASSUME NEW t \in Request, NEW s \in Request,
                 t # s, token'[t] # None, token'[s] # None,
                 token'[t].purpose = token'[s].purpose,
                 token'[t].state = "open", token'[s].state = "open",
                 token'[t].user = token'[s].user
          PROVE  Beside(t, s)
      <3>1. CASE t = r
        <4>1. s \in Request \ {r} /\ token'[s].purpose = "reset" /\ token'[s].user = u
          BY <1>6, <2>4, <3>1
        <4> QED BY <2>2, <2>3, <2>4, <3>1, <4>1 DEF Beside, Met
      <3>2. CASE s = r
        <4>1. t \in Request \ {r} /\ token'[t].purpose = "reset" /\ token'[t].user = u
          BY <1>6, <2>4, <3>2
        <4> QED BY <2>2, <2>3, <2>4, <3>2, <4>1 DEF Beside, Met
      <3>3. CASE t # r /\ s # r
        <4>1. token'[t] = token[t] /\ token'[s] = token[s]
          BY <1>5, <2>4, <3>3
        <4> QED BY <2>4, <4>1 DEF AInv, Promises, OneOpenToken
      <3> QED BY <3>1, <3>2, <3>3
    <2> QED BY <1>1, <2>1, <2>4 DEF Promises, OneOpenToken, Beside
  <1>11. ASSUME NEW q \in Request \ {r}, Open(q) PROVE Gently(q)
    <2>1. Meets(r, q)
      BY <1>1, <1>11, OpenMeet
    <2>2. ASSUME NEW t \in Request,
                 token'[t] # None, token'[t].purpose = "reset", token'[t].state = "open"
          PROVE  token'[t] = token[t] \/ Meets(t, q)
      BY <1>5, <2>1, <2>2
    <2> QED BY <1>1, <2>2 DEF Gently
  <1> QED BY <1>1, <1>8, <1>9, <1>10, <1>11, EndKeeps

(* A role that is deleted is in use by requests beside the deletion.        *)
LEMMA RetireKeeps ==
  ASSUME AInv, IInv', NEW r \in Request, CommitRetire(r)
  PROVE  AInv'
  <1> DEFINE p == call[r].user
  <1>1. /\ pc[r] = "ready" /\ call[r].op = "retire" /\ Waits(r) /\ Open(r) /\ Ends(r)
        /\ retired' = [retired EXCEPT ![p] = r]
        /\ UNCHANGED <<user, org, assignment, token, acts>>
        /\ clock' = clock /\ beside' = beside
    BY DEF CommitRetire, Waits, Open, Ends
  <1>2. pc'[r] = "done" /\ \A q \in Request \ {r} : pc'[q] = pc[q]
    BY <1>1 DEF Ends, AInv, TypeOK
  <1>3. TypeOK'
    BY <1>1 DEF AInv, IInv, TypeInv, TypeOK
  <1>4. RowsInv'
    BY <1>1, <1>2 DEF AInv, RowsInv
  <1>5. \A x \in Roles : retired'[x] = IF x = p THEN r ELSE retired[x]
    BY <1>1 DEF AInv, TypeOK
  <1>6. Promises'
    <2>1. OneRole' /\ OneOpenToken'
      BY <1>1 DEF AInv, Promises, OneRole, OneOpenToken, Active, Ids, Beside
    <2>2. ASSUME NEW u \in User, NEW i \in Active(u)
          PROVE  /\ retired'[assignment[i].role] # None
                      => Beside(retired'[assignment[i].role], assignment[i].by)
                 /\ ~Alive(user[u]) => Beside(user[u].deleted, assignment[i].by)
      <3>1. i \in Ids /\ assignment[i].active /\ assignment[i].role \in Roles
        BY <2>2 DEF Active, Ids, AInv, TypeOK, AssignmentRow
      <3>2. assignment[i].role = p => assignment[i].by \in Request /\ Met(assignment[i].by, r)
        BY <1>1, <3>1 DEF AInv, Current, UnuseStands
      <3>3. None \notin Request
        BY AccountsAssumption
      <3>4. /\ retired[assignment[i].role] # None
                 => Beside(retired[assignment[i].role], assignment[i].by)
            /\ ~Alive(user[u]) => Beside(user[u].deleted, assignment[i].by)
        BY <2>2 DEF AInv, Promises, AssignmentsAreLawful
      <3> QED BY <1>5, <3>1, <3>2, <3>3, <3>4 DEF Beside, Met
    <2>3. AssignmentsAreLawful'
      BY <1>1, <2>2 DEF AssignmentsAreLawful, Active, Ids, Beside, Alive
    <2> QED BY <2>1, <2>3 DEF Promises
  <1>7. ASSUME NEW q \in Request \ {r}, Open(q) PROVE Gently(q)
    <2>1. Meets(r, q)
      BY <1>1, <1>7, OpenMeet
    <2> QED BY <1>1, <1>5, <2>1 DEF Gently, Meets
  <1> QED BY <1>1, <1>3, <1>4, <1>6, <1>7, EndKeeps

(* A token that expires is one less.                                        *)
LEMMA ExpireKeeps ==
  ASSUME AInv, IInv', NEW t \in Request, Expire(t)
  PROVE  AInv'
  <1>1. /\ token[t] # None /\ token' = [token EXCEPT ![t].state = "expired"]
        /\ UNCHANGED <<user, org, retired, assignment, request, clock, beside, acts>>
    BY DEF Expire
  <1>2. token[t] \in TokenRow
    BY <1>1 DEF AInv, TypeOK
  <1>3. /\ token'[t].state = "expired" /\ token'[t].user = token[t].user
        /\ token'[t].purpose = token[t].purpose
        /\ \A s \in Request \ {t} : token'[s] = token[s]
    BY <1>1, <1>2 DEF TokenRow, AInv, TypeOK
  <1>4. TypeOK'
    BY <1>1 DEF AInv, IInv, TypeInv, TypeOK, request
  <1>5. RowsInv'
    BY <1>1, <1>3 DEF AInv, RowsInv, request
  <1>6. \A s \in Request : (token'[s] # None /\ token'[s].state = "open")
          => token'[s] = token[s]
    BY <1>3
  <1>7. Promises'
    BY <1>1, <1>4, <1>6, PromisesStay DEF AInv
  <1>8. Company' /\ DOMAIN entity' = Request /\ DOMAIN plan' = Request
    BY <1>1, CompanyStays DEF AInv, request, Open
  <1>9. ASSUME NEW q \in Request PROVE Planned(q)' /\ Current(q)'
    <2>1. Gently(q)
      BY <1>1, <1>6 DEF Gently
    <2>2. /\ pc' = pc /\ call' = call /\ entity' = entity /\ patch' = patch /\ plan' = plan
          /\ held' = held /\ clock' = clock /\ beside' = beside /\ clock <= clock'
      BY <1>1 DEF request, AInv, TypeOK
    <2> QED BY <1>4, <2>1, <2>2, OthersStand
  <1> QED BY <1>4, <1>5, <1>7, <1>8, <1>9 DEF AInv

-----------------------------------------------------------------------------
(* The theorems                                                             *)

(* The first state satisfies the invariant: members have one role each.     *)
LEMMA InitAInv == Init => AInv
  <1> SUFFICES ASSUME Init PROVE AInv
    OBVIOUS
  <1>1. IInv
    BY InitIInv
  <1>2. user \in [User -> UserRow \cup {None}]
    BY AccountsAssumption DEF Init, UserRow, Org
  <1>3. assignment \in [Request \cup User -> AssignmentRow \cup {None}]
    BY AccountsAssumption DEF Init, AssignmentRow, Org
  <1>4. TypeOK
    BY <1>2, <1>3 DEF Init, TypeOK
  <1>5. /\ \A q \in Request : /\ pc[q] = "idle" /\ beside[q] = {} /\ plan[q] = NoPlan
                              /\ token[q] = None
        /\ clock = 1 /\ DOMAIN entity = Request /\ DOMAIN plan = Request
        /\ \A p \in Roles : retired[p] = None
    BY DEF Init
  <1>6. Company
    BY <1>5 DEF Company, Open
  <1>7. \A i \in Request \cup User : assignment[i] # None =>
          /\ i \in Member /\ i \notin Request /\ i \in User
          /\ assignment[i].user = i /\ assignment[i].role = FirstRole
          /\ assignment[i].at = 0
          /\ user[i] # None /\ user[i].deleted = None
    <2>1. ASSUME NEW i \in Member
          PROVE  /\ i \in User /\ i \notin Request /\ i \notin Founder
                 /\ user[i].deleted = None
                 /\ assignment[i].user = i /\ assignment[i].role = FirstRole
                 /\ assignment[i].at = 0
      BY AccountsAssumption DEF Init
    <2>2. ASSUME NEW i \in Member PROVE user[i] # None
      <3>1. i \in User /\ i \notin Founder
        BY <2>1, <2>2
      <3>2. user[i] = [status |-> "active", password |-> i, super |-> i \in Founder,
                       org |-> Home, deleted |-> None]
        BY <2>2, <3>1 DEF Init
      <3>3. user[i] \in UserRow
        BY <3>1, <3>2 DEF UserRow, Org
      <3> QED BY <3>3, AccountsAssumption
    <2>3. \A i \in Request \cup User : assignment[i] # None => i \in Member
      BY DEF Init
    <2> QED BY <2>1, <2>2, <2>3
  <1>8. RowsInv
    <2>1. 0 <= 1
      OBVIOUS
    <2> QED BY <1>5, <1>7, <2>1 DEF RowsInv
  <1>9. ASSUME NEW r \in Request PROVE Planned(r) /\ Current(r)
    BY <1>5 DEF Planned, Current, UserStands, EmailStands, UpdateStands, AgainStands,
         RevokedStand, RoleStands, RevokesStand, UnuseStands, TokensStand, Waits, NoPlan
  <1>10. ASSUME NEW u, NEW i \in Active(u)
         PROVE  i = u /\ retired[assignment[i].role] = None /\ Alive(user[u])
    <2>1. FirstRole \in Roles
      BY AccountsAssumption
    <2>2. DOMAIN assignment = Request \cup User
      BY <1>3
    <2>3. i \in Request \cup User /\ assignment[i] # None /\ assignment[i].user = u
      BY <1>10, <2>2 DEF Active, Ids
    <2> QED BY <1>5, <1>7, <2>1, <2>3 DEF Alive
  <1>11. Promises
    BY <1>5, <1>10 DEF Promises, OneRole, AssignmentsAreLawful, OneOpenToken
  <1> QED BY <1>1, <1>4, <1>5, <1>6, <1>8, <1>9, <1>11 DEF AInv

(* Every step keeps the invariant.                                          *)
LEMMA StepAInv == AInv /\ [Next]_vars => AInv'
  <1> SUFFICES ASSUME AInv, [Next]_vars PROVE AInv'
    OBVIOUS
  <1>1. IInv'
    BY StepIInv DEF AInv
  <1>2. CASE UNCHANGED vars
    <2>1. /\ pc' = pc /\ call' = call /\ entity' = entity /\ patch' = patch /\ plan' = plan
          /\ held' = held /\ clock' = clock /\ beside' = beside /\ UNCHANGED rows
          /\ acts' = acts
      BY <1>2 DEF vars, request
    <2>2. TypeOK' /\ RowsInv' /\ Company'
      BY <2>1 DEF AInv, TypeOK, RowsInv, Company, Open, rows
    <2>3. Promises'
      BY <2>1, <2>2, PromisesStay DEF AInv, rows
    <2>4. ASSUME NEW q \in Request PROVE Planned(q)' /\ Current(q)'
      <3>1. Gently(q) /\ clock <= clock'
        BY <2>1 DEF Gently, rows, AInv, TypeOK
      <3> QED BY <2>1, <2>2, <3>1, OthersStand
    <2> QED BY <1>1, <2>1, <2>2, <2>3, <2>4 DEF AInv
  <1>3. ASSUME NEW r \in Request, RejectRedeemer(r) PROVE AInv'
    <2>1. Open(r) /\ Fails(r)
      BY <1>3 DEF RejectRedeemer, Open
    <2> QED BY <1>1, <2>1, FailKeeps
  <1>4. CASE Next
    BY <1>1, <1>3, <1>4, ReadKeepsPlans, ConsumeKeeps, RedeemerKeeps, ReloadKeeps, FlushKeeps,
       FlushForgotKeeps, CommitKeeps, ForgotKeeps, RetireKeeps, ExpireKeeps DEF Next
  <1> QED BY <1>2, <1>4

(* Rows, plans and what the requests know keep to their types.              *)
THEOREM TypeCorrect == Spec => []TypeOK
  <1>1. AInv => TypeOK
    BY DEF AInv
  <1> QED BY InitAInv, StepAInv, <1>1, PTL DEF Spec

(* A user has two active assignments only by two requests that were under  *)
(* way at once.                                                             *)
THEOREM RolesReplaceEachOther == Spec => []OneRole
  <1>1. AInv => OneRole
    BY DEF AInv, Promises
  <1> QED BY InitAInv, StepAInv, <1>1, PTL DEF Spec

(* An active assignment is of a role and of a user that are not deleted,   *)
(* unless the request that made it was under way beside the deletion.       *)
THEOREM NothingIsAssignedToTheDeleted == Spec => []AssignmentsAreLawful
  <1>1. AInv => AssignmentsAreLawful
    BY DEF AInv, Promises
  <1> QED BY InitAInv, StepAInv, <1>1, PTL DEF Spec

(* Two tokens of a user and a purpose are open only if they were issued by *)
(* requests under way at once.                                              *)
THEOREM LatestTokenCounts == Spec => []OneOpenToken
  <1>1. AInv => OneOpenToken
    BY DEF AInv, Promises
  <1> QED BY InitAInv, StepAInv, <1>1, PTL DEF Spec

==============================================================================
