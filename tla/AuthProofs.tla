----------------------------- MODULE AuthProofs -----------------------------
(***************************************************************************)
(* The accounts, for every number of requests, every set of accounts,      *)
(* tokens and addresses, and both session managers: accounts are told      *)
(* apart by their addresses; refresh tokens are exchanged atomically, and  *)
(* twice only by overlapping requests; refusals and server errors have     *)
(* their causes.  The first part is about addresses alone, the second      *)
(* about what the requests have read, written and sent to their clients.   *)
(***************************************************************************)
EXTENDS Auth, StoreProofs

\* An address as the service stores it.
AddressOK(v) == "email" \in DOMAIN v /\ v.email # Null /\ Lower[v.email] = v.email

\* The users among some rows are named by their ids and have such addresses.
UsersOK(rows) ==
    \A row \in DOMAIN rows : row.table = "users" =>
        row = UserRow(row.id) /\ AddressOK(rows[row])

\* A statement for the users table inserts such a user, or updates one in view and leaves
\* its address alone.
StatementOK(r) ==
    LET p == session[r].pending
    IN  (p # NoStatement /\ p.row.table = "users") =>
          /\ p.row = UserRow(p.row.id)
          /\ "email" \in DOMAIN p.set => AddressOK(p.set)
          /\ p.row \in DOMAIN View(r) \/ "email" \in DOMAIN p.set

AccountsOK ==
    /\ UsersOK(table)
    /\ \A r \in Request : UsersOK(W(r)) /\ StatementOK(r)

\* A login that has checked its credentials has the user in view; the address of a
\* registration is one that clients send.
Position(r) ==
    /\ IsJob(job[r])
    /\ job[r].op = "login" => "user" \in DOMAIN job[r]
    /\ (job[r].op = "login" /\ job[r].pc = "stored") =>
         UserRow(job[r].user) \in DOMAIN View(r)
    /\ job[r].op = "register" => job[r].email \in Email

JobsOK == job = [r \in Request |-> job[r]] /\ \A r \in Request : Position(r)

\* The inductive invariant.
IInv == StoreInv /\ AccountsOK /\ JobsOK

-----------------------------------------------------------------------------
(* The accounts, under the steps of the store.                             *)

\* What a session sees of the users is as it should be.
LEMMA ViewOK ==
    ASSUME AccountsOK, NEW r \in Request
    PROVE  UsersOK(View(r))
<1>1. /\ DOMAIN View(r) = DOMAIN table \cup DOMAIN W(r)
      /\ \A x \in DOMAIN W(r) : View(r)[x] = W(r)[x]
      /\ \A x \in DOMAIN table \ DOMAIN W(r) : View(r)[x] = table[x]
  BY ViewFacts
<1> QED BY <1>1 DEF AccountsOK, UsersOK

\* The row of a statement, once it is executed.
LEMMA OutgoingOK ==
    ASSUME AccountsOK, NEW r \in Request, Waiting(r), session[r].pending.row.table = "users"
    PROVE  /\ session[r].pending.row = UserRow(session[r].pending.row.id)
           /\ AddressOK(Outgoing(r))
<1> DEFINE p == session[r].pending
<1>1. /\ p.row = UserRow(p.row.id)
      /\ "email" \in DOMAIN p.set => AddressOK(p.set)
      /\ p.row \in DOMAIN View(r) \/ "email" \in DOMAIN p.set
  BY DEF AccountsOK, StatementOK, Waiting
<1> HIDE DEF p
<1>2. CASE p.row \in DOMAIN View(r)
  <2>1. AddressOK(View(r)[p.row])
    BY <1>2, ViewOK DEF UsersOK, p
  <2>2. Outgoing(r) = Overlay(View(r)[p.row], p.set)
    BY <1>2 DEF Outgoing, p
  <2>3. Outgoing(r).email = IF "email" \in DOMAIN p.set THEN p.set.email
                            ELSE View(r)[p.row].email
    BY <2>1, <2>2 DEF Overlay, AddressOK
  <2>4. "email" \in DOMAIN Outgoing(r)
    <3>1. DOMAIN Overlay(View(r)[p.row], p.set) = DOMAIN View(r)[p.row] \cup DOMAIN p.set
      BY OverlayFacts
    <3> QED BY <2>1, <2>2, <3>1 DEF AddressOK
  <2> QED BY <1>1, <2>1, <2>3, <2>4 DEF AddressOK, p
<1>3. CASE p.row \notin DOMAIN View(r)
  BY <1>1, <1>3 DEF Outgoing, p
<1> QED BY <1>1, <1>2, <1>3 DEF p

\* Only an executed statement and a commit change what is stored.
LEMMA AccountsKept ==
    ASSUME StoreInv, AccountsOK, NEW r \in Request,
           \/ Quiet(r) /\ StatementOK(r)'
           \/ Execute(r)
           \/ Commit(r)
           \/ UNCHANGED <<table, session>>
    PROVE  AccountsOK'
<1>1. CASE UNCHANGED <<table, session>>
  BY <1>1 DEF AccountsOK, StatementOK, W, View, UsersOK, AddressOK
<1>2. CASE Quiet(r) /\ StatementOK(r)'
  <2>1. /\ table' = table
        /\ \A o \in Request : W(o)' = W(o) /\ View(o)' = View(o)
        /\ \A o \in Request \ {r} : session'[o] = session[o]
    BY <1>2 DEF Quiet, W, View, StoreInv, Sessions
  <2> QED BY <1>2, <2>1 DEF AccountsOK, StatementOK, UsersOK, AddressOK
<1>3. CASE Execute(r) /\ ~Duplicate(r)
  <2>1. /\ table' = table
        /\ \A o \in Request \ {r} : session'[o] = session[o] /\ W(o)' = W(o) /\ View(o)' = View(o)
        /\ session'[r].pending = NoStatement
        /\ DOMAIN W(r)' = DOMAIN W(r) \cup {session[r].pending.row}
        /\ W(r)'[session[r].pending.row] = Outgoing(r)
        /\ \A a \in DOMAIN W(r) \ {session[r].pending.row} : W(r)'[a] = W(r)[a]
    BY <1>3, ExecuteWrites DEF W, View
  <2>2. Waiting(r)
    BY <1>3 DEF Execute
  <2>3. UsersOK(W(r)')
    BY <2>1, <2>2, OutgoingOK DEF AccountsOK, UsersOK
  <2>4. StatementOK(r)'
    BY <2>1 DEF StatementOK, NoStatement
  <2>5. \A o \in Request \ {r} : UsersOK(W(o)') /\ StatementOK(o)'
    BY <2>1 DEF AccountsOK, StatementOK, UsersOK, AddressOK
  <2> QED BY <2>1, <2>3, <2>4, <2>5 DEF AccountsOK, UsersOK
<1>4. CASE Execute(r) /\ Duplicate(r)
  <2>1. Raise(r, "IntegrityError") /\ Live(r)
    BY <1>4 DEF Execute, Waiting, Live
  <2>2. /\ table' = table
        /\ \A o \in Request : W(o)' = W(o) /\ View(o)' = View(o)
        /\ \A o \in Request : session'[o].pending = session[o].pending
    BY <2>1 DEF Raise, W, View, StoreInv, Sessions, IsSession
  <2> QED BY <2>2 DEF AccountsOK, StatementOK, UsersOK, AddressOK
<1>5. CASE Commit(r)
  <2>1. /\ table' = View(r)
        /\ \A o \in Request : W(o)' = W(o) /\ session'[o].pending = session[o].pending
    BY <1>5 DEF Commit, W, StoreInv, Sessions, IsSession
  <2>2. UsersOK(table')
    BY <2>1, ViewOK
  <2>3. \A o \in Request : DOMAIN View(o) \subseteq DOMAIN View(o)'
    BY <1>5, ViewsGrow DEF StoreStep
  <2>4. \A o \in Request : UsersOK(W(o)')
    BY <2>1 DEF AccountsOK
  <2>5. \A o \in Request : StatementOK(o)'
    BY <2>1, <2>3 DEF AccountsOK, StatementOK, AddressOK
  <2> QED BY <2>2, <2>4, <2>5 DEF AccountsOK, UsersOK
<1> QED BY <1>1, <1>2, <1>3, <1>4, <1>5

-----------------------------------------------------------------------------
(* The steps of a coroutine.                                               *)

\* What a step of request r does to the store and to its own job.
Stepped(r) ==
    /\ \/ Quiet(r) /\ StatementOK(r)'
       \/ Execute(r)
       \/ Commit(r)
       \/ UNCHANGED <<table, session>>
    /\ job' = [job EXCEPT ![r] = job'[r]]
    /\ Position(r)'

\* Such a step keeps the inductive invariant.
LEMMA SteppedKeeps ==
    ASSUME IInv, NEW r \in Request, Stepped(r)
    PROVE  IInv'
<1>1. StoreStep
  BY DEF Stepped, StoreStep
<1>2. StoreInv'
  BY <1>1, StoreStepKeeps DEF IInv
<1>3. AccountsOK'
  BY AccountsKept DEF IInv, Stepped
<1>4. \A o \in Request : DOMAIN View(o) \subseteq DOMAIN View(o)'
  BY <1>1, ViewsGrow DEF IInv
<1>5. \A o \in Request \ {r} : job'[o] = job[o]
  BY DEF IInv, JobsOK, Stepped
<1>6. \A o \in Request : Position(o)'
  BY <1>4, <1>5 DEF IInv, JobsOK, Stepped, Position, IsJob
<1>7. job' = [o \in Request |-> job'[o]]
  BY DEF IInv, JobsOK, Stepped
<1> QED BY <1>2, <1>3, <1>6, <1>7 DEF IInv, JobsOK

\* A handler that raises.
LEMMA RaiseSteps ==
    ASSUME IInv, NEW r \in Request, NEW e, Running(r), Raise(r, e)
    PROVE  Stepped(r)
<1>1. Quiet(r)
  BY RaiseQuiet DEF IInv, Running, Live
<1>2. StatementOK(r)'
  BY DEF IInv, StoreInv, Sessions, IsSession, Running, Raise, StatementOK, NoStatement
<1>3. job' = [job EXCEPT ![r] = job'[r]] /\ job'[r] = job[r] /\ View(r)' = View(r)
  BY <1>1 DEF IInv, JobsOK, Raise, Quiet, View, StoreInv, Sessions
<1>4. Position(r)'
  BY <1>3 DEF IInv, JobsOK, Position, IsJob
<1> QED BY <1>1, <1>2, <1>3, <1>4 DEF Stepped

\* The coroutine of r goes on with job j, and with what its operation needs of it.
Continues(r, j) ==
    /\ job' = [job EXCEPT ![r] = j]
    /\ IsJob(j)
    /\ j.op = job[r].op
    /\ j.op = "login" => "user" \in DOMAIN j
    /\ (j.op = "login" /\ j.pc = "stored") => UserRow(j.user) \in DOMAIN View(r)
    /\ j.op = "register" => j.email = job[r].email

\* A handler that goes on without a statement.
LEMMA GoSteps ==
    ASSUME IInv, NEW r \in Request, NEW j, Continues(r, j), UNCHANGED <<table, session>>
    PROVE  Stepped(r)
<1>1. job'[r] = j /\ View(r)' = View(r)
  BY DEF IInv, JobsOK, Continues, View
<1>2. Position(r)'
  BY <1>1 DEF IInv, JobsOK, Continues, Position, IsJob
<1> QED BY <1>1, <1>2 DEF Stepped, Continues

\* A handler that sends a statement.
LEMMA StageSteps ==
    ASSUME IInv, NEW r \in Request, NEW j, Continues(r, j), NEW row, NEW set,
           Running(r), Stage(r, row, set), Mine(r, row),
           row.table = "users" =>
             /\ row = UserRow(row.id)
             /\ "email" \in DOMAIN set => AddressOK(set)
             /\ row \in DOMAIN View(r) \/ "email" \in DOMAIN set
    PROVE  Stepped(r)
<1>1. Quiet(r)
  BY StageQuiet DEF IInv
<1>2. /\ job'[r] = j /\ View(r)' = View(r)
      /\ session'[r].pending = [row |-> row, set |-> set]
  BY DEF IInv, JobsOK, StoreInv, Sessions, IsSession, Continues, View, Stage
<1>3. Position(r)'
  BY <1>2 DEF IInv, JobsOK, Continues, Position, IsJob
<1>4. StatementOK(r)'
  BY <1>2 DEF StatementOK, AddressOK
<1> QED BY <1>1, <1>2, <1>3, <1>4 DEF Stepped, Continues

\* Advancing a coroutine to a position other than a login's second.
LEMMA GoToOK ==
    ASSUME IInv, NEW r \in Request, NEW pc, GoTo(r, pc), pc # "stored"
    PROVE  \E j : Continues(r, j)
<1>1. IsJob(job[r])
  BY DEF IInv, JobsOK, Position
<1> DEFINE j == [job[r] EXCEPT !.pc = pc]
<1>2. job' = [job EXCEPT ![r] = j]
  BY DEF IInv, JobsOK, GoTo
<1>3. /\ IsJob(j) /\ j.op = job[r].op /\ j.pc = pc
      /\ j.email = job[r].email /\ DOMAIN j = DOMAIN job[r]
  BY <1>1 DEF IsJob
<1> HIDE DEF j
<1>4. job[r].op = "login" => "user" \in DOMAIN job[r]
  BY DEF IInv, JobsOK, Position
<1>5. Continues(r, j)
  BY <1>2, <1>3, <1>4 DEF Continues
<1> QED BY <1>5

-----------------------------------------------------------------------------
(* The operations.                                                         *)

\* Login: the user that was found stays in view until its login is stamped.
LEMMA LoginSteps ==
    ASSUME IInv, NEW r \in Request, Login(r)
    PROVE  Stepped(r)
<1>1. Running(r) /\ job[r].op = "login" /\ IsJob(job[r]) /\ "user" \in DOMAIN job[r]
  BY DEF Login, CheckCredentials, StampLogin, At, IInv, JobsOK, Position
<1>2. CASE CheckCredentials(r)
  <2>1. CASE Raise(r, "UnauthorizedException")
    BY <1>1, <2>1, RaiseSteps
  <2>2. ASSUME NEW row \in UsersByEmail(r, job[r].email), NEW set, NEW issued,
               Stage(r, TokenRow(r), set),
               job' = [job EXCEPT ![r].pc = "stored", ![r].user = row.id,
                                  ![r].issued = issued]
        PROVE  Stepped(r)
    <3> DEFINE j == [job[r] EXCEPT !["pc"] = "stored"]
               k == [j EXCEPT !["user"] = row.id]
               l == [k EXCEPT !["issued"] = issued]
    <3>1. job' = [job EXCEPT ![r] = l]
      BY <2>2 DEF IInv, JobsOK
    <3>2. IsJob(j) /\ j.op = "login" /\ j.pc = "stored" /\ "user" \in DOMAIN j
      BY <1>1 DEF IsJob
    <3> HIDE DEF j
    <3>3. IsJob(k) /\ k.op = "login" /\ k.pc = "stored" /\ "user" \in DOMAIN k
            /\ k.user = row.id
      BY <3>2 DEF IsJob
    <3> HIDE DEF k
    <3>4. IsJob(l) /\ l.op = "login" /\ "user" \in DOMAIN l /\ l.user = row.id
      BY <3>3 DEF IsJob
    <3> HIDE DEF l
    <3>5. row \in DOMAIN View(r) /\ row = UserRow(row.id)
      BY ViewOK DEF UsersByEmail, Users, IInv, UsersOK
    <3>6. Continues(r, l)
      BY <1>1, <3>1, <3>4, <3>5 DEF Continues
    <3>7. TokenRow(r).table = "refresh_tokens" /\ Mine(r, TokenRow(r))
      BY DEF TokenRow, RowOf, Mine
    <3> QED BY <1>1, <2>2, <3>6, <3>7, StageSteps
  <2> QED BY <1>2, <2>1, <2>2 DEF CheckCredentials
<1>3. CASE StampLogin(r)
  <2>1. PICK j : Continues(r, j)
    BY <1>3, GoToOK DEF StampLogin
  <2>2. UserRow(job[r].user) \in DOMAIN View(r)
    BY <1>1, <1>3 DEF StampLogin, At, IInv, JobsOK, Position
  <2>3. Mine(r, UserRow(job[r].user))
    BY <2>2, ViewFacts DEF IInv, StoreInv, OwnWork, Mine
  <2>4. UserRow(job[r].user) = UserRow(UserRow(job[r].user).id)
    BY DEF UserRow, RowOf
  <2>5. "email" \notin DOMAIN [last_login |-> r]
    OBVIOUS
  <2> QED BY <1>1, <1>3, <2>1, <2>2, <2>3, <2>4, <2>5, StageSteps DEF StampLogin
<1> QED BY <1>2, <1>3 DEF Login

\* Statements for the table of tokens leave the users alone.
LEMMA TokenSteps ==
    ASSUME IInv, NEW r \in Request, NEW j, Continues(r, j), Running(r),
           NEW row, NEW set, Stage(r, row, set),
           row \in StoredTokens(r) \cup {TokenRow(r)}
    PROVE  Stepped(r)
<1>1. row.table = "refresh_tokens"
  BY DEF StoredTokens, TokenRow, RowOf
<1>2. Mine(r, row)
  <2>1. CASE row \in DOMAIN View(r)
    <3>1. DOMAIN View(r) = DOMAIN table \cup DOMAIN W(r)
      BY ViewFacts
    <3> QED BY <2>1, <3>1 DEF IInv, StoreInv, OwnWork, Mine
  <2>2. CASE row = TokenRow(r)
    BY <2>2 DEF TokenRow, RowOf, Mine
  <2> QED BY <2>1, <2>2 DEF StoredTokens
<1> QED BY <1>1, <1>2, StageSteps

\* Refresh: revokes one token and stores another.
LEMMA RefreshSteps ==
    ASSUME IInv, NEW r \in Request, Refresh(r)
    PROVE  Stepped(r)
<1>1. Running(r) /\ job[r].op = "refresh" /\ IsJob(job[r])
  BY DEF Refresh, DecodeRefresh, LookUpToken, IssuePair, At, IInv, JobsOK, Position
<1>2. CASE Raise(r, "UnauthorizedException")
  BY <1>1, <1>2, RaiseSteps
<1>3. CASE DecodeRefresh(r)
  BY <1>2, <1>3, GoToOK, GoSteps DEF DecodeRefresh
<1>4. CASE LookUpToken(r)
  <2>1. ASSUME NEW row \in StoredTokens(r), NEW set, NEW user, Stage(r, row, set),
               job' = [job EXCEPT ![r].pc = "revoked", ![r].past = Committed,
                                  ![r].user = user]
        PROVE  Stepped(r)
    <3> DEFINE j == [job[r] EXCEPT !["pc"] = "revoked"]
               k == [j EXCEPT !["past"] = Committed]
               l == [k EXCEPT !["user"] = user]
    <3>1. job' = [job EXCEPT ![r] = l]
      BY <2>1 DEF IInv, JobsOK
    <3>2. IsJob(j) /\ j.op = "refresh"
      BY <1>1, Field
    <3> HIDE DEF j
    <3>3. IsJob(k) /\ k.op = "refresh"
      BY <3>2, Field
    <3> HIDE DEF k
    <3>4. IsJob(l) /\ l.op = "refresh"
      BY <3>3, Field
    <3> HIDE DEF l
    <3>5. Continues(r, l)
      BY <1>1, <3>1, <3>4 DEF Continues
    <3> QED BY <1>1, <2>1, <3>5, TokenSteps
  <2> QED BY <1>2, <1>4, <2>1 DEF LookUpToken, FindToken
<1>5. CASE IssuePair(r)
  <2>1. PICK set, issued :
          /\ Stage(r, TokenRow(r), set)
          /\ job' = [job EXCEPT ![r].pc = "done", ![r].issued = issued]
    BY <1>5 DEF IssuePair
  <2> DEFINE j == [job[r] EXCEPT !["pc"] = "done"]
             k == [j EXCEPT !["issued"] = issued]
  <2>2. job' = [job EXCEPT ![r] = k]
    BY <2>1 DEF IInv, JobsOK
  <2>3. IsJob(j) /\ j.op = "refresh"
    BY <1>1, Field
  <2> HIDE DEF j
  <2>4. IsJob(k) /\ k.op = "refresh"
    BY <2>3, Field
  <2> HIDE DEF k
  <2>5. Continues(r, k)
    BY <1>1, <2>2, <2>4 DEF Continues
  <2> QED BY <1>1, <2>1, <2>5, TokenSteps
<1> QED BY <1>3, <1>4, <1>5 DEF Refresh

\* Logout: revokes a token, then fails.
LEMMA LogoutSteps ==
    ASSUME IInv, NEW r \in Request, Logout(r)
    PROVE  Stepped(r)
<1>1. Running(r)
  BY DEF Logout, RevokeToken, DenyAccessToken, At
<1>2. CASE \E e : Raise(r, e)
  BY <1>1, <1>2, RaiseSteps
<1>3. CASE RevokeToken(r) /\ ~(\E e : Raise(r, e))
  <2>1. GoTo(r, "denylist")
    BY <1>3 DEF RevokeToken, Deny
  <2>2. PICK j : Continues(r, j)
    BY <2>1, GoToOK
  <2>3. \/ UNCHANGED <<table, session>>
        \/ \E row \in StoredTokens(r) : Stage(r, row, [revoked |-> TRUE])
    BY <1>3 DEF RevokeToken, Deny, TokensToRevoke
  <2> QED BY <1>1, <2>2, <2>3, GoSteps, TokenSteps
<1> QED BY <1>2, <1>3 DEF Logout, DenyAccessToken

\* Register: the address is stored in lower case.
LEMMA RegisterSteps ==
    ASSUME IInv, NEW r \in Request, Register(r)
    PROVE  Stepped(r)
<1>1. Running(r) /\ job[r].op = "register" /\ IsJob(job[r]) /\ job[r].email \in Email
  BY DEF Register, CheckEmail, InsertUser, At, IInv, JobsOK, Position
<1>2. CASE \E e : Raise(r, e)
  BY <1>1, <1>2, RaiseSteps
<1>3. CASE CheckEmail(r) /\ ~(\E e : Raise(r, e))
  <2>1. /\ job' = [job EXCEPT ![r].pc = "insert", ![r].past = Committed]
        /\ UNCHANGED <<table, session>>
    BY <1>3 DEF CheckEmail, Deny
  <2> DEFINE j == [job[r] EXCEPT !["pc"] = "insert"]
             k == [j EXCEPT !["past"] = Committed]
  <2>2. job' = [job EXCEPT ![r] = k]
    BY <2>1 DEF IInv, JobsOK
  <2>3. IsJob(j) /\ j.op = "register" /\ j.email = job[r].email
    BY <1>1 DEF IsJob
  <2> HIDE DEF j
  <2>4. IsJob(k) /\ k.op = "register" /\ k.email = job[r].email
    BY <2>3 DEF IsJob
  <2> HIDE DEF k
  <2>5. Continues(r, k)
    BY <1>1, <2>2, <2>4 DEF Continues
  <2> QED BY <2>1, <2>5, GoSteps
<1>4. CASE InsertUser(r)
  <2>1. PICK j : Continues(r, j)
    BY <1>4, GoToOK DEF InsertUser
  <2> DEFINE user == [email |-> Lower[job[r].email],
                      hashed_password |-> hash_password(job[r].password),
                      role |-> job[r].role, status |-> "active",
                      full_name |-> job[r].name, last_login |-> Null]
  <2>2. /\ user.email = Lower[job[r].email]
        /\ "email" \in DOMAIN user
    OBVIOUS
  <2>3. Stage(r, UserRow(r), user)
    BY <1>4 DEF InsertUser
  <2> HIDE DEF user
  <2>4. AddressOK(user)
    BY <1>1, <2>2, AuthAssumption DEF AddressOK
  <2>5. UserRow(r) = UserRow(UserRow(r).id) /\ Mine(r, UserRow(r))
    BY DEF UserRow, RowOf, Mine
  <2> QED BY <1>1, <2>1, <2>2, <2>3, <2>4, <2>5, StageSteps
<1> QED BY <1>2, <1>3, <1>4 DEF Register

\* The caller's own profile: only the name is written.
LEMMA MeSteps ==
    ASSUME IInv, NEW r \in Request, GetMe(r) \/ UpdateMe(r)
    PROVE  Stepped(r)
<1>1. Running(r)
  BY DEF GetMe, UpdateMe, At
<1>2. CASE \E e : Raise(r, e)
  BY <1>1, <1>2, RaiseSteps
<1>3. CASE GetMe(r) /\ ~(\E e : Raise(r, e))
  BY <1>3, GoToOK, GoSteps DEF GetMe, Deny
<1>4. CASE UpdateMe(r) /\ ~(\E e : Raise(r, e))
  <2> DEFINE row == UserRow(job[r].bearer.sub)
             set == [full_name |-> job[r].name]
  <2>1. row \in Users(r) /\ Stage(r, row, set) /\ GoTo(r, "done")
    BY <1>4 DEF UpdateMe, Deny
  <2>2. "email" \notin DOMAIN set
    OBVIOUS
  <2>3. PICK j : Continues(r, j)
    BY <2>1, GoToOK
  <2>4. row = UserRow(row.id)
    BY DEF UserRow, RowOf
  <2> HIDE DEF row, set
  <2>5. Mine(r, row) /\ row \in DOMAIN View(r)
    BY <2>1, ViewFacts DEF Users, IInv, StoreInv, OwnWork, Mine
  <2> QED BY <1>1, <2>1, <2>2, <2>3, <2>4, <2>5, StageSteps
<1> QED BY <1>2, <1>3, <1>4

\* A client sends a request.
LEMMA SubmitSteps ==
    ASSUME IInv, NEW r \in Request, Submit(r)
    PROVE  Stepped(r)
<1>1. PICK j \in Jobs : Arrive(r, j)
  BY DEF Submit
<1>2. /\ IsJob(j) /\ j.pc = "start"
      /\ j.op = "login" => "user" \in DOMAIN j
      /\ j.op = "register" => j.email \in Email
  BY DEF Jobs, LoginJob, RefreshJob, LogoutJob, RegisterJob, ReadMeJob, UpdateMeJob, IsJob
<1>3. job' = [job EXCEPT ![r] = j] /\ job'[r] = j
  BY <1>1 DEF Arrive, IInv, JobsOK
<1>4. Position(r)'
  BY <1>2, <1>3 DEF Position, IsJob
<1>5. Quiet(r)
  BY <1>1, ArriveQuiet DEF IInv
<1>6. session'[r].pending = NoStatement
  BY <1>1 DEF Arrive, IInv, StoreInv, Sessions, IsSession
<1>7. StatementOK(r)'
  BY <1>6 DEF StatementOK, NoStatement
<1> QED BY <1>3, <1>4, <1>5, <1>7 DEF Stepped

\* The steps of the database and of the session managers, and a handler that returns.
LEMMA StoreSteps ==
    ASSUME IInv, NEW r \in Request,
           Execute(r) \/ Commit(r) \/ Finish(r) \/ Discard(r) \/ DeadlockVictim(r) \/ Crash(r)
    PROVE  Stepped(r)
<1>1. job' = job
  BY DEF Execute, Raise, Commit, Finish, Respond, Discard, DeadlockVictim, Crash
<1>2. \/ Execute(r)
      \/ Commit(r)
      \/ Quiet(r) /\ session'[r].pending = session[r].pending /\ View(r)' = View(r)
  <2>1. CASE Finish(r)
    <3>1. PICK status : Respond(r, status) /\ Running(r)
      BY <2>1 DEF Finish, Done
    <3>2. session'[r].pending = session[r].pending
      BY <3>1 DEF Respond, IInv, StoreInv, Sessions, IsSession
    <3> QED BY <3>1, <3>2, RespondQuiet DEF IInv, Quiet, View
  <2>2. CASE Discard(r) \/ Crash(r)
    <3>1. session'[r].pending = session[r].pending
      BY <2>2 DEF Discard, Crash, IInv, StoreInv, Sessions, IsSession
    <3> QED BY <2>2, <3>1, DiscardQuiet DEF IInv, Quiet, View
  <2>3. CASE DeadlockVictim(r)
    <3>1. session'[r].pending = session[r].pending
      BY <2>3 DEF DeadlockVictim, Raise, IInv, StoreInv, Sessions, IsSession
    <3> QED BY <2>3, <3>1, VictimQuiet DEF IInv, Quiet, View
  <2> QED BY <2>1, <2>2, <2>3
<1>3. DOMAIN View(r) \subseteq DOMAIN View(r)'
  BY <1>2, ViewsGrow DEF StoreStep, IInv
<1>4. Position(r)'
  BY <1>1, <1>3 DEF IInv, JobsOK, Position, IsJob
<1>5. job' = [job EXCEPT ![r] = job'[r]]
  BY <1>1 DEF IInv, JobsOK
<1>6. CASE Quiet(r) /\ session'[r].pending = session[r].pending /\ View(r)' = View(r)
  <2>1. StatementOK(r)'
    BY <1>6 DEF IInv, AccountsOK, StatementOK, AddressOK
  <2> QED BY <1>4, <1>5, <1>6, <2>1 DEF Stepped
<1> QED BY <1>2, <1>4, <1>5, <1>6 DEF Stepped

-----------------------------------------------------------------------------
(* The whole service.                                                      *)

\* Every step keeps the inductive invariant.
LEMMA StepKeeps ==
    ASSUME IInv, [Next]_authVars
    PROVE  IInv'
<1>1. CASE UNCHANGED <<table, session, job>>
  <2>1. StoreInv'
    BY <1>1, StoreFrame DEF IInv
  <2>2. \A r \in Request : View(r)' = View(r) /\ W(r)' = W(r)
    BY <1>1 DEF View, W
  <2>3. AccountsOK'
    BY <1>1, <2>2 DEF IInv, AccountsOK, StatementOK, UsersOK, AddressOK
  <2>4. JobsOK'
    BY <1>1, <2>2 DEF IInv, JobsOK, Position, IsJob
  <2> QED BY <2>1, <2>3, <2>4 DEF IInv
<1>2. ASSUME NEW r \in Request, Submit(r) \/ Serve(r) \/ Crash(r)
      PROVE  IInv'
  <2>1. CASE Login(r) \/ Refresh(r) \/ Logout(r)
    BY <2>1, LoginSteps, RefreshSteps, LogoutSteps, SteppedKeeps
  <2>2. CASE Register(r) \/ GetMe(r) \/ UpdateMe(r)
    BY <2>2, RegisterSteps, MeSteps, SteppedKeeps
  <2>3. CASE Submit(r)
    BY <2>3, SubmitSteps, SteppedKeeps
  <2>4. CASE \/ Execute(r) \/ Commit(r) \/ Finish(r) \/ Discard(r)
             \/ DeadlockVictim(r) \/ Crash(r)
    BY <2>4, StoreSteps, SteppedKeeps
  <2> QED BY <1>2, <2>1, <2>2, <2>3, <2>4 DEF Serve
<1>3. CASE \E token \in Tokens : Expire(token)
  BY <1>1, <1>3 DEF Expire, storeVars
<1> QED BY <1>1, <1>2, <1>3 DEF Next, authVars

\* Rows are told apart by table and id.
LEMMA RowNames ==
    /\ \A id : UserRow(id).table = "users" /\ UserRow(id).id = id
    /\ \A id : TokenRow(id).table = "refresh_tokens" /\ TokenRow(id).id = id
    /\ \A rows : AuthRowsOK(rows) => \A row \in DOMAIN rows :
         \/ row = UserRow(row.id) /\ row.table = "users" /\ rows[row] \in UserValue
         \/ row = TokenRow(row.id) /\ row.table = "refresh_tokens" /\ rows[row] \in TokenValue
BY DEF UserRow, TokenRow, RowOf, AuthRowsOK

\* What is on file satisfies the inductive invariant.
LEMMA InitHolds ==
    ASSUME Init
    PROVE  IInv
<1>1. PICK m : session = [r \in Request |-> FreshSession(m)]
  BY DEF Init
<1>2. Distinct(table)
  BY AccountsAssumption DEF Init
<1>3. StoreInv
  BY <1>1, <1>2, InitStore
<1>4. UsersOK(table)
  <2> SUFFICES ASSUME NEW row \in DOMAIN table, row.table = "users"
               PROVE  row = UserRow(row.id) /\ AddressOK(table[row])
    BY DEF UsersOK
  <2>1. AuthRowsOK(table) /\ Lower[table[row].email] = table[row].email
    BY AccountsAssumption DEF Init
  <2>2. row = UserRow(row.id) /\ table[row] \in UserValue
    BY <2>1, RowNames
  <2> QED
    BY <2>1, <2>2, AuthAssumption DEF AddressOK, UserValue
<1>5. \A r \in Request : W(r) = NoRows /\ session[r].pending = NoStatement
  BY <1>1 DEF FreshSession, W
<1>6. DOMAIN NoRows = {}
  BY DEF NoRows
<1>7. AccountsOK
  BY <1>4, <1>5, <1>6 DEF AccountsOK, StatementOK, UsersOK
<1>8. JobsOK
  BY DEF Init, JobsOK, Position, NoJob, IsJob
<1> QED BY <1>3, <1>7, <1>8 DEF IInv

\* The inductive invariant holds throughout.
THEOREM Invariance == Spec => []IInv
<1>1. Init => IInv
  BY InitHolds
<1>2. IInv /\ [Next]_authVars => IInv'
  BY StepKeeps
<1> QED BY <1>1, <1>2, PTL DEF Spec

\* Two users with one address, however it is spelled, would share an entry of the unique
\* index of users: an address is one account, whatever registrations run concurrently.
THEOREM NoAddressTwice == Spec => []OneAccountPerAddress
<1>1. IInv => OneAccountPerAddress
  <2> SUFFICES ASSUME IInv,
                      NEW a \in DOMAIN table, a.table = "users",
                      NEW b \in DOMAIN table, b.table = "users",
                      Lower[table[a].email] = Lower[table[b].email], a # b
               PROVE  FALSE
    BY DEF OneAccountPerAddress
  <2>1. /\ table[a].email = table[b].email
        /\ table[a].email # Null
    BY DEF IInv, AccountsOK, UsersOK, AddressOK
  <2>2. <<"users", "email", table[a].email>> \in KeysOf(a, table[a]) \cap KeysOf(b, table[b])
    BY <2>1 DEF KeysOf, Unique
  <2>3. Distinct(table)
    BY DEF IInv, StoreInv
  <2> QED BY <2>2, <2>3 DEF Distinct
<1> QED BY <1>1, Invariance, PTL

-----------------------------------------------------------------------------
(* Tokens and accounts: what each session has written, sent and learned.   *)

Bearer == Token \cup {Garbage, Null}
Own(r) == {t \in Token : t.jti = r}

\* The jobs of a request, by operation.
NoJobs == [op : {"none"}, pc : {"start"}]
LoginJobs(r) ==
    [op : {"login"}, pc : {"start", "stored", "done"}, email : Email,
     password : Password, user : Id \cup {Null}, issued : SUBSET Own(r)]
RefreshJobs(r) ==
    [op : {"refresh"}, pc : {"start", "lookup", "revoked", "done"},
     token : Token \cup {Garbage}, user : Id \cup {Null}, issued : SUBSET Own(r),
     past : SUBSET Request]
LogoutJobs ==
    [op : {"logout"}, pc : {"start", "denylist"}, bearer : Bearer, token : Token \cup {Garbage}]
RegisterJobs ==
    [op : {"register"}, pc : {"start", "insert", "done"}, bearer : Bearer, email : Email,
     password : Password, role : UserRole, name : Name, past : SUBSET Request]
ReadMeJobs == [op : {"get_me"}, pc : {"start", "done"}, bearer : Bearer]
UpdateMeJobs == [op : {"update_me"}, pc : {"start", "done"}, bearer : Bearer, name : Name]
JobType(r) ==
    NoJobs \cup LoginJobs(r) \cup RefreshJobs(r) \cup LogoutJobs \cup RegisterJobs
      \cup ReadMeJobs \cup UpdateMeJobs

AnswerCodes == {NoAnswer, OK, CREATED, 401, 403, 404, 409, 500}

\* Session and job of a request have their types.
Typed(r) ==
    /\ session[r].state \in SessionState
    /\ session[r].manager \in AllManagers
    /\ session[r].answer \in AnswerCodes
    /\ AuthRowsOK(W(r))
    /\ job[r] \in JobType(r)

ActiveUser(id) == UserRow(id) \in DOMAIN table /\ table[UserRow(id)].status = "active"

\* The token that a refresh exchanges, the one that a request stores, and the account that
\* a registration stores.
Taken(r) == TokenRow(job[r].token.jti)
NewToken(r) == [token_hash |-> r, user |-> job[r].user, revoked |-> FALSE]
NewUser(r) ==
    [email |-> Lower[job[r].email], hashed_password |-> hash_password(job[r].password),
     role |-> job[r].role, status |-> "active", full_name |-> job[r].name,
     last_login |-> Null]

\* Only a logout, and a refresh that has looked it up, revoke a stored token.
MayRevoke(r, row) ==
    /\ row \in DOMAIN table /\ row.table = "refresh_tokens"
    /\ \/ job[r].op = "logout"
       \/ /\ job[r].op = "refresh" /\ job[r].pc \in {"revoked", "done"}
          /\ row = Taken(r) /\ table[row].user = job[r].user

\* A login or refresh that has sent its new token.
Issuing(r) == job[r].op \in {"login", "refresh"} /\ job[r].pc \in {"stored", "done"}

\* What a live session has written.
WritesOK(r) ==
    \A row \in DOMAIN W(r) :
        \/ /\ row = TokenRow(r) /\ Issuing(r)
           /\ W(r)[row] = NewToken(r)
        \/ /\ MayRevoke(r, row)
           /\ W(r)[row].revoked
           /\ W(r)[row].token_hash = table[row].token_hash
           /\ W(r)[row].user = table[row].user
        \/ /\ row = UserRow(r) /\ job[r].op = "register"
           /\ W(r)[row] = NewUser(r)
        \/ /\ row \in DOMAIN table /\ row.table = "users"
           /\ job[r].op \in {"login", "update_me"}
           /\ W(r)[row].email = table[row].email
           /\ W(r)[row].status = table[row].status

\* What a live session has sent.
SendsOK(r) ==
    LET row == session[r].pending.row
        set == session[r].pending.set
    IN  session[r].pending # NoStatement =>
          \/ /\ row = TokenRow(r) /\ Issuing(r)
             /\ set = NewToken(r) /\ row \notin DOMAIN W(r)
          \/ MayRevoke(r, row) /\ set = [revoked |-> TRUE]
          \/ /\ row = UserRow(r) /\ job[r].op = "register"
             /\ set = NewUser(r) /\ DOMAIN W(r) = {}
          \/ /\ row \in DOMAIN table /\ row.table = "users"
             /\ \/ job[r].op = "login" /\ set = [last_login |-> r]
                \/ job[r].op = "update_me" /\ set = [full_name |-> job[r].name]

\* A session has written a row, or sent the statement that will.
Wrote(r, row) ==
    \/ row \in DOMAIN W(r)
    \/ session[r].pending # NoStatement /\ session[r].pending.row = row

\* How far a request has come, and what it has done by then.
Progress(r) ==
    /\ session[r].state \in {"idle", "open"} => session[r].answer = NoAnswer
    /\ session[r].state \in {"returned", "committed", "discarded"} =>
         job[r].pc = "done" /\ session[r].pending = NoStatement
    /\ job[r].pc \in {"start", "lookup", "insert"} =>
         DOMAIN W(r) = {} /\ session[r].pending = NoStatement
    /\ job[r].op = "refresh" /\ job[r].pc # "start" =>
         job[r].token # Garbage /\ job[r].token.type = "refresh"
    /\ (Issuing(r) \/ (job[r].op = "refresh" /\ job[r].pc = "revoked")) =>
         job[r].user \in Id /\ ActiveUser(job[r].user)
    /\ (Live(r) /\ Issuing(r)) =>
         Wrote(r, TokenRow(r))
    /\ (Live(r) /\ job[r].op = "refresh" /\ job[r].pc \in {"revoked", "done"}) =>
         Wrote(r, Taken(r))

\* What is stored of a login or a refresh that has committed.
Stored(r) ==
    /\ (session[r].state = "committed" /\ job[r].op \in {"login", "refresh"}) =>
         TokenRow(r) \in DOMAIN table
    /\ (session[r].state = "committed" /\ job[r].op = "refresh") =>
         Taken(r) \in DOMAIN table /\ table[Taken(r)].revoked

\* Why a refresh may be refused, and who has overtaken a registration.
Cause(r) ==
    LET token == job[r].token IN
    \/ token = Garbage
    \/ token.type # "refresh"
    \/ token \in expired
    \/ ~WasStored(token)
    \/ \E o \in Request \ {r} : Exchanged(o, token.jti)
Overtaker(r, o) ==
    /\ o \in Committed \ job[r].past
    /\ job[o].op = "register" /\ Lower[job[o].email] = Lower[job[r].email]

\* What a request has seen of the others.
History(r) ==
    /\ job[r].op = "refresh" =>
         /\ job[r].token \in Presentable
         /\ job[r].past \subseteq Committed
         /\ job[r].token # Garbage =>
              \A o \in job[r].past : ~Exchanged(o, job[r].token.jti)
    /\ job[r].op = "register" =>
         /\ job[r].past \subseteq Committed
         /\ (session[r].state = "open" /\ job[r].pc # "start") =>
              \A row \in DOMAIN table :
                  (row.table = "users" /\ table[row].email = Lower[job[r].email]) =>
                      Overtaker(r, row.id)
    /\ (job[r].op = "refresh" /\ session[r].answer = 401) => Cause(r)
    /\ (job[r].op = "register" /\ session[r].answer = 500) => \E o \in Request : Overtaker(r, o)

RequestOK(r) ==
    /\ Typed(r) /\ Progress(r) /\ Stored(r) /\ History(r)
    /\ Live(r) => WritesOK(r) /\ SendsOK(r)

\* A token whose fate while requests are served is known: issued by one of them, or good
\* when they began.
Known(jti) == jti \in Request \/ GoodOnFile(jti)

\* What is stored: tokens under their own hashes, the work of committed requests only,
\* and tokens that are good until one of those exchanges them.
TableOK ==
    /\ AuthRowsOK(table)
    /\ \A row \in DOMAIN table :
         /\ row.table = "refresh_tokens" => table[row].token_hash = row.id
         /\ row.id \in Request =>
              /\ row.id \in Committed
              /\ row.table = "refresh_tokens" => job[row.id].op \in {"login", "refresh"}
              /\ row.table = "users" =>
                   /\ job[row.id].op = "register"
                   /\ table[row].email = Lower[job[row.id].email]
         /\ (row.table = "refresh_tokens" /\ Known(row.id)) =>
              /\ ActiveUser(table[row].user)
              /\ table[row].revoked => \E o \in Request : Exchanged(o, row.id)
    /\ \A jti \in OnFile : GoodOnFile(jti) => TokenRow(jti) \in DOMAIN table

\* The inductive invariant of the whole.
AuthInv ==
    /\ IInv
    /\ TableOK
    /\ \A r \in Request : RequestOK(r)
    /\ expired \subseteq Token

-----------------------------------------------------------------------------
(* What lasts.                                                             *)

Over(q) == session[q].state \in {"committed", "discarded"}

\* What every step leaves as it is: rows and whose they are, what is revoked, expired or
\* over.  New rows are those of a request that commits.
Grows ==
    /\ \A row \in DOMAIN table :
         /\ row \in DOMAIN table'
         /\ row.table = "refresh_tokens" =>
              /\ table'[row].token_hash = table[row].token_hash
              /\ table'[row].user = table[row].user
              /\ table[row].revoked => table'[row].revoked
         /\ row.table = "users" =>
              /\ table'[row].email = table[row].email
              /\ table'[row].status = table[row].status
    /\ \A row \in DOMAIN table' \ DOMAIN table : row.id \in Committed' \ Committed
    /\ \A q \in Request : Over(q) => session'[q] = session[q] /\ job'[q] = job[q]
    /\ expired \subseteq expired'

\* What can be said of requests that are over, and of users, stays true.
LEMMA Lasting ==
    ASSUME Grows
    PROVE  /\ Committed \subseteq Committed'
           /\ Presentable \subseteq Presentable'
           /\ \A o \in Request : \A jti : Exchanged(o, jti) => Exchanged(o, jti)'
           /\ \A o \in Committed : \A jti : Exchanged(o, jti)' => Exchanged(o, jti)
           /\ \A id : ActiveUser(id) => ActiveUser(id)'
           /\ \A r, o \in Request : job'[r] = job[r] /\ Overtaker(r, o) => Overtaker(r, o)'
<1>1. \A q \in Request : Over(q) => session'[q] = session[q] /\ job'[q] = job[q]
  BY DEF Grows
<1>2. Committed \subseteq Committed' /\ \A q \in Committed : job'[q] = job[q]
  BY <1>1 DEF Committed, Over
<1>3. Sent \subseteq Sent' /\ \A q \in Sent : job'[q] = job[q]
  BY <1>1 DEF Sent, Over
<1>4. Presentable \subseteq Presentable'
  BY <1>3 DEF Presentable, Tokens
<1>5. /\ \A o \in Request : \A jti : Exchanged(o, jti) => Exchanged(o, jti)'
      /\ \A o \in Committed : \A jti : Exchanged(o, jti)' => Exchanged(o, jti)
  BY <1>1 DEF Exchanged, Over, Committed
<1>6. \A id : ActiveUser(id) => ActiveUser(id)'
  BY RowNames DEF Grows, ActiveUser
<1>7. \A r, o \in Request : job'[r] = job[r] /\ Overtaker(r, o) => Overtaker(r, o)'
  BY <1>2 DEF Overtaker
<1> QED
  BY <1>2, <1>4, <1>5, <1>6, <1>7

\* A token that a client presents comes from a request that is over, or from earlier ones.
LEMMA Origin ==
    ASSUME AuthInv, NEW token \in Tokens
    PROVE  /\ token \in Token
           /\ \/ token.jti \in OnFile
              \/ /\ token.jti \in Request /\ Over(token.jti)
                 /\ job[token.jti].op \in {"login", "refresh"}
<1>1. CASE token \in OldTokens
  BY <1>1, AccountsAssumption
<1>2. CASE token \notin OldTokens
  <2>1. PICK q \in Request : /\ Over(q) /\ job[q].op \in {"login", "refresh"}
                             /\ token \in job[q].issued
    BY <1>2 DEF Tokens, Sent, Over
  <2>2. job[q].issued \subseteq Own(q)
    BY <2>1 DEF AuthInv, RequestOK, Typed, JobType, NoJobs, LoginJobs, RefreshJobs, LogoutJobs,
                RegisterJobs, ReadMeJobs, UpdateMeJobs
  <2> QED
    BY <2>1, <2>2 DEF Own
<1> QED
  BY <1>1, <1>2

\* A cause for a refusal stays one.
LEMMA CauseLasts ==
    ASSUME AuthInv, Grows, NEW r \in Request, job'[r] = job[r], job[r].op = "refresh", Cause(r)
    PROVE  Cause(r)'
<1> DEFINE token == job[r].token
<1>1. CASE token = Garbage \/ token.type # "refresh" \/ token \in expired
  BY <1>1 DEF Cause, Grows
<1>2. CASE \E o \in Request \ {r} : Exchanged(o, token.jti)
  BY <1>2, Lasting DEF Cause
<1>3. CASE ~WasStored(token) /\ token # Garbage
  <2>1. token \in Tokens
    BY <1>3 DEF AuthInv, RequestOK, History, Presentable
  <2>2. token.jti \in OnFile \/ (token.jti \in Request /\ Over(token.jti))
    BY <2>1, Origin
  <2>3. token.jti \notin Committed'
    BY <1>3, <2>2, StoreAssumption DEF WasStored, Committed, Grows, Over
  <2> QED
    BY <1>3, <2>3 DEF Cause, WasStored
<1> QED
  BY <1>1, <1>2, <1>3 DEF Cause

\* What is known of a request that does not move stays true.
LEMMA OthersKept ==
    ASSUME AuthInv, Grows, TableOK', NEW q \in Request,
           session'[q] = session[q], job'[q] = job[q]
    PROVE  RequestOK(q)'
<1>1. RequestOK(q) /\ W(q)' = W(q) /\ (Live(q)' <=> Live(q))
  BY DEF AuthInv, W, Live
<1>2. /\ \A row : MayRevoke(q, row) => MayRevoke(q, row)'
      /\ \A row : Wrote(q, row)' <=> Wrote(q, row)
      /\ (Issuing(q)' <=> Issuing(q)) /\ Taken(q)' = Taken(q) /\ NewToken(q)' = NewToken(q) /\ NewUser(q)' = NewUser(q)
  BY <1>1 DEF Wrote, Issuing, MayRevoke, Grows, Taken, NewToken, NewUser
<1>3. Typed(q)'
  BY <1>1 DEF RequestOK, Typed
<1>4. Progress(q)'
  BY <1>1, <1>2, Lasting DEF RequestOK, Progress
<1>5. Stored(q)'
  BY <1>1, <1>2, RowNames DEF RequestOK, Stored, Grows, Taken
<1>6. ASSUME Live(q) PROVE WritesOK(q)'
  <2>1. WritesOK(q)
    BY <1>1, <1>6 DEF RequestOK
  <2> QED
    BY <1>1, <1>2, <2>1 DEF WritesOK, MayRevoke, Grows
<1>7. ASSUME Live(q) PROVE SendsOK(q)'
  <2>1. SendsOK(q)
    BY <1>1, <1>7 DEF RequestOK
  <2> QED
    BY <1>1, <1>2, <2>1 DEF SendsOK, Grows
<1>8. ASSUME job[q].op = "refresh" PROVE History(q)'
  <2>1. /\ job[q].token \in Presentable /\ job[q].past \subseteq Committed
        /\ job[q].token # Garbage => \A o \in job[q].past : ~Exchanged(o, job[q].token.jti)
        /\ session[q].answer = 401 => Cause(q)
    BY <1>1, <1>8 DEF RequestOK, History
  <2>2. job[q].token # Garbage => \A o \in job[q].past : ~Exchanged(o, job[q].token.jti)'
    BY <2>1, Lasting
  <2>3. session[q].answer = 401 => Cause(q)'
    BY <1>8, <2>1, CauseLasts
  <2> QED
    BY <1>8, <2>1, <2>2, <2>3, Lasting DEF History
<1>9. ASSUME job[q].op = "register" PROVE History(q)'
  <2>1. /\ job[q].past \subseteq Committed
        /\ (session[q].state = "open" /\ job[q].pc # "start") =>
              \A row \in DOMAIN table :
                  (row.table = "users" /\ table[row].email = Lower[job[q].email]) =>
                      Overtaker(q, row.id)
        /\ session[q].answer = 500 => \E o \in Request : Overtaker(q, o)
    BY <1>1, <1>9 DEF RequestOK, History
  <2>2. ASSUME session[q].state = "open", job[q].pc # "start",
               NEW row \in DOMAIN table', row.table = "users",
               table'[row].email = Lower[job[q].email]
        PROVE  Overtaker(q, row.id)'
    <3>1. CASE row \in DOMAIN table
      <4>1. Overtaker(q, row.id)
        BY <2>1, <2>2, <3>1 DEF Grows
      <4> QED
        BY <4>1, Lasting DEF Overtaker, Committed
    <3>2. CASE row \notin DOMAIN table
      <4>1. row.id \in Committed' \ Committed /\ row.id \in Request
        BY <3>2 DEF Grows, Committed
      <4>2. job'[row.id].op = "register" /\ table'[row].email = Lower[job'[row.id].email]
        BY <2>2, <4>1 DEF TableOK
      <4> QED
        BY <2>1, <2>2, <4>1, <4>2 DEF Overtaker
    <3> QED
      BY <3>1, <3>2
  <2> QED
    BY <1>9, <2>1, <2>2, Lasting DEF History
<1> QED
  BY <1>1, <1>3, <1>4, <1>5, <1>6, <1>7, <1>8, <1>9 DEF RequestOK, History

-----------------------------------------------------------------------------
(* Steps of a request that change nothing of what is stored.               *)

Moves(r) ==
    /\ table' = table /\ expired \subseteq expired'
    /\ \A q \in Request \ {r} : session'[q] = session[q] /\ job'[q] = job[q]
    /\ ~Over(r) /\ session'[r].state # "committed"

\* They commit nothing.
LEMMA MovesGrow ==
    ASSUME NEW r \in Request, Moves(r)
    PROVE  Grows /\ Committed' = Committed
BY DEF Moves, Grows, Over, Committed

\* What is known of the stored rows stays true.
LEMMA TableKept ==
    ASSUME AuthInv, Grows, table' = table
    PROVE  TableOK'
<1>1. TableOK /\ Committed \subseteq Committed' /\ \A q \in Committed : job'[q] = job[q]
  BY Lasting DEF AuthInv, Grows, Over, Committed
<1>2. ASSUME NEW row \in DOMAIN table, row.table = "refresh_tokens", Known(row.id)
      PROVE  /\ ActiveUser(table[row].user)'
             /\ table[row].revoked => \E o \in Request : Exchanged(o, row.id)'
  <2>1. /\ ActiveUser(table[row].user)
        /\ table[row].revoked => \E o \in Request : Exchanged(o, row.id)
    BY <1>1, <1>2 DEF TableOK
  <2> QED
    BY <2>1, Lasting DEF ActiveUser
<1> QED
  BY <1>1, <1>2 DEF TableOK

\* Only the request that moves is left to look at.
LEMMA MovesKeep ==
    ASSUME AuthInv, IInv', NEW r \in Request, Moves(r), RequestOK(r)', expired' \subseteq Token
    PROVE  AuthInv'
<1>1. Grows /\ TableOK'
  BY MovesGrow, TableKept DEF Moves
<1>2. ASSUME NEW q \in Request \ {r} PROVE RequestOK(q)'
  BY <1>1, OthersKept DEF Moves
<1> QED
  BY <1>1, <1>2 DEF AuthInv

\* A session that ends without a commit.
LEMMA EndKeeps ==
    ASSUME AuthInv, NEW r \in Request, Live(r), Moves(r), job'[r] = job[r],
           \/ session'[r].state = "failed"
           \/ session'[r].state = "discarded" /\ session[r].state = "returned",
           session'[r].writes = session[r].writes, session'[r].pending = session[r].pending,
           session'[r].manager = session[r].manager,
           session'[r].answer \in AnswerCodes,
           job[r].op = "refresh" /\ session'[r].answer = 401 => Cause(r),
           job[r].op = "register" /\ session'[r].answer = 500 =>
             \E o \in Request : Overtaker(r, o)
    PROVE  RequestOK(r)'
<1>1. Grows /\ RequestOK(r) /\ W(r)' = W(r) /\ ~Live(r)'
  BY MovesGrow DEF AuthInv, W, Live
<1>2. Typed(r)'
  BY <1>1 DEF RequestOK, Typed, SessionState
<1>3. (Issuing(r)' <=> Issuing(r)) /\ Stored(r)'
  BY DEF Issuing, Stored
<1>4. Progress(r)'
  BY <1>1, <1>3, Lasting DEF RequestOK, Progress
<1>5. History(r)'
  <2>1. CASE job[r].op = "refresh"
    <3>1. /\ job[r].token \in Presentable /\ job[r].past \subseteq Committed
          /\ job[r].token # Garbage => \A o \in job[r].past : ~Exchanged(o, job[r].token.jti)
      BY <1>1, <2>1 DEF RequestOK, History
    <3>2. session'[r].answer = 401 => Cause(r)'
      BY <1>1, <2>1, CauseLasts
    <3> QED
      BY <1>1, <2>1, <3>1, <3>2, Lasting DEF History
  <2>2. CASE job[r].op = "register"
    BY <1>1, <2>2, Lasting DEF RequestOK, History
  <2> QED
    BY <2>1, <2>2 DEF History
<1> QED
  BY <1>1, <1>2, <1>3, <1>4, <1>5 DEF RequestOK

\* A handler that goes on, with or without a statement.
LEMMA GoKeeps ==
    ASSUME AuthInv, NEW r \in Request, Running(r), Moves(r),
           session'[r].state = "open", session'[r].writes = session[r].writes,
           session'[r].manager = session[r].manager, session'[r].answer = session[r].answer,
           job'[r] \in JobType(r), WritesOK(r)', SendsOK(r)', Progress(r)', History(r)'
    PROVE  RequestOK(r)'
BY DEF AuthInv, RequestOK, Typed, SessionState, Stored, W

\* What a session sees has its types, and is what is stored before its first statement.
LEMMA Seen ==
    ASSUME AuthInv, NEW r \in Request
    PROVE  /\ AuthRowsOK(View(r))
           /\ DOMAIN W(r) = {} => /\ DOMAIN View(r) = DOMAIN table
                                  /\ \A row \in DOMAIN table : View(r)[row] = table[row]
<1>1. AuthRowsOK(table) /\ AuthRowsOK(W(r))
  BY DEF AuthInv, TableOK, RequestOK, Typed
<1> QED
  BY <1>1, ViewFacts DEF AuthRowsOK

\* The job of a request has the fields of its operation.
LEMMA JobOf ==
    ASSUME AuthInv, NEW r \in Request
    PROVE  /\ job[r].op = "login" => job[r] \in LoginJobs(r)
           /\ job[r].op = "refresh" => job[r] \in RefreshJobs(r)
           /\ job[r].op = "logout" => job[r] \in LogoutJobs
           /\ job[r].op = "register" => job[r] \in RegisterJobs
           /\ job[r].op = "get_me" => job[r] \in ReadMeJobs
           /\ job[r].op = "update_me" => job[r] \in UpdateMeJobs
BY DEF AuthInv, RequestOK, Typed, JobType, NoJobs, LoginJobs, RefreshJobs, LogoutJobs,
       RegisterJobs, ReadMeJobs, UpdateMeJobs

\* Nothing of a request is stored before it has committed.
LEMMA Unstored ==
    ASSUME AuthInv, NEW r \in Request, r \notin Committed
    PROVE  TokenRow(r) \notin DOMAIN table /\ UserRow(r) \notin DOMAIN table
BY RowNames DEF AuthInv, TableOK

-----------------------------------------------------------------------------
(* What the handlers do, in these terms.                                   *)

\* The statuses of the exceptions that are raised.
LEMMA Statuses ==
    /\ StatusOf("UnauthorizedException") = 401 /\ StatusOf("TokenExpiredException") = 401
    /\ StatusOf("ForbiddenException") = 403 /\ StatusOf("ResourceNotFoundException") = 404
    /\ StatusOf("ConflictException") = 409 /\ StatusOf("AttributeError") = 500
    /\ StatusOf("IntegrityError") = 500 /\ StatusOf("DBAPIError") = 500
BY DEF StatusOf, StatusOfCode, DefaultCode, StatusCodeMap, HandlerStatus

\* A request that its token does not admit.
LEMMA Denied ==
    /\ \A token : BearerError(token) # Null => StatusOf(BearerError(token)) = 401
    /\ \A token, roles : RoleError(token, roles) # Null =>
         StatusOf(RoleError(token, roles)) \in {401, 403}
BY Statuses DEF BearerError, RoleError

\* An exception that leaves a handler, or that the database raises.
LEMMA RaiseKeeps ==
    ASSUME AuthInv, NEW r \in Request, NEW e, Live(r), Raise(r, e), UNCHANGED expired,
           StatusOf(e) \in AnswerCodes,
           job[r].op = "refresh" /\ StatusOf(e) = 401 => Cause(r),
           job[r].op = "register" /\ StatusOf(e) = 500 => \E o \in Request : Overtaker(r, o)
    PROVE  Moves(r) /\ RequestOK(r)'
<1>1. session = [q \in Request |-> session[q]] /\ IsSession(session[r])
  BY DEF AuthInv, IInv, StoreInv, Sessions
<1>2. /\ \A q \in Request \ {r} : session'[q] = session[q]
      /\ session'[r].state = "failed" /\ session'[r].answer = StatusOf(e)
      /\ session'[r].writes = session[r].writes /\ session'[r].pending = session[r].pending
      /\ session'[r].manager = session[r].manager
      /\ table' = table /\ job' = job
  BY <1>1 DEF Raise, IsSession
<1>3. Moves(r)
  BY <1>2 DEF Moves, Live, Over
<1> QED
  BY <1>2, <1>3, EndKeeps

\* A statement that is sent.
LEMMA StageFields ==
    ASSUME AuthInv, NEW r \in Request, NEW row, NEW set, Stage(r, row, set)
    PROVE  /\ \A q \in Request \ {r} : session'[q] = session[q]
           /\ session'[r].state = session[r].state /\ session'[r].answer = session[r].answer
           /\ session'[r].writes = session[r].writes /\ session'[r].manager = session[r].manager
           /\ session'[r].pending.row = row /\ session'[r].pending.set = set
           /\ table' = table
<1>1. session = [q \in Request |-> session[q]] /\ IsSession(session[r])
  BY DEF AuthInv, IInv, StoreInv, Sessions
<1> QED
  BY <1>1 DEF Stage, IsSession

\* A step that leaves the store alone.
LEMMA SameFields ==
    ASSUME UNCHANGED <<table, session>>, NEW r \in Request
    PROVE  /\ \A q \in Request : session'[q] = session[q]
           /\ table' = table
OBVIOUS

\* A job is replaced, the others stay.
LEMMA JobFields ==
    ASSUME AuthInv, NEW r \in Request, NEW j, job' = [job EXCEPT ![r] = j]
    PROVE  job'[r] = j /\ \A q \in Request \ {r} : job'[q] = job[q]
<1>1. job = [q \in Request |-> job[q]]
  BY DEF AuthInv, IInv, JobsOK
<1> QED
  BY <1>1

\* The coroutine of r advances.
LEMMA GoToFields ==
    ASSUME AuthInv, NEW r \in Request, NEW pc, GoTo(r, pc)
    PROVE  job'[r] = [job[r] EXCEPT !.pc = pc] /\ \A q \in Request \ {r} : job'[q] = job[q]
<1>1. job' = [job EXCEPT ![r] = [job[r] EXCEPT !.pc = pc]]
  BY DEF GoTo, AuthInv, IInv, JobsOK
<1> QED
  BY <1>1, JobFields

\* A handler other than those of refresh and register has no history to keep.
LEMMA NoHistory ==
    ASSUME NEW r \in Request, job[r].op \notin {"refresh", "register"}, job'[r].op = job[r].op
    PROVE  History(r)'
BY DEF History

\* The two updates of profiles.
LEMMA ProfileKeeps ==
    ASSUME AuthInv, NEW r \in Request, GetMe(r) \/ UpdateMe(r), UNCHANGED expired
    PROVE  Moves(r) /\ RequestOK(r)'
<1>1. /\ Running(r) /\ Live(r) /\ ~Over(r) /\ job[r].pc = "start"
      /\ session[r].state = "open" /\ session[r].pending = NoStatement
      /\ GetMe(r) => job[r].op = "get_me"
      /\ UpdateMe(r) => job[r].op = "update_me"
      /\ job[r].op \in {"get_me", "update_me"}
  BY DEF GetMe, UpdateMe, At, Running, Live, Over
<1>2. DOMAIN W(r) = {} /\ DOMAIN View(r) = DOMAIN table
  BY <1>1, Seen DEF AuthInv, RequestOK, Progress
<1>3. CASE \E e : Raise(r, e) /\ StatusOf(e) \in AnswerCodes
  BY <1>1, <1>3, RaiseKeeps
<1>4. ASSUME Deny(r, BearerError(job[r].bearer)) PROVE Moves(r) /\ RequestOK(r)'
  BY <1>3, <1>4, Denied DEF Deny, AnswerCodes
<1>5. CASE GetMe(r) /\ GoTo(r, "done") /\ UNCHANGED <<table, session>>
  <2>1. job'[r] = [job[r] EXCEPT !.pc = "done"] /\ \A q \in Request \ {r} : job'[q] = job[q]
    BY <1>5, GoToFields
  <2>2. job'[r] \in ReadMeJobs /\ job'[r].op = "get_me" /\ job'[r].pc = "done"
    BY <1>1, <1>5, <2>1, JobOf DEF ReadMeJobs
  <2>3. Moves(r)
    BY <1>1, <1>5, <2>1 DEF Moves
  <2>4. W(r)' = W(r) /\ session'[r] = session[r]
    BY <1>5 DEF W
  <2>5. WritesOK(r)' /\ SendsOK(r)'
    BY <1>1, <1>2, <2>4 DEF WritesOK, SendsOK
  <2>6. Progress(r)'
    BY <1>1, <2>2, <2>4 DEF AuthInv, RequestOK, Progress, Issuing
  <2>7. History(r)'
    BY <1>1, <1>5, <2>2, NoHistory
  <2> QED
    BY <1>1, <2>2, <2>3, <2>4, <2>5, <2>6, <2>7, GoKeeps DEF JobType
<1>6. CASE /\ UpdateMe(r) /\ GoTo(r, "done")
           /\ UserRow(job[r].bearer.sub) \in Users(r)
           /\ Stage(r, UserRow(job[r].bearer.sub), [full_name |-> job[r].name])
  <2>1. job'[r] = [job[r] EXCEPT !.pc = "done"] /\ \A q \in Request \ {r} : job'[q] = job[q]
    BY <1>6, GoToFields
  <2>2. /\ job'[r] \in UpdateMeJobs /\ job'[r].op = "update_me" /\ job'[r].pc = "done"
        /\ job'[r].name = job[r].name
    BY <1>1, <1>6, <2>1, JobOf DEF UpdateMeJobs
  <2>3. /\ \A q \in Request \ {r} : session'[q] = session[q]
        /\ session'[r].state = "open" /\ session'[r].answer = session[r].answer
        /\ session'[r].writes = session[r].writes /\ session'[r].manager = session[r].manager
        /\ session'[r].pending.row = UserRow(job[r].bearer.sub)
        /\ session'[r].pending.set = [full_name |-> job[r].name]
        /\ table' = table
    BY <1>1, <1>6, StageFields
  <2>4. Moves(r) /\ W(r)' = W(r)
    BY <1>1, <2>1, <2>3 DEF Moves, W
  <2>5. UserRow(job[r].bearer.sub) \in DOMAIN table
    BY <1>2, <1>6 DEF Users
  <2>6. WritesOK(r)' /\ SendsOK(r)'
    BY <1>2, <2>2, <2>3, <2>4, <2>5, RowNames DEF WritesOK, SendsOK
  <2>7. Progress(r)'
    BY <1>1, <2>2, <2>3, <2>4 DEF AuthInv, RequestOK, Progress, Issuing
  <2>8. History(r)'
    BY <1>1, <1>6, <2>2, NoHistory
  <2> QED
    BY <1>1, <2>2, <2>3, <2>4, <2>6, <2>7, <2>8, GoKeeps DEF JobType
<1> QED
  BY <1>3, <1>4, <1>5, <1>6, Statuses DEF GetMe, UpdateMe, AnswerCodes

\* Logout sends the revocation of a token in view, then fails.
LEMMA LogoutKeeps ==
    ASSUME AuthInv, NEW r \in Request, Logout(r), UNCHANGED expired
    PROVE  Moves(r) /\ RequestOK(r)'
<1>1. /\ Running(r) /\ Live(r) /\ ~Over(r) /\ job[r].op = "logout"
      /\ session[r].state = "open" /\ session[r].pending = NoStatement
  BY DEF Logout, RevokeToken, DenyAccessToken, At, Running, Live, Over
<1>2. CASE \E e : Raise(r, e) /\ StatusOf(e) \in AnswerCodes
  BY <1>1, <1>2, RaiseKeeps
<1>3. CASE /\ RevokeToken(r) /\ GoTo(r, "denylist")
           /\ \/ UNCHANGED <<table, session>>
              \/ \E row \in StoredTokens(r) : Stage(r, row, [revoked |-> TRUE])
  <2>1. DOMAIN W(r) = {} /\ DOMAIN View(r) = DOMAIN table
    BY <1>3, Seen DEF RevokeToken, At, AuthInv, RequestOK, Progress
  <2>2. job'[r] = [job[r] EXCEPT !.pc = "denylist"] /\ \A q \in Request \ {r} : job'[q] = job[q]
    BY <1>3, GoToFields
  <2>3. job'[r] \in LogoutJobs /\ job'[r].op = "logout" /\ job'[r].pc = "denylist"
    BY <1>1, <2>2, JobOf DEF LogoutJobs
  <2>4. History(r)'
    BY <1>1, <2>3, NoHistory
  <2>5. CASE UNCHANGED <<table, session>>
    <3>1. Moves(r) /\ W(r)' = W(r) /\ session'[r] = session[r]
      BY <1>1, <2>2, <2>5 DEF Moves, W
    <3>2. WritesOK(r)' /\ SendsOK(r)'
      BY <1>1, <2>1, <3>1 DEF WritesOK, SendsOK
    <3>3. Progress(r)'
      BY <1>1, <2>3, <3>1 DEF AuthInv, RequestOK, Progress, Issuing
    <3> QED
      BY <1>1, <2>3, <2>4, <3>1, <3>2, <3>3, GoKeeps DEF JobType
  <2>6. ASSUME NEW row \in StoredTokens(r), Stage(r, row, [revoked |-> TRUE])
        PROVE  Moves(r) /\ RequestOK(r)'
    <3>1. /\ \A q \in Request \ {r} : session'[q] = session[q]
          /\ session'[r].state = "open" /\ session'[r].answer = session[r].answer
          /\ session'[r].writes = session[r].writes /\ session'[r].manager = session[r].manager
          /\ session'[r].pending.row = row /\ session'[r].pending.set = [revoked |-> TRUE]
          /\ table' = table
      BY <1>1, <2>6, StageFields
    <3>2. Moves(r) /\ W(r)' = W(r)
      BY <1>1, <2>2, <3>1 DEF Moves, W
    <3>3. MayRevoke(r, row)'
      BY <2>1, <2>3, <3>1 DEF StoredTokens, MayRevoke
    <3>4. WritesOK(r)' /\ SendsOK(r)'
      BY <2>1, <3>1, <3>2, <3>3 DEF WritesOK, SendsOK
    <3>5. Progress(r)'
      BY <1>1, <2>3, <3>1, <3>2 DEF AuthInv, RequestOK, Progress, Issuing
    <3> QED
      BY <1>1, <2>3, <2>4, <3>1, <3>2, <3>4, <3>5, GoKeeps DEF JobType
  <2> QED
    BY <1>3, <2>5, <2>6
<1>4. CASE RevokeToken(r) /\ Deny(r, BearerError(job[r].bearer))
  BY <1>2, <1>4, Denied DEF Deny, AnswerCodes
<1> QED
  BY <1>2, <1>3, <1>4, Statuses DEF Logout, RevokeToken, DenyAccessToken, TokensToRevoke, AnswerCodes

\* The token pair a request issues is its own.
LEMMA IssuedOwn ==
    ASSUME NEW r \in Request, NEW user \in Id, NEW role \in UserRole
    PROVE  {AccessToken(r, user, role), RefreshToken(r, user)} \in SUBSET Own(r)
BY DEF AccessToken, RefreshToken, Own, Token, Id

\* A statement that stores or revokes a token is a statement.
LEMMA TokenSet ==
    /\ \A h, u, b : [token_hash |-> h, user |-> u, revoked |-> b] # NoRows
    /\ [revoked |-> TRUE] # NoRows
BY DEF NoRows

\* Two users in view with one address are one user.
LEMMA OneUser ==
    ASSUME AuthInv, NEW r \in Request, Live(r), NEW email,
           NEW a \in UsersByEmail(r, email), NEW b \in UsersByEmail(r, email)
    PROVE  a = b
<1> SUFFICES ASSUME a # b PROVE FALSE
  OBVIOUS
<1>1. /\ a \in DOMAIN View(r) /\ b \in DOMAIN View(r) /\ a.table = "users" /\ b.table = "users"
      /\ View(r)[a].email = View(r)[b].email
  BY DEF UsersByEmail, Users
<1>2. View(r)[a].email # Null
  BY <1>1, Seen, RowNames, AuthAssumption DEF UserValue
<1>3. <<"users", "email", View(r)[a].email>> \in KeysOf(a, View(r)[a]) \cap KeysOf(b, View(r)[b])
  BY <1>1, <1>2 DEF KeysOf, Unique
<1> QED
  BY <1>1, <1>3 DEF AuthInv, IInv, StoreInv, ViewsDistinct, Distinct

\* Login: the account that is found is the one whose password and status were checked.
LEMMA LoginKeeps ==
    ASSUME AuthInv, NEW r \in Request, Login(r), UNCHANGED expired
    PROVE  Moves(r) /\ RequestOK(r)'
<1>1. /\ Running(r) /\ Live(r) /\ ~Over(r) /\ job[r].op = "login"
      /\ session[r].state = "open" /\ session[r].pending = NoStatement
  BY DEF Login, CheckCredentials, StampLogin, At, Running, Live, Over
<1>2. job[r] \in LoginJobs(r) /\ RequestOK(r)
  BY <1>1, JobOf DEF AuthInv
<1>3. CASE Raise(r, "UnauthorizedException")
  BY <1>1, <1>3, RaiseKeeps, Statuses DEF AnswerCodes
<1>4. ASSUME CheckCredentials(r), ~Raise(r, "UnauthorizedException")
      PROVE  Moves(r) /\ RequestOK(r)'
  <2>1. PICK found \in UsersByEmail(r, job[r].email) :
          /\ Stage(r, TokenRow(r), [token_hash |-> HashOf(RefreshToken(r, found.id)),
                                    user |-> found.id, revoked |-> FALSE])
          /\ job' = [job EXCEPT ![r].pc = "stored", ![r].user = found.id,
                       ![r].issued = {AccessToken(r, found.id, View(r)[found].role),
                                      RefreshToken(r, found.id)}]
          /\ \E row \in UsersByEmail(r, job[r].email) : View(r)[row].status = "active"
    BY <1>4 DEF CheckCredentials
  <2>2. /\ DOMAIN W(r) = {} /\ DOMAIN View(r) = DOMAIN table
        /\ \A row \in DOMAIN table : View(r)[row] = table[row]
    BY <1>2, <1>4, Seen DEF CheckCredentials, At, RequestOK, Progress
  <2>3. View(r)[found].status = "active" /\ found \in DOMAIN View(r) /\ found.table = "users"
    BY <1>1, <2>1, OneUser DEF UsersByEmail, Users
  <2>4. /\ found = UserRow(found.id) /\ found.id \in Id
        /\ View(r)[found] \in UserValue
    <3>1. AuthRowsOK(View(r))
      BY Seen
    <3> QED
      BY <2>3, <3>1 DEF AuthRowsOK, UserRow, TokenRow, RowOf
  <2>5. ActiveUser(found.id)
    BY <2>2, <2>3, <2>4 DEF ActiveUser
  <2> DEFINE issued == {AccessToken(r, found.id, View(r)[found].role), RefreshToken(r, found.id)}
  <2>6. issued \in SUBSET Own(r)
    BY <2>4, IssuedOwn DEF UserValue
  <2>7. job' = [job EXCEPT ![r] = [job[r] EXCEPT !.pc = "stored", !.user = found.id,
                                                 !.issued = issued]]
    BY <2>1 DEF AuthInv, IInv, JobsOK
  <2> HIDE DEF issued
  <2>8. /\ job'[r] = [job[r] EXCEPT !.pc = "stored", !.user = found.id, !.issued = issued]
        /\ \A q \in Request \ {r} : job'[q] = job[q]
    BY <2>7, JobFields
  <2>9. /\ job'[r] \in LoginJobs(r) /\ job'[r].op = "login" /\ job'[r].pc = "stored"
        /\ job'[r].user = found.id
    BY <1>2, <2>4, <2>6, <2>8 DEF LoginJobs
  <2>10. /\ \A q \in Request \ {r} : session'[q] = session[q]
         /\ session'[r].state = "open" /\ session'[r].answer = session[r].answer
         /\ session'[r].writes = session[r].writes /\ session'[r].manager = session[r].manager
         /\ session'[r].pending.row = TokenRow(r)
         /\ session'[r].pending.set = [token_hash |-> HashOf(RefreshToken(r, found.id)),
                                       user |-> found.id, revoked |-> FALSE]
         /\ table' = table
    BY <1>1, <2>1, StageFields
  <2>11. Moves(r) /\ W(r)' = W(r)
    BY <1>1, <2>8, <2>10 DEF Moves, W
  <2>12. session'[r].pending.set = NewToken(r)' /\ Issuing(r)' /\ Wrote(r, TokenRow(r))'
    BY <2>9, <2>10, TokenSet DEF HashOf, RefreshToken, NewToken, Issuing, Wrote, NoStatement
  <2>13. WritesOK(r)' /\ SendsOK(r)'
    BY <2>2, <2>10, <2>11, <2>12 DEF WritesOK, SendsOK
  <2>14. Progress(r)'
    BY <1>1, <1>2, <2>4, <2>5, <2>9, <2>10, <2>11, <2>12 DEF RequestOK, Progress, ActiveUser
  <2>15. History(r)'
    BY <1>1, <2>9, NoHistory
  <2> QED
    BY <1>1, <2>9, <2>10, <2>11, <2>13, <2>14, <2>15, GoKeeps DEF JobType
<1>5. CASE StampLogin(r)
  <2>1. /\ job[r].pc = "stored" /\ GoTo(r, "done")
        /\ Stage(r, UserRow(job[r].user), [last_login |-> r])
    BY <1>5 DEF StampLogin, At
  <2>2. job'[r] = [job[r] EXCEPT !.pc = "done"] /\ \A q \in Request \ {r} : job'[q] = job[q]
    BY <2>1, GoToFields
  <2>3. /\ job'[r] \in LoginJobs(r) /\ job'[r].op = "login" /\ job'[r].pc = "done"
        /\ job'[r].user = job[r].user
    BY <1>2, <2>2 DEF LoginJobs
  <2>4. /\ \A q \in Request \ {r} : session'[q] = session[q]
        /\ session'[r].state = "open" /\ session'[r].answer = session[r].answer
        /\ session'[r].writes = session[r].writes /\ session'[r].manager = session[r].manager
        /\ session'[r].pending.row = UserRow(job[r].user)
        /\ session'[r].pending.set = [last_login |-> r]
        /\ table' = table
    BY <1>1, <2>1, StageFields
  <2>5. Moves(r) /\ W(r)' = W(r)
    BY <1>1, <2>2, <2>4 DEF Moves, W
  <2>6. Issuing(r) /\ Issuing(r)' /\ NewToken(r)' = NewToken(r)
    BY <1>1, <2>1, <2>3 DEF Issuing, NewToken
  <2>7. job[r].user \in Id /\ ActiveUser(job[r].user) /\ WritesOK(r)
    BY <1>1, <1>2, <2>6 DEF RequestOK, Progress
  <2>8. TokenRow(r) \in DOMAIN W(r)
    BY <1>1, <1>2, <2>6 DEF RequestOK, Progress, Wrote
  <2>9. WritesOK(r)' /\ SendsOK(r)'
    BY <1>1, <2>3, <2>4, <2>5, <2>6, <2>7, RowNames
       DEF WritesOK, SendsOK, MayRevoke, ActiveUser
  <2>10. Progress(r)'
    BY <1>1, <1>2, <2>3, <2>4, <2>5, <2>7, <2>8 DEF RequestOK, Progress, ActiveUser, Wrote
  <2>11. History(r)'
    BY <1>1, <2>3, NoHistory
  <2> QED
    BY <1>1, <2>3, <2>4, <2>5, <2>9, <2>10, <2>11, GoKeeps DEF JobType
<1> QED
  BY <1>3, <1>4, <1>5 DEF Login

\* A refresh that goes on keeps its token and what it has seen.
LEMMA RefreshHistory ==
    ASSUME AuthInv, Grows, NEW r \in Request, job[r].op = "refresh", job'[r].op = "refresh",
           job'[r].token = job[r].token, job'[r].past = job[r].past,
           session'[r].answer # 401
    PROVE  History(r)'
<1>1. /\ job[r].token \in Presentable /\ job[r].past \subseteq Committed
      /\ job[r].token # Garbage => \A o \in job[r].past : ~Exchanged(o, job[r].token.jti)
  BY DEF AuthInv, RequestOK, History
<1>2. job[r].token # Garbage => \A o \in job[r].past : ~Exchanged(o, job[r].token.jti)'
  BY <1>1, Lasting
<1> QED
  BY <1>1, <1>2, Lasting DEF History

\* What a look-up finds: the token's own row, stored and unrevoked, of an active user.
LEMMA Found ==
    ASSUME AuthInv, NEW r \in Request, DOMAIN W(r) = {},
           NEW row \in FindToken(r, job[r].token.jti),
           NEW user, user = UserRow(View(r)[row].user), user \in Users(r),
           View(r)[user].status = "active"
    PROVE  /\ row = Taken(r) /\ row \in DOMAIN table /\ ~table[row].revoked
           /\ row.table = "refresh_tokens"
           /\ View(r)[row].user = table[row].user /\ table[row].user \in Id
           /\ ActiveUser(table[row].user)
<1>1. /\ DOMAIN View(r) = DOMAIN table /\ \A x \in DOMAIN table : View(r)[x] = table[x]
      /\ row \in DOMAIN table /\ row.table = "refresh_tokens"
      /\ table[row].token_hash = job[r].token.jti /\ ~table[row].revoked
  BY Seen DEF FindToken, StoredTokens
<1>2. row = TokenRow(row.id) /\ table[row] \in TokenValue /\ table[row].token_hash = row.id
  BY <1>1, RowNames DEF AuthInv, TableOK
<1>3. row = Taken(r) /\ table[row].user \in Id
  BY <1>1, <1>2 DEF Taken, TokenValue
<1>4. ActiveUser(table[row].user)
  BY <1>1 DEF Users, ActiveUser
<1> QED
  BY <1>1, <1>3, <1>4

\* The look-up of a token that is good finds it.
LEMMA Good ==
    ASSUME AuthInv, NEW r \in Request, job[r].op = "refresh", job[r].pc = "lookup",
           ~ \E row \in FindToken(r, HashOf(job[r].token)) :
               LET user == UserRow(View(r)[row].user)
               IN  user \in Users(r) /\ View(r)[user].status = "active",
           r \notin Committed
    PROVE  Cause(r)
<1> DEFINE jti == job[r].token.jti
           row == TokenRow(jti)
<1>1. RequestOK(r) /\ TableOK /\ AuthRowsOK(table)
  BY DEF AuthInv, TableOK
<1>2. /\ DOMAIN View(r) = DOMAIN table /\ \A x \in DOMAIN table : View(r)[x] = table[x]
      /\ job[r].token # Garbage /\ job[r].token \in Tokens
  BY <1>1, Seen DEF RequestOK, Progress, History, Presentable
<1> SUFFICES ASSUME WasStored(job[r].token) PROVE \E o \in Request \ {r} : Exchanged(o, jti)
  BY DEF Cause
<1>3. row \in DOMAIN table /\ Known(jti)
  <2>1. CASE GoodOnFile(jti)
    BY <1>1, <2>1 DEF GoodOnFile, TableOK, Known
  <2>2. CASE jti \in Committed
    <3>1. jti \in Request /\ session[jti].state = "committed"
      BY <2>2 DEF Committed
    <3>2. job[jti].op \in {"login", "refresh"}
      BY <1>2, <3>1, Origin, StoreAssumption
    <3>3. Stored(jti)
      BY <3>1 DEF AuthInv, RequestOK
    <3> QED
      BY <3>1, <3>2, <3>3 DEF Stored, Known
  <2> QED
    BY <2>1, <2>2 DEF WasStored
<1> HIDE DEF row
<1>4. row = TokenRow(jti) /\ row.id = jti /\ row.table = "refresh_tokens"
  BY RowNames DEF row
<1>5. ActiveUser(table[row].user) /\ table[row].token_hash = jti
  BY <1>1, <1>3, <1>4 DEF TableOK
<1>6. ASSUME ~table[row].revoked PROVE FALSE
  <2>1. row \in FindToken(r, HashOf(job[r].token))
    BY <1>2, <1>3, <1>4, <1>5, <1>6 DEF FindToken, StoredTokens, HashOf
  <2>2. /\ UserRow(View(r)[row].user) \in Users(r)
        /\ View(r)[UserRow(View(r)[row].user)].status = "active"
    BY <1>2, <1>3, <1>5, RowNames DEF Users, ActiveUser
  <2> QED
    BY <2>1, <2>2
<1>7. PICK o \in Request : Exchanged(o, jti)
  BY <1>1, <1>3, <1>4, <1>6 DEF TableOK
<1>8. o # r
  BY <1>7 DEF Exchanged, Committed
<1> QED
  BY <1>7, <1>8

\* Refresh: a token that others have exchanged is not found.
LEMMA RefreshKeeps ==
    ASSUME AuthInv, NEW r \in Request, Refresh(r), UNCHANGED expired
    PROVE  Moves(r) /\ RequestOK(r)'
<1>1. /\ Running(r) /\ Live(r) /\ ~Over(r) /\ r \notin Committed /\ job[r].op = "refresh"
      /\ session[r].state = "open" /\ session[r].pending = NoStatement
  BY DEF Refresh, DecodeRefresh, LookUpToken, IssuePair, At, Running, Live, Over, Committed
<1>2. job[r] \in RefreshJobs(r) /\ RequestOK(r) /\ session[r].answer = NoAnswer
  BY <1>1, JobOf DEF AuthInv, RequestOK, Progress
<1>3. ASSUME Raise(r, "UnauthorizedException"), Cause(r) PROVE Moves(r) /\ RequestOK(r)'
  BY <1>1, <1>3, RaiseKeeps, Statuses DEF AnswerCodes
<1>4. ASSUME DecodeRefresh(r), Decodes(job[r].token), job[r].token.type = "refresh"
      PROVE  Moves(r) /\ RequestOK(r)'
  <2>1. /\ job[r].pc = "start" /\ GoTo(r, "lookup") /\ UNCHANGED <<table, session>>
        /\ job[r].token # Garbage /\ job[r].token.type = "refresh"
    BY <1>4 DEF DecodeRefresh, At, Decodes
  <2>2. job'[r] = [job[r] EXCEPT !.pc = "lookup"] /\ \A q \in Request \ {r} : job'[q] = job[q]
    BY <2>1, GoToFields
  <2>3. /\ job'[r] \in RefreshJobs(r) /\ job'[r].op = "refresh" /\ job'[r].pc = "lookup"
        /\ job'[r].token = job[r].token /\ job'[r].past = job[r].past
    BY <1>2, <2>2 DEF RefreshJobs
  <2>4. Moves(r) /\ W(r)' = W(r) /\ session'[r] = session[r]
    BY <1>1, <2>1, <2>2 DEF Moves, W
  <2>5. WritesOK(r)' /\ SendsOK(r)'
    BY <1>1, <1>2, <2>1, <2>4 DEF RequestOK, Progress, WritesOK, SendsOK
  <2>6. Progress(r)'
    BY <1>1, <1>2, <2>1, <2>3, <2>4 DEF RequestOK, Progress, Issuing
  <2>7. History(r)'
    BY <1>1, <1>2, <2>3, <2>4, MovesGrow, RefreshHistory DEF NoAnswer
  <2> QED
    BY <1>1, <2>3, <2>4, <2>5, <2>6, <2>7, GoKeeps DEF JobType
<1> DEFINE hit == \E row \in FindToken(r, HashOf(job[r].token)) :
                    LET user == UserRow(View(r)[row].user)
                    IN  user \in Users(r) /\ View(r)[user].status = "active"
<1>5. ASSUME LookUpToken(r), hit, job[r].token \notin expired
      PROVE  Moves(r) /\ RequestOK(r)'
  <2>1. PICK row \in FindToken(r, HashOf(job[r].token)) :
          /\ UserRow(View(r)[row].user) \in Users(r)
          /\ View(r)[UserRow(View(r)[row].user)].status = "active"
          /\ Stage(r, row, [revoked |-> TRUE])
          /\ job' = [job EXCEPT ![r].pc = "revoked", ![r].past = Committed,
                                ![r].user = View(r)[row].user]
    BY <1>5 DEF LookUpToken
  <2>2. DOMAIN W(r) = {} /\ job[r].pc = "lookup"
    BY <1>2, <1>5 DEF LookUpToken, At, RequestOK, Progress
  <2>3. /\ row = Taken(r) /\ row \in DOMAIN table /\ ~table[row].revoked
        /\ row.table = "refresh_tokens"
        /\ View(r)[row].user = table[row].user /\ table[row].user \in Id
        /\ ActiveUser(table[row].user)
    BY <2>1, <2>2, Found DEF HashOf
  <2> PICK user : user = table[row].user
    OBVIOUS
  <2>4. job' = [job EXCEPT ![r] = [job[r] EXCEPT !.pc = "revoked", !.past = Committed,
                                                 !.user = user]]
    BY <2>1, <2>3 DEF AuthInv, IInv, JobsOK
  <2>5. /\ job'[r] = [job[r] EXCEPT !.pc = "revoked", !.past = Committed, !.user = user]
        /\ \A q \in Request \ {r} : job'[q] = job[q]
    BY <2>4, JobFields
  <2>6. user \in Id /\ Committed \in SUBSET Request
    BY <2>3 DEF Committed
  <2>7. /\ job'[r] \in RefreshJobs(r) /\ job'[r].op = "refresh" /\ job'[r].pc = "revoked"
        /\ job'[r].token = job[r].token /\ job'[r].past = Committed /\ job'[r].user = user
    BY <1>2, <2>5, <2>6 DEF RefreshJobs
  <2>8. /\ \A q \in Request \ {r} : session'[q] = session[q]
        /\ session'[r].state = "open" /\ session'[r].answer = session[r].answer
        /\ session'[r].writes = session[r].writes /\ session'[r].manager = session[r].manager
        /\ session'[r].pending.row = row /\ session'[r].pending.set = [revoked |-> TRUE]
        /\ table' = table
    BY <1>1, <2>1, StageFields
  <2>9. Moves(r) /\ W(r)' = W(r)
    BY <1>1, <2>5, <2>8 DEF Moves, W
  <2>10. Taken(r)' = row /\ MayRevoke(r, row)' /\ Wrote(r, row)' /\ ~Issuing(r)'
    BY <2>3, <2>7, <2>8, TokenSet DEF Taken, MayRevoke, Wrote, Issuing, NoStatement
  <2>11. WritesOK(r)' /\ SendsOK(r)'
    BY <2>2, <2>8, <2>9, <2>10 DEF WritesOK, SendsOK
  <2>12. Progress(r)'
    <3>1. job[r].token # Garbage /\ job[r].token.type = "refresh"
      BY <1>1, <1>2, <2>2 DEF RequestOK, Progress
    <3>2. ActiveUser(user)'
      BY <2>3, <2>8 DEF ActiveUser
    <3> QED
      BY <1>1, <1>2, <2>6, <2>7, <2>8, <2>10, <3>1, <3>2 DEF Progress
  <2>13. History(r)'
    <3>1. ASSUME NEW o \in Committed, job[r].token # Garbage PROVE ~Exchanged(o, job[r].token.jti)
      <4>1. Stored(o)
        BY <3>1 DEF AuthInv, RequestOK, Committed
      <4>2. SUFFICES ASSUME Exchanged(o, job[r].token.jti) PROVE FALSE
        OBVIOUS
      <4>3. table[Taken(o)].revoked /\ Taken(o) = row
        BY <2>3, <4>1, <4>2 DEF Stored, Exchanged, Taken
      <4> QED
        BY <2>3, <4>3
    <3>2. Grows /\ Committed' = Committed
      BY <2>9, MovesGrow
    <3>3. \A o \in Committed : job[r].token # Garbage => ~Exchanged(o, job[r].token.jti)'
      BY <2>7, <3>1, <3>2, Lasting
    <3>4. job[r].token \in Presentable'
      BY <1>1, <1>2, <3>2, Lasting DEF RequestOK, History
    <3> QED
      BY <1>2, <2>7, <2>8, <3>2, <3>3, <3>4 DEF History, NoAnswer
  <2> QED
    BY <1>1, <2>7, <2>8, <2>9, <2>11, <2>12, <2>13, GoKeeps DEF JobType
<1>6. ASSUME LookUpToken(r), ~hit \/ job[r].token \in expired
      PROVE  Moves(r) /\ RequestOK(r)'
  <2>1. Raise(r, "UnauthorizedException") /\ job[r].pc = "lookup"
    BY <1>6 DEF LookUpToken, At
  <2>2. CASE job[r].token \in expired
    BY <1>3, <2>1, <2>2 DEF Cause
  <2>3. CASE ~hit
    <3>1. Cause(r)
      BY <1>1, <2>1, <2>3, Good
    <3> QED
      BY <1>3, <2>1, <3>1
  <2> QED
    BY <1>6, <2>2, <2>3
<1> HIDE DEF hit
<1>7. ASSUME DecodeRefresh(r), ~(Decodes(job[r].token) /\ job[r].token.type = "refresh")
      PROVE  Moves(r) /\ RequestOK(r)'
  BY <1>3, <1>7 DEF DecodeRefresh, Decodes, Cause
<1>8. ASSUME IssuePair(r) PROVE Moves(r) /\ RequestOK(r)'
  <2> PICK user : user = job[r].user
    OBVIOUS
  <2> DEFINE role == View(r)[UserRow(user)].role
             issued == {AccessToken(r, user, role), RefreshToken(r, user)}
  <2>1. /\ job[r].pc = "revoked"
        /\ Stage(r, TokenRow(r), [token_hash |-> HashOf(RefreshToken(r, user)),
                                  user |-> user, revoked |-> FALSE])
        /\ job' = [job EXCEPT ![r].pc = "done", ![r].issued = issued]
    BY <1>8 DEF IssuePair, At
  <2>2. user \in Id /\ ActiveUser(user)
    BY <1>1, <1>2, <2>1 DEF RequestOK, Progress
  <2>3. role \in UserRole
    <3>1. UserRow(user) \in DOMAIN View(r)
      BY <2>2, ViewFacts DEF ActiveUser
    <3> QED
      BY <3>1, Seen, RowNames DEF UserValue
  <2>4. issued \in SUBSET Own(r)
    BY <2>2, <2>3, IssuedOwn
  <2> HIDE DEF role
  <2>5. job' = [job EXCEPT ![r] = [job[r] EXCEPT !.pc = "done", !.issued = issued]]
    BY <2>1 DEF AuthInv, IInv, JobsOK
  <2> HIDE DEF issued
  <2>6. /\ job'[r] = [job[r] EXCEPT !.pc = "done", !.issued = issued]
        /\ \A q \in Request \ {r} : job'[q] = job[q]
    BY <2>5, JobFields
  <2>7. /\ job'[r] \in RefreshJobs(r) /\ job'[r].op = "refresh" /\ job'[r].pc = "done"
        /\ job'[r].token = job[r].token /\ job'[r].past = job[r].past /\ job'[r].user = user
    BY <1>2, <2>4, <2>6 DEF RefreshJobs
  <2>8. /\ \A q \in Request \ {r} : session'[q] = session[q]
        /\ session'[r].state = "open" /\ session'[r].answer = session[r].answer
        /\ session'[r].writes = session[r].writes /\ session'[r].manager = session[r].manager
        /\ session'[r].pending.row = TokenRow(r)
        /\ session'[r].pending.set = [token_hash |-> HashOf(RefreshToken(r, user)),
                                      user |-> user, revoked |-> FALSE]
        /\ table' = table
    BY <1>1, <2>1, StageFields
  <2>9. Moves(r) /\ W(r)' = W(r)
    BY <1>1, <2>6, <2>8 DEF Moves, W
  <2>10. /\ session'[r].pending.set = NewToken(r)' /\ Issuing(r)' /\ Wrote(r, TokenRow(r))'
         /\ Taken(r)' = Taken(r) /\ ~Issuing(r)
    <3>1. session'[r].pending.set = NewToken(r)' /\ Issuing(r)'
      BY <2>7, <2>8 DEF HashOf, RefreshToken, NewToken, Issuing
    <3>2. Wrote(r, TokenRow(r))'
      BY <2>8, TokenSet DEF Wrote, NoStatement
    <3>3. Taken(r)' = Taken(r) /\ ~Issuing(r)
      BY <2>1, <2>7 DEF Taken, Issuing
    <3> QED
      BY <3>1, <3>2, <3>3
  <2>11. \A row : MayRevoke(r, row) => MayRevoke(r, row)'
    BY <1>1, <2>7, <2>8, <2>10 DEF MayRevoke
  <2>12. WritesOK(r) /\ Wrote(r, Taken(r)) /\ TokenRow(r) \notin DOMAIN W(r)
    <3>1. WritesOK(r) /\ Wrote(r, Taken(r)) /\ TokenRow(r) \notin DOMAIN table
      BY <1>1, <1>2, <2>1, Unstored DEF RequestOK, Progress
    <3>2. TokenRow(r) \notin DOMAIN W(r)
      BY <1>1, <2>10, <3>1 DEF WritesOK, MayRevoke
    <3> QED
      BY <3>1, <3>2
  <2>13. Wrote(r, Taken(r))'
    BY <1>1, <2>9, <2>10, <2>12 DEF Wrote
  <2>14. WritesOK(r)'
    BY <1>1, <2>7, <2>8, <2>9, <2>10, <2>11, <2>12 DEF WritesOK
  <2>15. SendsOK(r)'
    BY <2>8, <2>9, <2>10, <2>12 DEF SendsOK
  <2>16. Progress(r)'
    <3>1. job[r].token # Garbage /\ job[r].token.type = "refresh"
      BY <1>1, <1>2, <2>1 DEF RequestOK, Progress
    <3>2. ActiveUser(user)'
      BY <2>2, <2>8 DEF ActiveUser
    <3> QED
      BY <1>1, <1>2, <2>2, <2>7, <2>8, <2>10, <2>13, <3>1, <3>2 DEF Progress
  <2>17. History(r)'
    BY <1>1, <1>2, <2>7, <2>8, <2>9, MovesGrow, RefreshHistory DEF NoAnswer
  <2> QED
    BY <1>1, <2>7, <2>8, <2>9, <2>14, <2>15, <2>16, <2>17, GoKeeps DEF JobType
<1> QED
  BY <1>4, <1>5, <1>6, <1>7, <1>8 DEF Refresh

\* A registration that goes on has seen no account with its address.
LEMMA RegisterKeeps ==
    ASSUME AuthInv, NEW r \in Request, Register(r), UNCHANGED expired
    PROVE  Moves(r) /\ RequestOK(r)'
<1>1. /\ Running(r) /\ Live(r) /\ ~Over(r) /\ r \notin Committed /\ job[r].op = "register"
      /\ session[r].state = "open" /\ session[r].pending = NoStatement
  BY DEF Register, CheckEmail, InsertUser, At, Running, Live, Over, Committed
<1>2. /\ job[r] \in RegisterJobs /\ RequestOK(r) /\ session[r].answer = NoAnswer
      /\ job[r].pc \in {"start", "insert"} /\ DOMAIN W(r) = {}
  BY <1>1, JobOf DEF AuthInv, RequestOK, Progress, Register, CheckEmail, InsertUser, At
<1>3. CASE \E e : Raise(r, e) /\ StatusOf(e) \in AnswerCodes \ {500}
  BY <1>1, <1>3, RaiseKeeps
<1>4. ASSUME CheckEmail(r), Deny(r, RoleError(job[r].bearer, {"admin"}))
      PROVE  Moves(r) /\ RequestOK(r)'
  BY <1>3, <1>4, Denied DEF Deny, AnswerCodes
<1>5. ASSUME CheckEmail(r), ~Deny(r, RoleError(job[r].bearer, {"admin"})),
             UsersByEmail(r, job[r].email) # {}
      PROVE  Moves(r) /\ RequestOK(r)'
  BY <1>3, <1>5, Statuses DEF CheckEmail, AnswerCodes
<1>6. ASSUME CheckEmail(r), ~Deny(r, RoleError(job[r].bearer, {"admin"})),
             UsersByEmail(r, job[r].email) = {}
      PROVE  Moves(r) /\ RequestOK(r)'
  <2>1. /\ job' = [job EXCEPT ![r].pc = "insert", ![r].past = Committed]
        /\ UNCHANGED <<table, session>>
    BY <1>6 DEF CheckEmail
  <2>2. job' = [job EXCEPT ![r] = [job[r] EXCEPT !.pc = "insert", !.past = Committed]]
    BY <2>1 DEF AuthInv, IInv, JobsOK
  <2>3. /\ job'[r] = [job[r] EXCEPT !.pc = "insert", !.past = Committed]
        /\ \A q \in Request \ {r} : job'[q] = job[q]
    BY <2>2, JobFields
  <2>4. Committed \in SUBSET Request
    BY DEF Committed
  <2>5. /\ job'[r] \in RegisterJobs /\ job'[r].op = "register" /\ job'[r].pc = "insert"
        /\ job'[r].past = Committed /\ job'[r].email = job[r].email
    BY <1>2, <2>3, <2>4 DEF RegisterJobs
  <2>6. Moves(r) /\ W(r)' = W(r) /\ session'[r] = session[r]
    BY <1>1, <2>1, <2>3 DEF Moves, W
  <2>7. WritesOK(r)' /\ SendsOK(r)'
    BY <1>1, <1>2, <2>6 DEF WritesOK, SendsOK
  <2>8. Progress(r)'
    BY <1>1, <1>2, <2>5, <2>6 DEF Progress, Issuing
  <2>9. History(r)'
    <3>1. \A row \in DOMAIN table : row.table = "users" =>
            table[row].email # Lower[job[r].email]
      BY <1>2, <1>6, Seen DEF UsersByEmail, Users
    <3>2. job'[r].past \subseteq Committed'
      BY <2>5, <2>6, MovesGrow
    <3>3. \A row \in DOMAIN table' : row.table = "users" =>
            table'[row].email # Lower[job'[r].email]
      BY <2>1, <2>5, <3>1
    <3>4. session'[r].answer \notin {401, 500}
      BY <1>2, <2>6 DEF NoAnswer
    <3> QED
      BY <2>5, <3>2, <3>3, <3>4 DEF History
  <2> QED
    BY <1>1, <2>5, <2>6, <2>7, <2>8, <2>9, GoKeeps DEF JobType
<1>7. ASSUME InsertUser(r) PROVE Moves(r) /\ RequestOK(r)'
  <2>1. /\ job[r].pc = "insert" /\ GoTo(r, "done")
        /\ Stage(r, UserRow(r), NewUser(r))
    BY <1>7 DEF InsertUser, At, NewUser
  <2>2. job'[r] = [job[r] EXCEPT !.pc = "done"] /\ \A q \in Request \ {r} : job'[q] = job[q]
    BY <2>1, GoToFields
  <2>3. /\ job'[r] \in RegisterJobs /\ job'[r].op = "register" /\ job'[r].pc = "done"
        /\ job'[r].past = job[r].past /\ job'[r].email = job[r].email
        /\ job'[r].password = job[r].password /\ job'[r].role = job[r].role
        /\ job'[r].name = job[r].name
    BY <1>2, <2>2 DEF RegisterJobs
  <2>4. NewUser(r)' = NewUser(r)
    BY <2>3 DEF NewUser
  <2>5. /\ \A q \in Request \ {r} : session'[q] = session[q]
        /\ session'[r].state = "open" /\ session'[r].answer = session[r].answer
        /\ session'[r].writes = session[r].writes /\ session'[r].manager = session[r].manager
        /\ session'[r].pending.row = UserRow(r) /\ session'[r].pending.set = NewUser(r)
        /\ table' = table
    BY <1>1, <2>1, StageFields
  <2>6. Moves(r) /\ W(r)' = W(r)
    BY <1>1, <2>2, <2>5 DEF Moves, W
  <2>7. WritesOK(r)' /\ SendsOK(r)'
    BY <1>2, <2>3, <2>4, <2>5, <2>6 DEF WritesOK, SendsOK
  <2>8. Progress(r)'
    BY <1>1, <1>2, <2>3, <2>5, <2>6 DEF Progress, Issuing
  <2>9. History(r)'
    <3>1. /\ job[r].past \subseteq Committed
          /\ \A row \in DOMAIN table :
               (row.table = "users" /\ table[row].email = Lower[job[r].email]) =>
                   Overtaker(r, row.id)
      BY <1>1, <1>2, <2>1 DEF RequestOK, History
    <3>2. Committed' = Committed /\ \A o \in Committed : job'[o] = job[o]
      BY <1>1, <2>6, MovesGrow DEF Moves, Committed
    <3>3. \A o : Overtaker(r, o) => Overtaker(r, o)'
      BY <2>3, <3>2 DEF Overtaker
    <3> QED
      BY <1>2, <2>3, <2>5, <3>1, <3>2, <3>3 DEF History, NoAnswer
  <2> QED
    BY <1>1, <2>3, <2>5, <2>6, <2>7, <2>8, <2>9, GoKeeps DEF JobType
<1> QED
  BY <1>4, <1>5, <1>6, <1>7 DEF Register

-----------------------------------------------------------------------------
(* The ends of requests, and the steps of the database.                    *)

\* A handler that returns.
LEMMA FinishKeeps ==
    ASSUME AuthInv, NEW r \in Request, Finish(r), UNCHANGED expired
    PROVE  Moves(r) /\ RequestOK(r)'
<1>1. /\ Running(r) /\ Live(r) /\ ~Over(r) /\ job[r].pc = "done" /\ RequestOK(r)
      /\ session[r].pending = NoStatement
  BY DEF Finish, Done, Running, Live, Over, AuthInv
<1>2. PICK status \in {OK, CREATED} : Respond(r, status)
  BY DEF Finish
<1>3. session = [q \in Request |-> session[q]] /\ IsSession(session[r])
  BY DEF AuthInv, IInv, StoreInv, Sessions
<1>4. /\ \A q \in Request \ {r} : session'[q] = session[q]
      /\ session'[r].state = "returned" /\ session'[r].answer = status
      /\ session'[r].writes = session[r].writes /\ session'[r].pending = session[r].pending
      /\ session'[r].manager = session[r].manager
      /\ table' = table /\ job' = job
  BY <1>2, <1>3 DEF Respond, IsSession
<1>5. Moves(r) /\ W(r)' = W(r) /\ Live(r)'
  BY <1>1, <1>4 DEF Moves, W, Live
<1>6. Typed(r)'
  BY <1>1, <1>4, <1>5 DEF RequestOK, Typed, SessionState, AnswerCodes
<1>7. /\ Taken(r)' = Taken(r) /\ NewToken(r)' = NewToken(r) /\ NewUser(r)' = NewUser(r)
      /\ (Issuing(r)' <=> Issuing(r))
      /\ \A row : (MayRevoke(r, row)' <=> MayRevoke(r, row)) /\ (Wrote(r, row)' <=> Wrote(r, row))
      /\ \A id : ActiveUser(id)' <=> ActiveUser(id)
  BY <1>4, <1>5 DEF Taken, NewToken, NewUser, Issuing, MayRevoke, Wrote, ActiveUser
<1>8. Progress(r)'
  BY <1>1, <1>4, <1>5, <1>7 DEF RequestOK, Progress
<1>9. WritesOK(r)' /\ SendsOK(r)' /\ Stored(r)'
  BY <1>1, <1>4, <1>5, <1>7 DEF RequestOK, WritesOK, SendsOK, Stored
<1>10. History(r)'
  <2>1. CASE job[r].op = "refresh"
    BY <1>2, <1>4, <1>5, <2>1, MovesGrow, RefreshHistory DEF OK, CREATED
  <2>2. CASE job[r].op = "register"
    BY <1>1, <1>2, <1>4, <1>5, <2>2, MovesGrow DEF RequestOK, History, OK, CREATED
  <2> QED
    BY <1>4, <2>1, <2>2 DEF History
<1> QED
  BY <1>5, <1>6, <1>8, <1>9, <1>10 DEF RequestOK

\* A crash, and a session that is closed without a commit.
LEMMA AbandonKeeps ==
    ASSUME AuthInv, NEW r \in Request, Crash(r) \/ Discard(r), UNCHANGED expired
    PROVE  Moves(r) /\ RequestOK(r)'
<1>1. Live(r) /\ ~Over(r) /\ RequestOK(r)
  BY DEF Crash, Discard, Live, Over, AuthInv
<1>2. session = [q \in Request |-> session[q]] /\ IsSession(session[r])
  BY DEF AuthInv, IInv, StoreInv, Sessions
<1>3. /\ \A q \in Request \ {r} : session'[q] = session[q]
      /\ \/ session'[r].state = "failed" /\ session'[r].answer = NoAnswer
         \/ /\ session'[r].state = "discarded" /\ session[r].state = "returned"
            /\ session'[r].answer = session[r].answer
      /\ session'[r].writes = session[r].writes /\ session'[r].pending = session[r].pending
      /\ session'[r].manager = session[r].manager
      /\ table' = table /\ job' = job
  BY <1>2 DEF Crash, Discard, IsSession
<1>4. Moves(r)
  BY <1>1, <1>3 DEF Moves
<1>5. /\ session'[r].answer \in AnswerCodes
      /\ job[r].op = "refresh" /\ session'[r].answer = 401 => Cause(r)
      /\ job[r].op = "register" /\ session'[r].answer = 500 => \E o \in Request : Overtaker(r, o)
  BY <1>1, <1>3 DEF RequestOK, Typed, History, NoAnswer, AnswerCodes
<1> QED
  BY <1>1, <1>3, <1>4, <1>5, EndKeeps

\* The victim of a deadlock holds a row that another waits for; a registration holds none.
LEMMA VictimKeeps ==
    ASSUME AuthInv, NEW r \in Request, DeadlockVictim(r), UNCHANGED expired
    PROVE  Moves(r) /\ RequestOK(r)'
<1>1. PICK C \in SUBSET {o \in Request : Waiting(o)} :
        r \in C /\ Stuck(C) /\ \A D \in SUBSET C : Stuck(D) => D = C
  BY DEF DeadlockVictim
<1>2. Live(r) /\ Waiting(r) /\ session[r].pending # NoStatement
  BY <1>1 DEF Waiting, Live
<1>3. job[r].op # "register"
  <2> SUFFICES ASSUME job[r].op = "register" PROVE FALSE
    OBVIOUS
  <2>1. DOMAIN W(r) = {}
    BY <1>2 DEF AuthInv, RequestOK, SendsOK, Issuing, MayRevoke
  <2>2. Held(r) = {} /\ Undecided(r) = {}
    <3>1. KeysIn(session[r].writes) = {}
      BY <2>1 DEF KeysIn, W
    <3>2. Held(r) = {}
      BY <2>1 DEF Held, W
    <3>3. KeysIn([row \in Held(r) \cap DOMAIN table |-> table[row]]) = {}
      BY <3>2 DEF KeysIn
    <3> QED
      BY <3>1, <3>2, <3>3 DEF Undecided
  <2>3. \A c \in Request : r \notin Blockers(c)
    BY <2>2 DEF Blockers
  <2> DEFINE D == C \ {r}
  <2>4. D # {}
    <3>1. Blockers(r) \cap C # {} /\ r \notin Blockers(r)
      BY <1>1 DEF Stuck, Blockers
    <3> QED
      BY <3>1
  <2>5. \A c \in D : Waiting(c) /\ Blockers(c) \cap D # {}
    BY <1>1, <2>3 DEF Stuck
  <2>6. Stuck(D)
    BY <2>4, <2>5 DEF Stuck
  <2> QED
    BY <1>1, <2>6
<1> QED
  BY <1>2, <1>3, RaiseKeeps, Statuses DEF DeadlockVictim, AnswerCodes

\* A registration that fails on the unique index of users was overtaken.
LEMMA Overtaken ==
    ASSUME AuthInv, NEW r \in Request, Waiting(r), Duplicate(r), job[r].op = "register"
    PROVE  \E o \in Request : Overtaker(r, o)
<1> DEFINE p == session[r].pending
<1>1. RequestOK(r) /\ Live(r) /\ r \notin Committed /\ p # NoStatement
      /\ session[r].state = "open"
  BY DEF AuthInv, Waiting, Live, Committed
<1>2. p.row = UserRow(r) /\ p.set = NewUser(r) /\ DOMAIN W(r) = {}
  BY <1>1 DEF RequestOK, SendsOK, Issuing, MayRevoke
<1>3. /\ DOMAIN View(r) = DOMAIN table /\ \A row \in DOMAIN table : View(r)[row] = table[row]
      /\ UserRow(r) \notin DOMAIN table
  BY <1>1, <1>2, Seen, Unstored
<1>4. Outgoing(r) = NewUser(r)
  BY <1>2, <1>3 DEF Outgoing
<1>5. PICK other \in DOMAIN table :
        KeysOf(UserRow(r), NewUser(r)) \cap KeysOf(other, table[other]) # {}
  BY <1>2, <1>3, <1>4 DEF Duplicate
<1>6. UserRow(r).table = "users" /\ NewUser(r).email = Lower[job[r].email]
  BY RowNames DEF NewUser
<1>7. other.table = "users" /\ table[other].email = Lower[job[r].email]
  <2>1. KeysOf(UserRow(r), NewUser(r)) \subseteq {<<"users", "email", NewUser(r).email>>}
    BY <1>6 DEF KeysOf, Unique
  <2>2. <<"users", "email", NewUser(r).email>> \in KeysOf(other, table[other])
    BY <1>5, <2>1
  <2> QED
    BY <1>6, <2>2 DEF KeysOf
<1>8. job[r].pc # "start"
  BY <1>1 DEF RequestOK, Progress
<1>9. Overtaker(r, other.id)
  BY <1>1, <1>7, <1>8 DEF RequestOK, History
<1> QED
  BY <1>9 DEF Overtaker, Committed

\* A token that is revoked stays what it is otherwise.
LEMMA Revoking ==
    ASSUME NEW v \in TokenValue
    PROVE  /\ Overlay(v, [revoked |-> TRUE]) \in TokenValue
           /\ Overlay(v, [revoked |-> TRUE]).revoked
           /\ Overlay(v, [revoked |-> TRUE]).token_hash = v.token_hash
           /\ Overlay(v, [revoked |-> TRUE]).user = v.user
<1>1. \A b : Overlay(v, [revoked |-> b]) = [v EXCEPT !.revoked = b]
  BY DEF TokenValue, Overlay
<1>2. Overlay(v, [revoked |-> TRUE]) = [v EXCEPT !.revoked = TRUE]
  BY <1>1
<1> QED
  BY <1>2 DEF TokenValue

\* So does a user whose login is stamped.
LEMMA Stamping ==
    ASSUME NEW v \in UserValue, NEW r \in Request
    PROVE  /\ Overlay(v, [last_login |-> r]) \in UserValue
           /\ Overlay(v, [last_login |-> r]).email = v.email
           /\ Overlay(v, [last_login |-> r]).status = v.status
<1>1. Overlay(v, [last_login |-> r]) = [v EXCEPT !.last_login = r]
  BY DEF UserValue, Overlay
<1> QED
  BY <1>1 DEF UserValue, Id

\* So does a user who changes a name.
LEMMA Renaming ==
    ASSUME NEW v \in UserValue, NEW n \in Name
    PROVE  /\ Overlay(v, [full_name |-> n]) \in UserValue
           /\ Overlay(v, [full_name |-> n]).email = v.email
           /\ Overlay(v, [full_name |-> n]).status = v.status
<1>1. Overlay(v, [full_name |-> n]) = [v EXCEPT !.full_name = n]
  BY DEF UserValue, Overlay
<1> QED
  BY <1>1 DEF UserValue

\* What a session of r has written of a row that is stored, and what it sees of it.
LEMMA SeenStored ==
    ASSUME AuthInv, NEW r \in Request, Live(r), NEW row \in DOMAIN table
    PROVE  /\ row \in DOMAIN View(r)
           /\ row.table = "refresh_tokens" =>
                /\ row = TokenRow(row.id) /\ View(r)[row] \in TokenValue
                /\ View(r)[row].token_hash = table[row].token_hash
                /\ View(r)[row].user = table[row].user
                /\ table[row].revoked => View(r)[row].revoked
                /\ (View(r)[row].revoked /\ ~table[row].revoked) =>
                     row \in DOMAIN W(r) /\ MayRevoke(r, row)
           /\ row.table = "users" =>
                /\ row = UserRow(row.id) /\ View(r)[row] \in UserValue
                /\ View(r)[row].email = table[row].email
                /\ View(r)[row].status = table[row].status
<1>1. /\ row \in DOMAIN View(r)
      /\ row \in DOMAIN W(r) => View(r)[row] = W(r)[row]
      /\ row \notin DOMAIN W(r) => View(r)[row] = table[row]
  BY ViewFacts
<1>2. /\ row.table = "refresh_tokens" => row = TokenRow(row.id) /\ View(r)[row] \in TokenValue
      /\ row.table = "users" => row = UserRow(row.id) /\ View(r)[row] \in UserValue
  BY <1>1, Seen, RowNames
<1>3. CASE row \notin DOMAIN W(r)
  BY <1>1, <1>2, <1>3
<1>4. CASE row \in DOMAIN W(r)
  <2>1. WritesOK(r) /\ row # TokenRow(r) /\ row # UserRow(r)
    BY Unstored DEF AuthInv, RequestOK, Live, Committed
  <2>2. \/ /\ MayRevoke(r, row)
           /\ W(r)[row].revoked
           /\ W(r)[row].token_hash = table[row].token_hash
           /\ W(r)[row].user = table[row].user
        \/ /\ row.table = "users"
           /\ W(r)[row].email = table[row].email
           /\ W(r)[row].status = table[row].status
    BY <1>4, <2>1 DEF WritesOK
  <2> QED
    BY <1>1, <1>2, <1>4, <2>2 DEF MayRevoke
<1> QED
  BY <1>3, <1>4

\* What a session of r writes by a statement.
Writing(r, row, v) ==
    \/ /\ row = TokenRow(r) /\ Issuing(r) /\ v = NewToken(r)
    \/ /\ MayRevoke(r, row) /\ v.revoked
       /\ v.token_hash = table[row].token_hash /\ v.user = table[row].user
    \/ /\ row = UserRow(r) /\ job[r].op = "register" /\ v = NewUser(r)
    \/ /\ row \in DOMAIN table /\ row.table = "users" /\ job[r].op \in {"login", "update_me"}
       /\ v.email = table[row].email /\ v.status = table[row].status

\* It is one of the writes the service makes.
LEMMA Outgoings ==
    ASSUME AuthInv, NEW r \in Request, Waiting(r)
    PROVE  LET row == session[r].pending.row
           IN  /\ Writing(r, row, Outgoing(r))
               /\ \/ row \in {UserRow(id) : id \in Id} /\ Outgoing(r) \in UserValue
                  \/ row \in {TokenRow(id) : id \in Id} /\ Outgoing(r) \in TokenValue
<1> DEFINE row == session[r].pending.row
           set == session[r].pending.set
<1>1. /\ RequestOK(r) /\ Live(r) /\ SendsOK(r) /\ r \notin Committed
      /\ session[r].pending # NoStatement
  BY DEF AuthInv, RequestOK, Waiting, Live, Committed
<1>2. TokenRow(r) \notin DOMAIN table /\ UserRow(r) \notin DOMAIN table
  BY <1>1, Unstored
<1>3. DOMAIN View(r) = DOMAIN table \cup DOMAIN W(r)
  BY ViewFacts
<1>4. /\ row \in DOMAIN View(r) => Outgoing(r) = Overlay(View(r)[row], set)
      /\ row \notin DOMAIN View(r) => Outgoing(r) = set
  BY DEF Outgoing
<1>5. r \in Id
  BY DEF Id
<1>6. CASE row = TokenRow(r) /\ Issuing(r) /\ set = NewToken(r) /\ row \notin DOMAIN W(r)
  <2>1. Outgoing(r) = NewToken(r)
    BY <1>2, <1>3, <1>4, <1>6
  <2>2. job[r].user \in Id
    BY <1>1, <1>6 DEF RequestOK, Progress
  <2>3. NewToken(r) \in TokenValue
    BY <1>5, <2>2 DEF NewToken, TokenValue
  <2> QED
    BY <1>5, <1>6, <2>1, <2>3 DEF Writing
<1>7. CASE MayRevoke(r, row) /\ set = [revoked |-> TRUE]
  <2>1. row \in DOMAIN table /\ row.table = "refresh_tokens"
    BY <1>7 DEF MayRevoke
  <2>2. /\ row \in DOMAIN View(r) /\ View(r)[row] \in TokenValue
        /\ View(r)[row].token_hash = table[row].token_hash
        /\ View(r)[row].user = table[row].user
    BY <1>1, <2>1, SeenStored
  <2>3. row \in {TokenRow(id) : id \in Id}
    BY <2>1, RowNames DEF AuthInv, TableOK, AuthRowsOK
  <2>4. Outgoing(r) = Overlay(View(r)[row], [revoked |-> TRUE])
    BY <1>4, <1>7, <2>2
  <2> HIDE DEF row, set
  <2>5. /\ Outgoing(r) \in TokenValue /\ Outgoing(r).revoked
        /\ Outgoing(r).token_hash = table[row].token_hash
        /\ Outgoing(r).user = table[row].user
    BY <2>2, <2>4, Revoking
  <2>6. Writing(r, row, Outgoing(r))
    BY <1>7, <2>5 DEF Writing
  <2> QED
    BY <2>3, <2>5, <2>6 DEF row
<1>8. CASE /\ row = UserRow(r) /\ job[r].op = "register"
           /\ set = NewUser(r) /\ DOMAIN W(r) = {}
  <2>1. Outgoing(r) = NewUser(r)
    BY <1>2, <1>3, <1>4, <1>8
  <2>2. job[r] \in RegisterJobs
    BY <1>8, JobOf
  <2>3. NewUser(r) \in UserValue
    BY <2>2, AuthAssumption DEF NewUser, UserValue, RegisterJobs, UserStatus
  <2> QED
    BY <1>5, <1>8, <2>1, <2>3 DEF Writing
<1>9. CASE /\ row \in DOMAIN table /\ row.table = "users"
           /\ \/ job[r].op = "login" /\ set = [last_login |-> r]
              \/ job[r].op = "update_me" /\ set = [full_name |-> job[r].name]
  <2>1. /\ row \in DOMAIN View(r) /\ View(r)[row] \in UserValue
        /\ View(r)[row].email = table[row].email
        /\ View(r)[row].status = table[row].status
    BY <1>1, <1>9, SeenStored
  <2>2. row \in {UserRow(id) : id \in Id}
    BY <1>9, RowNames DEF AuthInv, TableOK, AuthRowsOK
  <2>3. Outgoing(r) = Overlay(View(r)[row], set)
    BY <1>4, <2>1
  <2> HIDE DEF row, set
  <2>4. CASE job[r].op = "login" /\ set = [last_login |-> r]
    <3>1. /\ Outgoing(r) \in UserValue /\ Outgoing(r).email = table[row].email
          /\ Outgoing(r).status = table[row].status
      BY <2>1, <2>3, <2>4, Stamping
    <3> QED
      BY <1>9, <2>2, <2>4, <3>1 DEF Writing, row
  <2>5. CASE job[r].op = "update_me" /\ set = [full_name |-> job[r].name]
    <3>1. job[r].name \in Name
      BY <2>5, JobOf DEF UpdateMeJobs
    <3>2. /\ Outgoing(r) \in UserValue /\ Outgoing(r).email = table[row].email
          /\ Outgoing(r).status = table[row].status
      BY <2>1, <2>3, <2>5, <3>1, Renaming
    <3> QED
      BY <1>9, <2>2, <2>5, <3>2 DEF Writing, row
  <2> QED
    BY <1>9, <2>4, <2>5
<1> QED
  BY <1>1, <1>6, <1>7, <1>8, <1>9 DEF SendsOK

\* The statement of a session is executed.
LEMMA ExecuteAuth ==
    ASSUME AuthInv, NEW r \in Request, Execute(r), UNCHANGED expired
    PROVE  Moves(r) /\ RequestOK(r)'
<1>1. /\ Waiting(r) /\ Live(r) /\ ~Over(r) /\ RequestOK(r) /\ WritesOK(r)
      /\ session[r].state = "open" /\ session[r].pending # NoStatement
  BY DEF Execute, Waiting, Live, Over, AuthInv, RequestOK
<1>2. CASE Duplicate(r)
  <2>1. Raise(r, "IntegrityError")
    BY <1>2 DEF Execute
  <2>2. job[r].op = "register" => \E o \in Request : Overtaker(r, o)
    BY <1>1, <1>2, Overtaken
  <2> QED
    BY <1>1, <2>1, <2>2, RaiseKeeps, Statuses DEF AnswerCodes
<1>3. CASE ~Duplicate(r)
  <2> DEFINE row == session[r].pending.row
  <2>1. /\ table' = table /\ job' = job
        /\ \A o \in Request \ {r} : session'[o] = session[o]
        /\ session'[r].state = "open"
        /\ session'[r].manager = session[r].manager /\ session'[r].answer = session[r].answer
        /\ session'[r].pending = NoStatement
    BY <1>3, ExecuteWrites DEF AuthInv, IInv
  <2>2. /\ DOMAIN W(r)' = DOMAIN W(r) \cup {row}
        /\ W(r)'[row] = Outgoing(r)
        /\ \A a \in DOMAIN W(r) \ {row} : W(r)'[a] = W(r)[a]
    BY <1>3, ExecuteWrites DEF AuthInv, IInv, W
  <2>3. Moves(r) /\ Live(r)'
    BY <1>1, <2>1 DEF Moves, Live
  <2>4. /\ Writing(r, row, Outgoing(r))
        /\ \/ row \in {UserRow(id) : id \in Id} /\ Outgoing(r) \in UserValue
           \/ row \in {TokenRow(id) : id \in Id} /\ Outgoing(r) \in TokenValue
    BY <1>1, Outgoings
  <2>5. /\ Taken(r)' = Taken(r) /\ NewToken(r)' = NewToken(r) /\ NewUser(r)' = NewUser(r)
        /\ (Issuing(r)' <=> Issuing(r))
        /\ \A x : MayRevoke(r, x)' <=> MayRevoke(r, x)
        /\ \A id : ActiveUser(id)' <=> ActiveUser(id)
    BY <2>1 DEF Taken, NewToken, NewUser, Issuing, MayRevoke, ActiveUser
  <2>6. \A x : Wrote(r, x) => Wrote(r, x)'
    BY <2>2 DEF Wrote
  <2> HIDE DEF row
  <2>7. Typed(r)'
    <3>1. AuthRowsOK(W(r)')
      BY <1>1, <2>2, <2>4 DEF RequestOK, Typed, AuthRowsOK
    <3> QED
      BY <1>1, <2>1, <3>1 DEF RequestOK, Typed, SessionState
  <2>8. WritesOK(r)'
    <3> SUFFICES ASSUME NEW x \in DOMAIN W(r)'
                 PROVE  Writing(r, x, W(r)'[x])
      BY <2>1, <2>5 DEF WritesOK, Writing
    <3>1. CASE x = row
      BY <2>2, <2>4, <3>1
    <3>2. CASE x # row
      BY <1>1, <2>2, <3>2 DEF WritesOK, Writing
    <3> QED
      BY <3>1, <3>2
  <2>9. Progress(r)'
    BY <1>1, <2>1, <2>3, <2>5, <2>6 DEF RequestOK, Progress
  <2>10. SendsOK(r)' /\ Stored(r)'
    BY <2>1 DEF SendsOK, Stored
  <2>11. History(r)'
    <3>1. session[r].answer = NoAnswer
      BY <1>1 DEF RequestOK, Progress
    <3>2. CASE job[r].op = "refresh"
      BY <2>1, <2>3, <3>1, <3>2, MovesGrow, RefreshHistory DEF NoAnswer
    <3>3. CASE job[r].op = "register"
      <4>1. /\ job[r].past \subseteq Committed
            /\ (session[r].state = "open" /\ job[r].pc # "start") =>
                 \A x \in DOMAIN table :
                     (x.table = "users" /\ table[x].email = Lower[job[r].email]) =>
                         Overtaker(r, x.id)
        BY <1>1, <3>3 DEF RequestOK, History
      <4>2. Committed' = Committed /\ \A o : Overtaker(r, o) => Overtaker(r, o)'
        BY <2>1, <2>3, MovesGrow DEF Overtaker
      <4> QED
        BY <1>1, <2>1, <3>1, <3>3, <4>1, <4>2 DEF History, NoAnswer
    <3> QED
      BY <2>1, <3>2, <3>3 DEF History
  <2> QED
    BY <2>3, <2>7, <2>8, <2>9, <2>10, <2>11 DEF RequestOK
<1> QED
  BY <1>2, <1>3

-----------------------------------------------------------------------------
(* A commit.                                                               *)

\* What a returned session of r commits, and what becomes of it.
LEMMA CommitFields ==
    ASSUME AuthInv, NEW r \in Request, Commit(r)
    PROVE  /\ table' = View(r) /\ job' = job
           /\ \A q \in Request \ {r} : session'[q] = session[q]
           /\ session[r].state = "returned" /\ session'[r].state = "committed"
           /\ session'[r].answer = session[r].answer /\ session'[r].manager = session[r].manager
           /\ session'[r].writes = session[r].writes /\ session'[r].pending = session[r].pending
           /\ Live(r) /\ ~Over(r) /\ RequestOK(r) /\ WritesOK(r)
           /\ job[r].pc = "done" /\ job[r].op # "logout" /\ session[r].pending = NoStatement
           /\ Committed' = Committed \cup {r} /\ r \notin Committed
<1>1. session = [q \in Request |-> session[q]] /\ IsSession(session[r])
  BY DEF AuthInv, IInv, StoreInv, Sessions
<1>2. /\ table' = View(r) /\ job' = job
      /\ \A q \in Request \ {r} : session'[q] = session[q]
      /\ session[r].state = "returned" /\ session'[r].state = "committed"
      /\ session'[r].answer = session[r].answer /\ session'[r].manager = session[r].manager
      /\ session'[r].writes = session[r].writes /\ session'[r].pending = session[r].pending
  BY <1>1 DEF Commit, IsSession
<1>3. Live(r) /\ ~Over(r) /\ RequestOK(r) /\ WritesOK(r)
  BY <1>2 DEF Live, Over, AuthInv, RequestOK
<1>4. job[r].pc = "done" /\ session[r].pending = NoStatement
  BY <1>2, <1>3 DEF RequestOK, Progress
<1>5. job[r].op # "logout"
  BY <1>4, JobOf DEF LogoutJobs
<1>6. Committed' = Committed \cup {r} /\ r \notin Committed
  BY <1>2 DEF Committed
<1> QED
  BY <1>2, <1>3, <1>4, <1>5, <1>6

\* New rows are the token or the user of the request.
LEMMA NewRows ==
    ASSUME AuthInv, NEW r \in Request, Commit(r), NEW row \in DOMAIN table' \ DOMAIN table
    PROVE  /\ row \in DOMAIN W(r) /\ table'[row] = W(r)[row] /\ row.id = r
           /\ \/ row = TokenRow(r) /\ Issuing(r) /\ table'[row] = NewToken(r)
              \/ row = UserRow(r) /\ job[r].op = "register" /\ table'[row] = NewUser(r)
<1>1. table' = View(r) /\ WritesOK(r)
  BY CommitFields
<1>2. row \in DOMAIN W(r) /\ table'[row] = W(r)[row]
  BY <1>1, ViewFacts
<1>3. \/ row = TokenRow(r) /\ Issuing(r) /\ W(r)[row] = NewToken(r)
      \/ row = UserRow(r) /\ job[r].op = "register" /\ W(r)[row] = NewUser(r)
  BY <1>1, <1>2 DEF WritesOK, MayRevoke
<1> QED
  BY <1>2, <1>3, RowNames

\* The rows that were stored stay; a token is revoked by the refresh that exchanges it.
LEMMA OldRows ==
    ASSUME AuthInv, NEW r \in Request, Commit(r), NEW row \in DOMAIN table
    PROVE  /\ row \in DOMAIN table'
           /\ row.table = "refresh_tokens" =>
                /\ table'[row].token_hash = table[row].token_hash
                /\ table'[row].user = table[row].user
                /\ table[row].revoked => table'[row].revoked
                /\ (table'[row].revoked /\ ~table[row].revoked) =>
                     /\ job[r].op = "refresh" /\ row = Taken(r)
                     /\ table[row].user = job[r].user /\ Exchanged(r, row.id)'
           /\ row.table = "users" =>
                /\ table'[row].email = table[row].email
                /\ table'[row].status = table[row].status
<1>1. /\ table' = View(r) /\ Live(r) /\ RequestOK(r) /\ job[r].op # "logout"
      /\ job[r].pc = "done" /\ job' = job /\ session'[r].state = "committed"
  BY CommitFields
<1>2. ASSUME MayRevoke(r, row)
      PROVE  /\ job[r].op = "refresh" /\ row = Taken(r)
             /\ table[row].user = job[r].user /\ Exchanged(r, row.id)'
  <2>1. job[r].op = "refresh" /\ row = Taken(r) /\ table[row].user = job[r].user
    BY <1>1, <1>2 DEF MayRevoke
  <2>2. job[r].token # Garbage /\ row.id = job[r].token.jti
    BY <1>1, <2>1, RowNames DEF RequestOK, Progress, Taken
  <2> QED
    BY <1>1, <2>1, <2>2 DEF Exchanged
<1> QED
  BY <1>1, <1>2, SeenStored

\* What is stored and what is over stays as it is.
LEMMA CommitGrows ==
    ASSUME AuthInv, NEW r \in Request, Commit(r), UNCHANGED expired
    PROVE  Grows
<1>1. /\ Committed' = Committed \cup {r} /\ r \notin Committed /\ job' = job /\ ~Over(r)
      /\ \A q \in Request \ {r} : session'[q] = session[q]
  BY CommitFields
<1>2. \A row \in DOMAIN table' \ DOMAIN table : row.id \in Committed' \ Committed
  BY <1>1, NewRows
<1>3. \A q \in Request : Over(q) => session'[q] = session[q] /\ job'[q] = job[q]
  BY <1>1
<1> QED
  BY <1>2, <1>3, OldRows DEF Grows

\* The stored rows stay in order.
LEMMA CommitTable ==
    ASSUME AuthInv, NEW r \in Request, Commit(r), UNCHANGED expired
    PROVE  TableOK'
<1>1. /\ Committed' = Committed \cup {r} /\ job' = job /\ Grows /\ RequestOK(r) /\ TableOK
      /\ table' = View(r)
  BY CommitFields, CommitGrows DEF AuthInv
<1>2. AuthRowsOK(table')
  BY <1>1, Seen
<1>3. ASSUME NEW row \in DOMAIN table' \ DOMAIN table
      PROVE  /\ row.table = "refresh_tokens" => table'[row].token_hash = row.id
             /\ row.id \in Request =>
                  /\ row.id \in Committed'
                  /\ row.table = "refresh_tokens" => job'[row.id].op \in {"login", "refresh"}
                  /\ row.table = "users" =>
                       /\ job'[row.id].op = "register"
                       /\ table'[row].email = Lower[job'[row.id].email]
             /\ row.table = "refresh_tokens" =>
                  ActiveUser(table[row].user)' /\ ~table'[row].revoked
  <2>1. row.id = r
    BY NewRows
  <2>2. CASE row = TokenRow(r) /\ Issuing(r) /\ table'[row] = NewToken(r)
    <3>1. /\ table'[row].token_hash = r /\ table'[row].user = job[r].user
          /\ ~table'[row].revoked /\ job[r].op \in {"login", "refresh"}
      BY <2>2 DEF NewToken, Issuing
    <3>2. ActiveUser(job[r].user)'
      BY <1>1, <2>2, Lasting DEF RequestOK, Progress, ActiveUser
    <3>3. ActiveUser(table[row].user)'
      BY <3>1, <3>2, <1>1 DEF ActiveUser
    <3> QED
      BY <1>1, <2>1, <2>2, <3>1, <3>3, RowNames
  <2>3. CASE row = UserRow(r) /\ job[r].op = "register" /\ table'[row] = NewUser(r)
    BY <1>1, <2>1, <2>3, RowNames DEF NewUser
  <2> QED
    BY <2>2, <2>3, NewRows
<1>4. ASSUME NEW row \in DOMAIN table
      PROVE  /\ row.table = "refresh_tokens" => table'[row].token_hash = row.id
             /\ row.id \in Request =>
                  /\ row.id \in Committed'
                  /\ row.table = "refresh_tokens" => job'[row.id].op \in {"login", "refresh"}
                  /\ row.table = "users" =>
                       /\ job'[row.id].op = "register"
                       /\ table'[row].email = Lower[job'[row.id].email]
  BY <1>1, <1>4, OldRows DEF TableOK
<1>5. ASSUME NEW row \in DOMAIN table, row.table = "refresh_tokens", Known(row.id)
      PROVE  /\ ActiveUser(table[row].user)'
             /\ table'[row].revoked => \E o \in Request : Exchanged(o, row.id)'
  <2>1. /\ ActiveUser(table[row].user) /\ table'[row].user = table[row].user
        /\ table[row].revoked => \E o \in Request : Exchanged(o, row.id)
    BY <1>1, <1>5, OldRows DEF TableOK
  <2>2. ActiveUser(table[row].user)'
    BY <1>1, <2>1, Lasting DEF ActiveUser
  <2>3. (table'[row].revoked /\ ~table[row].revoked) => Exchanged(r, row.id)'
    BY <1>5, OldRows
  <2> QED
    BY <1>1, <2>1, <2>2, <2>3, Lasting
<1>6. \A jti \in OnFile : GoodOnFile(jti) => TokenRow(jti) \in DOMAIN table'
  BY <1>1, OldRows DEF TableOK
<1> QED
  BY <1>2, <1>3, <1>4, <1>5, <1>6 DEF TableOK, Known

\* A request that has committed has stored its token, and revoked the one it took.
LEMMA CommitStored ==
    ASSUME AuthInv, NEW r \in Request, Commit(r), UNCHANGED expired
    PROVE  Stored(r)'
<1>1. /\ table' = View(r) /\ job' = job /\ Live(r) /\ ~Over(r) /\ RequestOK(r) /\ WritesOK(r)
      /\ job[r].pc = "done" /\ session[r].pending = NoStatement
  BY CommitFields
<1>2. /\ DOMAIN W(r) \subseteq DOMAIN table'
      /\ \A row \in DOMAIN W(r) : table'[row] = W(r)[row]
  BY <1>1, ViewFacts
<1>3. ASSUME job[r].op \in {"login", "refresh"} PROVE TokenRow(r) \in DOMAIN table'
  <2>1. Issuing(r)
    BY <1>1, <1>3 DEF Issuing
  <2>2. Wrote(r, TokenRow(r))
    BY <1>1, <2>1 DEF RequestOK, Progress
  <2> QED
    BY <1>1, <1>2, <2>2 DEF Wrote
<1>4. ASSUME job[r].op = "refresh"
      PROVE  Taken(r) \in DOMAIN table' /\ table'[Taken(r)].revoked
  <2>1. Wrote(r, Taken(r)) /\ job[r].token # Garbage /\ job[r].token \in Presentable
    BY <1>1, <1>4 DEF RequestOK, Progress, History
  <2>2. Taken(r) \in DOMAIN W(r)
    BY <1>1, <2>1 DEF Wrote
  <2>3. job[r].token.jti # r
    BY <1>1, <2>1, Origin, StoreAssumption DEF Presentable
  <2>4. /\ Taken(r) # TokenRow(r) /\ Taken(r) # UserRow(r)
        /\ Taken(r).table = "refresh_tokens"
    BY <2>3, RowNames DEF Taken
  <2>5. W(r)[Taken(r)].revoked
    BY <1>1, <2>2, <2>4 DEF WritesOK
  <2> QED
    BY <1>2, <2>2, <2>5
<1>5. Taken(r)' = Taken(r)
  BY <1>1 DEF Taken
<1> QED
  BY <1>1, <1>3, <1>4, <1>5 DEF Stored

\* A commit keeps the invariant.
LEMMA CommitAuth ==
    ASSUME AuthInv, IInv', NEW r \in Request, Commit(r), UNCHANGED expired
    PROVE  AuthInv'
<1>1. Grows /\ TableOK' /\ Stored(r)'
  BY CommitGrows, CommitTable, CommitStored
<1>2. /\ job' = job /\ \A q \in Request \ {r} : session'[q] = session[q]
      /\ session'[r].state = "committed" /\ RequestOK(r) /\ job[r].pc = "done"
      /\ session'[r].answer = session[r].answer /\ session'[r].manager = session[r].manager
      /\ session'[r].writes = session[r].writes /\ session'[r].pending = session[r].pending
      /\ session[r].pending = NoStatement
  BY CommitFields
<1>3. ~Live(r)' /\ W(r)' = W(r)
  BY <1>2 DEF Live, W
<1>4. Typed(r)'
  BY <1>2, <1>3 DEF RequestOK, Typed, SessionState
<1>5. Progress(r)'
  BY <1>1, <1>2, <1>3, Lasting DEF RequestOK, Progress, Issuing
<1>6. History(r)'
  <2>1. CASE job[r].op = "refresh"
    <3>1. /\ job[r].token \in Presentable /\ job[r].past \subseteq Committed
          /\ job[r].token # Garbage => \A o \in job[r].past : ~Exchanged(o, job[r].token.jti)
          /\ session[r].answer = 401 => Cause(r)
      BY <1>2, <2>1 DEF RequestOK, History
    <3>2. session'[r].answer = 401 => Cause(r)'
      BY <1>1, <1>2, <2>1, <3>1, CauseLasts
    <3>3. job[r].token # Garbage => \A o \in job[r].past : ~Exchanged(o, job[r].token.jti)'
      BY <1>1, <1>2, <3>1, Lasting
    <3> QED
      BY <1>1, <1>2, <2>1, <3>1, <3>2, <3>3, Lasting DEF History
  <2>2. CASE job[r].op = "register"
    BY <1>1, <1>2, <2>2, Lasting DEF RequestOK, History
  <2> QED
    BY <1>2, <2>1, <2>2 DEF History
<1>7. RequestOK(r)'
  BY <1>1, <1>3, <1>4, <1>5, <1>6 DEF RequestOK
<1>8. ASSUME NEW q \in Request \ {r} PROVE RequestOK(q)'
  BY <1>1, <1>2, OthersKept
<1> QED
  BY <1>1, <1>7, <1>8 DEF AuthInv

-----------------------------------------------------------------------------
(* The whole service, with its tokens.                                     *)

\* What a client may ask for has the types of its operation.
LEMMA JobsTyped ==
    ASSUME AuthInv, NEW r \in Request, NEW j \in Jobs
    PROVE  /\ j \in JobType(r) /\ j.pc = "start" /\ j.op # "none"
           /\ j.op = "refresh" => j.token \in Presentable /\ j.past = {}
           /\ j.op = "register" => j.past = {}
<1>1. /\ Tokens \subseteq Token /\ Bearers \subseteq Token
      /\ Presentable \subseteq Token \cup {Garbage}
      /\ Null \in Id \cup {Null} /\ {} \in SUBSET Own(r) /\ {} \in SUBSET Request
      /\ "viewer" \in UserRole
  BY Origin DEF Bearers, Presentable, UserRole
<1>2. CASE \E c \in Credentials : j = LoginJob(c)
  <2>1. j \in LoginJobs(r) /\ j.pc = "start" /\ j.op = "login"
    BY <1>1, <1>2, AuthAssumption DEF LoginJob, LoginJobs
  <2> QED
    BY <2>1 DEF JobType
<1>3. CASE \E t \in Presentable : j = RefreshJob(t)
  <2>1. /\ j \in RefreshJobs(r) /\ j.pc = "start" /\ j.op = "refresh"
        /\ j.token \in Presentable /\ j.past = {}
    BY <1>1, <1>3 DEF RefreshJob, RefreshJobs
  <2> QED
    BY <2>1 DEF JobType
<1>4. CASE \/ \E t \in Presentable : j = LogoutJob(t, t)
           \/ \E b \in Bearers \cup {Null}, t \in (Tokens \ Bearers) \cup {Garbage} :
                j = LogoutJob(b, t)
  <2>1. PICK b \in Bearer, t \in Token \cup {Garbage} : j = LogoutJob(b, t)
    BY <1>1, <1>4 DEF Bearer
  <2>2. j \in LogoutJobs /\ j.pc = "start" /\ j.op = "logout"
    BY <2>1 DEF LogoutJob, LogoutJobs
  <2> QED
    BY <2>2 DEF JobType
<1>5. CASE \E b \in Bearers, e \in Email, p \in Password, n \in Name :
             j = RegisterJob(b, e, p, "viewer", n)
  <2>1. /\ j \in RegisterJobs /\ j.pc = "start" /\ j.op = "register" /\ j.past = {}
    BY <1>1, <1>5 DEF RegisterJob, RegisterJobs, Bearer
  <2> QED
    BY <2>1 DEF JobType
<1>6. CASE \E b \in Presentable \cup {Null} : j = ReadMeJob(b)
  <2>1. j \in ReadMeJobs /\ j.pc = "start" /\ j.op = "get_me"
    BY <1>1, <1>6 DEF ReadMeJob, ReadMeJobs, Bearer
  <2> QED
    BY <2>1 DEF JobType
<1>7. CASE \E b \in Bearers, n \in Name : j = UpdateMeJob(b, n)
  <2>1. j \in UpdateMeJobs /\ j.pc = "start" /\ j.op = "update_me"
    BY <1>1, <1>7 DEF UpdateMeJob, UpdateMeJobs, Bearer
  <2> QED
    BY <2>1 DEF JobType
<1> QED
  BY <1>2, <1>3, <1>4, <1>5, <1>6, <1>7 DEF Jobs

\* A request that arrives has done nothing yet.
LEMMA SubmitKeeps ==
    ASSUME AuthInv, NEW r \in Request, Submit(r), UNCHANGED expired
    PROVE  Moves(r) /\ RequestOK(r)'
<1>1. PICK j \in Jobs : Arrive(r, j)
  BY DEF Submit
<1>2. session = [q \in Request |-> session[q]] /\ IsSession(session[r]) /\ RequestOK(r)
  BY DEF AuthInv, IInv, StoreInv, Sessions
<1>3. /\ session[r].state = "idle" /\ session[r].answer = NoAnswer
      /\ W(r) = NoRows /\ session[r].pending = NoStatement
  BY <1>1, <1>2 DEF Arrive, RequestOK, Progress, AuthInv, IInv, StoreInv, Sessions
<1>4. /\ \A q \in Request \ {r} : session'[q] = session[q]
      /\ session'[r].state = "open" /\ session'[r].answer = NoAnswer
      /\ session'[r].writes = session[r].writes /\ session'[r].pending = NoStatement
      /\ session'[r].manager = session[r].manager
      /\ table' = table
  BY <1>1, <1>2, <1>3 DEF Arrive, IsSession, NoStatement
<1>5. job'[r] = j /\ \A q \in Request \ {r} : job'[q] = job[q]
  BY <1>1, JobFields DEF Arrive
<1>6. /\ j \in JobType(r) /\ j.pc = "start" /\ j.op # "none"
      /\ j.op = "refresh" => j.token \in Presentable /\ j.past = {}
      /\ j.op = "register" => j.past = {}
  BY JobsTyped
<1>7. Moves(r) /\ W(r)' = W(r) /\ DOMAIN W(r) = {}
  BY <1>3, <1>4, <1>5 DEF Moves, Over, W, NoRows
<1>8. Typed(r)'
  BY <1>2, <1>4, <1>5, <1>6, <1>7 DEF RequestOK, Typed, SessionState, AnswerCodes
<1>9. Progress(r)'
  BY <1>4, <1>5, <1>6, <1>7 DEF Progress, Issuing
<1>10. Stored(r)' /\ WritesOK(r)' /\ SendsOK(r)'
  BY <1>4, <1>7 DEF Stored, WritesOK, SendsOK
<1>11. History(r)'
  <2>1. Presentable \subseteq Presentable'
    BY <1>7, MovesGrow, Lasting
  <2> QED
    BY <1>4, <1>5, <1>6, <2>1 DEF History, NoAnswer
<1> QED
  BY <1>7, <1>8, <1>9, <1>10, <1>11 DEF RequestOK

\* A token that expires gives one more cause to refuse it.
LEMMA ExpireKeeps ==
    ASSUME AuthInv, IInv', UNCHANGED storeVars, expired \subseteq expired', expired' \subseteq Token
    PROVE  AuthInv'
<1>1. table' = table /\ session' = session /\ job' = job
  BY DEF storeVars
<1>2. Grows
  BY <1>1 DEF Grows, Committed
<1>3. TableOK'
  BY <1>1, <1>2, TableKept
<1>4. \A q \in Request : RequestOK(q)'
  BY <1>1, <1>2, <1>3, OthersKept
<1> QED
  BY <1>3, <1>4 DEF AuthInv

\* Every step keeps the invariant, and only a commit changes what is stored.
LEMMA NextKeeps ==
    ASSUME AuthInv, [Next]_authVars
    PROVE  /\ AuthInv'
           /\ table' = table \/ \E r \in Request : Commit(r)
<1>1. IInv'
  BY StepKeeps DEF AuthInv
<1>2. CASE UNCHANGED authVars
  BY <1>1, <1>2, ExpireKeeps DEF authVars, storeVars, AuthInv
<1>3. ASSUME NEW token \in Tokens, Expire(token)
      PROVE  AuthInv' /\ table' = table
  <2>1. /\ UNCHANGED storeVars /\ expired \subseteq expired' /\ expired' \subseteq Token
    BY <1>3, Origin DEF Expire, AuthInv
  <2> QED
    BY <1>1, <2>1, ExpireKeeps DEF storeVars
<1>4. ASSUME NEW r \in Request, Submit(r) \/ Serve(r) \/ Crash(r), UNCHANGED expired, ~Commit(r)
      PROVE  AuthInv' /\ table' = table
  <2>1. CASE Login(r) \/ Refresh(r) \/ Logout(r) \/ Register(r)
    BY <1>4, <2>1, LoginKeeps, RefreshKeeps, LogoutKeeps, RegisterKeeps,
       <1>1, MovesKeep DEF Moves, AuthInv
  <2>2. CASE GetMe(r) \/ UpdateMe(r) \/ Submit(r) \/ Finish(r)
    BY <1>4, <2>2, ProfileKeeps, SubmitKeeps, FinishKeeps, <1>1, MovesKeep DEF Moves, AuthInv
  <2>3. CASE Execute(r) \/ Crash(r) \/ Discard(r) \/ DeadlockVictim(r)
    BY <1>4, <2>3, ExecuteAuth, AbandonKeeps, VictimKeeps, <1>1, MovesKeep DEF Moves, AuthInv
  <2> QED
    BY <1>4, <2>1, <2>2, <2>3 DEF Serve
<1>5. ASSUME NEW r \in Request, Commit(r), UNCHANGED expired PROVE AuthInv'
  BY <1>1, <1>5, CommitAuth
<1> QED
  BY <1>2, <1>3, <1>4, <1>5 DEF Next, authVars

\* What is on file when the service starts satisfies the invariant.
LEMMA InitAuth ==
    ASSUME Init
    PROVE  AuthInv
<1>1. IInv /\ expired \subseteq Token
  BY InitHolds DEF Init
<1>2. PICK m \in Managers : session = [r \in Request |-> FreshSession(m)]
  BY DEF Init
<1>3. \A r \in Request :
        /\ session[r].state = "idle" /\ session[r].manager = m /\ session[r].answer = NoAnswer
        /\ session[r].pending = NoStatement /\ W(r) = NoRows /\ job[r] = NoJob
  BY <1>2 DEF FreshSession, W, Init
<1>4. DOMAIN NoRows = {} /\ NoJob.op = "none" /\ NoJob.pc = "start"
  BY DEF NoRows, NoJob
<1>5. TableOK
  <2>1. /\ table \in Accounts /\ AuthRowsOK(table)
        /\ \A row \in DOMAIN table :
             row.id \in OnFile /\ (row.table = "refresh_tokens" => table[row].token_hash = row.id)
    BY AccountsAssumption DEF Init
  <2>2. ASSUME NEW row \in DOMAIN table, row.table = "refresh_tokens", Known(row.id)
        PROVE  ActiveUser(table[row].user) /\ ~table[row].revoked
    <3>1. GoodOnFile(row.id) /\ row = TokenRow(row.id)
      BY <2>1, <2>2, RowNames, StoreAssumption DEF Known
    <3> QED
      BY <2>1, <3>1 DEF GoodOnFile, ActiveUser
  <2>3. \A jti \in OnFile : GoodOnFile(jti) => TokenRow(jti) \in DOMAIN table
    BY <2>1 DEF GoodOnFile
  <2>4. \A row \in DOMAIN table : row.id \notin Request
    BY <2>1, StoreAssumption
  <2> QED
    BY <2>1, <2>2, <2>3, <2>4 DEF TableOK
<1>6. ASSUME NEW r \in Request PROVE RequestOK(r)
  <2>1. Typed(r)
    <3>1. NoJob \in JobType(r)
      BY DEF NoJob, JobType, NoJobs
    <3>2. m \in AllManagers /\ AuthRowsOK(W(r))
      BY <1>3, <1>4, StoreAssumption DEF AuthRowsOK
    <3> QED
      BY <1>3, <3>1, <3>2 DEF Typed, SessionState, AnswerCodes
  <2>2. Progress(r) /\ Stored(r) /\ History(r) /\ ~Live(r)
    BY <1>3, <1>4 DEF Progress, Stored, History, Live, Issuing
  <2> QED
    BY <2>1, <2>2 DEF RequestOK
<1> QED
  BY <1>1, <1>5, <1>6 DEF AuthInv

\* The invariant of tokens and accounts holds throughout.
THEOREM AuthInvariance == Spec => []AuthInv
<1>1. Init => AuthInv
  BY InitAuth
<1>2. AuthInv /\ [Next]_authVars => AuthInv'
  BY NextKeeps
<1> QED BY <1>1, <1>2, PTL DEF Spec

\* Rows, sessions and jobs have their types, answers their codes, and a request issues
\* tokens in its own name only.
THEOREM TypeCorrect == Spec => []TypeOK
<1>1. AuthInv => TypeOK
  <2> SUFFICES ASSUME AuthInv PROVE TypeOK
    OBVIOUS
  <2>1. AuthRowsOK(table) /\ expired \subseteq Token
    BY DEF AuthInv, TableOK
  <2>2. ASSUME NEW r \in Request, job[r].op \in {"login", "refresh"}
        PROVE  job[r].issued \subseteq {t \in Token : t.jti = r}
    BY <2>2, JobOf DEF LoginJobs, RefreshJobs, Own
  <2>3. ASSUME NEW r \in Request
        PROVE  /\ session[r].state \in SessionState
               /\ session[r].manager \in AllManagers
               /\ session[r].answer \in {NoAnswer, OK, CREATED, 401, 403, 404, 409, 500}
               /\ AuthRowsOK(session[r].writes)
    BY DEF AuthInv, RequestOK, Typed, AnswerCodes, W
  <2> QED
    BY <2>1, <2>2, <2>3 DEF TypeOK
<1> QED BY <1>1, AuthInvariance, PTL

\* A stored token is only ever revoked by a commit that stores its successor for the same
\* user, or by a logout: a rotation takes effect as a whole or not at all.
THEOREM RotationsAreAtomic == Spec => RotationIsAtomic
<1> DEFINE Rotates ==
      \A row \in DOMAIN table :
         (row.table = "refresh_tokens" /\ ~table[row].revoked /\ table'[row].revoked) =>
             \E r \in Request :
                 /\ session'[r].state = "committed" /\ session[r].state = "returned"
                 /\ \/ job[r].op = "logout"
                    \/ /\ job[r].op = "refresh" /\ job[r].token.jti = row.id
                       /\ TokenRow(r) \in DOMAIN table' \ DOMAIN table
                       /\ table'[TokenRow(r)].user = table[row].user
                       /\ ~table'[TokenRow(r)].revoked
<1>1. ASSUME AuthInv, [Next]_authVars PROVE [Rotates]_authVars
  <2> SUFFICES ASSUME NEW row \in DOMAIN table, row.table = "refresh_tokens",
                      ~table[row].revoked, table'[row].revoked
               PROVE  \E r \in Request :
                        /\ session'[r].state = "committed" /\ session[r].state = "returned"
                        /\ job[r].op = "refresh" /\ job[r].token.jti = row.id
                        /\ TokenRow(r) \in DOMAIN table' \ DOMAIN table
                        /\ table'[TokenRow(r)].user = table[row].user
                        /\ ~table'[TokenRow(r)].revoked
    OBVIOUS
  <2>1. PICK r \in Request : Commit(r)
    BY <1>1, NextKeeps
  <2>2. /\ session'[r].state = "committed" /\ session[r].state = "returned"
        /\ Live(r) /\ RequestOK(r) /\ job[r].pc = "done" /\ session[r].pending = NoStatement
        /\ table' = View(r)
    BY <1>1, <2>1, CommitFields
  <2>3. job[r].op = "refresh" /\ row = Taken(r) /\ table[row].user = job[r].user
    BY <1>1, <2>1, OldRows
  <2>4. job[r].token.jti = row.id
    BY <2>3, RowNames DEF Taken
  <2>5. TokenRow(r) \in DOMAIN table' \ DOMAIN table
    <3>1. TokenRow(r) \in DOMAIN W(r)
      BY <2>2, <2>3 DEF RequestOK, Progress, Issuing, Wrote
    <3>2. TokenRow(r) \notin DOMAIN table
      BY <1>1, <2>1, CommitFields, Unstored
    <3> QED
      BY <2>2, <3>1, <3>2, ViewFacts
  <2>6. table'[TokenRow(r)] = NewToken(r)
    BY <1>1, <2>1, <2>3, <2>5, NewRows
  <2> QED
    BY <2>2, <2>3, <2>4, <2>5, <2>6 DEF NewToken
<1> QED BY <1>1, AuthInvariance, PTL DEF Spec, RotationIsAtomic

\* Of two requests that have exchanged one token, neither had seen the other's commit when
\* it looked the token up: a token replayed later is refused.
THEOREM ForksOverlap == Spec => []ForkNeedsOverlap
<1>1. AuthInv => ForkNeedsOverlap
  <2> SUFFICES ASSUME AuthInv, NEW r \in Request, NEW o \in Request, NEW jti \in Id,
                      Exchanged(r, jti), Exchanged(o, jti)
               PROVE  o \notin job[r].past
    BY DEF ForkNeedsOverlap
  <2> QED
    BY DEF AuthInv, RequestOK, History, Exchanged
<1> QED BY <1>1, AuthInvariance, PTL

\* A client is signed out only for a cause: no failure, crash, deadlock or logout of
\* another request makes a refresh be refused whose token is good.
THEOREM RefusalsHaveACause == Spec => []RefusedOnlyForCause
<1>1. AuthInv => RefusedOnlyForCause
  BY DEF AuthInv, RequestOK, History, Cause, RefusedOnlyForCause
<1> QED BY <1>1, AuthInvariance, PTL

\* A registration is answered with a server error only if another one committed the same
\* address between its check and its insertion.
THEOREM ServerErrorsWereRaces == Spec => []ServerErrorsAreRaces
<1>1. AuthInv => ServerErrorsAreRaces
  BY DEF AuthInv, RequestOK, History, Overtaker, ServerErrorsAreRaces
<1> QED BY <1>1, AuthInvariance, PTL

=============================================================================
