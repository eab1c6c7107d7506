-------------------------------- MODULE Auth --------------------------------
(***************************************************************************)
(* The authentication service: login, token rotation, logout, registration *)
(* and the caller's own profile, served concurrently by sessions on one    *)
(* store.  Tokens are signed and cannot be made up: a token is a record of *)
(* its claims, and jti names the request that issued it.                   *)
(***************************************************************************)
EXTENDS Store

CONSTANTS
    Email,         \* the spellings of addresses that clients send
    Lower,         \* email.lower().strip(), as a function on Email
    Password, Name,
    Accounts,      \* the users and tokens to start from, as tables
    Credentials,   \* the [email, password] pairs that clients log in with
    OldTokens,     \* the tokens that were issued earlier
    Garbage,       \* a string that is no token
    Scenarios,     \* the sets of operations, and expiries, that meet in one behaviour
    Expiring       \* the jtis of the tokens that expire while requests are served

ASSUME AuthAssumption ==
    /\ Lower \in [Email -> Email]
    /\ \A e \in Email : Lower[Lower[e]] = Lower[e]
    /\ Credentials \subseteq [email : Email, password : Password]
    /\ Null \notin Email \cup OnFile \cup Request

VARIABLE expired   \* the tokens whose exp claim has passed

authVars == <<table, session, job, expired>>

UserRow(id) == RowOf("users", id, 0)
TokenRow(jti) == RowOf("refresh_tokens", jti, 0)

UserRole == {"admin", "warehouse_manager", "inventory_manager", "procurement",
             "delivery_manager", "viewer"}
UserStatus == {"active", "inactive", "suspended"}

\* Ids of users and of tokens: on file, or the request that creates them.
Id == OnFile \cup Request

\* bcrypt is salted, but a hash is only ever verified: it stands for its password.
hash_password(p) == [bcrypt |-> p]
verify_password(p, h) == h = hash_password(p)

\* SHA-256 is taken to be injective: the hash of a refresh token stands for its jti.
HashOf(token) == token.jti

UserValue == [email : Email, hashed_password : {hash_password(p) : p \in Password},
              role : UserRole, status : UserStatus, full_name : Name,
              last_login : Id \cup {Null}]
TokenValue == [token_hash : Id, user : Id, revoked : BOOLEAN]

\* A set of rows of the two tables.
AuthRowsOK(rows) ==
    \A row \in DOMAIN rows :
        \/ row \in {UserRow(id) : id \in Id} /\ rows[row] \in UserValue
        \/ row \in {TokenRow(id) : id \in Id} /\ rows[row] \in TokenValue

AccessToken(r, user, role) ==
    [type |-> "access", jti |-> r, sub |-> user, role |-> role]
\* Mutant: the token is named after its user, not after itself.
UserToken(r, user) == [type |-> "refresh", jti |-> user, sub |-> user]

RefreshToken(r, user) == [type |-> "refresh", jti |-> r, sub |-> user]

Token == [type : {"access"}, jti : Id, sub : Id, role : UserRole]
           \cup [type : {"refresh"}, jti : Id, sub : Id]

\* What is on file was put there by requests served earlier, in the form they store it:
\* addresses in lower case, a token under its own hash.  So were the tokens that clients
\* hold, whether or not they are still good.
ASSUME AccountsAssumption ==
    /\ \A rows \in Accounts :
         /\ Distinct(rows) /\ AuthRowsOK(rows)
         /\ \A row \in DOMAIN rows :
              /\ row.id \in OnFile
              /\ row.table = "users" => Lower[rows[row].email] = rows[row].email
              /\ row.table = "refresh_tokens" => rows[row].token_hash = row.id
    /\ OldTokens \subseteq {t \in Token : t.jti \in OnFile}

\* The rows of a table that a session sees.
Users(r) == {row \in DOMAIN View(r) : row.table = "users"}
StoredTokens(r) == {row \in DOMAIN View(r) : row.table = "refresh_tokens"}

\* Mutant: the address is looked up as it was typed.
UsersByTypedEmail(r, email) == {row \in Users(r) : View(r)[row].email = email}

\* get_by_email() and exists_by_email().
UsersByEmail(r, email) == {row \in Users(r) : View(r)[row].email = Lower[email]}

\* Mutant: revoked tokens are found as well.
FindAnyToken(r, hash) == {row \in StoredTokens(r) : View(r)[row].token_hash = hash}

\* get_refresh_token(): only a token that is not revoked is found.
FindToken(r, hash) ==
    {row \in StoredTokens(r) : View(r)[row].token_hash = hash /\ ~View(r)[row].revoked}

\* The rows that UPDATE refresh_tokens ... WHERE token_hash = hash applies to.
TokensToRevoke(r, hash) ==
    {row \in StoredTokens(r) : View(r)[row].token_hash = hash}

-----------------------------------------------------------------------------
(* Authentication of a request by its bearer token.                        *)

\* What decode_token() raises for a token, if anything.
Decodes(token) == token # Garbage /\ token \notin expired

\* The exception get_current_user_payload() raises, or Null.  No key of the denylist is
\* ever written (RedisClient has no setex, the only call that would), so the lookup
\* finds none; if Redis cannot be reached, get() returns None as well.
BearerError(token) ==
    IF token = Null THEN "UnauthorizedException"
    ELSE IF token = Garbage THEN "UnauthorizedException"
    ELSE IF token \in expired THEN "TokenExpiredException"
    ELSE IF token.type # "access" THEN "UnauthorizedException"
    ELSE Null

\* require_role() goes by the role in the token, not by the one in the database.
RoleError(token, roles) ==
    IF BearerError(token) # Null THEN BearerError(token)
    ELSE IF token.role \notin roles THEN "ForbiddenException" ELSE Null

\* A protected handler is only entered without such an error.
Deny(r, error) == error # Null /\ Raise(r, error)

At(r, op, pc) == Running(r) /\ job[r].op = op /\ job[r].pc = pc
GoTo(r, pc) == job' = [job EXCEPT ![r].pc = pc]

-----------------------------------------------------------------------------
(* POST /login                                                             *)

LoginJob(c) == [op |-> "login", pc |-> "start", email |-> c.email,
                password |-> c.password, user |-> Null, issued |-> {}]

\* Looks the user up, checks password and status, and stores a refresh token.
CheckCredentials(r) ==
    /\ At(r, "login", "start")
    /\ LET found == UsersByEmail(r, job[r].email) IN
       IF \E row \in found :
             /\ verify_password(job[r].password, View(r)[row].hashed_password)
             /\ View(r)[row].status = "active"
       THEN \E row \in found :
              LET user == View(r)[row] IN
              /\ Stage(r, TokenRow(r),
                       [token_hash |-> HashOf(RefreshToken(r, row.id)),
                        user |-> row.id, revoked |-> FALSE])
              /\ job' = [job EXCEPT ![r].pc = "stored", ![r].user = row.id,
                           ![r].issued = {AccessToken(r, row.id, user.role),
                                          RefreshToken(r, row.id)}]
       ELSE Raise(r, "UnauthorizedException")

StampLogin(r) ==
    /\ At(r, "login", "stored")
    /\ Stage(r, UserRow(job[r].user), [last_login |-> r])
    /\ GoTo(r, "done")

Login(r) == CheckCredentials(r) \/ StampLogin(r)

-----------------------------------------------------------------------------
(* POST /refresh                                                           *)

\* past: the requests whose commits the lookup of the token could see (history).
RefreshJob(token) == [op |-> "refresh", pc |-> "start", token |-> token,
                      user |-> Null, issued |-> {}, past |-> {}]

Committed == {o \in Request : session[o].state = "committed"}

DecodeRefresh(r) ==
    /\ At(r, "refresh", "start")
    /\ IF Decodes(job[r].token) /\ job[r].token.type = "refresh"
       THEN GoTo(r, "lookup") /\ UNCHANGED <<table, session>>
       ELSE Raise(r, "UnauthorizedException")

\* The stored token must be there, unrevoked and unexpired, and its user active; then
\* the token is revoked.
LookUpToken(r) ==
    /\ At(r, "refresh", "lookup")
    /\ LET found == FindToken(r, HashOf(job[r].token))
           active == {row \in found :
                        LET user == UserRow(View(r)[row].user)
                        IN  user \in Users(r) /\ View(r)[user].status = "active"}
       IN  IF job[r].token \notin expired /\ active # {}
           THEN \E row \in active :
                  /\ Stage(r, row, [revoked |-> TRUE])
                  /\ job' = [job EXCEPT ![r].pc = "revoked", ![r].past = Committed,
                                        ![r].user = View(r)[row].user]
           ELSE Raise(r, "UnauthorizedException")

\* Mutant: the old token is revoked, and no new one is stored.
IssuePairUnstored(r) ==
    /\ At(r, "refresh", "revoked")
    /\ LET user == job[r].user IN
       /\ UNCHANGED <<table, session>>
       /\ job' = [job EXCEPT ![r].pc = "done",
                    ![r].issued = {AccessToken(r, user, View(r)[UserRow(user)].role),
                                   RefreshToken(r, user)}]

IssuePair(r) ==
    /\ At(r, "refresh", "revoked")
    /\ LET user == job[r].user IN
       /\ Stage(r, TokenRow(r), [token_hash |-> HashOf(RefreshToken(r, user)),
                                 user |-> user, revoked |-> FALSE])
       /\ job' = [job EXCEPT ![r].pc = "done",
                    ![r].issued = {AccessToken(r, user, View(r)[UserRow(user)].role),
                                   RefreshToken(r, user)}]

Refresh(r) == DecodeRefresh(r) \/ LookUpToken(r) \/ IssuePair(r)

-----------------------------------------------------------------------------
(* POST /logout                                                            *)

LogoutJob(bearer, token) ==
    [op |-> "logout", pc |-> "start", bearer |-> bearer, token |-> token]

\* The body is any string; an UPDATE that finds no row to revoke is not an error.
RevokeToken(r) ==
    /\ At(r, "logout", "start")
    /\ LET token == job[r].token
           rows == IF token = Garbage THEN {} ELSE TokensToRevoke(r, token.jti)
       IN  \/ Deny(r, BearerError(job[r].bearer))
           \/ /\ BearerError(job[r].bearer) = Null
              /\ GoTo(r, "denylist")
              /\ IF rows = {} THEN UNCHANGED <<table, session>>
                 ELSE \E row \in rows : Stage(r, row, [revoked |-> TRUE])

\* redis.setex(): RedisClient has no such method.
DenyAccessToken(r) ==
    /\ At(r, "logout", "denylist")
    /\ Raise(r, "AttributeError")

Logout(r) == RevokeToken(r) \/ DenyAccessToken(r)

-----------------------------------------------------------------------------
(* POST /register                                                          *)

RegisterJob(bearer, email, password, role, name) ==
    [op |-> "register", pc |-> "start", bearer |-> bearer, email |-> email,
     password |-> password, role |-> role, name |-> name, past |-> {}]

CheckEmail(r) ==
    /\ At(r, "register", "start")
    /\ LET error == RoleError(job[r].bearer, {"admin"}) IN
       \/ Deny(r, error)
       \/ /\ error = Null
          /\ IF UsersByEmail(r, job[r].email) # {}
             THEN Raise(r, "ConflictException")
             ELSE /\ job' = [job EXCEPT ![r].pc = "insert", ![r].past = Committed]
                  /\ UNCHANGED <<table, session>>

\* Mutant: the address is stored as it was typed.
InsertTyped(r) ==
    /\ At(r, "register", "insert")
    /\ Stage(r, UserRow(r),
             [email |-> job[r].email, hashed_password |-> hash_password(job[r].password),
              role |-> job[r].role, status |-> "active", full_name |-> job[r].name,
              last_login |-> Null])
    /\ GoTo(r, "done")

\* The password is hashed, and the user inserted, after the check.
InsertUser(r) ==
    /\ At(r, "register", "insert")
    /\ Stage(r, UserRow(r),
             [email |-> Lower[job[r].email],
              hashed_password |-> hash_password(job[r].password),
              role |-> job[r].role, status |-> "active", full_name |-> job[r].name,
              last_login |-> Null])
    /\ GoTo(r, "done")

Register(r) == CheckEmail(r) \/ InsertUser(r)

-----------------------------------------------------------------------------
(* GET and PUT /me                                                         *)

ReadMeJob(bearer) == [op |-> "get_me", pc |-> "start", bearer |-> bearer]
UpdateMeJob(bearer, name) ==
    [op |-> "update_me", pc |-> "start", bearer |-> bearer, name |-> name]

GetMe(r) ==
    /\ At(r, "get_me", "start")
    /\ LET bearer == job[r].bearer IN
       \/ Deny(r, BearerError(bearer))
       \/ /\ BearerError(bearer) = Null
          /\ IF UserRow(bearer.sub) \in Users(r)
             THEN GoTo(r, "done") /\ UNCHANGED <<table, session>>
             ELSE Raise(r, "ResourceNotFoundException")

\* Nothing is updated for a user that is not there, and reading its id then fails.
UpdateMe(r) ==
    /\ At(r, "update_me", "start")
    /\ LET bearer == job[r].bearer IN
       \/ Deny(r, BearerError(bearer))
       \/ /\ BearerError(bearer) = Null
          /\ IF UserRow(bearer.sub) \in Users(r)
             THEN Stage(r, UserRow(bearer.sub), [full_name |-> job[r].name]) /\ GoTo(r, "done")
             ELSE Raise(r, "AttributeError")

-----------------------------------------------------------------------------
(* The service.                                                            *)

\* The tokens that clients hold: those issued earlier, and those they were sent.
Sent == {r \in Request : session[r].state \in {"committed", "discarded"}
                           /\ job[r].op \in {"login", "refresh"}}
Tokens == OldTokens \cup UNION {job[r].issued : r \in Sent}
Presentable == Tokens \cup {Garbage}

Done(r) == Running(r) /\ job[r].pc = "done"
Finish(r) ==
    /\ Done(r)
    /\ Respond(r, IF job[r].op = "register" THEN CREATED ELSE OK)

NoJob == [op |-> "none", pc |-> "start"]

Init ==
    /\ table \in Accounts
    /\ \E m \in Managers : session = [r \in Request |-> FreshSession(m)]
    /\ job = [r \in Request |-> NoJob]
    /\ expired = {}

Bearers == {t \in Tokens : t.type = "access"}

\* What clients may ask for: bearer and refresh token need not belong together, and either
\* may be missing, of the wrong type, or no token at all.
Jobs ==
    {LoginJob(c) : c \in Credentials}
      \cup {RefreshJob(t) : t \in Presentable}
      \cup {LogoutJob(t, t) : t \in Presentable}
      \cup {LogoutJob(b, t) : b \in Bearers \cup {Null},
                             t \in (Tokens \ Bearers) \cup {Garbage}}
      \cup {RegisterJob(b, e, p, "viewer", n) :
              b \in Bearers, e \in Email, p \in Password, n \in Name}
      \cup {ReadMeJob(b) : b \in Presentable \cup {Null}}
      \cup {UpdateMeJob(b, n) : b \in Bearers, n \in Name}

\* Bounds the instance: which operations may run against each other.
InScenario(op) ==
    \E s \in Scenarios :
        /\ op \in s
        /\ expired # {} => "expire" \in s
        /\ \A o \in Request : job[o].op \in s \cup {"none"}

Submit(r) == \E j \in Jobs : InScenario(j.op) /\ Arrive(r, j)

Serve(r) ==
    \/ Login(r)
    \/ Refresh(r)
    \/ Logout(r)
    \/ Register(r)
    \/ GetMe(r)
    \/ UpdateMe(r)
    \/ Execute(r)
    \/ Finish(r)
    \/ Commit(r)
    \/ Discard(r)
    \/ DeadlockVictim(r)

\* Time passes: a token a client holds expires.
Expire(token) ==
    /\ token \in Tokens \ expired
    /\ InScenario("expire") /\ token.jti \in Expiring
    /\ expired' = expired \cup {token}
    /\ UNCHANGED storeVars

Next ==
    \/ \E r \in Request : (Submit(r) \/ Serve(r) \/ Crash(r)) /\ UNCHANGED expired
    \/ \E token \in Tokens : Expire(token)

Spec == Init /\ [][Next]_authVars

-----------------------------------------------------------------------------
(* Types.                                                                  *)

\* Every variable holds rows, sessions and tokens of the schema's shapes, and a job
\* only ever issues tokens in its own name.
TypeOK ==
    /\ AuthRowsOK(table)
    /\ \A r \in Request :
         /\ session[r].state \in SessionState
         /\ session[r].manager \in AllManagers
         /\ session[r].answer \in {NoAnswer, OK, CREATED, 401, 403, 404, 409, 500}
         /\ AuthRowsOK(session[r].writes)
         /\ job[r].op \in {"login", "refresh"} =>
               job[r].issued \subseteq {t \in Token : t.jti = r}
    /\ expired \subseteq Token

-----------------------------------------------------------------------------
(* Properties.                                                             *)

\* An address is one account, however it is spelled and however many registrations of
\* it run at the same time.
OneAccountPerAddress ==
    \A a, b \in {row \in DOMAIN table : row.table = "users"} :
        Lower[table[a].email] = Lower[table[b].email] => a = b

\* The request that has exchanged a refresh token: its new pair is stored.
Exchanged(r, jti) ==
    /\ job[r].op = "refresh" /\ job[r].token # Garbage /\ job[r].token.jti = jti
    /\ session[r].state = "committed"

\* A refresh token is exchanged twice only by requests that overlap, each having looked
\* it up before the other committed: replayed later, it is refused.
ForkNeedsOverlap ==
    \A r, o \in Request : \A jti \in Id :
        r # o /\ Exchanged(r, jti) /\ Exchanged(o, jti) =>
            r \notin job[o].past /\ o \notin job[r].past

\* A stored token is revoked only together with the insertion of its successor, for the
\* same user (or by a logout): whatever fails in between, the user is not left with
\* a revoked token and no new one.
RotationIsAtomic ==
    [][\A row \in DOMAIN table :
         (row.table = "refresh_tokens" /\ ~table[row].revoked /\ table'[row].revoked) =>
             \E r \in Request :
                 /\ session'[r].state = "committed" /\ session[r].state = "returned"
                 /\ \/ job[r].op = "logout"
                    \/ /\ job[r].op = "refresh" /\ job[r].token.jti = row.id
                       /\ TokenRow(r) \in DOMAIN table' \ DOMAIN table
                       /\ table'[TokenRow(r)].user = table[row].user
                       /\ ~table'[TokenRow(r)].revoked
      ]_authVars

\* An earlier token that is on file, unrevoked, and of an active user.
GoodOnFile(jti) ==
    /\ jti \in OnFile
    /\ \A rows \in Accounts :
         /\ TokenRow(jti) \in DOMAIN rows
         /\ ~rows[TokenRow(jti)].revoked
         /\ LET user == UserRow(rows[TokenRow(jti)].user)
            IN  user \in DOMAIN rows /\ rows[user].status = "active"

\* A refresh token was stored: it was on file, or the request that sent it to its
\* client committed.
WasStored(token) ==
    GoodOnFile(token.jti) \/ token.jti \in Committed

\* A refresh is refused only for a cause: its token is no refresh token, has expired,
\* was not on file, or has been exchanged by another request.  Nothing else that
\* fails, crashes or logs out meanwhile signs a client out.
RefusedOnlyForCause ==
    \A r \in Request :
        (job[r].op = "refresh" /\ session[r].answer = 401) =>
            LET token == job[r].token IN
            \/ token = Garbage
            \/ token.type # "refresh"
            \/ token \in expired
            \/ ~WasStored(token)
            \/ \E o \in Request \ {r} : Exchanged(o, token.jti)

\* The check of an address and its insertion are two steps: a registration that gets
\* past the check and fails on the unique index was overtaken by another that
\* committed the same address in between.
ServerErrorsAreRaces ==
    \A r \in Request :
        (job[r].op = "register" /\ session[r].answer = 500) =>
            \E o \in Committed \ job[r].past :
                /\ job[o].op = "register"
                /\ Lower[job[o].email] = Lower[job[r].email]

-----------------------------------------------------------------------------
(* What the documentation says of the program, and the code does not do.   *)

\* "logout() -> revoke refresh token + add access token to denylist": once a logout has
\* got past its authentication and was answered, its refresh token is not accepted.
LogoutRevokes ==
    \A r \in Request :
        (job[r].op = "logout" /\ session[r].answer \notin {NoAnswer, 401}
           /\ ~Live(r) /\ job[r].token # Garbage) =>
            \A row \in DOMAIN table :
                row.table = "refresh_tokens" /\ row.id = job[r].token.jti =>
                    table[row].revoked

=============================================================================
