------------------------------- MODULE Store -------------------------------
(***************************************************************************)
(* The part of the relational store on which the catalog and the           *)
(* authentication service build: rows with unique columns, statements that *)
(* wait for row locks and for undecided unique keys, and the sessions that *)
(* send them.                                                              *)
(*                                                                         *)
(* PostgreSQL runs at READ COMMITTED.  A SELECT sees what is committed     *)
(* when it runs, overlaid with the transaction's own writes.  An UPDATE    *)
(* waits until no other transaction holds its row, then sets its columns   *)
(* on the latest committed version.  A statement that enters a key of a    *)
(* unique index waits while the transaction that last wrote that key is in *)
(* progress, and raises IntegrityError if another row has it then.         *)
(***************************************************************************)
EXTENDS Answers, FiniteSets

CONSTANTS
    Request,       \* the HTTP requests; each is served once, by one session
    OnFile,        \* ids drawn by requests served earlier
    Managers,      \* the session managers in use
    Null           \* None

\* The two managers the code defines; get_db is the one the routes depend on.
AllManagers == {"get_db", "get_async_session"}

ASSUME StoreAssumption ==
    /\ Managers \subseteq AllManagers
    /\ OnFile \cap Request = {}

VARIABLES
    table,     \* the committed rows, by row identity
    session,   \* the session of each request
    job        \* the coroutine serving each request: operation, arguments, position

storeVars == <<table, session, job>>

-----------------------------------------------------------------------------
(* Schema.                                                                 *)

\* The n-th row that request r inserts into table t; primary keys are drawn with
\* uuid4() or identify the request, so they never collide.
RowOf(t, r, n) == [table |-> t, id |-> r, n |-> n]

\* The columns with a unique constraint.
Unique ==
    [users |-> {"email"}, refresh_tokens |-> {"token_hash"},
     products |-> {"sku", "barcode"}, product_categories |-> {"name", "slug"},
     suppliers |-> {"code", "gst_number"}]

\* The entries of a row in the unique indexes of its table; NULLs do not collide.
KeysOf(row, value) ==
    {<<row.table, c, value[c]>> : c \in {d \in Unique[row.table] : value[d] # Null}}

KeysIn(rows) == UNION {KeysOf(row, rows[row]) : row \in DOMAIN rows}

NoRows == [row \in {} |-> 0]

\* The rows (or columns) of f, those of g taking precedence.
Overlay(f, g) ==
    [x \in DOMAIN f \cup DOMAIN g |-> IF x \in DOMAIN g THEN g[x] ELSE f[x]]

-----------------------------------------------------------------------------
(* Sessions.                                                               *)

\* The statement a session has sent and that has not been executed: the row it inserts
\* or updates, and the columns it sets.
NoStatement == [row |-> Null, set |-> NoRows]

\* writes: the rows this transaction has written; answer: the status for the client;
\* error: the exception that left the handler, as the log shows it.
FreshSession(m) ==
    [state |-> "idle", manager |-> m, writes |-> NoRows,
     pending |-> NoStatement, answer |-> NoAnswer, error |-> Null]

SessionState == {"idle", "open", "returned", "committed", "discarded", "failed"}

\* A session has a transaction in progress.
Live(r) == session[r].state \in {"open", "returned"}

Held(r) == IF Live(r) THEN DOMAIN session[r].writes ELSE {}

View(r) == Overlay(table, session[r].writes)

Waiting(r) == session[r].state = "open" /\ session[r].pending # NoStatement

\* The coroutine may run its next statement.
Running(r) == session[r].state = "open" /\ session[r].pending = NoStatement

\* What the row of the statement will hold.
Outgoing(r) ==
    LET p == session[r].pending
    IN  IF p.row \in DOMAIN View(r) THEN Overlay(View(r)[p.row], p.set) ELSE p.set

\* Keys that depend on the outcome of the transaction of o: those it has entered and
\* those of the committed rows it has superseded.
Undecided(o) ==
    IF Live(o)
    THEN KeysIn(session[o].writes)
           \cup KeysIn([row \in Held(o) \cap DOMAIN table |-> table[row]])
    ELSE {}

\* The transactions that a statement has to wait for.
Blockers(r) ==
    {o \in Request \ {r} :
        \/ session[r].pending.row \in Held(o)
        \/ KeysOf(session[r].pending.row, Outgoing(r)) \cap Undecided(o) # {}}

\* Another row has one of the keys that the statement enters.
Duplicate(r) ==
    LET p == session[r].pending
    IN  \E other \in DOMAIN View(r) \ {p.row} :
          KeysOf(p.row, Outgoing(r)) \cap KeysOf(other, View(r)[other]) # {}

\* The handler sends a statement: an INSERT of a new row, or an UPDATE of a visible one.
Stage(r, row, set) ==
    /\ session' = [session EXCEPT ![r].pending = [row |-> row, set |-> set]]
    /\ UNCHANGED table

\* A request arrives with a job; its session is opened by its first statement.
Arrive(r, j) ==
    /\ session[r].state = "idle"
    /\ session' = [session EXCEPT ![r].state = "open"]
    /\ job' = [job EXCEPT ![r] = j]
    /\ UNCHANGED table

\* Mutant: what was written before the exception is kept.
RaiseKeeping(r, e) ==
    /\ table' = View(r)
    /\ session' = [session EXCEPT ![r].state = "failed", ![r].answer = StatusOf(e),
                                  ![r].error = e]
    /\ UNCHANGED job

\* Mutant: an exception neither rolls back nor closes the session.
RaiseLeaking(r, e) == UNCHANGED storeVars

\* An exception leaves the handler: rollback, close, and the answer of its handler.
Raise(r, e) ==
    /\ session' = [session EXCEPT ![r].state = "failed", ![r].answer = StatusOf(e),
                                  ![r].error = e]
    /\ UNCHANGED <<table, job>>

\* The database executes the statement once nothing blocks it.
Execute(r) ==
    /\ Waiting(r)
    /\ Blockers(r) = {}
    /\ \/ Duplicate(r) /\ Raise(r, "IntegrityError")
       \/ /\ ~Duplicate(r)
          /\ session' = [session EXCEPT
                 ![r].writes = Overlay(@, [x \in {session[r].pending.row} |-> Outgoing(r)]),
                 ![r].pending = NoStatement]
          /\ UNCHANGED <<table, job>>

\* The handler returns; the session manager resumes after it, before the answer is sent.
Respond(r, status) ==
    /\ session' = [session EXCEPT ![r].state = "returned", ![r].answer = status]
    /\ UNCHANGED <<table, job>>

\* get_async_session() commits when its body ends without an exception.
Commit(r) ==
    /\ session[r].state = "returned"
    /\ session[r].manager = "get_async_session"
    /\ table' = View(r)
    /\ session' = [session EXCEPT ![r].state = "committed"]
    /\ UNCHANGED job

\* get_db() only closes the session, which rolls its transaction back.
Discard(r) ==
    /\ session[r].state = "returned"
    /\ session[r].manager = "get_db"
    /\ session' = [session EXCEPT ![r].state = "discarded"]
    /\ UNCHANGED <<table, job>>

\* The worker or its connection dies: the server rolls the transaction back.
Crash(r) ==
    /\ Live(r)
    /\ session' = [session EXCEPT ![r].state = "failed", ![r].answer = NoAnswer]
    /\ UNCHANGED <<table, job>>

\* Sessions each of which waits for another of them: a cycle if there is no smaller such set.
Stuck(C) == C # {} /\ \A c \in C : Waiting(c) /\ Blockers(c) \cap C # {}

\* PostgreSQL aborts one of the sessions of a cycle.
DeadlockVictim(r) ==
    /\ \E C \in SUBSET {o \in Request : Waiting(o)} :
         r \in C /\ Stuck(C) /\ \A D \in SUBSET C : Stuck(D) => D = C
    /\ Raise(r, "DBAPIError")

-----------------------------------------------------------------------------
(* What every component on this store relies on.                           *)

\* The rows of a table are told apart by each of its unique columns.
Distinct(rows) ==
    \A a, b \in DOMAIN rows :
        a # b => KeysOf(a, rows[a]) \cap KeysOf(b, rows[b]) = {}

\* What becomes of a request, as the abstract specification sees it.
Outcome ==
    [r \in Request |->
        CASE session[r].state = "idle" -> "none"
          [] session[r].state \in {"open", "returned"} -> "pending"
          [] session[r].state = "committed" -> "applied"
          [] OTHER -> "abandoned"]

Abstract == INSTANCE UnitOfWork WITH outcome <- Outcome, ledger <- <<>>

\* The statements, waits and failures of concurrent sessions implement requests that
\* take effect in one step or not at all, and delete nothing.
ImplementsUnitOfWork == Abstract!Spec

\* Every request that has arrived is answered, one way or another, and its transaction
\* ends; in particular no wait for a lock or a key lasts for ever.
EveryRequestEnds ==
    \A r \in Request : session[r].state # "idle" ~>
        session[r].state \in {"committed", "discarded", "failed"}

=============================================================================
