------------------------------ MODULE Database ------------------------------
(***************************************************************************)
(* The relational store as the backend uses it: the tables of the          *)
(* procurement and inventory models, the SQLAlchemy session that serves    *)
(* one request, and the two session managers of the code base.             *)
(*                                                                         *)
(* PostgreSQL runs at READ COMMITTED (the engine sets no isolation level): *)
(* a SELECT sees what is committed when it runs, overlaid with the         *)
(* transaction's own writes; an UPDATE locks its row until the transaction *)
(* ends and waits while another transaction holds the lock.                *)
(***************************************************************************)
EXTENDS Integers, Sequences, FiniteSets

CONSTANTS
    Product,       \* ids of the products on file
    Unknown,       \* a product id that is not on file
    Warehouse,     \* ids of the warehouses on file
    OnFile,        \* ids drawn by requests served earlier
    Request,       \* the HTTP requests; each is served once, by one session
    Managers,      \* the session managers in use
    PoolSize,      \* connections the engine hands out (pool_size + overflow)
    MaxInt,        \* the largest value of an Integer column
    Null           \* None

\* The two managers the code defines; get_db is the one the routes depend on.
AllManagers == {"get_db", "get_async_session"}

ASSUME DatabaseAssumption ==
    /\ Managers \subseteq AllManagers
    /\ PoolSize \in Nat \ {0}
    /\ MaxInt \in Nat \ {0}
    /\ Unknown \notin Product
    /\ OnFile \cap Request = {}
    /\ Null \notin Int

VARIABLES
    table,     \* the committed rows, by row identity
    ledger,    \* the committed rows of inventory_transactions, in commit order
    session,   \* the session of each request
    job        \* the coroutine serving each request: operation, arguments, position

dbVars == <<table, ledger, session>>
vars == <<table, ledger, session, job>>

-----------------------------------------------------------------------------
(* Schema.  A row is identified by its table and primary key.  Keys that a *)
(* request draws with uuid4() carry the request, so they never collide.    *)

\* inventory_stocks has no unique constraint on (product_id, warehouse_id).
StockRow(p, w, r) ==
    [table |-> "inventory_stocks", product |-> p, warehouse |-> w, id |-> r]
StockRows == [table : {"inventory_stocks"}, product : Product,
              warehouse : Warehouse, id : OnFile \cup Request]

\* A purchase order is on file or is created by one of the requests.
PO == OnFile \cup Request

PORow(o) == [table |-> "purchase_orders", id |-> o]
PORows == [table : {"purchase_orders"}, id : PO]

GRNRow(r) == [table |-> "goods_receipt_notes", id |-> r]
GRNRows == [table : {"goods_receipt_notes"}, id : Request]

BatchRow(r, i) == [table |-> "inventory_batches", id |-> r, line |-> i]
BatchRows == [table : {"inventory_batches"}, id : Request, line : Nat]

POStatus == {"draft", "pending_approval", "approved", "rejected",
             "partially_received", "fully_received", "cancelled"}
GRNStatus == {"draft", "in_progress", "completed", "discrepancy"}

\* Column values: an Integer column refuses what does not fit its width.
Fits(n) == n \in -MaxInt - 1 .. MaxInt
Column == {n \in Int : Fits(n)}

\* A balance is counted up from zero or set by a count, which is not negative.
Balance == Column \cap Nat

POLine == [product : Product, ordered : Column, received : Column]
POValue == [status : POStatus, warehouse : Warehouse, lines : Seq(POLine)]

GRNLine == [product : Product, received : Column, accepted : Column,
            batch : BOOLEAN]
GRNValue == [po : PO, status : GRNStatus, lines : Seq(GRNLine)]

\* A row of the ledger; "by" is the request that wrote it (for a receipt, its GRN).
Entry == [type : {"grn_receipt", "manual_adjustment_in", "manual_adjustment_out"},
          product : Product, warehouse : Warehouse,
          change : Column, before : Balance, after : Balance, by : OnFile \cup Request]

\* A set of rows with values of their tables.
RowsOK(f) ==
    /\ f = [row \in DOMAIN f |-> f[row]]
    /\ DOMAIN f \subseteq StockRows \cup PORows \cup GRNRows \cup BatchRows
    /\ \A row \in DOMAIN f :
         /\ row \in StockRows => f[row] \in Balance
         /\ row \in PORows => f[row] \in POValue
         /\ row \in GRNRows => f[row] \in GRNValue
         /\ row \in BatchRows => f[row] \in Column

-----------------------------------------------------------------------------
(* Sessions.                                                               *)

NoRows == [row \in {} |-> 0]

\* The rows of f, those of g taking precedence.
Overlay(f, g) ==
    [row \in DOMAIN f \cup DOMAIN g |-> IF row \in DOMAIN g THEN g[row] ELSE f[row]]

SessionState == {"idle", "waiting", "open", "returned",
                 "committed", "discarded", "failed"}

\* writes: rows sent to the server in this transaction; posted: ledger rows sent;
\* dirty, entries: rows and ledger rows the pending flush is about to send.
FreshSession(m) ==
    [state |-> "idle", manager |-> m,
     writes |-> NoRows, posted |-> <<>>, dirty |-> NoRows, entries |-> <<>>]

SessionOK(s) ==
    /\ s = [state |-> s.state, manager |-> s.manager,
            writes |-> s.writes, posted |-> s.posted,
            dirty |-> s.dirty, entries |-> s.entries]
    /\ s.state \in SessionState
    /\ s.manager \in AllManagers
    /\ RowsOK(s.writes) /\ RowsOK(s.dirty)
    /\ s.posted \in Seq(Entry) /\ s.entries \in Seq(Entry)

\* A session holds a connection, and its transaction is in progress.
Live(r) == session[r].state \in {"open", "returned"}

Held(r) == IF Live(r) THEN DOMAIN session[r].writes ELSE {}

LockedByOther(r, row) == \E o \in Request \ {r} : row \in Held(o)

View(r) == Overlay(table, session[r].writes)

\* Nothing waits to be flushed.
Clean(r) == DOMAIN session[r].dirty = {} /\ session[r].entries = <<>>

\* The coroutine may run its next statement.
Running(r) == session[r].state = "open" /\ Clean(r)

\* The unit of work: insert the new rows at once (they are visible to this
\* transaction only) and leave the rows and entries of the next flush pending.
Stage(r, new, dirty, entries) ==
    /\ session' = [session EXCEPT ![r].writes = Overlay(@, new),
                                  ![r].dirty = dirty,
                                  ![r].entries = entries]
    /\ UNCHANGED <<table, ledger>>

\* Mutant: ledger rows are written outside the transaction.
FlushPosting(r) ==
    /\ session[r].state = "open"
    /\ ~Clean(r)
    /\ \A row \in DOMAIN session[r].dirty : ~LockedByOther(r, row)
    /\ session' = [session EXCEPT ![r].writes = Overlay(@, session[r].dirty),
                                  ![r].dirty = NoRows, ![r].entries = <<>>]
    /\ ledger' = ledger \o session[r].entries
    /\ UNCHANGED <<table, job>>

\* flush(): the UPDATEs wait for the row locks, then all statements are sent.  (The
\* INSERTs of other rows that refer to a locked row do not conflict with its lock.)
Flush(r) ==
    /\ session[r].state = "open"
    /\ ~Clean(r)
    /\ \A row \in DOMAIN session[r].dirty : ~LockedByOther(r, row)
    /\ session' = [session EXCEPT
                     ![r].writes = Overlay(@, session[r].dirty),
                     ![r].posted = @ \o session[r].entries,
                     ![r].dirty = NoRows,
                     ![r].entries = <<>>]
    /\ UNCHANGED <<table, ledger, job>>

\* A request arrives with a job; its session is created but not yet connected.
Arrive(r, m, j) ==
    /\ session[r].state = "idle"
    /\ session' = [session EXCEPT ![r].state = "waiting", ![r].manager = m]
    /\ job' = [job EXCEPT ![r] = j]
    /\ UNCHANGED <<table, ledger>>

InUse == {r \in Request : Live(r)}

\* The first statement checks a connection out of the pool...
Connect(r) ==
    /\ session[r].state = "waiting"
    /\ Cardinality(InUse) < PoolSize
    /\ session' = [session EXCEPT ![r].state = "open"]
    /\ UNCHANGED <<table, ledger, job>>

\* ... or gives up after pool_timeout seconds without one.
PoolTimeout(r) ==
    /\ session[r].state = "waiting"
    /\ Cardinality(InUse) >= PoolSize
    /\ session' = [session EXCEPT ![r].state = "failed"]
    /\ UNCHANGED <<table, ledger, job>>

\* Mutant: the error path commits what the handler had done so far.
RaiseCommitting(r) ==
    /\ table' = Overlay(table, session[r].writes)
    /\ ledger' = ledger \o session[r].posted
    /\ session' = [session EXCEPT ![r].state = "failed"]
    /\ UNCHANGED job

\* Mutant: an exception neither rolls back nor closes the session.
RaiseLeaking(r) == UNCHANGED vars

\* An exception leaves the handler: rollback, close, and an error response.
Raise(r) ==
    /\ session' = [session EXCEPT ![r].state = "failed"]
    /\ UNCHANGED <<table, ledger, job>>

\* The handler returns what the client will be told: that the operation succeeded.
\* The session manager resumes after it, before the response is sent.
Respond(r) ==
    /\ session' = [session EXCEPT ![r].state = "returned"]
    /\ UNCHANGED <<table, ledger, job>>

\* get_async_session() commits when its body ends without an exception.
Commit(r) ==
    /\ session[r].state = "returned"
    /\ session[r].manager = "get_async_session"
    /\ table' = Overlay(table, session[r].writes)
    /\ ledger' = ledger \o session[r].posted
    /\ session' = [session EXCEPT ![r].state = "committed"]
    /\ UNCHANGED job

\* get_db() only closes the session, which rolls its transaction back.
Discard(r) ==
    /\ session[r].state = "returned"
    /\ session[r].manager = "get_db"
    /\ session' = [session EXCEPT ![r].state = "discarded"]
    /\ UNCHANGED <<table, ledger, job>>

\* The worker or its connection dies: the server rolls the transaction back.
Crash(r) ==
    /\ Live(r)
    /\ session' = [session EXCEPT ![r].state = "failed"]
    /\ UNCHANGED <<table, ledger, job>>

\* Sessions that wait for each other's row locks; PostgreSQL aborts one of them.
Deadlocked(r) ==
    \E C \in SUBSET InUse :
        /\ r \in C
        /\ \A c \in C : \E d \in C \ {c} :
              DOMAIN session[c].dirty \cap Held(d) # {}

DeadlockVictim(r) == Deadlocked(r) /\ Raise(r)

=============================================================================
