---------------------------- MODULE ReceiptProofs ----------------------------
(***************************************************************************)
(* What the stored documents of Procurement say: orders, receipts, batches *)
(* and balances, for every number of requests, every request body, every   *)
(* pool and both session managers.                                         *)
(*                                                                         *)
(* A flush moves work from the pending part of a session to the part that  *)
(* was sent.  The invariants are about the two parts together, so that no  *)
(* flush disturbs them.                                                    *)
(***************************************************************************)
EXTENDS ProcurementProofs, FiniteSetTheorems

\* What a session has written or is about to write, and to post.
Work(r) == Overlay(session[r].writes, session[r].dirty)
Posts(r) == session[r].posted \o session[r].entries

\* Before its first statement a coroutine has written nothing.
Untouched(r) ==
    /\ session[r].state \in {"idle", "waiting"} => job[r].pc = "start"
    /\ job[r].pc = "start" => /\ DOMAIN Work(r) = {} /\ Posts(r) = <<>>
                              /\ job[r].op = "create_grn" => job[r].i = 1

\* A handler that has returned has run to its end, and everything was flushed.
Finished(r) ==
    session[r].state \in {"returned", "committed"} => job[r].pc = "done" /\ Clean(r)

\* Notes and batches are written by their own request only, a receipt.
Documents == GRNRows \cup BatchRows
OwnDocuments(r) ==
    \A row \in DOMAIN Work(r) \cap Documents : row.id = r /\ job[r].op = "create_grn"

\* What an order orders, and for where.
SameOrder(v, u) == v.warehouse = u.warehouse /\ v.lines = u.lines

\* An order is inserted as a draft, or its status is updated to the one the operation
\* gives it and the rest is left as it is stored.
OrderWork(r) ==
    \A row \in DOMAIN Work(r) \cap PORows :
        \/ job[r].op = "create_po" /\ row = PORow(r) /\ Work(r)[row].status = "draft"
        \/ /\ job[r].op \in {"approve_po", "create_grn"}
           /\ row = PORow(job[r].po)
           /\ row \in DOMAIN table
           /\ Work(r)[row].status =
                IF job[r].op = "approve_po" THEN "approved" ELSE "fully_received"
           /\ SameOrder(Work(r)[row], table[row])

\* Past the approval.
Advanced == {"approved", "fully_received"}

\* A receipt has found its order in the store, approved.
GoodsOrder(r) ==
    job[r].op = "create_grn" /\ job[r].pc # "start" =>
        /\ PORow(job[r].po) \in DOMAIN table
        /\ table[PORow(job[r].po)].status \in Advanced

\* The balances that a session sets are explained by its own postings.
BalanceWork(r) ==
    \A row \in DOMAIN Work(r) \cap StockRows : Explained(row, Work(r)[row], Posts(r))

\* The first n lines of the receipt that are credited.
CreditedTo(j, n) == {i \in 1 .. n : Credited(j.auto, j.lines[i])}

\* The ledger row of a line.
PostsLine(e, line, w) ==
    e.product = line.product /\ e.warehouse = w /\ e.change = line.accepted

\* The postings are those of the lines numbered in C, in order and one for each.
InStep(posts, C, lines, w) ==
    /\ Len(posts) = Cardinality(C)
    /\ \A i \in C : /\ Place(i, C) \in 1 .. Len(posts)
                    /\ PostsLine(posts[Place(i, C)], lines[i], w)
    /\ \A n \in 1 .. Len(posts) : \E i \in C : Place(i, C) = n

\* The rows of a receipt that has worked through its first i - 1 lines.
ReceiptWork(r) ==
    job[r].op = "create_grn" /\ job[r].pc # "start" =>
        LET j == job[r]
            C == CreditedTo(j, j.i - 1)
        IN  /\ j.i <= Len(j.lines) + 1
            /\ j.pc = "done" => j.i = Len(j.lines) + 1
            /\ GRNRow(r) \in DOMAIN Work(r)
            /\ Work(r)[GRNRow(r)] =
                 [po |-> j.po, lines |-> SubSeq(j.lines, 1, j.i - 1),
                  status |-> IF j.auto THEN "completed" ELSE "draft"]
            /\ InStep(Posts(r), C, j.lines, table[PORow(j.po)].warehouse)
            /\ DOMAIN Work(r) \cap BatchRows =
                 {BatchRow(r, i) : i \in {c \in C : j.lines[c].batch}}

\* The m positions after k.
Span(k, m) == {k + n : n \in 1 .. m}

\* What a request has committed is what it had written: its documents, unchanged since,
\* and its ledger rows, one after the other.
Stored(r) ==
    session[r].state = "committed" =>
        /\ {row \in DOMAIN table \cap Documents : row.id = r} = DOMAIN Work(r) \cap Documents
        /\ \A row \in DOMAIN Work(r) \cap Documents : table[row] = Work(r)[row]
        /\ \E k \in 0 .. Len(ledger) :
             /\ PostedBy(r) = Span(k, Len(Posts(r)))
             /\ \A n \in 1 .. Len(Posts(r)) : ledger[k + n] = Posts(r)[n]

\* What holds of a request at each of its positions.
RequestInv(r) ==
    /\ Untouched(r)
    /\ Finished(r)
    /\ OwnDocuments(r)
    /\ OrderWork(r)
    /\ GoodsOrder(r)
    /\ BalanceWork(r)
    /\ ReceiptWork(r)
    /\ Stored(r)

\* A committed approval of o.
Approval(o) == \E q \in Request : /\ session[q].state = "committed"
                                  /\ job[q].op = "approve_po"
                                  /\ job[q].po = o

\* What holds of the stored orders.
OrdersInv ==
    /\ \A row \in DOMAIN table \cap PORows : table[row].status \in {"draft"} \cup Advanced
    /\ \A o \in Request : PORow(o) \in DOMAIN table =>
          table[PORow(o)].status = "draft" \/ Approval(o)

\* The inductive invariant.
ReceiptInv ==
    /\ IInv
    /\ \A r \in Request : RequestInv(r)
    /\ OrdersInv
    /\ BalancesArePosted
-----------------------------------------------------------------------------
\* Work and postings are well typed, and, once flushed, what was sent.
LEMMA WorkOK ==
    ASSUME DataInv, NEW r \in Request
    PROVE  /\ RowsOK(Work(r))
           /\ DOMAIN Work(r) = DOMAIN session[r].writes \cup DOMAIN session[r].dirty
           /\ Posts(r) \in Seq(Entry)
           /\ Clean(r) => Work(r) = session[r].writes /\ Posts(r) = session[r].posted
<1>1. SessionOK(session[r])
  BY DEF DataInv, SessionsOK
<1>2. /\ RowsOK(session[r].writes) /\ RowsOK(session[r].dirty)
      /\ session[r].posted \in Seq(Entry) /\ session[r].entries \in Seq(Entry)
  BY <1>1 DEF SessionOK
<1>3. /\ RowsOK(Work(r))
      /\ DOMAIN Work(r) = DOMAIN session[r].writes \cup DOMAIN session[r].dirty
  BY <1>2, OverlayOK DEF Work
<1>4. Clean(r) => Work(r) = session[r].writes
  BY <1>2 DEF Clean, Work, Overlay, RowsOK
<1>5. Posts(r) \in Seq(Entry)
  BY <1>2 DEF Posts
<1>6. ASSUME Clean(r) PROVE Posts(r) = session[r].posted
  <2>1. session[r].posted \o <<>> = session[r].posted
    BY <1>2
  <2> QED
    BY <1>6, <2>1 DEF Clean, Posts
<1> QED
  BY <1>3, <1>4, <1>5, <1>6

\* What a running coroutine sees is the store under its work.
LEMMA ViewOfWork ==
    ASSUME DataInv, NEW r \in Request, Clean(r)
    PROVE  View(r) = Overlay(table, Work(r))
BY WorkOK DEF View

\* What was stored stays so while nothing is stored and the request does not move.
LEMMA StoredKept ==
    ASSUME NEW q \in Request, Stored(q), Work(q)' = Work(q), Posts(q)' = Posts(q),
           session'[q].state = "committed" <=> session[q].state = "committed",
           table' = table, ledger' = ledger
    PROVE  Stored(q)'
<1>1. PostedBy(q)' = PostedBy(q)
  BY DEF PostedBy
<1> QED
  BY <1>1 DEF Stored

\* A step that writes nothing, sends nothing new and moves no coroutine.
Quiet ==
    /\ \A q \in Request : /\ Work(q)' = Work(q)
                          /\ Posts(q)' = Posts(q)
                          /\ session'[q].state = "committed" <=> session[q].state = "committed"
    /\ UNCHANGED <<table, ledger, job>>

\* Quiet steps keep the invariant, but for where the sessions are.
LEMMA QuietKeepsReceiptInv ==
    ASSUME ReceiptInv, IInv', Quiet, \A q \in Request : Untouched(q)' /\ Finished(q)'
    PROVE  ReceiptInv'
<1>1. ASSUME NEW q \in Request PROVE RequestInv(q)'
  <2>1. /\ Work(q)' = Work(q) /\ Posts(q)' = Posts(q)
        /\ session'[q].state = "committed" <=> session[q].state = "committed"
        /\ table' = table /\ ledger' = ledger /\ job' = job
    BY DEF Quiet
  <2>2. RequestInv(q) /\ Untouched(q)' /\ Finished(q)'
    BY DEF ReceiptInv
  <2>3. (OwnDocuments(q) /\ OrderWork(q) /\ GoodsOrder(q) /\ BalanceWork(q))'
    BY <2>1, <2>2 DEF RequestInv, OwnDocuments, OrderWork, GoodsOrder, BalanceWork
  <2>4. ReceiptWork(q)'
    BY <2>1, <2>2 DEF RequestInv, ReceiptWork
  <2>5. Stored(q)'
    BY <2>1, <2>2, StoredKept DEF RequestInv
  <2> QED
    BY <2>2, <2>3, <2>4, <2>5 DEF RequestInv
<1>2. OrdersInv'
  BY DEF ReceiptInv, OrdersInv, Quiet, Approval
<1>3. BalancesArePosted'
  BY DEF ReceiptInv, BalancesArePosted, Quiet
<1> QED
  BY <1>1, <1>2, <1>3 DEF ReceiptInv

\* A change of the state of a session that commits nothing is quiet.
LEMMA StateIsQuiet ==
    ASSUME DataInv, NEW r \in Request, NEW s \in SessionState \ {"committed"},
           session' = [session EXCEPT ![r].state = s], UNCHANGED <<table, ledger, job>>,
           session[r].state # "committed"
    PROVE  /\ Quiet
           /\ session'[r].state = s /\ \A q \in Request \ {r} : session'[q] = session[q]
           /\ \A q \in Request : Clean(q)' = Clean(q)
<1>1. Becomes(r, s, session[r].manager)
  BY StateStep
<1>2. /\ \A q \in Request \ {r} : session'[q] = session[q]
      /\ session'[r].state = s
      /\ session'[r].writes = session[r].writes /\ session'[r].posted = session[r].posted
      /\ session'[r].dirty = session[r].dirty /\ session'[r].entries = session[r].entries
  BY <1>1 DEF Becomes
<1>3. \A q \in Request : Work(q)' = Work(q) /\ Posts(q)' = Posts(q) /\ Clean(q)' = Clean(q)
  BY <1>2 DEF Work, Posts, Clean
<1> QED
  BY <1>2, <1>3 DEF Quiet

\* Connecting, returning, failing and being rolled back keep the invariant.
LEMMA StateKeepsReceiptInv ==
    ASSUME ReceiptInv, NEW r \in Request, NEW s \in {"open", "returned", "failed", "discarded"},
           session' = [session EXCEPT ![r].state = s], UNCHANGED <<table, ledger, job>>,
           session[r].state \in {"waiting", "open", "returned"},
           s = "returned" => job[r].pc = "done" /\ Clean(r)
    PROVE  ReceiptInv'
<1>1. DataInv /\ IInv'
  BY StateKeepsIInv DEF ReceiptInv, IInv, SessionState
<1>2. /\ Quiet
      /\ session'[r].state = s /\ \A q \in Request \ {r} : session'[q] = session[q]
      /\ \A q \in Request : Clean(q)' = Clean(q)
  BY <1>1, StateIsQuiet DEF SessionState
<1>3. \A q \in Request : Work(q)' = Work(q) /\ Posts(q)' = Posts(q) /\ job'[q] = job[q]
  BY <1>2 DEF Quiet
<1>4. \A q \in Request : Untouched(q) /\ Finished(q)
  BY DEF ReceiptInv, RequestInv
<1>5. \A q \in Request : Untouched(q)'
  BY <1>2, <1>3, <1>4 DEF Untouched
<1>6. \A q \in Request : Finished(q)'
  BY <1>2, <1>3, <1>4 DEF Finished
<1> QED
  BY <1>1, <1>2, <1>5, <1>6, QuietKeepsReceiptInv

\* A flush is quiet: what was pending is now sent.
LEMMA FlushIsQuiet ==
    ASSUME DataInv, NEW r \in Request, Flush(r)
    PROVE  /\ Quiet
           /\ \A q \in Request : session'[q].state = session[q].state
           /\ \A q \in Request \ {r} : Clean(q)' = Clean(q)
<1>1. SessionOK(session[r]) /\ session = [q \in Request |-> session[q]]
  BY DEF DataInv, SessionsOK
<1>2. /\ \A q \in Request \ {r} : session'[q] = session[q]
      /\ session'[r].state = session[r].state /\ session[r].state = "open"
      /\ session'[r].writes = Work(r) /\ session'[r].dirty = NoRows
      /\ session'[r].posted = Posts(r) /\ session'[r].entries = <<>>
      /\ UNCHANGED <<table, ledger, job>>
  BY <1>1 DEF Flush, SessionOK, Work, Posts
<1>3. RowsOK(Work(r)) /\ Posts(r) \in Seq(Entry)
  BY <1>1, WorkOK
<1>4. Work(r)' = Work(r)
  BY <1>2, <1>3, NoRowsOK DEF Work, Overlay, RowsOK
<1>5. Posts(r)' = Posts(r)
  BY <1>2, <1>3 DEF Posts
<1>6. \A q \in Request \ {r} : Work(q)' = Work(q) /\ Posts(q)' = Posts(q) /\ Clean(q)' = Clean(q)
  BY <1>2 DEF Work, Posts, Clean
<1> QED
  BY <1>2, <1>4, <1>5, <1>6 DEF Quiet

\* A flush keeps the invariant.
LEMMA FlushKeepsReceiptInv ==
    ASSUME ReceiptInv, NEW r \in Request, Flush(r)
    PROVE  ReceiptInv'
<1>1. DataInv /\ IInv' /\ session[r].state = "open"
  BY FlushKeepsIInv DEF ReceiptInv, IInv, Flush
<1>2. /\ Quiet
      /\ \A q \in Request : session'[q].state = session[q].state
      /\ \A q \in Request \ {r} : Clean(q)' = Clean(q)
  BY <1>1, FlushIsQuiet
<1>3. \A q \in Request : Work(q)' = Work(q) /\ Posts(q)' = Posts(q) /\ job'[q] = job[q]
  BY <1>2 DEF Quiet
<1>4. \A q \in Request : Untouched(q) /\ Finished(q)
  BY DEF ReceiptInv, RequestInv
<1>5. \A q \in Request : Untouched(q)'
  BY <1>2, <1>3, <1>4 DEF Untouched
<1>6. \A q \in Request : Finished(q)'
  BY <1>1, <1>2, <1>3, <1>4 DEF Finished
<1> QED
  BY <1>1, <1>2, <1>5, <1>6, QuietKeepsReceiptInv
-----------------------------------------------------------------------------
\* Initially no request has done anything, and the books on file are explained.
LEMMA InitReceiptInv == Init => ReceiptInv
<1> SUFFICES ASSUME Init PROVE ReceiptInv
  OBVIOUS
<1>1. IInv
  BY InitIInv
<1>2. PICK f \in Filed : table = f.table /\ ledger = f.ledger
  BY DEF Init
<1>3. \A q \in Request : session[q] = FreshSession("get_db") /\ job[q] = NoJob
  BY DEF Init
<1>4. ASSUME NEW q \in Request PROVE RequestInv(q)
  <2>1. DOMAIN Work(q) = {} /\ Posts(q) = <<>>
    BY <1>3, NoRowsOK DEF FreshSession, Work, Overlay, Posts
  <2>2. Untouched(q) /\ Finished(q)
    BY <1>3, <2>1 DEF Untouched, Finished, FreshSession, NoJob
  <2>3. OwnDocuments(q) /\ OrderWork(q) /\ BalanceWork(q)
    BY <2>1 DEF OwnDocuments, OrderWork, BalanceWork
  <2>4. GoodsOrder(q) /\ ReceiptWork(q) /\ Stored(q)
    BY <1>3 DEF GoodsOrder, ReceiptWork, Stored, NoJob, FreshSession
  <2> QED
    BY <2>2, <2>3, <2>4 DEF RequestInv
<1>5. OrdersInv
  <2>1. \A row \in DOMAIN table : row.id \notin Request
    BY <1>2, ProcurementAssumption, DatabaseAssumption
  <2>2. \A row \in DOMAIN table \cap PORows : table[row].status \in {"draft"} \cup Advanced
    BY <1>2, ProcurementAssumption DEF Advanced
  <2> QED
    BY <2>1, <2>2 DEF OrdersInv, PORow
<1>6. BalancesArePosted
  BY <1>2, BooksAssumption DEF BalancesArePosted
<1> QED
  BY <1>1, <1>4, <1>5, <1>6 DEF ReceiptInv

\* The arrival of a request: its job is at the start and has done nothing.
LEMMA SubmitKeepsReceiptInv ==
    ASSUME ReceiptInv, NEW r \in Request, Submit(r)
    PROVE  ReceiptInv'
<1>1. PICK m \in Managers, j \in Jobs : Arrive(r, m, j)
  BY DEF Submit
<1>2. IInv /\ IInv' /\ SessionOK(session[r]) /\ session = [q \in Request |-> session[q]]
  BY SubmitKeepsIInv DEF ReceiptInv, IInv, DataInv, SessionsOK
<1>3. /\ \A q \in Request \ {r} : session'[q] = session[q] /\ job'[q] = job[q]
      /\ session[r].state = "idle" /\ session'[r].state = "waiting"
      /\ session'[r].writes = session[r].writes /\ session'[r].posted = session[r].posted
      /\ session'[r].dirty = session[r].dirty /\ session'[r].entries = session[r].entries
      /\ job'[r] = j /\ j.pc = "start"
      /\ UNCHANGED <<table, ledger>>
  BY <1>1, <1>2, JobsOK DEF Arrive, SessionOK, IInv, JobInv
<1>4. j.op = "create_grn" => j.i = 1
  BY DEF Jobs, CreatePOJob, ApprovePOJob, CreateGRNJob, AdjustJob
<1>5. \A q \in Request : Work(q)' = Work(q) /\ Posts(q)' = Posts(q) /\ Clean(q)' = Clean(q)
  BY <1>3 DEF Work, Posts, Clean
<1>6. \A q \in Request : RequestInv(q)
  BY DEF ReceiptInv
<1>7. ASSUME NEW q \in Request \ {r} PROVE RequestInv(q)'
  <2>1. /\ Work(q)' = Work(q) /\ Posts(q)' = Posts(q) /\ Clean(q)' = Clean(q)
        /\ session'[q] = session[q] /\ job'[q] = job[q]
        /\ table' = table /\ ledger' = ledger
    BY <1>3, <1>5
  <2>2. RequestInv(q)
    BY <1>6
  <2>3. (Untouched(q) /\ Finished(q) /\ OwnDocuments(q) /\ OrderWork(q) /\ GoodsOrder(q)
           /\ BalanceWork(q))'
    BY <2>1, <2>2 DEF RequestInv, Untouched, Finished, OwnDocuments, OrderWork, GoodsOrder,
                      BalanceWork
  <2>4. ReceiptWork(q)'
    BY <2>1, <2>2 DEF RequestInv, ReceiptWork
  <2>5. Stored(q)'
    BY <2>1, <2>2, StoredKept DEF RequestInv
  <2> QED
    BY <2>3, <2>4, <2>5 DEF RequestInv
<1>8. RequestInv(r)'
  <2>1. DOMAIN Work(r) = {} /\ Posts(r) = <<>>
    BY <1>3, <1>6 DEF RequestInv, Untouched
  <2>2. (Untouched(r) /\ Finished(r))'
    BY <1>3, <1>4, <1>5, <2>1 DEF Untouched, Finished
  <2>3. (OwnDocuments(r) /\ OrderWork(r) /\ BalanceWork(r))'
    BY <1>5, <2>1 DEF OwnDocuments, OrderWork, BalanceWork
  <2>4. (GoodsOrder(r) /\ ReceiptWork(r) /\ Stored(r))'
    BY <1>3 DEF GoodsOrder, ReceiptWork, Stored
  <2> QED
    BY <2>2, <2>3, <2>4 DEF RequestInv
<1>9. OrdersInv'
  <2>1. \A o \in Request : Approval(o) => Approval(o)'
    BY <1>3 DEF Approval
  <2> QED
    BY <1>3, <2>1 DEF ReceiptInv, OrdersInv
<1>10. BalancesArePosted'
  BY <1>3 DEF ReceiptInv, BalancesArePosted
<1> QED
  BY <1>2, <1>7, <1>8, <1>9, <1>10 DEF ReceiptInv
-----------------------------------------------------------------------------
\* What a statement adds to the work of its request.
LEMMA StagedWork ==
    ASSUME DataInv, NEW r \in Request, NEW new, NEW dirty, NEW entries,
           Running(r), Stage(r, new, dirty, entries), RowsOK(new)
    PROVE  /\ Work(r)' = Overlay(Overlay(Work(r), new), dirty)
           /\ Posts(r)' = Posts(r) \o entries
           /\ session[r].state = "open" /\ session'[r].state = "open"
           /\ \A q \in Request \ {r} : /\ session'[q] = session[q]
                                       /\ Work(q)' = Work(q)
                                       /\ Posts(q)' = Posts(q)
           /\ table' = table /\ ledger' = ledger
<1>1. /\ \A q \in Request \ {r} : session'[q] = session[q]
      /\ session'[r] = [state |-> session[r].state, manager |-> session[r].manager,
                        writes |-> Overlay(session[r].writes, new),
                        posted |-> session[r].posted,
                        dirty |-> dirty, entries |-> entries]
      /\ table' = table /\ ledger' = ledger
  BY StageStep
<1>2. Work(r) = session[r].writes /\ Posts(r) = session[r].posted
  BY WorkOK DEF Running
<1>3. Work(r)' = Overlay(Overlay(Work(r), new), dirty) /\ Posts(r)' = Posts(r) \o entries
  <2>1. session'[r].writes = Overlay(Work(r), new) /\ session'[r].dirty = dirty
        /\ session'[r].posted = Posts(r) /\ session'[r].entries = entries
    BY <1>1, <1>2
  <2> QED
    BY <2>1 DEF Work, Posts
<1>4. \A q \in Request \ {r} : Work(q)' = Work(q) /\ Posts(q)' = Posts(q)
  BY <1>1 DEF Work, Posts
<1> QED
  BY <1>1, <1>3, <1>4 DEF Running

\* The part of a request's invariant that a statement has to establish.
WorkInv(r) ==
    OwnDocuments(r) /\ OrderWork(r) /\ GoodsOrder(r) /\ BalanceWork(r) /\ ReceiptWork(r)

\* A statement whose work is in order keeps the invariant.
LEMMA StageKeepsReceiptInv ==
    ASSUME ReceiptInv, IInv', NEW r \in Request, NEW new, NEW dirty, NEW entries, NEW j,
           Running(r), Stage(r, new, dirty, entries), RowsOK(new),
           job' = [job EXCEPT ![r] = j], j.pc # "start",
           WorkInv(r)'
    PROVE  ReceiptInv'
<1>1. DataInv /\ job \in [Request -> Job]
  BY DEF ReceiptInv, IInv, JobInv
<1>2. /\ session[r].state = "open" /\ session'[r].state = "open"
      /\ \A q \in Request \ {r} : /\ session'[q] = session[q]
                                  /\ Work(q)' = Work(q)
                                  /\ Posts(q)' = Posts(q)
      /\ table' = table /\ ledger' = ledger
  BY <1>1, StagedWork
<1>3. job'[r] = j /\ \A q \in Request \ {r} : job'[q] = job[q]
  BY <1>1
<1>4. ASSUME NEW q \in Request \ {r} PROVE RequestInv(q)'
  <2>1. /\ Work(q)' = Work(q) /\ Posts(q)' = Posts(q)
        /\ session'[q] = session[q] /\ job'[q] = job[q]
        /\ table' = table /\ ledger' = ledger
    BY <1>2, <1>3
  <2>2. RequestInv(q)
    BY DEF ReceiptInv
  <2>3. (Untouched(q) /\ Finished(q) /\ OwnDocuments(q) /\ OrderWork(q) /\ GoodsOrder(q)
           /\ BalanceWork(q))'
    BY <2>1, <2>2 DEF RequestInv, Untouched, Finished, Clean, OwnDocuments, OrderWork,
                      GoodsOrder, BalanceWork
  <2>4. ReceiptWork(q)'
    BY <2>1, <2>2 DEF RequestInv, ReceiptWork
  <2>5. Stored(q)'
    BY <2>1, <2>2, StoredKept DEF RequestInv
  <2> QED
    BY <2>3, <2>4, <2>5 DEF RequestInv
<1>5. RequestInv(r)'
  <2>1. (Untouched(r) /\ Finished(r) /\ Stored(r))'
    BY <1>2, <1>3 DEF Untouched, Finished, Stored
  <2> QED
    BY <2>1 DEF RequestInv, WorkInv
<1>6. OrdersInv'
  <2>1. \A o \in Request : Approval(o) => Approval(o)'
    BY <1>2, <1>3 DEF Approval
  <2> QED
    BY <1>2, <2>1 DEF ReceiptInv, OrdersInv
<1>7. BalancesArePosted'
  BY <1>2 DEF ReceiptInv, BalancesArePosted
<1> QED
  BY <1>4, <1>5, <1>6, <1>7 DEF ReceiptInv

\* Every row is of one kind.
LEMMA RowKinds ==
    /\ StockRows \cap PORows = {} /\ StockRows \cap Documents = {} /\ PORows \cap Documents = {}
    /\ GRNRows \cap BatchRows = {}
    /\ \A o \in PO : PORow(o) \in PORows
    /\ \A r \in Request : PORow(r) \in PORows /\ GRNRow(r) \in GRNRows
    /\ \A r \in Request, i \in Nat : BatchRow(r, i) \in BatchRows
BY DEF StockRows, PORows, Documents, GRNRows, BatchRows, PORow, PO, GRNRow, BatchRow

\* What a statement that posts nothing posts.
NoEntries == <<>>

\* It is a sequence of entries.
LEMMA NoEntriesOK == NoEntries \in Seq(Entry)
BY DEF NoEntries

\* The rows and postings of a request after a statement.
LEMMA NextWork ==
    ASSUME DataInv, NEW r \in Request, Running(r),
           NEW new, NEW dirty, NEW entries,
           Stage(r, new, dirty, entries), RowsOK(new), RowsOK(dirty)
    PROVE  /\ \A row : row \in DOMAIN Work(r)' <=>
                row \in DOMAIN Work(r) \/ row \in DOMAIN new \/ row \in DOMAIN dirty
           /\ \A row : row \in DOMAIN Work(r)' =>
                Work(r)'[row] = IF row \in DOMAIN dirty THEN dirty[row]
                                ELSE IF row \in DOMAIN new THEN new[row] ELSE Work(r)[row]
           /\ Posts(r)' = Posts(r) \o entries
           /\ table' = table
<1>1. /\ Work(r)' = Overlay(Overlay(Work(r), new), dirty)
      /\ Posts(r)' = Posts(r) \o entries
      /\ table' = table
  BY StagedWork
<1>2. LET f == Overlay(Overlay(Work(r), new), dirty) IN
      /\ \A row : row \in DOMAIN f <=>
           row \in DOMAIN Work(r) \/ row \in DOMAIN new \/ row \in DOMAIN dirty
      /\ \A row : row \in DOMAIN f =>
           f[row] = IF row \in DOMAIN dirty THEN dirty[row]
                    ELSE IF row \in DOMAIN new THEN new[row] ELSE Work(r)[row]
  BY DEF Overlay
<1> QED
  BY <1>1, <1>2

\* The first statement of a handler reads the store as it is...
LEMMA FirstView ==
    ASSUME ReceiptInv, NEW r \in Request, Running(r), job[r].pc = "start"
    PROVE  /\ DOMAIN View(r) = DOMAIN table
           /\ \A row \in DOMAIN table : View(r)[row] = table[row]
<1>1. DataInv /\ RequestInv(r)
  BY DEF ReceiptInv, IInv
<1>2. DOMAIN Work(r) = {}
  BY <1>1 DEF RequestInv, Untouched
<1>3. View(r) = Overlay(table, Work(r))
  BY <1>1, ViewOfWork DEF Running
<1> QED
  BY <1>2, <1>3 DEF Overlay

\* ... and its work is what it stages.
LEMMA FirstWork ==
    ASSUME ReceiptInv, NEW r \in Request, Running(r), job[r].pc = "start",
           NEW new, NEW dirty, NEW entries \in Seq(Entry),
           Stage(r, new, dirty, entries), RowsOK(new), RowsOK(dirty)
    PROVE  /\ \A row : row \in DOMAIN Work(r)' <=> row \in DOMAIN new \/ row \in DOMAIN dirty
           /\ \A row : row \in DOMAIN Work(r)' =>
                Work(r)'[row] = IF row \in DOMAIN dirty THEN dirty[row] ELSE new[row]
           /\ Posts(r)' = entries
           /\ table' = table
<1>1. DataInv /\ RequestInv(r)
  BY DEF ReceiptInv, IInv
<1>2. DOMAIN Work(r) = {} /\ Posts(r) = <<>>
  BY <1>1 DEF RequestInv, Untouched
<1>3. <<>> \o entries = entries
  OBVIOUS
<1> QED
  BY <1>1, <1>2, <1>3, NextWork

\* An exception keeps the invariant.
LEMMA RaiseKeepsReceiptInv ==
    ASSUME ReceiptInv, NEW r \in Request, Raise(r),
           session[r].state \in {"waiting", "open", "returned"}
    PROVE  ReceiptInv'
BY StateKeepsReceiptInv DEF Raise

\* create_po keeps the invariant: it writes one order, a draft.
LEMMA CreatePOKeepsReceiptInv ==
    ASSUME ReceiptInv, NEW r \in Request, CreatePO(r)
    PROVE  ReceiptInv'
<1> DEFINE items == job[r].items
           Bad == \E i \in DOMAIN items :
                     items[i].product = Unknown \/ items[i].ordered = Null
                        \/ ~Fits(items[i].ordered)
           j == [job[r] EXCEPT !.pc = "done"]
<1>0. IInv' /\ IInv /\ Running(r) /\ job[r].pc = "start"
  BY CreatePOKeepsIInv DEF ReceiptInv, CreatePO
<1>1. job[r] \in [op : {"create_po"}, pc : PC, warehouse : Warehouse, items : Seq(Item)]
  BY <1>0 DEF CreatePO, IInv, JobInv, Job
<1>2. CASE Bad
  BY <1>2, RaiseKeepsReceiptInv DEF CreatePO, Running
<1>3. CASE ~Bad
  <2>0. Stage(r, NewOrder(r), NoRows, NoEntries)
    BY <1>3 DEF CreatePO, NewOrder, NoEntries
  <2>1. job' = [job EXCEPT ![r] = j]
    BY <1>3 DEF CreatePO
  <2>2. j.pc = "done" /\ j.op = "create_po" /\ job'[r] = j
    BY <1>0, <1>1, <2>1 DEF IInv, JobInv
  <2>3. RowsOK(NewOrder(r)) /\ DOMAIN NewOrder(r) = {PORow(r)}
    BY <1>1, <1>3, NewOrderOK
  <2>4. NewOrder(r)[PORow(r)].status = "draft"
    BY DEF NewOrder
  <2> HIDE DEF j
  <2>5. /\ \A row : row \in DOMAIN Work(r)' <=>
                      row \in DOMAIN NewOrder(r) \/ row \in DOMAIN NoRows
        /\ \A row : row \in DOMAIN Work(r)' =>
             Work(r)'[row] = IF row \in DOMAIN NoRows THEN NoRows[row] ELSE NewOrder(r)[row]
    BY <1>0, <2>0, <2>3, FirstWork, NoRowsOK, NoEntriesOK
  <2>6. DOMAIN Work(r)' = {PORow(r)} /\ Work(r)'[PORow(r)].status = "draft"
    BY <2>3, <2>4, <2>5, NoRowsOK
  <2>7. WorkInv(r)'
    BY <2>2, <2>6, RowKinds
       DEF WorkInv, OwnDocuments, OrderWork, GoodsOrder, BalanceWork, ReceiptWork
  <2> QED
    BY <1>0, <2>0, <2>1, <2>2, <2>3, <2>7, StageKeepsReceiptInv
<1> QED
  BY <1>2, <1>3

\* approve_po keeps the invariant: it writes its order, approved.
LEMMA ApprovePOKeepsReceiptInv ==
    ASSUME ReceiptInv, NEW r \in Request, ApprovePO(r)
    PROVE  ReceiptInv'
<1> DEFINE o == job[r].po
           row == PORow(o)
           Bad == row \notin DOMAIN View(r) \/ View(r)[row].status \notin Approvable
           dirty == WithStatus(r, o, "approved")
           j == [job[r] EXCEPT !.pc = "done"]
<1>0. IInv' /\ IInv /\ Running(r) /\ job[r].pc = "start"
  BY ApprovePOKeepsIInv DEF ReceiptInv, ApprovePO
<1>1. job[r] \in [op : {"approve_po"}, pc : PC, po : PO]
  BY <1>0 DEF ApprovePO, IInv, JobInv, Job
<1>2. CASE Bad
  BY <1>2, RaiseKeepsReceiptInv DEF ApprovePO, Running
<1>3. CASE ~Bad
  <2>0. Stage(r, NoRows, dirty, NoEntries)
    BY <1>3 DEF ApprovePO, NoEntries
  <2>1. job' = [job EXCEPT ![r] = j]
    BY <1>3 DEF ApprovePO
  <2>2. j.pc = "done" /\ j.op = "approve_po" /\ j.po = o /\ job'[r] = j
    BY <1>0, <1>1, <2>1 DEF IInv, JobInv
  <2>3. RowsOK(dirty) /\ DOMAIN dirty = {row} /\ View(r)[row] \in POValue
    <3>1. RowsOK(View(r)) /\ row \in PORows /\ row \in DOMAIN View(r)
      BY <1>0, <1>1, <1>3, ViewOK, RowKinds DEF IInv
    <3>2. View(r)[row] \in POValue
      BY <3>1 DEF RowsOK
    <3> QED
      BY <1>0, <1>1, <1>3, <3>2, WithStatusOK DEF IInv, POStatus
  <2>4. dirty[row].status = "approved" /\ SameOrder(dirty[row], View(r)[row])
    BY <2>3 DEF WithStatus, SameOrder, POValue
  <2> HIDE DEF dirty, j
  <2>5. row \in DOMAIN table /\ View(r)[row] = table[row]
    BY <1>0, <1>3, FirstView
  <2>6. /\ \A x : x \in DOMAIN Work(r)' <=> x \in DOMAIN NoRows \/ x \in DOMAIN dirty
        /\ \A x : x \in DOMAIN Work(r)' =>
             Work(r)'[x] = IF x \in DOMAIN dirty THEN dirty[x] ELSE NoRows[x]
        /\ table' = table
    BY <1>0, <2>0, <2>3, FirstWork, NoRowsOK, NoEntriesOK
  <2>7. DOMAIN Work(r)' = {row} /\ Work(r)'[row] = dirty[row] /\ table' = table
    BY <2>3, <2>6, NoRowsOK
  <2>8. row \in PORows
    BY <1>1, RowKinds
  <2>9. WorkInv(r)'
    BY <2>2, <2>4, <2>5, <2>7, <2>8, RowKinds
       DEF WorkInv, OwnDocuments, OrderWork, GoodsOrder, BalanceWork, ReceiptWork
  <2> QED
    BY <1>0, <2>0, <2>1, <2>2, <2>9, StageKeepsReceiptInv, NoRowsOK
<1> QED
  BY <1>2, <1>3

\* The balance row that a handler sets is one of its product and warehouse, new at zero.
LEMMA StockPair ==
    ASSUME NEW r \in Request, NEW p, NEW w
    PROVE  /\ OpenStock(r, p, w).product = p /\ OpenStock(r, p, w).warehouse = w
           /\ \A row \in DOMAIN NewStock(r, p, w) :
                row = OpenStock(r, p, w) /\ NewStock(r, p, w)[row] = 0
<1>1. CASE StockOf(r, p, w) = {}
  BY <1>1 DEF OpenStock, NewStock, StockRow
<1>2. CASE StockOf(r, p, w) # {}
  BY <1>2 DEF OpenStock, NewStock, StockOf, NoRows
<1> QED
  BY <1>1, <1>2

\* What an assignment leaves pending.
LEMMA Assigned ==
    ASSUME NEW row, NEW before, NEW after
    PROVE  \A x \in DOMAIN Assign(row, before, after) :
              x = row /\ Assign(row, before, after)[x] = after
BY DEF Assign, NoRows

\* Further ledger rows explain what was explained before.
LEMMA ExplainedMore ==
    ASSUME NEW l \in Seq(Entry), NEW m \in Seq(Entry), NEW row, NEW n
    PROVE  /\ Explained(row, n, l) => Explained(row, n, l \o m)
           /\ Explained(row, n, m) => Explained(row, n, l \o m)
<1>1. \A i \in DOMAIN l : i \in DOMAIN (l \o m) /\ (l \o m)[i] = l[i]
  OBVIOUS
<1>2. \A i \in DOMAIN m : Len(l) + i \in DOMAIN (l \o m) /\ (l \o m)[Len(l) + i] = m[i]
  OBVIOUS
<1>3. Explained(row, n, l) => Explained(row, n, l \o m)
  BY <1>1 DEF Explained
<1>4. Explained(row, n, m) => Explained(row, n, l \o m)
  BY <1>2 DEF Explained
<1> QED
  BY <1>3, <1>4

\* The ledger row of a balance explains it.
LEMMA OwnEntryExplains ==
    ASSUME NEW type, NEW p, NEW w, NEW before, NEW after, NEW r, NEW row,
           row.product = p, row.warehouse = w
    PROVE  Explained(row, after, <<LedgerEntry(type, p, w, before, after, r)>>)
BY DEF Explained, LedgerEntry

\* adjust_stock keeps the invariant: it sets one balance, to the after value it posts.
LEMMA AdjustStockKeepsReceiptInv ==
    ASSUME ReceiptInv, NEW r \in Request, AdjustStock(r)
    PROVE  ReceiptInv'
<1> DEFINE p == job[r].product
           w == job[r].warehouse
           n == job[r].quantity
           Bad == p = Unknown \/ Ambiguous(r, p, w) \/ ~Fits(n)
           before == OnHand(r, p, w)
           type == IF n >= before THEN "manual_adjustment_in"
                   ELSE "manual_adjustment_out"
           new == NewStock(r, p, w)
           dirty == Assign(OpenStock(r, p, w), before, n)
           entries == <<LedgerEntry(type, p, w, before, n, r)>>
           j == [job[r] EXCEPT !.pc = "done"]
<1>0. IInv' /\ IInv /\ DataInv /\ Running(r) /\ job[r].pc = "start"
  BY AdjustStockKeepsIInv DEF ReceiptInv, AdjustStock, IInv
<1>1. job[r] \in [op : {"adjust_stock"}, pc : PC, product : Product \cup {Unknown},
                  warehouse : Warehouse, quantity : Nat]
  BY <1>0 DEF AdjustStock, IInv, JobInv, Job
<1>2. CASE Bad
  BY <1>2, RaiseKeepsReceiptInv DEF AdjustStock, Running
<1>3. CASE ~Bad
  <2>1. Stage(r, new, dirty, entries)
    BY <1>3 DEF AdjustStock
  <2>2. job' = [job EXCEPT ![r] = j]
    BY <1>3 DEF AdjustStock
  <2>3. j.pc = "done" /\ j.op = "adjust_stock" /\ job'[r] = j
    BY <1>0, <1>1, <2>2 DEF IInv, JobInv
  <2>4. p \in Product /\ w \in Warehouse /\ n \in Balance
    BY <1>1, <1>3 DEF Balance, Column
  <2> DEFINE stock == OpenStock(r, p, w)
  <2>5. /\ stock.product = p /\ stock.warehouse = w
        /\ \A row \in DOMAIN new : row = stock /\ new[row] = 0
        /\ \A row \in DOMAIN dirty : row = stock /\ dirty[row] = n
    BY StockPair, Assigned
  <2>6. Explained(stock, n, entries)
    BY <2>5, OwnEntryExplains
  <2> HIDE DEF p, w, n, j, type
  <2>7. stock \in StockRows /\ RowsOK(new) /\ before \in Balance
    BY <1>0, <2>4, StockOK
  <2>8. RowsOK(dirty)
    BY <2>4, <2>7, AssignOK
  <2>9. entries \in Seq(Entry)
    BY <2>4, <2>7, LedgerEntryOK DEF type
  <2> HIDE DEF new, dirty, entries, stock
  <2>10. /\ \A row : row \in DOMAIN Work(r)' <=> row \in DOMAIN new \/ row \in DOMAIN dirty
         /\ \A row : row \in DOMAIN Work(r)' =>
              Work(r)'[row] = IF row \in DOMAIN dirty THEN dirty[row] ELSE new[row]
         /\ Posts(r)' = entries
    BY <1>0, <2>1, <2>7, <2>8, <2>9, FirstWork
  <2>11. \A row \in DOMAIN Work(r)' : row \in StockRows /\ Explained(row, Work(r)'[row], Posts(r)')
    BY <2>5, <2>6, <2>7, <2>10 DEF Explained
  <2>12. BalanceWork(r)'
    BY <2>11 DEF BalanceWork
  <2>13. WorkInv(r)'
    BY <2>3, <2>11, <2>12, RowKinds
       DEF WorkInv, OwnDocuments, OrderWork, GoodsOrder, ReceiptWork
  <2> QED
    BY <1>0, <2>1, <2>2, <2>3, <2>7, <2>13, StageKeepsReceiptInv
<1> QED
  BY <1>2, <1>3
-----------------------------------------------------------------------------
\* Among the numbers up to m and the next one, the next one has the last place and the
\* places of the others stay.
LEMMA PlaceOfNext ==
    ASSUME NEW m \in Nat, NEW C \in SUBSET (1 .. m)
    PROVE  /\ Cardinality(C) \in Nat
           /\ Cardinality(C \cup {m + 1}) = Cardinality(C) + 1
           /\ \A i \in C : Place(i, C \cup {m + 1}) = Place(i, C)
           /\ Place(m + 1, C \cup {m + 1}) = Cardinality(C) + 1
<1>1. IsFiniteSet(C)
  BY FS_Interval, FS_Subset, m \in Int, 1 \in Int
<1>2. Cardinality(C) \in Nat
  BY <1>1, FS_CardinalityType
<1>3. m + 1 \notin C
  OBVIOUS
<1>4. Cardinality(C \cup {m + 1}) = Cardinality(C) + 1
  BY <1>1, <1>3, FS_AddElement
<1>5. \A i \in C : {k \in C \cup {m + 1} : k <= i} = {k \in C : k <= i}
  OBVIOUS
<1>6. {k \in C \cup {m + 1} : k <= m + 1} = C \cup {m + 1}
  <2>1. \A k \in C \cup {m + 1} : k <= m + 1
    OBVIOUS
  <2> QED
    BY <2>1
<1> QED
  BY <1>2, <1>4, <1>5, <1>6 DEF Place

\* The credited lines up to a line: those before it, and it if it is credited.
LEMMA CreditedNext ==
    ASSUME NEW j, NEW n \in Nat
    PROVE  /\ CreditedTo(j, n) \in SUBSET (1 .. n)
           /\ CreditedTo(j, n + 1) =
                IF Credited(j.auto, j.lines[n + 1]) THEN CreditedTo(j, n) \cup {n + 1}
                ELSE CreditedTo(j, n)
<1>1. 1 .. n + 1 = 1 .. n \cup {n + 1}
  OBVIOUS
<1> QED
  BY <1>1 DEF CreditedTo

\* No line is credited before the first.
LEMMA CreditedNone ==
    ASSUME NEW j
    PROVE  CreditedTo(j, 0) = {} /\ Cardinality(CreditedTo(j, 0)) = 0
<1>1. CreditedTo(j, 0) = {}
  BY DEF CreditedTo
<1> QED
  BY <1>1, FS_EmptySet

\* The first part of create_grn keeps the invariant: it writes a note without lines,
\* for an order that is approved.
LEMMA OpenGRNKeepsReceiptInv ==
    ASSUME ReceiptInv, NEW r \in Request, OpenGRN(r)
    PROVE  ReceiptInv'
<1> DEFINE row == PORow(job[r].po)
           Bad == row \notin DOMAIN View(r) \/ View(r)[row].status \notin Receivable
           value == [po |-> job[r].po, lines |-> <<>>,
                     status |-> IF job[r].auto THEN "completed" ELSE "draft"]
           new == [x \in {GRNRow(r)} |-> value]
           j == [job[r] EXCEPT !.pc = "lines"]
<1>0. IInv' /\ IInv /\ Running(r) /\ job[r].pc = "start"
  BY OpenGRNKeepsIInv DEF ReceiptInv, OpenGRN
<1>1. job[r] \in [op : {"create_grn"}, pc : PC, po : PO, lines : Seq(Delivered),
                  auto : BOOLEAN, i : Nat \ {0}]
  BY <1>0 DEF OpenGRN, IInv, JobInv, Job
<1>2. CASE Bad
  BY <1>2, RaiseKeepsReceiptInv DEF OpenGRN, Running
<1>3. CASE ~Bad
  <2>1. Stage(r, new, NoRows, NoEntries)
    BY <1>3 DEF OpenGRN, NoEntries
  <2>2. job' = [job EXCEPT ![r] = j]
    BY <1>3 DEF OpenGRN
  <2>3. job[r].i = 1
    BY <1>0, <1>1 DEF ReceiptInv, RequestInv, Untouched
  <2>4. /\ job'[r] = j /\ j.pc = "lines" /\ j.op = "create_grn" /\ j.po = job[r].po
        /\ j.i = 1 /\ j.lines = job[r].lines /\ j.auto = job[r].auto
    BY <1>0, <1>1, <2>2, <2>3 DEF IInv, JobInv
  <2>5. RowsOK(new) /\ DOMAIN new = {GRNRow(r)} /\ new[GRNRow(r)] = value
    <3>1. value \in GRNValue
      BY <1>1 DEF GRNValue, GRNStatus
    <3> QED
      BY <3>1 DEF RowsOK, PORows, StockRows, GRNRows, BatchRows, GRNRow
  <2>6. row \in DOMAIN table /\ row \in PORows /\ table[row].status \in Advanced
    <3>1. row \in DOMAIN table /\ table[row].status \in Receivable
      BY <1>0, <1>3, FirstView
    <3>2. row \in PORows
      BY <1>1, RowKinds
    <3> QED
      BY <3>1, <3>2 DEF ReceiptInv, OrdersInv, Receivable, Advanced
  <2>7. SubSeq(job[r].lines, 1, 0) = <<>>
    BY <1>1
  <2>8. value = [po |-> j.po, lines |-> SubSeq(j.lines, 1, j.i - 1),
                 status |-> IF j.auto THEN "completed" ELSE "draft"]
    BY <2>4, <2>7
  <2> HIDE DEF new, value, j
  <2>9. /\ \A x : x \in DOMAIN Work(r)' <=> x \in DOMAIN new \/ x \in DOMAIN NoRows
        /\ \A x : x \in DOMAIN Work(r)' =>
             Work(r)'[x] = IF x \in DOMAIN NoRows THEN NoRows[x] ELSE new[x]
        /\ Posts(r)' = NoEntries
        /\ table' = table
    BY <1>0, <2>1, <2>5, FirstWork, NoRowsOK, NoEntriesOK
  <2>10. DOMAIN Work(r)' = {GRNRow(r)} /\ Work(r)'[GRNRow(r)] = value
    BY <2>5, <2>9, NoRowsOK
  <2>11. GRNRow(r).id = r
    BY DEF GRNRow
  <2>12. (OwnDocuments(r) /\ OrderWork(r) /\ BalanceWork(r))'
    BY <2>4, <2>10, <2>11, RowKinds DEF OwnDocuments, OrderWork, BalanceWork, Documents
  <2>13. GoodsOrder(r)'
    BY <2>4, <2>6, <2>9 DEF GoodsOrder
  <2>14. ReceiptWork(r)'
    <3>1. j.i - 1 = 0 /\ Len(j.lines) \in Nat
      BY <1>1, <2>4
    <3>2. CreditedTo(j, 0) = {} /\ Cardinality(CreditedTo(j, 0)) = 0
      BY CreditedNone
    <3>3. Len(Posts(r)') = 0
      BY <2>9 DEF NoEntries
    <3>4. DOMAIN Work(r)' \cap BatchRows = {}
      BY <2>10, RowKinds
    <3>5. \A w : InStep(Posts(r)', CreditedTo(j, 0), j.lines, w)
      BY <3>2, <3>3 DEF InStep
    <3> QED
      BY <2>4, <2>8, <2>10, <3>1, <3>2, <3>4, <3>5 DEF ReceiptWork
  <2>15. WorkInv(r)'
    BY <2>12, <2>13, <2>14 DEF WorkInv
  <2> QED
    BY <1>0, <2>1, <2>2, <2>4, <2>5, <2>15, StageKeepsReceiptInv
<1> QED
  BY <1>2, <1>3

\* A receipt in progress sees its note as it has written it, and its order as it is stored
\* but for the status.
LEMMA InReceipt ==
    ASSUME ReceiptInv, NEW r \in Request, Running(r),
           job[r].op = "create_grn", job[r].pc = "lines"
    PROVE  /\ job[r] \in [op : {"create_grn"}, pc : PC, po : PO,
                          lines : Seq(Delivered), auto : BOOLEAN, i : Nat \ {0}]
           /\ GRNRow(r) \in DOMAIN Work(r)
           /\ View(r)[GRNRow(r)] = Work(r)[GRNRow(r)]
           /\ PORow(job[r].po) \in DOMAIN View(r) \cap DOMAIN table \cap PORows
           /\ View(r)[PORow(job[r].po)] \in POValue
           /\ SameOrder(View(r)[PORow(job[r].po)], table[PORow(job[r].po)])
<1> DEFINE row == PORow(job[r].po)
<1>1. IInv /\ DataInv /\ RequestInv(r)
  BY DEF ReceiptInv, IInv
<1>2. /\ job[r] \in [op : {"create_grn"}, pc : PC, po : PO,
                     lines : Seq(Delivered), auto : BOOLEAN, i : Nat \ {0}]
      /\ row \in DOMAIN View(r)
  BY <1>1, InLines
<1>3. GRNRow(r) \in DOMAIN Work(r)
  BY <1>1 DEF RequestInv, ReceiptWork
<1>4. View(r) = Overlay(table, Work(r))
  BY <1>1, ViewOfWork DEF Running
<1>5. View(r)[GRNRow(r)] = Work(r)[GRNRow(r)]
  BY <1>3, <1>4 DEF Overlay
<1>6. row \in DOMAIN table /\ row \in PORows
  BY <1>1, <1>2, RowKinds DEF RequestInv, GoodsOrder
<1>7. View(r)[row] \in POValue
  <2>1. RowsOK(View(r))
    BY <1>1, ViewOK
  <2> QED
    BY <1>2, <1>6, <2>1 DEF RowsOK
<1>8. SameOrder(View(r)[row], table[row])
  <2>1. CASE row \in DOMAIN Work(r)
    <3>1. SameOrder(Work(r)[row], table[row])
      BY <1>1, <1>6, <2>1 DEF RequestInv, OrderWork
    <3>2. View(r)[row] = Work(r)[row]
      BY <1>4, <2>1 DEF Overlay
    <3> QED
      BY <3>1, <3>2
  <2>2. CASE row \notin DOMAIN Work(r)
    <3>1. View(r)[row] = table[row]
      BY <1>4, <1>6, <2>2 DEF Overlay
    <3> QED
      BY <3>1 DEF SameOrder
  <2> QED
    BY <2>1, <2>2
<1> QED
  BY <1>2, <1>3, <1>5, <1>6, <1>7, <1>8

\* The last part of create_grn keeps the invariant: it writes the order as received.
LEMMA ClosePOKeepsReceiptInv ==
    ASSUME ReceiptInv, NEW r \in Request, ClosePO(r)
    PROVE  ReceiptInv'
<1> DEFINE o == job[r].po
           row == PORow(o)
           dirty == WithStatus(r, o, "fully_received")
           j == [job[r] EXCEPT !.pc = "done"]
<1>1. /\ Running(r) /\ Stage(r, NoRows, dirty, NoEntries)
      /\ job[r].op = "create_grn" /\ job[r].pc = "lines"
      /\ job[r].i > Len(job[r].lines)
  BY DEF ClosePO, NoEntries
<1>2. IInv' /\ IInv /\ DataInv /\ RequestInv(r)
  BY ClosePOKeepsIInv DEF ReceiptInv, IInv
<1>3. /\ job[r] \in [op : {"create_grn"}, pc : PC, po : PO,
                     lines : Seq(Delivered), auto : BOOLEAN, i : Nat \ {0}]
      /\ row \in DOMAIN View(r) /\ row \in DOMAIN table /\ row \in PORows
      /\ View(r)[row] \in POValue
      /\ SameOrder(View(r)[row], table[row])
  BY <1>1, InReceipt
<1>4. job' = [job EXCEPT ![r] = j]
  BY DEF ClosePO
<1>5. /\ job'[r] = j /\ j.pc = "done" /\ j.op = "create_grn" /\ j.po = o
      /\ j.i = job[r].i /\ j.lines = job[r].lines /\ j.auto = job[r].auto
  BY <1>2, <1>3, <1>4 DEF IInv, JobInv
<1>6. RowsOK(dirty) /\ DOMAIN dirty = {row}
  BY <1>2, <1>3, WithStatusOK DEF POStatus
<1>7. dirty[row].status = "fully_received" /\ SameOrder(dirty[row], table[row])
  BY <1>3 DEF WithStatus, SameOrder, POValue
<1> HIDE DEF dirty, j
<1>8. /\ \A x : x \in DOMAIN Work(r)' <=>
           x \in DOMAIN Work(r) \/ x \in DOMAIN NoRows \/ x \in DOMAIN dirty
      /\ \A x : x \in DOMAIN Work(r)' =>
           Work(r)'[x] = IF x \in DOMAIN dirty THEN dirty[x]
                         ELSE IF x \in DOMAIN NoRows THEN NoRows[x] ELSE Work(r)[x]
      /\ Posts(r)' = Posts(r) \o NoEntries
      /\ table' = table
  BY <1>1, <1>2, <1>6, NextWork, NoRowsOK
<1>9. /\ \A x : x \in DOMAIN Work(r)' <=> x \in DOMAIN Work(r) \/ x = row
      /\ \A x : x \in DOMAIN Work(r) /\ x # row => Work(r)'[x] = Work(r)[x]
      /\ Work(r)'[row] = dirty[row]
  BY <1>6, <1>8, NoRowsOK
<1>10. Posts(r)' = Posts(r)
  <2>1. Posts(r) \in Seq(Entry)
    BY <1>2, WorkOK
  <2>2. Posts(r) \o <<>> = Posts(r)
    BY <2>1
  <2> QED
    BY <1>8, <2>2 DEF NoEntries
<1>11. (OwnDocuments(r) /\ BalanceWork(r))'
  BY <1>2, <1>3, <1>5, <1>9, <1>10, RowKinds DEF RequestInv, OwnDocuments, BalanceWork
<1>12. OrderWork(r)'
  BY <1>1, <1>2, <1>3, <1>5, <1>7, <1>8, <1>9 DEF RequestInv, OrderWork
<1>13. GoodsOrder(r)'
  BY <1>1, <1>2, <1>5, <1>8 DEF RequestInv, GoodsOrder
<1>14. ReceiptWork(r)'
  <2>1. DOMAIN Work(r)' \cap BatchRows = DOMAIN Work(r) \cap BatchRows
    BY <1>3, <1>9, RowKinds DEF Documents
  <2>2. /\ GRNRow(r) \in DOMAIN Work(r) <=> GRNRow(r) \in DOMAIN Work(r)'
        /\ GRNRow(r) \in DOMAIN Work(r) => Work(r)'[GRNRow(r)] = Work(r)[GRNRow(r)]
    BY <1>3, <1>9, RowKinds DEF Documents
  <2>3. CreditedTo(j, j.i - 1) = CreditedTo(job[r], job[r].i - 1)
    BY <1>5 DEF CreditedTo
  <2>4. job[r].i = Len(job[r].lines) + 1
    BY <1>1, <1>2, <1>3 DEF RequestInv, ReceiptWork
  <2>5. ReceiptWork(r)
    BY <1>2 DEF RequestInv
  <2> QED
    BY <1>1, <1>5, <1>8, <1>10, <2>1, <2>2, <2>3, <2>4, <2>5 DEF ReceiptWork
<1>15. WorkInv(r)'
  BY <1>11, <1>12, <1>13, <1>14 DEF WorkInv
<1> QED
  BY <1>1, <1>2, <1>4, <1>5, <1>15, StageKeepsReceiptInv, NoRowsOK

\* The lines up to a line, and that line.
LEMMA LinesNext ==
    ASSUME NEW s \in Seq(Delivered), NEW n \in 1 .. Len(s)
    PROVE  Append(SubSeq(s, 1, n - 1), s[n]) = SubSeq(s, 1, n)
<1>1. SubSeq(s, 1, n - 1) \in Seq(Delivered) /\ Len(SubSeq(s, 1, n - 1)) = n - 1
  OBVIOUS
<1>2. SubSeq(s, 1, n) \in Seq(Delivered) /\ Len(SubSeq(s, 1, n)) = n
  OBVIOUS
<1>3. \A k \in 1 .. n : Append(SubSeq(s, 1, n - 1), s[n])[k] = s[k]
  BY <1>1
<1>4. \A k \in 1 .. n : SubSeq(s, 1, n)[k] = s[k]
  OBVIOUS
<1>5. /\ Append(SubSeq(s, 1, n - 1), s[n]) \in Seq(Delivered)
      /\ Len(Append(SubSeq(s, 1, n - 1), s[n])) = n
  BY <1>1
<1> QED
  BY <1>2, <1>3, <1>4, <1>5

\* The note with the next line: the job's lines up to that one.
LEMMA NextNote ==
    ASSUME ReceiptInv, NEW r \in Request, AtLine(r)
    PROVE  WithLine(r, Line(r))[GRNRow(r)] =
              [po |-> job[r].po, lines |-> SubSeq(job[r].lines, 1, job[r].i),
               status |-> IF job[r].auto THEN "completed" ELSE "draft"]
<1> DEFINE j == job[r]
<1>1. Running(r) /\ j.op = "create_grn" /\ j.pc = "lines" /\ j.i <= Len(j.lines)
  BY DEF AtLine
<1>2. /\ j.lines \in Seq(Delivered) /\ j.i \in Nat \ {0}
      /\ View(r)[GRNRow(r)] = Work(r)[GRNRow(r)]
  BY <1>1, InReceipt
<1>3. Work(r)[GRNRow(r)] =
         [po |-> j.po, lines |-> SubSeq(j.lines, 1, j.i - 1),
          status |-> IF j.auto THEN "completed" ELSE "draft"]
  BY <1>1 DEF ReceiptInv, RequestInv, ReceiptWork
<1>4. Append(SubSeq(j.lines, 1, j.i - 1), j.lines[j.i]) = SubSeq(j.lines, 1, j.i)
  BY <1>1, <1>2, LinesNext
<1> DEFINE before == SubSeq(j.lines, 1, j.i - 1)
           status == IF j.auto THEN "completed" ELSE "draft"
           line == j.lines[j.i]
           note == Work(r)[GRNRow(r)]
<1>5. note = [po |-> j.po, lines |-> before, status |-> status]
  BY <1>3
<1> HIDE DEF before, status, line, note
<1>6. [note EXCEPT !.lines = Append(@, line)]
        = [po |-> j.po, lines |-> Append(before, line), status |-> status]
  BY <1>5
<1>7. Append(before, line) = SubSeq(j.lines, 1, j.i)
  BY <1>4 DEF before, line
<1>8. WithLine(r, Line(r))[GRNRow(r)] = [note EXCEPT !.lines = Append(@, line)]
  BY <1>2 DEF WithLine, Line, note, line
<1> QED
  BY <1>6, <1>7, <1>8 DEF status

\* A line that credits nothing keeps the invariant: it is added to the note.
LEMMA RecordLineKeepsReceiptInv ==
    ASSUME ReceiptInv, NEW r \in Request, RecordLine(r)
    PROVE  ReceiptInv'
<1> DEFINE new == WithLine(r, Line(r))
           note == [po |-> job[r].po, lines |-> SubSeq(job[r].lines, 1, job[r].i),
                    status |-> IF job[r].auto THEN "completed" ELSE "draft"]
           j == [job[r] EXCEPT !.i = @ + 1]
<1>1. /\ AtLine(r) /\ Running(r) /\ ~Unprocessable(Line(r)) /\ ~Credited(job[r].auto, Line(r))
      /\ Stage(r, new, NoRows, NoEntries)
      /\ job[r].op = "create_grn" /\ job[r].pc = "lines" /\ job[r].i <= Len(job[r].lines)
  BY DEF RecordLine, NoEntries, AtLine
<1>2. IInv' /\ IInv /\ DataInv /\ RequestInv(r)
  BY RecordLineKeepsIInv DEF ReceiptInv, IInv
<1>3. job[r] \in [op : {"create_grn"}, pc : PC, po : PO, lines : Seq(Delivered),
                  auto : BOOLEAN, i : Nat \ {0}]
  BY <1>1, InReceipt
<1>4. job' = [job EXCEPT ![r] = j]
  BY <1>2, <1>3 DEF RecordLine, IInv, JobInv
<1>5. /\ job'[r] = j /\ j.pc = "lines" /\ j.op = "create_grn" /\ j.po = job[r].po
      /\ j.i = job[r].i + 1 /\ j.lines = job[r].lines /\ j.auto = job[r].auto
  BY <1>1, <1>2, <1>3, <1>4 DEF IInv, JobInv
<1>6. RowsOK(new) /\ DOMAIN new = {GRNRow(r)} /\ new[GRNRow(r)] = note
  BY <1>1, <1>2, WithLineOK, NextNote
<1> HIDE DEF new, j
<1>7. /\ \A x : x \in DOMAIN Work(r)' <=>
           x \in DOMAIN Work(r) \/ x \in DOMAIN new \/ x \in DOMAIN NoRows
      /\ \A x : x \in DOMAIN Work(r)' =>
           Work(r)'[x] = IF x \in DOMAIN NoRows THEN NoRows[x]
                         ELSE IF x \in DOMAIN new THEN new[x] ELSE Work(r)[x]
      /\ Posts(r)' = Posts(r) \o NoEntries
      /\ table' = table
  BY <1>1, <1>2, <1>6, NextWork, NoRowsOK
<1>8. /\ \A x : x \in DOMAIN Work(r)' <=> x \in DOMAIN Work(r) \/ x = GRNRow(r)
      /\ \A x : x \in DOMAIN Work(r) /\ x # GRNRow(r) => Work(r)'[x] = Work(r)[x]
      /\ Work(r)'[GRNRow(r)] = note
  BY <1>6, <1>7, NoRowsOK
<1>9. Posts(r)' = Posts(r)
  <2>1. Posts(r) \in Seq(Entry)
    BY <1>2, WorkOK
  <2>2. Posts(r) \o <<>> = Posts(r)
    BY <2>1
  <2> QED
    BY <1>7, <2>2 DEF NoEntries
<1>10. GRNRow(r) \in GRNRows /\ GRNRow(r).id = r
  BY RowKinds DEF GRNRow
<1>11. (OwnDocuments(r) /\ BalanceWork(r))'
  BY <1>2, <1>5, <1>8, <1>9, <1>10, RowKinds
     DEF RequestInv, OwnDocuments, BalanceWork, Documents
<1>12. (OrderWork(r) /\ GoodsOrder(r))'
  BY <1>1, <1>2, <1>5, <1>7, <1>8, <1>10, RowKinds
     DEF RequestInv, OrderWork, GoodsOrder, Documents
<1>13. ReceiptWork(r)'
  <2>1. DOMAIN Work(r)' \cap BatchRows = DOMAIN Work(r) \cap BatchRows
    BY <1>8, <1>10, RowKinds
  <2>2. CreditedTo(j, j.i - 1) = CreditedTo(job[r], job[r].i - 1)
    <3>1. job[r].i - 1 \in Nat /\ job[r].i - 1 + 1 = job[r].i /\ j.i - 1 = job[r].i
      BY <1>3, <1>5
    <3>2. ~Credited(job[r].auto, job[r].lines[job[r].i])
      BY <1>1 DEF Line
    <3>3. CreditedTo(job[r], job[r].i) = CreditedTo(job[r], job[r].i - 1)
      BY <3>1, <3>2, CreditedNext
    <3> QED
      BY <1>5, <3>1, <3>3 DEF CreditedTo
  <2>3. ReceiptWork(r)
    BY <1>2 DEF RequestInv
  <2>4. j.i - 1 = job[r].i /\ j.i <= Len(j.lines) + 1
    BY <1>1, <1>3, <1>5
  <2> QED
    BY <1>1, <1>5, <1>7, <1>8, <1>9, <2>1, <2>2, <2>3, <2>4 DEF ReceiptWork
<1>14. WorkInv(r)'
  BY <1>11, <1>12, <1>13 DEF WorkInv
<1> QED
  BY <1>1, <1>2, <1>4, <1>5, <1>6, <1>14, StageKeepsReceiptInv

\* Posting one more line keeps the postings in step with the credited lines.
LEMMA PostingsNext ==
    ASSUME NEW posts \in Seq(Entry), NEW e \in Entry, NEW m \in Nat, NEW C \in SUBSET (1 .. m),
           NEW lines, NEW w, InStep(posts, C, lines, w), PostsLine(e, lines[m + 1], w)
    PROVE  InStep(posts \o <<e>>, C \cup {m + 1}, lines, w)
<1> DEFINE D == C \cup {m + 1}
           q == posts \o <<e>>
<1>0. /\ Len(posts) = Cardinality(C)
      /\ \A i \in C : /\ Place(i, C) \in 1 .. Len(posts)
                      /\ PostsLine(posts[Place(i, C)], lines[i], w)
      /\ \A n \in 1 .. Len(posts) : \E i \in C : Place(i, C) = n
  BY DEF InStep
<1>1. /\ Cardinality(C) \in Nat
      /\ Cardinality(D) = Cardinality(C) + 1
      /\ \A i \in C : Place(i, D) = Place(i, C)
      /\ Place(m + 1, D) = Cardinality(C) + 1
  BY PlaceOfNext
<1>2. /\ Len(q) = Len(posts) + 1
      /\ \A n \in 1 .. Len(posts) : q[n] = posts[n]
      /\ q[Len(posts) + 1] = e
  OBVIOUS
<1> HIDE DEF q
<1>3. Len(q) = Cardinality(D) /\ Len(posts) \in Nat
  BY <1>0, <1>1, <1>2
<1>4. ASSUME NEW i \in D
      PROVE  Place(i, D) \in 1 .. Len(q) /\ PostsLine(q[Place(i, D)], lines[i], w)
  <2>1. CASE i \in C
    <3>1. Place(i, D) = Place(i, C) /\ Place(i, C) \in 1 .. Len(posts)
      BY <1>0, <1>1, <2>1
    <3>2. q[Place(i, D)] = posts[Place(i, C)]
      BY <1>2, <3>1
    <3>3. PostsLine(posts[Place(i, C)], lines[i], w)
      BY <1>0, <2>1
    <3> QED
      BY <1>2, <3>1, <3>2, <3>3
  <2>2. CASE i = m + 1
    <3>1. Place(i, D) = Len(posts) + 1
      BY <1>0, <1>1, <2>2
    <3> QED
      BY <1>2, <1>3, <2>2, <3>1
  <2> QED
    BY <2>1, <2>2
<1>5. ASSUME NEW n \in 1 .. Len(q) PROVE \E i \in D : Place(i, D) = n
  <2>1. CASE n \in 1 .. Len(posts)
    BY <1>0, <1>1, <2>1
  <2>2. CASE n = Len(posts) + 1
    BY <1>0, <1>1, <2>2
  <2>3. n \in 1 .. Len(posts) \/ n = Len(posts) + 1
    BY <1>2, <1>3
  <2> QED
    BY <2>1, <2>2, <2>3
<1> QED
  BY <1>3, <1>4, <1>5 DEF q, InStep

\* The rows of an overlay, one by one.
LEMMA OverlayIs ==
    ASSUME NEW f, NEW g
    PROVE  /\ \A x : x \in DOMAIN Overlay(f, g) <=> x \in DOMAIN f \/ x \in DOMAIN g
           /\ \A x : x \in DOMAIN Overlay(f, g) =>
                Overlay(f, g)[x] = IF x \in DOMAIN g THEN g[x] ELSE f[x]
BY DEF Overlay

\* The batch of a line, if it has one.
LEMMA BatchIs ==
    ASSUME NEW r, NEW line
    PROVE  \A x : x \in DOMAIN BatchOf(r, line) <=> line.batch /\ x = BatchRow(r, job[r].i)
<1>1. CASE line.batch
  BY <1>1 DEF BatchOf
<1>2. CASE ~line.batch
  BY <1>2 DEF BatchOf, NoRows
<1> QED
  BY <1>1, <1>2

\* The work of a receipt after a credited line: the note has that line, its balance is set
\* to what the new ledger row says, and the batch is opened if the line has one.
CreditedWork(r, line, stock, after) ==
    /\ \A x : x \in DOMAIN Work(r)' =>
         \/ x \in DOMAIN Work(r)
         \/ x = GRNRow(r)
         \/ x = stock
         \/ line.batch /\ x = BatchRow(r, job[r].i)
    /\ \A x : x \in DOMAIN Work(r) => x \in DOMAIN Work(r)'
    /\ line.batch => BatchRow(r, job[r].i) \in DOMAIN Work(r)'
    /\ GRNRow(r) \in DOMAIN Work(r)'
    /\ Work(r)'[GRNRow(r)] =
         [po |-> job[r].po, lines |-> SubSeq(job[r].lines, 1, job[r].i),
          status |-> IF job[r].auto THEN "completed" ELSE "draft"]
    /\ \A x : x \in DOMAIN Work(r)' \cap StockRows =>
         \/ x = stock /\ Work(r)'[x] \in {0, after}
         \/ x \in DOMAIN Work(r) /\ Work(r)'[x] = Work(r)[x]
    /\ \A x : x \in DOMAIN Work(r)' \cap PORows =>
         x \in DOMAIN Work(r) /\ Work(r)'[x] = Work(r)[x]

\* And it posts one ledger row.
CreditedBy(r, stock, after, e) ==
    /\ stock \in StockRows /\ e \in Entry
    /\ CreditedWork(r, Line(r), stock, after)
    /\ Posts(r)' = Posts(r) \o <<e>>
    /\ PostsLine(e, Line(r), WarehouseOf(r))
    /\ Explained(stock, after, <<e>>)
    /\ table' = table
    /\ \E new, dirty : Stage(r, new, dirty, <<e>>) /\ RowsOK(new)

\* That is what crediting a line does.
LEMMA CreditLineWork ==
    ASSUME ReceiptInv, NEW r \in Request, CreditLine(r)
    PROVE  \E stock, after, e : CreditedBy(r, stock, after, e)
<1> DEFINE line == Line(r)
           p == line.product
           w == WarehouseOf(r)
           before == OnHand(r, p, w)
           after == before + line.accepted
           note == WithLine(r, Line(r))
           fresh == NewStock(r, p, w)
           new == Overlay(note, fresh)
           batch == BatchOf(r, line)
           stock == OpenStock(r, p, w)
           level == Assign(stock, before, after)
           dirty == Overlay(batch, level)
           e == LedgerEntry("grn_receipt", p, w, before, after, r)
<1>1. /\ AtLine(r) /\ ~Unprocessable(line) /\ Credited(job[r].auto, line)
      /\ ~CannotCredit(r, line, w)
      /\ Stage(r, new, dirty, <<e>>)
  BY DEF CreditLine
<1>2. /\ IInv /\ DataInv /\ Running(r)
      /\ job[r].op = "create_grn" /\ job[r].pc = "lines"
  BY <1>1 DEF ReceiptInv, IInv, AtLine
<1>3. /\ p \in Product /\ line.accepted \in Column
      /\ RowsOK(note) /\ DOMAIN note = {GRNRow(r)}
  BY <1>1, <1>2, WithLineOK
<1>4. w \in Warehouse /\ job[r].i \in Nat
  BY <1>2, InLines
<1>5. note[GRNRow(r)] =
         [po |-> job[r].po, lines |-> SubSeq(job[r].lines, 1, job[r].i),
          status |-> IF job[r].auto THEN "completed" ELSE "draft"]
  BY <1>1, NextNote
<1>6. stock \in StockRows /\ RowsOK(fresh) /\ before \in Balance
  BY <1>2, <1>3, <1>4, StockOK
<1>7. after \in Balance
  BY <1>1, <1>3, <1>6 DEF CannotCredit, Credited, Balance, Column
<1>8. /\ stock.product = p /\ stock.warehouse = w
      /\ \A x \in DOMAIN fresh : x = stock /\ fresh[x] = 0
      /\ \A x \in DOMAIN level : x = stock /\ level[x] = after
  BY StockPair, Assigned
<1>9. RowsOK(level)
  BY <1>6, <1>7, AssignOK
<1>10. RowsOK(batch) /\ \A x : x \in DOMAIN batch <=> line.batch /\ x = BatchRow(r, job[r].i)
  BY <1>3, <1>4, BatchOK, BatchIs
<1>11. Explained(stock, after, <<e>>)
  BY <1>8, OwnEntryExplains
<1>12. e \in Entry
  <2>1. <<e>> \in Seq(Entry)
    BY <1>3, <1>4, <1>6, <1>7, LedgerEntryOK
  <2>2. <<e>>[1] = e /\ 1 \in DOMAIN <<e>>
    OBVIOUS
  <2> QED
    BY <2>1
<1>13. PostsLine(e, line, w)
  <2>1. after - before = line.accepted
    BY <1>3, <1>6 DEF Balance, Column
  <2> QED
    BY <2>1 DEF PostsLine, LedgerEntry
<1> HIDE DEF line, p, w, before, after, note, fresh, batch, stock, level, e, new, dirty
<1>14. /\ RowsOK(new)
       /\ \A x : x \in DOMAIN new <=> x \in DOMAIN note \/ x \in DOMAIN fresh
       /\ \A x : x \in DOMAIN new => new[x] = IF x \in DOMAIN fresh THEN fresh[x] ELSE note[x]
  BY <1>3, <1>6, OverlayOK, OverlayIs DEF new
<1>15. /\ RowsOK(dirty)
       /\ \A x : x \in DOMAIN dirty <=> x \in DOMAIN batch \/ x \in DOMAIN level
       /\ \A x : x \in DOMAIN dirty => dirty[x] = IF x \in DOMAIN level THEN level[x] ELSE batch[x]
  BY <1>9, <1>10, OverlayOK, OverlayIs DEF dirty
<1>16. /\ \A x : x \in DOMAIN Work(r)' <=>
            x \in DOMAIN Work(r) \/ x \in DOMAIN new \/ x \in DOMAIN dirty
       /\ \A x : x \in DOMAIN Work(r)' =>
            Work(r)'[x] = IF x \in DOMAIN dirty THEN dirty[x]
                          ELSE IF x \in DOMAIN new THEN new[x] ELSE Work(r)[x]
       /\ Posts(r)' = Posts(r) \o <<e>>
       /\ table' = table
  BY <1>1, <1>2, <1>14, <1>15, NextWork
<1>17. /\ GRNRow(r) \in GRNRows /\ BatchRow(r, job[r].i) \in BatchRows
       /\ stock \notin Documents /\ stock \notin PORows
  BY <1>4, <1>6, RowKinds
<1>18. CreditedWork(r, line, stock, after)
  <2>1. /\ \A x : x \in DOMAIN Work(r)' =>
             \/ x \in DOMAIN Work(r)
             \/ x = GRNRow(r)
             \/ x = stock
             \/ line.batch /\ x = BatchRow(r, job[r].i)
        /\ \A x : x \in DOMAIN Work(r) => x \in DOMAIN Work(r)'
        /\ line.batch => BatchRow(r, job[r].i) \in DOMAIN Work(r)'
        /\ GRNRow(r) \in DOMAIN Work(r)'
    BY <1>3, <1>8, <1>10, <1>14, <1>15, <1>16
  <2>2. GRNRow(r) \notin DOMAIN dirty /\ GRNRow(r) \notin DOMAIN fresh /\ GRNRow(r) \in DOMAIN new
    BY <1>3, <1>8, <1>10, <1>14, <1>15, <1>17, RowKinds DEF Documents
  <2>3. Work(r)'[GRNRow(r)] = note[GRNRow(r)]
    BY <1>14, <1>16, <2>1, <2>2
  <2>4. ASSUME NEW x \in DOMAIN Work(r)' \cap StockRows
        PROVE  \/ x = stock /\ Work(r)'[x] \in {0, after}
               \/ x \in DOMAIN Work(r) /\ Work(r)'[x] = Work(r)[x]
    <3>1. x # GRNRow(r) /\ x # BatchRow(r, job[r].i)
      BY <1>17, RowKinds DEF Documents
    <3>2. /\ x \in DOMAIN dirty <=> x \in DOMAIN level
          /\ x \in DOMAIN new <=> x \in DOMAIN fresh
      BY <1>3, <1>10, <1>14, <1>15, <3>1
    <3> QED
      BY <1>8, <1>14, <1>15, <1>16, <3>2
  <2>5. ASSUME NEW x \in DOMAIN Work(r)' \cap PORows
        PROVE  x \in DOMAIN Work(r) /\ Work(r)'[x] = Work(r)[x]
    <3>1. x # GRNRow(r) /\ x # BatchRow(r, job[r].i) /\ x # stock
      BY <1>17, RowKinds DEF Documents
    <3>2. x \notin DOMAIN dirty /\ x \notin DOMAIN new
      BY <1>3, <1>8, <1>10, <1>14, <1>15, <3>1
    <3> QED
      BY <1>16, <3>2
  <2> QED
    BY <1>5, <2>1, <2>3, <2>4, <2>5 DEF CreditedWork
<1>19. \E new1, dirty1 : Stage(r, new1, dirty1, <<e>>) /\ RowsOK(new1)
  BY <1>1, <1>14
<1>20. CreditedBy(r, stock, after, e)
  BY <1>6, <1>11, <1>12, <1>13, <1>16, <1>18, <1>19 DEF CreditedBy, line, w
<1> QED
  BY <1>20

\* A credited line keeps the notes, postings and batches of its receipt in step.
LEMMA CreditLineKeepsReceiptWork ==
    ASSUME ReceiptInv, NEW r \in Request, NEW stock, NEW after, NEW e, NEW j,
           AtLine(r), Credited(job[r].auto, Line(r)),
           CreditedBy(r, stock, after, e),
           job'[r] = j, j.pc = "lines", j.op = "create_grn", j.po = job[r].po,
           j.i = job[r].i + 1, j.lines = job[r].lines, j.auto = job[r].auto
    PROVE  ReceiptWork(r)'
<1> DEFINE C == CreditedTo(job[r], job[r].i - 1)
           D == CreditedTo(j, j.i - 1)
           w == table[PORow(job[r].po)].warehouse
           m == job[r].i - 1
<1>1. /\ Running(r) /\ job[r].op = "create_grn" /\ job[r].pc = "lines"
      /\ job[r].i <= Len(job[r].lines)
  BY DEF AtLine
<1>2. DataInv /\ ReceiptWork(r) /\ Posts(r) \in Seq(Entry)
  BY WorkOK DEF ReceiptInv, IInv, RequestInv
<1>3. /\ job[r].i \in Nat \ {0} /\ job[r].lines \in Seq(Delivered) /\ job[r].po \in PO
      /\ WarehouseOf(r) = w
  BY <1>1, InReceipt DEF SameOrder, WarehouseOf
<1>4. /\ CreditedWork(r, Line(r), stock, after) /\ stock \in StockRows
      /\ Posts(r)' = Posts(r) \o <<e>> /\ e \in Entry
      /\ PostsLine(e, Line(r), w) /\ table' = table
  BY <1>3 DEF CreditedBy
<1>5. m \in Nat /\ m + 1 = job[r].i /\ j.i - 1 = job[r].i /\ j.i <= Len(j.lines) + 1
  BY <1>1, <1>3
<1>6. C \in SUBSET (1 .. m) /\ D = C \cup {m + 1}
  <2>1. CreditedTo(job[r], m + 1) = C \cup {m + 1}
    BY <1>5, CreditedNext DEF Line
  <2>2. D = CreditedTo(job[r], m + 1)
    BY <1>5 DEF CreditedTo
  <2> QED
    BY <1>5, <2>1, <2>2, CreditedNext
<1>7. /\ InStep(Posts(r), C, job[r].lines, w)
      /\ DOMAIN Work(r) \cap BatchRows =
           {BatchRow(r, i) : i \in {c \in C : job[r].lines[c].batch}}
  BY <1>1, <1>2 DEF ReceiptWork
<1>8. PostsLine(e, job[r].lines[m + 1], w)
  BY <1>4, <1>5 DEF Line
<1> HIDE DEF C, D, w, m
<1>9. InStep(Posts(r)', D, job[r].lines, w)
  <2>1. m \in Nat /\ C \in SUBSET (1 .. m)
    BY <1>5, <1>6
  <2>2. InStep(Posts(r) \o <<e>>, C \cup {m + 1}, job[r].lines, w)
    BY <1>2, <1>4, <1>7, <1>8, <2>1, PostingsNext
  <2> QED
    BY <1>4, <1>6, <2>2
<1>10. DOMAIN Work(r)' \cap BatchRows =
          {BatchRow(r, i) : i \in {c \in D : job[r].lines[c].batch}}
  <2>1. \A x : x \in DOMAIN Work(r)' \cap BatchRows <=>
           \/ x \in DOMAIN Work(r) \cap BatchRows
           \/ Line(r).batch /\ x = BatchRow(r, m + 1)
    <3>1. BatchRow(r, m + 1) \in BatchRows /\ GRNRow(r) \in GRNRows
      BY <1>5, RowKinds
    <3>2. stock \notin BatchRows /\ GRNRow(r) \notin BatchRows
      BY <1>4, <3>1, RowKinds DEF Documents
    <3> QED
      BY <1>4, <1>5, <3>1, <3>2 DEF CreditedWork
  <2>2. Line(r) = job[r].lines[m + 1]
    BY <1>5 DEF Line
  <2>3. \A x : x \in {BatchRow(r, i) : i \in {c \in D : job[r].lines[c].batch}} <=>
           \/ x \in {BatchRow(r, i) : i \in {c \in C : job[r].lines[c].batch}}
           \/ Line(r).batch /\ x = BatchRow(r, m + 1)
    BY <1>6, <2>2
  <2> QED
    BY <1>7, <2>1, <2>3
<1>11. /\ GRNRow(r) \in DOMAIN Work(r)'
       /\ Work(r)'[GRNRow(r)] =
            [po |-> j.po, lines |-> SubSeq(j.lines, 1, j.i - 1),
             status |-> IF j.auto THEN "completed" ELSE "draft"]
  BY <1>4, <1>5 DEF CreditedWork
<1> QED
  BY <1>4, <1>5, <1>9, <1>10, <1>11 DEF ReceiptWork, D, w

\* A credited line keeps the invariant.
LEMMA CreditLineKeepsReceiptInv ==
    ASSUME ReceiptInv, NEW r \in Request, CreditLine(r)
    PROVE  ReceiptInv'
<1> DEFINE j == [job[r] EXCEPT !.i = @ + 1]
<1>1. /\ AtLine(r) /\ Running(r) /\ Credited(job[r].auto, Line(r))
      /\ job[r].op = "create_grn" /\ job[r].pc = "lines"
  BY DEF CreditLine, AtLine
<1>2. IInv' /\ IInv /\ DataInv /\ RequestInv(r)
  BY CreditLineKeepsIInv DEF ReceiptInv, IInv
<1>3. job[r] \in [op : {"create_grn"}, pc : PC, po : PO, lines : Seq(Delivered),
                  auto : BOOLEAN, i : Nat \ {0}]
  BY <1>1, InReceipt
<1>4. job' = [job EXCEPT ![r] = j]
  BY <1>2, <1>3 DEF CreditLine, IInv, JobInv
<1>5. /\ job'[r] = j /\ j.pc = "lines" /\ j.op = "create_grn" /\ j.po = job[r].po
      /\ j.i = job[r].i + 1 /\ j.lines = job[r].lines /\ j.auto = job[r].auto
  BY <1>1, <1>2, <1>3, <1>4 DEF IInv, JobInv
<1> HIDE DEF j
<1>6. PICK stock, after, e : CreditedBy(r, stock, after, e)
  BY CreditLineWork
<1>7. ReceiptWork(r)'
  BY <1>1, <1>5, <1>6, CreditLineKeepsReceiptWork
<1>8. /\ CreditedWork(r, Line(r), stock, after) /\ stock \in StockRows /\ e \in Entry
      /\ Posts(r)' = Posts(r) \o <<e>> /\ Explained(stock, after, <<e>>) /\ table' = table
  BY <1>6 DEF CreditedBy
<1>9. /\ GRNRow(r) \in GRNRows /\ BatchRow(r, job[r].i) \in BatchRows
      /\ GRNRow(r).id = r /\ BatchRow(r, job[r].i).id = r
  BY <1>3, RowKinds DEF GRNRow, BatchRow
<1>10. OwnDocuments(r)'
  <2> SUFFICES ASSUME NEW x \in DOMAIN Work(r)' \cap Documents
               PROVE  x.id = r
    BY <1>5 DEF OwnDocuments
  <2>1. x # stock
    BY <1>8, RowKinds
  <2> QED
    BY <1>2, <1>8, <1>9, <2>1 DEF CreditedWork, RequestInv, OwnDocuments
<1>11. (OrderWork(r) /\ GoodsOrder(r))'
  BY <1>1, <1>2, <1>5, <1>8 DEF CreditedWork, RequestInv, OrderWork, GoodsOrder
<1>12. BalanceWork(r)'
  <2> SUFFICES ASSUME NEW x \in DOMAIN Work(r)' \cap StockRows
               PROVE  Explained(x, Work(r)'[x], Posts(r)')
    BY DEF BalanceWork
  <2>1. Posts(r) \in Seq(Entry) /\ <<e>> \in Seq(Entry)
    <3>1. Posts(r) \in Seq(Entry)
      BY <1>2, WorkOK
    <3> QED
      BY <1>8, <3>1
  <2>2. CASE x = stock /\ Work(r)'[x] \in {0, after}
    <3>1. Explained(x, after, Posts(r) \o <<e>>)
      BY <1>8, <2>1, <2>2, ExplainedMore
    <3>2. Explained(x, 0, Posts(r)')
      BY DEF Explained
    <3> QED
      BY <1>8, <2>2, <3>1, <3>2
  <2>3. CASE x \in DOMAIN Work(r) /\ Work(r)'[x] = Work(r)[x]
    <3>1. Explained(x, Work(r)[x], Posts(r))
      BY <1>2, <2>3 DEF RequestInv, BalanceWork
    <3>2. Explained(x, Work(r)[x], Posts(r) \o <<e>>)
      BY <2>1, <3>1, ExplainedMore
    <3> QED
      BY <1>8, <2>3, <3>2
  <2> QED
    BY <1>8, <2>2, <2>3 DEF CreditedWork
<1>13. WorkInv(r)'
  BY <1>7, <1>10, <1>11, <1>12 DEF WorkInv
<1>14. PICK new, dirty : Stage(r, new, dirty, <<e>>) /\ RowsOK(new)
  BY <1>6 DEF CreditedBy
<1>15. j.pc # "start"
  BY <1>5
<1> QED
  BY <1>1, <1>2, <1>4, <1>13, <1>14, <1>15, StageKeepsReceiptInv
-----------------------------------------------------------------------------
\* The effect of a commit: the work of the request is in the store, its postings are
\* at the end of the ledger, and nobody else has moved.
LEMMA CommitStep ==
    ASSUME ReceiptInv, NEW r \in Request, Commit(r)
    PROVE  /\ session[r].state = "returned" /\ session'[r].state = "committed"
           /\ job[r].pc = "done" /\ job' = job
           /\ \A q \in Request \ {r} : session'[q] = session[q]
           /\ \A q \in Request : /\ Work(q)' = Work(q) /\ Posts(q)' = Posts(q)
                                 /\ Clean(q)' = Clean(q)
           /\ \A row : row \in DOMAIN table' <=> row \in DOMAIN table \/ row \in DOMAIN Work(r)
           /\ \A row : row \in DOMAIN Work(r) => table'[row] = Work(r)[row]
           /\ \A row : row \in DOMAIN table /\ row \notin DOMAIN Work(r)
                          => table'[row] = table[row]
           /\ ledger' = ledger \o Posts(r)
           /\ OwnEntries(r, Posts(r))
<1>1. /\ DataInv /\ SessionOK(session[r]) /\ OwnWork(r)
      /\ session = [q \in Request |-> session[q]]
      /\ RequestInv(r)
  BY DEF ReceiptInv, IInv, DataInv, SessionsOK
<1>2. /\ session[r].state = "returned"
      /\ \A q \in Request \ {r} : session'[q] = session[q]
      /\ session'[r].state = "committed"
      /\ session'[r].writes = session[r].writes /\ session'[r].posted = session[r].posted
      /\ session'[r].dirty = session[r].dirty /\ session'[r].entries = session[r].entries
      /\ table' = Overlay(table, session[r].writes)
      /\ ledger' = ledger \o session[r].posted
      /\ job' = job
  BY <1>1 DEF Commit, SessionOK
<1>3. job[r].pc = "done" /\ Clean(r)
  BY <1>1, <1>2 DEF RequestInv, Finished
<1>4. Work(r) = session[r].writes /\ Posts(r) = session[r].posted
  BY <1>1, <1>3, WorkOK
<1>5. \A q \in Request : Work(q)' = Work(q) /\ Posts(q)' = Posts(q) /\ Clean(q)' = Clean(q)
  BY <1>2 DEF Work, Posts, Clean
<1>6. OwnEntries(r, Posts(r))
  BY <1>1, <1>4 DEF OwnWork
<1>7. LET f == Overlay(table, Work(r)) IN
      /\ \A row : row \in DOMAIN f <=> row \in DOMAIN table \/ row \in DOMAIN Work(r)
      /\ \A row : row \in DOMAIN Work(r) => f[row] = Work(r)[row]
      /\ \A row : row \in DOMAIN table /\ row \notin DOMAIN Work(r) => f[row] = table[row]
  BY DEF Overlay
<1> QED
  BY <1>2, <1>3, <1>4, <1>5, <1>6, <1>7

\* The store before a commit has nothing of the request that commits.
LEMMA NothingStored ==
    ASSUME ReceiptInv, NEW r \in Request, session[r].state = "returned"
    PROVE  /\ \A row \in DOMAIN table : row.id # r
           /\ \A n \in DOMAIN ledger : ledger[n].by # r
BY DEF ReceiptInv, IInv, DataInv, NoTraceUnlessCommitted

\* A commit changes of a stored order its status only, to one past the approval.
LEMMA CommitOrders ==
    ASSUME ReceiptInv, NEW r \in Request, Commit(r), NEW row \in DOMAIN table \cap PORows
    PROVE  /\ row \in DOMAIN table'
           /\ SameOrder(table'[row], table[row])
           /\ table'[row].status = table[row].status \/ table'[row].status \in Advanced
<1>1. /\ session[r].state = "returned"
      /\ \A x : x \in DOMAIN table' <=> x \in DOMAIN table \/ x \in DOMAIN Work(r)
      /\ \A x : x \in DOMAIN Work(r) => table'[x] = Work(r)[x]
      /\ \A x : x \in DOMAIN table /\ x \notin DOMAIN Work(r) => table'[x] = table[x]
  BY CommitStep
<1>2. CASE row \notin DOMAIN Work(r)
  BY <1>1, <1>2 DEF SameOrder
<1>3. CASE row \in DOMAIN Work(r)
  <2>1. OrderWork(r)
    BY DEF ReceiptInv, RequestInv
  <2>2. row # PORow(r)
    BY <1>1, NothingStored DEF PORow
  <2>3. /\ SameOrder(Work(r)[row], table[row])
        /\ Work(r)[row].status \in Advanced
    BY <1>3, <2>1, <2>2 DEF OrderWork, Advanced
  <2> QED
    BY <1>1, <1>3, <2>3
<1> QED
  BY <1>2, <1>3

\* A commit stores the documents of its request and touches no other ones.
LEMMA CommitDocuments ==
    ASSUME ReceiptInv, NEW r \in Request, Commit(r)
    PROVE  /\ \A row \in Documents : row.id # r =>
                 /\ row \in DOMAIN table' <=> row \in DOMAIN table
                 /\ row \in DOMAIN table => table'[row] = table[row]
           /\ \A row \in Documents : row.id = r =>
                 /\ row \in DOMAIN table' <=> row \in DOMAIN Work(r)
                 /\ row \in DOMAIN Work(r) => table'[row] = Work(r)[row]
<1>1. /\ session[r].state = "returned"
      /\ \A x : x \in DOMAIN table' <=> x \in DOMAIN table \/ x \in DOMAIN Work(r)
      /\ \A x : x \in DOMAIN Work(r) => table'[x] = Work(r)[x]
      /\ \A x : x \in DOMAIN table /\ x \notin DOMAIN Work(r) => table'[x] = table[x]
  BY CommitStep
<1>2. \A row \in DOMAIN table : row.id # r
  BY <1>1, NothingStored
<1>3. \A row \in DOMAIN Work(r) \cap Documents : row.id = r
  BY DEF ReceiptInv, RequestInv, OwnDocuments
<1> QED
  BY <1>1, <1>2, <1>3

\* What others have committed stays where it is.
LEMMA CommitKeepsStored ==
    ASSUME ReceiptInv, NEW r \in Request, Commit(r), NEW q \in Request \ {r}
    PROVE  Stored(q)'
<1> SUFFICES ASSUME session[q].state = "committed"
             PROVE  Stored(q)'
  BY CommitStep DEF Stored
<1>1. /\ Work(q)' = Work(q) /\ Posts(q)' = Posts(q)
      /\ ledger' = ledger \o Posts(r) /\ OwnEntries(r, Posts(r))
  BY CommitStep
<1>2. /\ ledger \in Seq(Entry) /\ Posts(r) \in Seq(Entry)
      /\ Posts(q) \in Seq(Entry)
      /\ RequestInv(q)
  BY WorkOK DEF ReceiptInv, IInv, DataInv
<1>3. /\ ledger' \in Seq(Entry)
      /\ Len(ledger) <= Len(ledger')
      /\ \A n \in DOMAIN ledger' : ledger'[n].by = r
            \/ (n \in DOMAIN ledger /\ ledger'[n] = ledger[n])
      /\ \A n \in 1 .. Len(ledger) : ledger'[n] = ledger[n]
  BY <1>1, <1>2, ConcatOf
<1>4. PostedBy(q)' = PostedBy(q)
  <2>1. \A n \in DOMAIN ledger : n \in DOMAIN ledger'
    BY <1>2, <1>3
  <2>2. \A n \in DOMAIN ledger : ledger'[n] = ledger[n]
    BY <1>2, <1>3
  <2> QED
    BY <1>3, <2>1, <2>2 DEF PostedBy
<1>5. /\ {row \in DOMAIN table \cap Documents : row.id = q} = DOMAIN Work(q) \cap Documents
      /\ \A row \in DOMAIN Work(q) \cap Documents : table[row] = Work(q)[row]
  BY <1>2 DEF RequestInv, Stored
<1>6. PICK k \in 0 .. Len(ledger) :
        /\ PostedBy(q) = Span(k, Len(Posts(q)))
        /\ \A n \in 1 .. Len(Posts(q)) : ledger[k + n] = Posts(q)[n]
  BY <1>2 DEF RequestInv, Stored
<1>7. \A row \in Documents : row.id = q =>
        /\ row \in DOMAIN table' <=> row \in DOMAIN table
        /\ row \in DOMAIN table => table'[row] = table[row]
  BY CommitDocuments
<1>8. /\ {row \in DOMAIN table' \cap Documents : row.id = q} = DOMAIN Work(q) \cap Documents
      /\ \A row \in DOMAIN Work(q) \cap Documents : table'[row] = Work(q)[row]
  <2>1. \A row : row \in DOMAIN Work(q) \cap Documents <=>
                   row \in DOMAIN table \cap Documents /\ row.id = q
    BY <1>5
  <2>2. \A row \in DOMAIN Work(q) \cap Documents : table'[row] = Work(q)[row]
    BY <1>5, <1>7, <2>1
  <2>3. \A row : row \in DOMAIN table' \cap Documents /\ row.id = q <=>
                   row \in DOMAIN Work(q) \cap Documents
    BY <1>7, <2>1
  <2> QED
    BY <2>2, <2>3
<1>9. \A n \in 1 .. Len(Posts(q)) : ledger'[k + n] = Posts(q)[n]
  <2> SUFFICES ASSUME NEW n \in 1 .. Len(Posts(q)) PROVE ledger'[k + n] = Posts(q)[n]
    OBVIOUS
  <2>1. k + n \in PostedBy(q)
    BY <1>6 DEF Span
  <2>2. k + n \in 1 .. Len(ledger)
    BY <1>2, <2>1 DEF PostedBy
  <2> QED
    BY <1>3, <1>6, <2>2
<1>10. k \in 0 .. Len(ledger')
  BY <1>2, <1>3
<1> QED
  BY <1>1, <1>4, <1>6, <1>8, <1>9, <1>10 DEF Stored

\* What a request commits is what it has written and posted.
LEMMA CommitStores ==
    ASSUME ReceiptInv, NEW r \in Request, Commit(r)
    PROVE  Stored(r)'
<1>1. /\ Work(r)' = Work(r) /\ Posts(r)' = Posts(r) /\ session[r].state = "returned"
      /\ ledger' = ledger \o Posts(r) /\ OwnEntries(r, Posts(r))
  BY CommitStep
<1>2. /\ ledger \in Seq(Entry) /\ Posts(r) \in Seq(Entry)
      /\ OwnDocuments(r)
  BY WorkOK DEF ReceiptInv, IInv, DataInv, RequestInv
<1>3. \A n \in DOMAIN ledger : ledger[n].by # r
  BY <1>1, NothingStored
<1>4. /\ {row \in DOMAIN table' \cap Documents : row.id = r} = DOMAIN Work(r) \cap Documents
      /\ \A row \in DOMAIN Work(r) \cap Documents : table'[row] = Work(r)[row]
  <2>1. \A row \in Documents : row.id = r =>
          /\ row \in DOMAIN table' <=> row \in DOMAIN Work(r)
          /\ row \in DOMAIN Work(r) => table'[row] = Work(r)[row]
    BY CommitDocuments
  <2>2. \A row \in DOMAIN Work(r) \cap Documents : row.id = r
    BY <1>2 DEF OwnDocuments
  <2> QED
    BY <2>1, <2>2
<1> DEFINE k == Len(ledger)
           m == Len(Posts(r))
<1>5. \A n \in 1 .. m : ledger'[k + n] = Posts(r)[n]
  BY <1>1, <1>2
<1>6. PostedBy(r)' = Span(k, m)
  <2>1. /\ DOMAIN ledger' = 1 .. k + m /\ k \in Nat /\ m \in Nat
        /\ DOMAIN ledger = 1 .. k
        /\ \A n \in 1 .. k : ledger'[n] = ledger[n]
    BY <1>1, <1>2
  <2>2. \A n \in 1 .. k + m : ledger'[n].by = r <=> n > k
    <3> SUFFICES ASSUME NEW n \in 1 .. k + m PROVE ledger'[n].by = r <=> n > k
      OBVIOUS
    <3>1. CASE n <= k
      <4>1. n \in DOMAIN ledger /\ ledger'[n] = ledger[n] /\ ~(n > k)
        BY <2>1, <3>1
      <4> QED
        BY <1>3, <4>1
    <3>2. CASE n > k
      <4>1. n - k \in 1 .. m /\ k + (n - k) = n
        BY <2>1, <3>2
      <4>2. ledger'[k + (n - k)] = Posts(r)[n - k]
        BY <1>5, <4>1
      <4>3. n - k \in DOMAIN Posts(r)
        BY <1>2, <4>1
      <4> QED
        BY <1>1, <3>2, <4>1, <4>2, <4>3 DEF OwnEntries
    <3> QED
      BY <2>1, <3>1, <3>2
  <2>3. PostedBy(r)' = {n \in 1 .. k + m : n > k}
    BY <2>1, <2>2 DEF PostedBy
  <2>4. \A n : n \in {i \in 1 .. k + m : i > k} => n \in {k + i : i \in 1 .. m}
    <3> SUFFICES ASSUME NEW n \in 1 .. k + m, n > k PROVE n \in {k + i : i \in 1 .. m}
      OBVIOUS
    <3>1. n - k \in 1 .. m /\ k + (n - k) = n
      BY <2>1
    <3> QED
      BY <3>1
  <2>5. \A i \in 1 .. m : k + i \in 1 .. k + m /\ k + i > k
    BY <2>1
  <2> QED
    BY <2>3, <2>4, <2>5 DEF Span
<1>7. k \in 0 .. Len(ledger')
  BY <1>1, <1>2
<1> QED
  BY <1>1, <1>4, <1>5, <1>6, <1>7 DEF Stored

\* A commit keeps the stored orders in order: an order is received, or has become
\* approved, after an approval was committed.
LEMMA CommitKeepsOrders ==
    ASSUME ReceiptInv, NEW r \in Request, Commit(r)
    PROVE  OrdersInv'
<1>1. /\ session[r].state = "returned" /\ session'[r].state = "committed"
      /\ job[r].pc = "done" /\ job' = job
      /\ \A q \in Request \ {r} : session'[q] = session[q]
      /\ \A x : x \in DOMAIN table' <=> x \in DOMAIN table \/ x \in DOMAIN Work(r)
      /\ \A x : x \in DOMAIN Work(r) => table'[x] = Work(r)[x]
      /\ \A x : x \in DOMAIN table /\ x \notin DOMAIN Work(r) => table'[x] = table[x]
  BY CommitStep
<1>2. OrdersInv /\ OrderWork(r) /\ GoodsOrder(r)
  BY DEF ReceiptInv, RequestInv
<1>3. \A o \in Request : Approval(o) => Approval(o)'
  BY <1>1 DEF Approval
<1>4. \A row \in DOMAIN Work(r) \cap PORows : Work(r)[row].status \in {"draft"} \cup Advanced
  BY <1>2 DEF OrderWork, Advanced
<1>5. ASSUME NEW o \in Request, PORow(o) \in DOMAIN table', table'[PORow(o)].status # "draft"
      PROVE  Approval(o)'
  <2>1. CASE PORow(o) \notin DOMAIN Work(r)
    BY <1>1, <1>2, <1>3, <1>5, <2>1 DEF OrdersInv
  <2>2. CASE PORow(o) \in DOMAIN Work(r)
    <3>1. PORow(o) \in PORows /\ Work(r)[PORow(o)].status # "draft"
      BY <1>1, <1>5, <2>2, RowKinds
    <3>2. job[r].op \in {"approve_po", "create_grn"} /\ PORow(o) = PORow(job[r].po)
      BY <1>2, <2>2, <3>1 DEF OrderWork
    <3>3. job[r].po = o
      BY <3>2 DEF PORow
    <3>4. CASE job[r].op = "approve_po"
      BY <1>1, <3>3, <3>4 DEF Approval
    <3>5. CASE job[r].op = "create_grn"
      <4>1. PORow(o) \in DOMAIN table /\ table[PORow(o)].status # "draft"
        BY <1>1, <1>2, <3>3, <3>5 DEF GoodsOrder, Advanced
      <4> QED
        BY <1>2, <1>3, <4>1 DEF OrdersInv
    <3> QED
      BY <3>2, <3>4, <3>5
  <2> QED
    BY <2>1, <2>2
<1>6. \A row \in DOMAIN table' \cap PORows : table'[row].status \in {"draft"} \cup Advanced
  BY <1>1, <1>2, <1>4 DEF OrdersInv
<1> QED
  BY <1>5, <1>6 DEF OrdersInv

\* A commit keeps the invariant.
LEMMA CommitKeepsReceiptInv ==
    ASSUME ReceiptInv, NEW r \in Request, Commit(r)
    PROVE  ReceiptInv'
<1>1. /\ session[r].state = "returned" /\ session'[r].state = "committed"
      /\ job[r].pc = "done" /\ job' = job
      /\ \A q \in Request \ {r} : session'[q] = session[q]
      /\ \A q \in Request : /\ Work(q)' = Work(q) /\ Posts(q)' = Posts(q)
                            /\ Clean(q)' = Clean(q)
  BY CommitStep
<1>2. \A row \in DOMAIN table \cap PORows :
        /\ row \in DOMAIN table'
        /\ SameOrder(table'[row], table[row])
        /\ table'[row].status = table[row].status \/ table'[row].status \in Advanced
  BY CommitOrders
<1>3. ASSUME NEW q \in Request PROVE RequestInv(q)'
  <2>1. RequestInv(q)
    BY DEF ReceiptInv
  <2>2. /\ Work(q)' = Work(q) /\ Posts(q)' = Posts(q) /\ Clean(q)' = Clean(q)
        /\ job' = job
        /\ session'[q].state = session[q].state \/ (q = r /\ session'[q].state = "committed")
    BY <1>1
  <2>3. (Untouched(q) /\ OwnDocuments(q) /\ BalanceWork(q))'
    BY <2>1, <2>2 DEF RequestInv, Untouched, OwnDocuments, BalanceWork
  <2>4. Finished(q)'
    BY <1>1, <2>1, <2>2 DEF RequestInv, Finished
  <2>5. OrderWork(q)'
    <3> SUFFICES ASSUME NEW row \in DOMAIN Work(q) \cap PORows,
                        row \in DOMAIN table,
                        SameOrder(Work(q)[row], table[row])
                 PROVE  row \in DOMAIN table' /\ SameOrder(Work(q)[row], table'[row])
      BY <2>1, <2>2 DEF RequestInv, OrderWork
    <3> QED
      BY <1>2 DEF SameOrder
  <2>6. GoodsOrder(q)' /\ ReceiptWork(q)'
    <3>1. CASE job[q].op = "create_grn" /\ job[q].pc # "start"
      <4>1. PORow(job[q].po) \in DOMAIN table
            /\ table[PORow(job[q].po)].status \in Advanced
        BY <2>1, <3>1 DEF RequestInv, GoodsOrder
      <4>2. PORow(job[q].po) \in PORows
        BY <3>1, RowKinds DEF ReceiptInv, IInv, JobInv, Job
      <4>3. /\ PORow(job[q].po) \in DOMAIN table'
            /\ table'[PORow(job[q].po)].status \in Advanced
            /\ table'[PORow(job[q].po)].warehouse = table[PORow(job[q].po)].warehouse
        BY <1>2, <4>1, <4>2 DEF SameOrder
      <4>4. GoodsOrder(q)'
        BY <2>2, <4>3 DEF GoodsOrder
      <4>5. ReceiptWork(q)'
        BY <2>1, <2>2, <4>3 DEF RequestInv, ReceiptWork
      <4> QED
        BY <4>4, <4>5
    <3>2. CASE ~(job[q].op = "create_grn" /\ job[q].pc # "start")
      BY <2>2, <3>2 DEF GoodsOrder, ReceiptWork
    <3> QED
      BY <3>1, <3>2
  <2>7. Stored(q)'
    BY CommitKeepsStored, CommitStores
  <2> QED
    BY <2>3, <2>4, <2>5, <2>6, <2>7 DEF RequestInv
<1>4. BalancesArePosted'
  <2> SUFFICES ASSUME NEW row \in DOMAIN table' \cap StockRows
               PROVE  Explained(row, table'[row], ledger')
    BY DEF BalancesArePosted
  <2>1. /\ ledger \in Seq(Entry) /\ Posts(r) \in Seq(Entry)
        /\ BalancesArePosted /\ BalanceWork(r)
    BY WorkOK DEF ReceiptInv, IInv, DataInv, RequestInv
  <2>2. /\ \A x : x \in DOMAIN table' <=> x \in DOMAIN table \/ x \in DOMAIN Work(r)
        /\ \A x : x \in DOMAIN Work(r) => table'[x] = Work(r)[x]
        /\ \A x : x \in DOMAIN table /\ x \notin DOMAIN Work(r) => table'[x] = table[x]
        /\ ledger' = ledger \o Posts(r)
    BY CommitStep
  <2>3. CASE row \in DOMAIN Work(r)
    <3>1. Explained(row, Work(r)[row], Posts(r))
      BY <2>1, <2>3 DEF BalanceWork
    <3> QED
      BY <2>1, <2>2, <2>3, <3>1, ExplainedMore
  <2>4. CASE row \notin DOMAIN Work(r)
    <3>1. Explained(row, table[row], ledger)
      BY <2>1, <2>2, <2>4 DEF BalancesArePosted
    <3> QED
      BY <2>1, <2>2, <2>4, <3>1, ExplainedMore
  <2> QED
    BY <2>3, <2>4
<1> QED
  BY <1>3, <1>4, CommitKeepsOrders, CommitKeepsIInv DEF ReceiptInv
-----------------------------------------------------------------------------
\* Every step of the server keeps the invariant.
LEMMA ServeKeepsReceiptInv ==
    ASSUME ReceiptInv, NEW r \in Request, Serve(r)
    PROVE  ReceiptInv'
<1>1. CASE Connect(r)
  BY <1>1, StateKeepsReceiptInv DEF Connect
<1>2. CASE PoolTimeout(r)
  BY <1>2, StateKeepsReceiptInv DEF PoolTimeout
<1>3. CASE CreatePO(r)
  BY <1>3, CreatePOKeepsReceiptInv
<1>4. CASE ApprovePO(r)
  BY <1>4, ApprovePOKeepsReceiptInv
<1>5. CASE AdjustStock(r)
  BY <1>5, AdjustStockKeepsReceiptInv
<1>6. CASE OpenGRN(r)
  BY <1>6, OpenGRNKeepsReceiptInv
<1>7. CASE FailLine(r)
  BY <1>7, RaiseKeepsReceiptInv DEF FailLine, AtLine, Running
<1>8. CASE RecordLine(r)
  BY <1>8, RecordLineKeepsReceiptInv
<1>9. CASE CreditLine(r)
  BY <1>9, CreditLineKeepsReceiptInv
<1>10. CASE ClosePO(r)
  BY <1>10, ClosePOKeepsReceiptInv
<1>11. CASE Flush(r)
  BY <1>11, FlushKeepsReceiptInv
<1>12. CASE Finish(r)
  BY <1>12, StateKeepsReceiptInv DEF Finish, Respond, Running
<1>13. CASE Commit(r)
  BY <1>13, CommitKeepsReceiptInv
<1>14. CASE Discard(r)
  BY <1>14, StateKeepsReceiptInv DEF Discard
<1>15. CASE DeadlockVictim(r)
  BY <1>15, RaiseKeepsReceiptInv DEF DeadlockVictim, Deadlocked, InUse, Live
<1> QED
  BY <1>1, <1>2, <1>3, <1>4, <1>5, <1>6, <1>7, <1>8, <1>9, <1>10, <1>11, <1>12,
     <1>13, <1>14, <1>15 DEF Serve

\* Every step keeps the invariant.
LEMMA NextKeepsReceiptInv ==
    ASSUME ReceiptInv, [Next]_vars
    PROVE  ReceiptInv'
<1>1. ASSUME NEW r \in Request, Submit(r) PROVE ReceiptInv'
  BY <1>1, SubmitKeepsReceiptInv
<1>2. ASSUME NEW r \in Request, Serve(r) PROVE ReceiptInv'
  BY <1>2, ServeKeepsReceiptInv
<1>3. ASSUME NEW r \in Request, Crash(r) PROVE ReceiptInv'
  BY <1>3, StateKeepsReceiptInv DEF Crash, Live
<1>4. CASE UNCHANGED vars
  <2>1. /\ table' = table /\ ledger' = ledger /\ job' = job /\ session' = session
        /\ IInv' /\ \A q \in Request : Untouched(q) /\ Finished(q)
    BY <1>4, StutterKeepsIInv DEF vars, ReceiptInv, RequestInv
  <2>2. \A q \in Request : Work(q)' = Work(q) /\ Posts(q)' = Posts(q) /\ Clean(q)' = Clean(q)
    BY <2>1 DEF Work, Posts, Clean
  <2>3. Quiet
    BY <2>1, <2>2 DEF Quiet
  <2>4. \A q \in Request : Untouched(q)' /\ Finished(q)'
    BY <2>1, <2>2 DEF Untouched, Finished
  <2> QED
    BY <2>1, <2>3, <2>4, QuietKeepsReceiptInv
<1> QED
  BY <1>1, <1>2, <1>3, <1>4 DEF Next

\* The inductive invariant holds in every reachable state.
THEOREM ReceiptInvariance == Spec => []ReceiptInv
<1>1. Init => ReceiptInv
  BY InitReceiptInv
<1>2. ReceiptInv /\ [Next]_vars => ReceiptInv'
  BY NextKeepsReceiptInv
<1> QED
  BY <1>1, <1>2, PTL DEF Spec
-----------------------------------------------------------------------------
\* A request with a stored note is a receipt that has run to its end and committed; its
\* note is the one it wrote.
LEMMA StoredNote ==
    ASSUME ReceiptInv, NEW r \in Request, GRNRow(r) \in DOMAIN table
    PROVE  /\ job[r].op = "create_grn" /\ job[r].pc = "done"
           /\ session[r].state = "committed"
           /\ table[GRNRow(r)] = Work(r)[GRNRow(r)]
<1>1. RequestInv(r) /\ NoTraceUnlessCommitted
  BY DEF ReceiptInv, IInv, DataInv
<1>2. GRNRow(r) \in Documents /\ GRNRow(r).id = r
  BY RowKinds DEF Documents, GRNRow
<1>3. session[r].state = "committed"
  BY <1>1, <1>2 DEF NoTraceUnlessCommitted
<1>4. /\ GRNRow(r) \in DOMAIN Work(r) \cap Documents
      /\ table[GRNRow(r)] = Work(r)[GRNRow(r)]
  BY <1>1, <1>2, <1>3 DEF RequestInv, Stored
<1> QED
  BY <1>1, <1>3, <1>4 DEF RequestInv, OwnDocuments, Finished

\* The lines of a stored note that were credited.
CreditedIn(g) == {i \in DOMAIN g.lines : Credited(g.status = "completed", g.lines[i])}

\* The note g of request r has the lines that were sent, and the credited ones have their
\* ledger rows and batches.
WholeReceipt(r, g, credited) ==
    /\ g.lines = job[r].lines
    /\ \E k \in 0 .. Len(ledger) :
         /\ PostedBy(r) = {k + Place(i, credited) : i \in credited}
         /\ \A i \in credited :
              LET e == ledger[k + Place(i, credited)] IN
              /\ e.product = g.lines[i].product
              /\ e.warehouse = table[PORow(g.po)].warehouse
              /\ e.change = g.lines[i].accepted
    /\ {row \in DOMAIN table \cap BatchRows : row.id = r}
         = {BatchRow(r, i) : i \in {c \in credited : g.lines[c].batch}}

\* The invariant makes the stored receipts whole.
LEMMA StoredReceipt ==
    ASSUME ReceiptInv, NEW r \in Request, GRNRow(r) \in DOMAIN table
    PROVE  WholeReceipt(r, table[GRNRow(r)], CreditedIn(table[GRNRow(r)]))
<1> DEFINE j == job[r]
           g == table[GRNRow(r)]
           C == CreditedTo(j, j.i - 1)
           w == table[PORow(j.po)].warehouse
<1>1. /\ j.op = "create_grn" /\ j.pc = "done" /\ session[r].state = "committed"
      /\ g = Work(r)[GRNRow(r)]
  BY StoredNote
<1>2. RequestInv(r) /\ DataInv /\ Posts(r) \in Seq(Entry) /\ ledger \in Seq(Entry)
  BY WorkOK DEF ReceiptInv, IInv, DataInv
<1>3. j \in [op : {"create_grn"}, pc : PC, po : PO, lines : Seq(Delivered),
             auto : BOOLEAN, i : Nat \ {0}]
  BY <1>1 DEF ReceiptInv, IInv, JobInv, Job
<1>4. /\ j.i = Len(j.lines) + 1
      /\ g = [po |-> j.po, lines |-> SubSeq(j.lines, 1, j.i - 1),
              status |-> IF j.auto THEN "completed" ELSE "draft"]
      /\ InStep(Posts(r), C, j.lines, w)
      /\ DOMAIN Work(r) \cap BatchRows = {BatchRow(r, i) : i \in {c \in C : j.lines[c].batch}}
  BY <1>1, <1>2 DEF RequestInv, ReceiptWork
<1>5. /\ g.po = j.po /\ g.lines = j.lines /\ (g.status = "completed" <=> j.auto)
  <2>1. SubSeq(j.lines, 1, j.i - 1) = j.lines
    BY <1>3, <1>4
  <2> QED
    BY <1>3, <1>4, <2>1
<1>6. CreditedIn(g) = C
  <2>1. DOMAIN j.lines = 1 .. j.i - 1
    BY <1>3, <1>4
  <2>2. j.auto \in BOOLEAN
    BY <1>3
  <2> QED
    BY <1>5, <2>1, <2>2 DEF CreditedTo, CreditedIn, Credited
<1>7. PICK k \in 0 .. Len(ledger) :
        /\ PostedBy(r) = Span(k, Len(Posts(r)))
        /\ \A n \in 1 .. Len(Posts(r)) : ledger[k + n] = Posts(r)[n]
  BY <1>1, <1>2 DEF RequestInv, Stored
<1> HIDE DEF j, g, C, w
<1>8. PostedBy(r) = {k + Place(i, C) : i \in C}
  BY <1>4, <1>7 DEF InStep, Span
<1>9. ASSUME NEW i \in C
      PROVE  /\ ledger[k + Place(i, C)].product = j.lines[i].product
             /\ ledger[k + Place(i, C)].warehouse = w
             /\ ledger[k + Place(i, C)].change = j.lines[i].accepted
  <2>1. Place(i, C) \in 1 .. Len(Posts(r)) /\ PostsLine(Posts(r)[Place(i, C)], j.lines[i], w)
    BY <1>4 DEF InStep
  <2>2. ledger[k + Place(i, C)] = Posts(r)[Place(i, C)]
    BY <1>7, <2>1
  <2> QED
    BY <2>1, <2>2 DEF PostsLine
<1>10. {row \in DOMAIN table \cap BatchRows : row.id = r} = DOMAIN Work(r) \cap BatchRows
  <2>1. {row \in DOMAIN table \cap Documents : row.id = r} = DOMAIN Work(r) \cap Documents
    BY <1>1, <1>2 DEF RequestInv, Stored
  <2> QED
    BY <2>1 DEF Documents
<1>11. table[PORow(g.po)].warehouse = w
  BY <1>5 DEF w
<1>12. g.lines = job[r].lines /\ j.lines = g.lines
  BY <1>5 DEF j
<1>13. WholeReceipt(r, g, C)
  BY <1>4, <1>7, <1>8, <1>9, <1>10, <1>11, <1>12 DEF WholeReceipt
<1> QED
  BY <1>6, <1>13 DEF g

\* A receipt is stored whole, with one ledger row and at most one batch for each of its
\* credited lines, or has left nothing behind: create_grn's flushes, failures, crashes,
\* deadlocks and discarded sessions cannot be told apart in the store.
THEOREM ReceiptsAreAtomic == Spec => []ReceiptIsAtomic
<1>1. ASSUME ReceiptInv, NEW r \in Request, job[r].op = "create_grn",
             GRNRow(r) \notin DOMAIN table
      PROVE  PostedBy(r) = {} /\ {row \in DOMAIN table : row.id = r} = {}
  <2>1. RequestInv(r) /\ NoTraceUnlessCommitted
    BY <1>1 DEF ReceiptInv, IInv, DataInv
  <2>2. session[r].state # "committed"
    <3>1. GRNRow(r) \in Documents /\ GRNRow(r).id = r
      BY RowKinds DEF Documents, GRNRow
    <3>2. session[r].state = "committed" => GRNRow(r) \in DOMAIN Work(r)
      BY <1>1, <2>1 DEF RequestInv, Finished, ReceiptWork
    <3> QED
      BY <1>1, <2>1, <3>1, <3>2 DEF RequestInv, Stored
  <2> QED
    BY <2>1, <2>2 DEF NoTraceUnlessCommitted, PostedBy
<1>2. ReceiptInv => ReceiptIsAtomic
  BY <1>1, StoredReceipt DEF ReceiptIsAtomic, WholeReceipt, CreditedIn
<1> QED
  BY <1>2, ReceiptInvariance, PTL

\* Goods are received only against an order that was approved before: create_grn's check
\* of a status it read is enough, however stale, since no commit of approve_po, create_po
\* or create_grn makes an approved order a draft again.
THEOREM ReceiptsAreApproved == Spec => []ReceiptsNeedApproval
<1>1. ASSUME ReceiptInv, NEW r \in Request, GRNRow(r) \in DOMAIN table
      PROVE  LET o == table[GRNRow(r)].po IN
             /\ table[PORow(o)].status \in {"approved", "fully_received"}
             /\ o \in Request => Approval(o)
  <2> DEFINE o == job[r].po
  <2>1. /\ job[r].op = "create_grn" /\ job[r].pc = "done"
        /\ table[GRNRow(r)] = Work(r)[GRNRow(r)]
    BY <1>1, StoredNote
  <2>2. RequestInv(r) /\ OrdersInv
    BY <1>1 DEF ReceiptInv
  <2>3. table[GRNRow(r)].po = o
    BY <2>1, <2>2 DEF RequestInv, ReceiptWork
  <2>4. PORow(o) \in DOMAIN table /\ table[PORow(o)].status \in Advanced
    BY <2>1, <2>2 DEF RequestInv, GoodsOrder
  <2> QED
    BY <2>2, <2>3, <2>4 DEF OrdersInv, Advanced
<1>2. ReceiptInv => ReceiptsNeedApproval
  BY <1>1 DEF ReceiptsNeedApproval, Approval
<1> QED
  BY <1>2, ReceiptInvariance, PTL

\* Every balance is zero or was put there by a posting of its product and warehouse, even
\* where updates were lost: no step of add_stock or adjust_stock writes one without.
THEOREM PostedBalances == Spec => []BalancesArePosted
<1>1. ReceiptInv => BalancesArePosted
  BY DEF ReceiptInv
<1> QED
  BY <1>1, ReceiptInvariance, PTL

\* Nothing but a commit changes the store.
LEMMA OnlyCommitsStore ==
    ASSUME [Next]_vars, \A r \in Request : ~Commit(r)
    PROVE  UNCHANGED <<table, ledger>>
<1> DEFINE Same == UNCHANGED <<table, ledger>>
<1>1. ASSUME NEW r \in Request, Serve(r) PROVE Same
  <2>1. CASE Connect(r) \/ PoolTimeout(r) \/ Flush(r) \/ Discard(r)
    BY <2>1 DEF Connect, PoolTimeout, Flush, Discard
  <2>2. CASE FailLine(r) \/ Finish(r) \/ DeadlockVictim(r)
    BY <2>2 DEF FailLine, Finish, DeadlockVictim, Raise, Respond
  <2>3. CASE CreatePO(r)
    BY <2>3 DEF CreatePO, Raise, Stage
  <2>4. CASE ApprovePO(r)
    BY <2>4 DEF ApprovePO, Raise, Stage
  <2>5. CASE AdjustStock(r)
    BY <2>5 DEF AdjustStock, Raise, Stage
  <2>6. CASE OpenGRN(r)
    BY <2>6 DEF OpenGRN, Raise, Stage
  <2>7. CASE RecordLine(r) \/ CreditLine(r) \/ ClosePO(r)
    BY <2>7 DEF RecordLine, CreditLine, ClosePO, Stage
  <2> QED
    BY <1>1, <2>1, <2>2, <2>3, <2>4, <2>5, <2>6, <2>7 DEF Serve
<1>2. ASSUME NEW r \in Request, Submit(r) \/ Crash(r) PROVE Same
  BY <1>2 DEF Submit, Arrive, Crash
<1>3. CASE UNCHANGED vars
  BY <1>3 DEF vars
<1> QED
  BY <1>1, <1>2, <1>3 DEF Next

\* Stored rows stay: no request deletes a row, changes a note or a batch once it is stored,
\* or changes what an order orders and for where.
THEOREM DocumentsStay == Spec => DocumentsAreImmutable
<1> DEFINE Kept(row) ==
             /\ row \in DOMAIN table'
             /\ row \in GRNRows \cup BatchRows => table'[row] = table[row]
             /\ row \in PORows =>
                  /\ table'[row].warehouse = table[row].warehouse
                  /\ Ordered(table'[row]) = Ordered(table[row])
<1>1. ASSUME ReceiptInv, NEW r \in Request, Commit(r), NEW row \in DOMAIN table
      PROVE  Kept(row)
  <2>1. row \in DOMAIN table'
    BY <1>1, CommitStep
  <2>2. row.id # r
    BY <1>1, CommitStep, NothingStored
  <2>3. row \in Documents => table'[row] = table[row]
    BY <1>1, <2>2, CommitDocuments
  <2>4. row \in PORows => SameOrder(table'[row], table[row])
    BY <1>1, CommitOrders
  <2> QED
    BY <2>1, <2>3, <2>4 DEF Documents, SameOrder, Ordered
<1>2. ReceiptInv /\ [Next]_vars => \A row \in DOMAIN table : Kept(row)
  <2>1. ASSUME UNCHANGED table PROVE \A row \in DOMAIN table : Kept(row)
    BY <2>1 DEF Ordered
  <2> QED
    BY <1>1, <2>1, OnlyCommitsStore
<1>3. ReceiptInv /\ [Next]_vars => [\A row \in DOMAIN table : Kept(row)]_vars
  BY <1>2
<1> QED
  BY <1>3, ReceiptInvariance, PTL DEF Spec, DocumentsAreImmutable
\* No step gives a session another manager than one in use.
LEMMA ManagersStay ==
    ASSUME IInv, [Next]_vars, NEW r \in Request
    PROVE  session'[r].manager \in {session[r].manager} \cup Managers
<1> DEFINE Served == session'[r].manager = session[r].manager
<1>1. session = [q \in Request |-> session[q]] /\ \A q \in Request : SessionOK(session[q])
  BY DEF IInv, DataInv, SessionsOK
<1>2. ASSUME NEW q \in Request, NEW s, session' = [session EXCEPT ![q].state = s]
      PROVE  Served
  BY <1>1, <1>2 DEF SessionOK
<1>3. ASSUME NEW q \in Request, NEW new, NEW dirty, NEW entries, Stage(q, new, dirty, entries)
      PROVE  Served
  BY <1>1, <1>3 DEF Stage, SessionOK
<1>4. ASSUME NEW q \in Request, Serve(q) PROVE Served
  <2>1. CASE Connect(q) \/ PoolTimeout(q) \/ Commit(q) \/ Discard(q)
    BY <1>2, <2>1 DEF Connect, PoolTimeout, Commit, Discard
  <2>2. CASE FailLine(q) \/ Finish(q) \/ DeadlockVictim(q)
    BY <1>2, <2>2 DEF FailLine, Finish, DeadlockVictim, Raise, Respond
  <2>3. CASE Flush(q)
    BY <1>1, <2>3 DEF Flush, SessionOK
  <2>4. CASE CreatePO(q)
    BY <1>2, <1>3, <2>4 DEF CreatePO, Raise
  <2>5. CASE ApprovePO(q)
    BY <1>2, <1>3, <2>5 DEF ApprovePO, Raise
  <2>6. CASE AdjustStock(q)
    BY <1>2, <1>3, <2>6 DEF AdjustStock, Raise
  <2>7. CASE OpenGRN(q)
    BY <1>2, <1>3, <2>7 DEF OpenGRN, Raise
  <2>8. CASE RecordLine(q) \/ CreditLine(q) \/ ClosePO(q)
    BY <1>3, <2>8 DEF RecordLine, CreditLine, ClosePO
  <2> QED
    BY <1>4, <2>1, <2>2, <2>3, <2>4, <2>5, <2>6, <2>7, <2>8 DEF Serve
<1>5. ASSUME NEW q \in Request, Submit(q) PROVE session'[r].manager \in {session[r].manager} \cup Managers
  BY <1>1, <1>5 DEF Submit, Arrive, SessionOK
<1>6. ASSUME NEW q \in Request, Crash(q) PROVE Served
  BY <1>2, <1>6 DEF Crash
<1>7. CASE UNCHANGED vars
  BY <1>7 DEF vars
<1> QED
  BY <1>4, <1>5, <1>6, <1>7 DEF Next

\* With get_db as the session manager of every request, which is how the routes have it
\* (core/dependencies.py, 83), the store is for ever the one on file: no order, receipt or
\* balance of any request is kept, also of those that were answered with success.
THEOREM NothingIsKept ==
    ASSUME Managers = {"get_db"}
    PROVE  Spec => [](\E f \in Filed : table = f.table /\ ledger = f.ledger)
<1> DEFINE OnFileOnly == \E f \in Filed : table = f.table /\ ledger = f.ledger
           Closed == \A r \in Request : session[r].manager = "get_db"
<1>1. Init => OnFileOnly /\ Closed
  BY DEF Init, FreshSession
<1>2. ASSUME IInv, [Next]_vars, OnFileOnly, Closed PROVE OnFileOnly' /\ Closed'
  <2>1. \A r \in Request : ~Commit(r)
    BY <1>2 DEF Commit
  <2>2. UNCHANGED <<table, ledger>>
    BY <1>2, <2>1, OnlyCommitsStore
  <2>3. \A r \in Request : session'[r].manager = "get_db"
    BY <1>2, ManagersStay
  <2> QED
    BY <1>2, <2>2, <2>3
<1>3. IInv /\ OnFileOnly /\ Closed /\ [Next]_vars => OnFileOnly' /\ Closed'
  BY <1>2
<1> QED
  BY <1>1, <1>3, Invariance, PTL DEF Spec
=============================================================================
