----------------------------- MODULE Procurement -----------------------------
(***************************************************************************)
(* The procurement and inventory back end: requests that create and        *)
(* approve purchase orders, receive goods and adjust stock, served         *)
(* concurrently by sessions on one database.                               *)
(***************************************************************************)
EXTENDS GoodsReceipt, SequencesExt

CONSTANTS
    Filed,     \* the databases to start from, as [table, ledger] records
    ToApprove, \* the purchase orders that clients ask to approve
    ToReceive, \* the purchase orders that clients receive goods against
    Modes      \* the values of auto_complete that they send

\* The bodies of the requests, as the request models let them through.
Item == [product : Product \cup {Unknown}, ordered : (Nat \ {0}) \cup {Null}]
Delivered == [product : Product \cup {Unknown}, received : Nat \ {0},
              accepted : Int \cup {Null}, batch : BOOLEAN]

ASSUME ProcurementAssumption ==
    /\ ToApprove \subseteq PO
    /\ ToReceive \subseteq PO
    /\ Modes \subseteq BOOLEAN
    /\ POItems \subseteq Seq(Item)
    /\ Deliveries \subseteq Seq(Delivered)
    /\ Counts \subseteq [product : Product \cup {Unknown}, quantity : Nat]
    /\ \A f \in Filed :
         /\ RowsOK(f.table) /\ f.ledger \in Seq(Entry)
         /\ DOMAIN f.table \subseteq PORows \cup StockRows
         /\ \A row \in DOMAIN f.table :
              /\ row.id \in OnFile
              /\ row \in PORows => f.table[row].status \in {"draft", "approved"}
         /\ \A i \in DOMAIN f.ledger : f.ledger[i].by \in OnFile

\* The books on file were written by requests of the same services: updates may have
\* been lost, and balance rows doubled.
ASSUME BooksAssumption ==
    \A f \in Filed :
        /\ IsFiniteSet(DOMAIN f.table)
        /\ Recorded(f.ledger)
        /\ \A row \in DOMAIN f.table \cap StockRows : Explained(row, f.table[row], f.ledger)
        /\ \A p \in Product, w \in Warehouse :
             Chained(f.ledger, p, w) /\ Cardinality(BalanceRows(f.table, p, w)) <= 1
                 => Settled(f.table, f.ledger, p, w)

\* What a client may ask for.
Jobs ==
    {CreatePOJob(w, items) : w \in Warehouse, items \in POItems}
      \cup {ApprovePOJob(o) : o \in ToApprove}
      \cup {CreateGRNJob(o, lines, auto) :
              o \in ToReceive, lines \in Deliveries, auto \in Modes}
      \cup {AdjustJob(c.product, w, c.quantity) : c \in Counts, w \in Warehouse}

NoJob == [op |-> "none", pc |-> "start"]

Init ==
    /\ \E f \in Filed : table = f.table /\ ledger = f.ledger
    /\ session = [r \in Request |-> FreshSession("get_db")]
    /\ job = [r \in Request |-> NoJob]

Submit(r) == \E m \in Managers, j \in Jobs : Arrive(r, m, j)

\* The service method has run to its end.
Finish(r) == Running(r) /\ job[r].pc = "done" /\ Respond(r)

\* The steps of the server on behalf of a request that has arrived.
Serve(r) ==
    \/ Connect(r)
    \/ PoolTimeout(r)
    \/ CreatePO(r)
    \/ ApprovePO(r)
    \/ AdjustStock(r)
    \/ OpenGRN(r)
    \/ FailLine(r)
    \/ RecordLine(r)
    \/ CreditLine(r)
    \/ ClosePO(r)
    \/ Flush(r)
    \/ Finish(r)
    \/ Commit(r)
    \/ Discard(r)
    \/ DeadlockVictim(r)

Next == \E r \in Request : Submit(r) \/ Serve(r) \/ Crash(r)

Spec == Init /\ [][Next]_vars

\* A coroutine that can run is run by the event loop, the server answers every
\* statement it can execute and its deadlock detector ends every cycle; clients
\* need not send anything and nothing has to crash.
FairSpec == Spec /\ \A r \in Request : WF_vars(Serve(r))

-----------------------------------------------------------------------------
(* Types.                                                                  *)

PC == {"start", "lines", "done"}

Job ==
    [op : {"none"}, pc : PC]
      \cup [op : {"create_po"}, pc : PC, warehouse : Warehouse, items : Seq(Item)]
      \cup [op : {"approve_po"}, pc : PC, po : PO]
      \cup [op : {"adjust_stock"}, pc : PC, product : Product \cup {Unknown},
            warehouse : Warehouse, quantity : Nat]
      \cup [op : {"create_grn"}, pc : PC, po : PO, lines : Seq(Delivered),
            auto : BOOLEAN, i : Nat \ {0}]

\* Every variable holds rows, sessions and jobs of the schema's shapes; in particular
\* no sum ever leaves the width of its column, and no balance is negative.
TypeOK ==
    /\ RowsOK(table)
    /\ ledger \in Seq(Entry)
    /\ session = [r \in Request |-> session[r]]
    /\ \A r \in Request : SessionOK(session[r])
    /\ job \in [Request -> Job]

-----------------------------------------------------------------------------
(* Safety.                                                                 *)

\* The positions of the ledger rows of a request, and the place of i among the numbers S.
PostedBy(r) == {n \in DOMAIN ledger : ledger[n].by = r}
Place(i, S) == Cardinality({j \in S : j <= i})

\* A receipt is all or nothing, whatever fails, crashes or deadlocks while it runs: a
\* stored note has the lines that were sent, and, in their order and one after the
\* other, exactly one ledger row per credited line, for the warehouse of its order, and a
\* batch for each of those lines that has one; without a stored note there is no ledger
\* row, no batch and no balance of that request.
ReceiptIsAtomic ==
    \A r \in Request : job[r].op = "create_grn" =>
        IF GRNRow(r) \in DOMAIN table
        THEN LET g == table[GRNRow(r)]
                 credited == {i \in DOMAIN g.lines :
                                Credited(g.status = "completed", g.lines[i])}
             IN  /\ g.lines = job[r].lines
                 /\ \E k \in 0 .. Len(ledger) :
                      /\ PostedBy(r) = {k + Place(i, credited) : i \in credited}
                      /\ \A i \in credited :
                           LET e == ledger[k + Place(i, credited)] IN
                           /\ e.product = g.lines[i].product
                           /\ e.warehouse = table[PORow(g.po)].warehouse
                           /\ e.change = g.lines[i].accepted
                 /\ {row \in DOMAIN table \cap BatchRows : row.id = r}
                      = {BatchRow(r, i) : i \in {c \in credited : g.lines[c].batch}}
        ELSE /\ PostedBy(r) = {}
             /\ {row \in DOMAIN table : row.id = r} = {}

\* What a request that failed had sent to the database is nowhere to be found: no
\* ledger row and no row it inserted; nor had it any effect before its commit.
NoTraceUnlessCommitted ==
    \A r \in Request : session[r].state # "committed" =>
        /\ \A i \in DOMAIN ledger : ledger[i].by # r
        /\ \A row \in DOMAIN table : row.id # r

\* Every balance was put there by a posting: it is zero or the after value of a
\* ledger row of its product and warehouse, even when updates were lost.
BalancesArePosted ==
    \A row \in DOMAIN table \cap StockRows : Explained(row, table[row], ledger)

\* The sum of the changes a ledger records, and the sum of the balances held.
LedgerTotal(l, p, w) ==
    SumFunctionOnSet([n \in DOMAIN l |-> l[n].change], EntriesOf(l, p, w))
BalanceTotal(t, p, w) == SumFunctionOnSet(t, BalanceRows(t, p, w))

\* A lost update cannot hide: if the entries of a product in a warehouse follow on
\* from one another, and there is one balance row, the balance is what the ledger
\* adds up to.  A balance that has drifted shows as a broken chain.
DriftBreaksTheChain ==
    \A p \in Product, w \in Warehouse :
        Chained(ledger, p, w) /\ Cardinality(BalanceRows(table, p, w)) <= 1
            => BalanceTotal(table, p, w) = LedgerTotal(ledger, p, w)

\* Goods are received only against an order that was approved before: an order created
\* by a request and received by a stored note has a committed approval, and it never is,
\* nor goes back to being, a draft.
ReceiptsNeedApproval ==
    \A r \in Request : GRNRow(r) \in DOMAIN table =>
        LET o == table[GRNRow(r)].po IN
        /\ table[PORow(o)].status \in {"approved", "fully_received"}
        /\ o \in Request => \E q \in Request : /\ session[q].state = "committed"
                                              /\ job[q].op = "approve_po"
                                              /\ job[q].po = o

-----------------------------------------------------------------------------
(* Steps.                                                                  *)

\* What becomes of a request, as the abstract specification sees it.
Outcome ==
    [r \in Request |->
        CASE session[r].state = "idle" -> "none"
          [] session[r].state \in {"waiting", "open", "returned"} -> "pending"
          [] session[r].state = "committed" -> "applied"
          [] OTHER -> "abandoned"]

Abstract == INSTANCE UnitOfWork WITH outcome <- Outcome

\* The statements, flushes, locks and failures of concurrent sessions implement
\* requests that take effect in one step or not at all, append to the ledger and
\* delete nothing.
ImplementsUnitOfWork == Abstract!Spec

Ordered(order) ==
    [i \in DOMAIN order.lines |-> <<order.lines[i].product, order.lines[i].ordered>>]

\* Stored rows stay: a note and its lines, a batch, and what an order orders and for
\* where are never changed or deleted by a later request.
DocumentsAreImmutable ==
    [][\A row \in DOMAIN table :
         /\ row \in DOMAIN table'
         /\ row \in GRNRows \cup BatchRows => table'[row] = table[row]
         /\ row \in PORows =>
              /\ table'[row].warehouse = table[row].warehouse
              /\ Ordered(table'[row]) = Ordered(table[row])
      ]_vars

-----------------------------------------------------------------------------
(* Liveness.                                                               *)

\* Every request that has arrived is answered, one way or another, and gives its
\* connection back; in particular a deadlock over row locks does not last.
EveryRequestEnds ==
    \A r \in Request : session[r].state # "idle" ~>
        session[r].state \in {"committed", "discarded", "failed"}

-----------------------------------------------------------------------------
(* What the documentation says of the program, and the code does not do.   *)

\* "On commit, all changes are written atomically"; the repository counts on get_db()
\* to commit on success: an operation answered with success has written its rows.
SuccessIsDurable ==
    \A r \in Request : session[r].state \in {"committed", "discarded"} =>
        /\ \A row \in DOMAIN session[r].writes : row \in DOMAIN table
        /\ Cardinality(PostedBy(r)) = Len(session[r].posted)

\* inventory_stocks holds the current level, inventory_transactions every movement:
\* the balance is what the movements add up to.
LedgerExplainsBalance ==
    \A p \in Product, w \in Warehouse :
        BalanceTotal(table, p, w) = LedgerTotal(ledger, p, w)

\* How much of a product the lines of a receipt bring in, and the lines of an order order.
ReceivedIn(lines, p) ==
    SumFunctionOnSet([i \in DOMAIN lines |-> lines[i].received],
                     {i \in DOMAIN lines : lines[i].product = p})
OrderedIn(lines, p) ==
    SumFunctionOnSet([i \in DOMAIN lines |-> lines[i].ordered],
                     {i \in DOMAIN lines : lines[i].product = p})

\* The stored notes of an order.
Receipts(o) == {r \in Request : GRNRow(r) \in DOMAIN table /\ table[GRNRow(r)].po = o}

\* What the stored notes say was received against an order, and what it ordered.
ReceivedAgainst(o, p) ==
    SumFunctionOnSet([r \in Receipts(o) |-> ReceivedIn(table[GRNRow(r)].lines, p)],
                     Receipts(o))
OrderedBy(o, p) == OrderedIn(table[PORow(o)].lines, p)

\* "Received quantity cannot exceed ordered quantity".
ReceivedWithinOrdered ==
    \A o \in {q \in PO : PORow(q) \in DOMAIN table}, p \in Product :
        ReceivedAgainst(o, p) <= OrderedBy(o, p)

=============================================================================
