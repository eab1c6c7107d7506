------------------------------ MODULE Overlaps ------------------------------
(***************************************************************************)
(* Procurement with a history: what had committed when each request read   *)
(* what it goes by.  An order that was received can be reopened, and       *)
(* received again; a balance can get a second row, and drift from its      *)
(* ledger.  The history tells between which requests that happens.         *)
(***************************************************************************)
EXTENDS Procurement

VARIABLE past   \* past[r]: the requests that had committed when r passed its check

historyVars == <<table, ledger, session, job, past>>

CommittedRequests == {r \in Request : session[r].state = "committed"}

\* A request passes its check in the step that takes it from its start.
Remember ==
    past' = [r \in Request |->
                IF job[r].pc = "start" /\ job'[r].pc # "start"
                THEN CommittedRequests ELSE past[r]]

HistoryInit == Init /\ past = [r \in Request |-> {}]
HistoryNext == Next /\ Remember
HistorySpec == HistoryInit /\ [][HistoryNext]_historyVars

\* Neither of two requests had committed when the other one passed its check.
Overlap(q, r) == q # r /\ q \notin past[r] /\ r \notin past[q]

\* Two approvals of an order, each with a stale view of the other, both committed.
ApprovedTwice(o) ==
    \E a, b \in CommittedRequests :
        /\ job[a].op = "approve_po" /\ job[a].po = o
        /\ job[b].op = "approve_po" /\ job[b].po = o
        /\ Overlap(a, b)

\* approve_po checks the status on a read and writes it by id alone, so it may reopen an
\* order that was received in between.  For that two approvals of the order must have
\* overlapped: while approvals of one order do not, a received order stays received.
ReopeningNeedsOverlap ==
    \A r \in Request : GRNRow(r) \in DOMAIN table =>
        LET o == table[GRNRow(r)].po IN
        table[PORow(o)].status # "fully_received" => ApprovedTwice(o)

\* An order is received twice only if the two receipts overlapped, or if two approvals of it
\* did and reopened it: a receipt that is posted again after the first one was answered is
\* refused.
SecondReceiptNeedsOverlap ==
    \A q, r \in Request :
        /\ q # r
        /\ GRNRow(q) \in DOMAIN table /\ GRNRow(r) \in DOMAIN table
        /\ table[GRNRow(q)].po = table[GRNRow(r)].po
        => Overlap(q, r) \/ ApprovedTwice(table[GRNRow(q)].po)

SamePair(x, y) == x.product = y.product /\ x.warehouse = y.warehouse

\* get_or_create_stock selects and then inserts, and no constraint keeps a second row out; but
\* a request adds a balance row to another one of its product and warehouse only if
\* that one was inserted by a request with which it overlapped, never to one on file.
SecondRowNeedsOverlap ==
    \A x, y \in DOMAIN table \cap StockRows :
        x # y /\ SamePair(x, y) /\ x.id \in Request
            => y.id \in Request /\ Overlap(x.id, y.id)

\* At most one balance row of p in w.
OneRow(t, p, w) == \A x, y \in BalanceRows(t, p, w) : x = y

\* Books in which nothing was lost.
SoundBooks(t, l, p, w) == OneRow(t, p, w) /\ Chained(l, p, w) /\ Settled(t, l, p, w)

\* No update was lost before the history starts.
SoundOnFile ==
    \A f \in Filed, p \in Product, w \in Warehouse : SoundBooks(f.table, f.ledger, p, w)

\* The requests that have posted movements of p in w.
Movers(p, w) == {r \in Request : \E n \in EntriesOf(ledger, p, w) : ledger[n].by = r}

\* Balances are read without a lock and written as absolute values, so a balance can drift
\* from what its movements add up to; but it does so only if two of the requests that moved
\* it overlapped.  Requests that move other balances, fail or are rolled back do no harm.
DriftNeedsOverlap ==
    \A p \in Product, w \in Warehouse :
        BalanceTotal(table, p, w) # LedgerTotal(ledger, p, w)
            => \E q, r \in Movers(p, w) : Overlap(q, r)

=============================================================================
