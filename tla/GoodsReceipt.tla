---------------------------- MODULE GoodsReceipt ----------------------------
(***************************************************************************)
(* GRNService: a goods receipt note against a purchase order.  One request *)
(* inserts the note and its lines, credits the stock of every accepted     *)
(* line, posts it to the ledger, and closes the purchase order.            *)
(***************************************************************************)
EXTENDS PurchaseOrders, Inventory

CONSTANT Deliveries    \* the line lists of the receipts:
                       \* [product, received, accepted, batch]

CreateGRNJob(o, lines, auto) ==
    [op |-> "create_grn", pc |-> "start", po |-> o, lines |-> lines,
     auto |-> auto, i |-> 1]

\* Mutants: goods are received against a draft, or against a received order.
ReceivableDraft == {"draft", "approved", "partially_received"}
ReceivableAgain == {"approved", "partially_received", "fully_received"}

Receivable == {"approved", "partially_received"}

\* create_grn, first part: the order is read and its status checked; the note is
\* inserted as completed or, without auto_complete, as a draft.
OpenGRN(r) ==
    /\ Running(r)
    /\ job[r].op = "create_grn" /\ job[r].pc = "start"
    /\ LET row == PORow(job[r].po) IN
       IF row \notin DOMAIN View(r) \/ View(r)[row].status \notin Receivable
       THEN Raise(r)
       ELSE /\ Stage(r, [x \in {GRNRow(r)} |->
                           [po |-> job[r].po, lines |-> <<>>,
                            status |-> IF job[r].auto THEN "completed" ELSE "draft"]],
                     NoRows, <<>>)
            /\ job' = [job EXCEPT ![r].pc = "lines"]

\* The product is not on file, a quantity or price was left out (every field of the
\* request model reaches the service, so .get() never falls back to its default), or
\* a quantity is too wide for its column.
Unprocessable(line) ==
    ~ /\ line.product # Unknown
      /\ line.accepted # Null
      /\ Fits(line.received)
      /\ Fits(line.accepted)
      /\ Fits(line.received - line.accepted)

WarehouseOf(r) == View(r)[PORow(job[r].po)].warehouse

\* add_line_item(): the lines recorded so far and this one.
WithLine(r, line) ==
    [x \in {GRNRow(r)} |->
        [View(r)[x] EXCEPT !.lines = Append(@, line)]]

\* Only an auto-completed note credits stock, and only for what was accepted.
Credited(auto, line) == auto /\ line.accepted > 0

\* A line with a batch number or an expiry date also opens a batch.
BatchOf(r, line) ==
    IF line.batch THEN [x \in {BatchRow(r, job[r].i)} |-> line.accepted] ELSE NoRows

\* The loop over the items of the request is at an item.
AtLine(r) ==
    /\ Running(r)
    /\ job[r].op = "create_grn" /\ job[r].pc = "lines"
    /\ job[r].i <= Len(job[r].lines)

Line(r) == job[r].lines[job[r].i]

\* Mutant: a balance may outgrow its column.
CannotCreditTwice(r, line, w) == Ambiguous(r, line.product, w)

\* What keeps a credited line from being posted: two balance rows, or a sum that
\* the column cannot hold.
CannotCredit(r, line, w) ==
    \/ Ambiguous(r, line.product, w)
    \/ ~Fits(OnHand(r, line.product, w) + line.accepted)

\* Mutant: a line that cannot be processed is skipped.
SkipLine(r) ==
    /\ AtLine(r)
    /\ LET line == Line(r) IN
       ~ /\ ~Unprocessable(line)
         /\ Credited(job[r].auto, line) => ~CannotCredit(r, line, WarehouseOf(r))
    /\ job' = [job EXCEPT ![r].i = @ + 1]
    /\ UNCHANGED dbVars

\* A line that cannot be processed raises out of the whole request.
FailLine(r) ==
    /\ AtLine(r)
    /\ LET line == Line(r) IN
       ~ /\ ~Unprocessable(line)
         /\ Credited(job[r].auto, line) => ~CannotCredit(r, line, WarehouseOf(r))
    /\ Raise(r)

\* A line that credits nothing is only recorded.
RecordLine(r) ==
    /\ AtLine(r)
    /\ ~Unprocessable(Line(r))
    /\ ~Credited(job[r].auto, Line(r))
    /\ Stage(r, WithLine(r, Line(r)), NoRows, <<>>)
    /\ job' = [job EXCEPT ![r].i = @ + 1]

\* A credited line: it is inserted, its balance is found or created, and the balance
\* increased from the value read; the ledger row is posted by the next flush.  (The
\* batch leaves with the flush after that; no other session can tell.)
CreditLine(r) ==
    /\ AtLine(r)
    /\ LET line == Line(r)
           p == line.product
           w == WarehouseOf(r)
           before == OnHand(r, p, w)
           after == before + line.accepted
       IN  /\ ~Unprocessable(line)
           /\ Credited(job[r].auto, line)
           /\ ~CannotCredit(r, line, w)
           /\ Stage(r, Overlay(WithLine(r, line), NewStock(r, p, w)),
                    Overlay(BatchOf(r, line),
                            Assign(OpenStock(r, p, w), before, after)),
                    <<LedgerEntry("grn_receipt", p, w, before, after, r)>>)
    /\ job' = [job EXCEPT ![r].i = @ + 1]

\* create_grn, last part: whatever was received, the order is marked as fully
\* received; the flush that follows is the note's last statement but for reads.
ClosePO(r) ==
    /\ Running(r)
    /\ job[r].op = "create_grn" /\ job[r].pc = "lines"
    /\ job[r].i > Len(job[r].lines)
    /\ Stage(r, NoRows, WithStatus(r, job[r].po, "fully_received"), <<>>)
    /\ job' = [job EXCEPT ![r].pc = "done"]

=============================================================================
