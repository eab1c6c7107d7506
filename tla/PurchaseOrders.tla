--------------------------- MODULE PurchaseOrders ---------------------------
(***************************************************************************)
(* PurchaseOrderService: creating a purchase order and approving it.       *)
(***************************************************************************)
EXTENDS Database

CONSTANT POItems    \* the line lists of the create requests: [product, ordered]

CreatePOJob(w, items) ==
    [op |-> "create_po", pc |-> "start", warehouse |-> w, items |-> items]

ApprovePOJob(o) == [op |-> "approve_po", pc |-> "start", po |-> o]

\* The lines as create_po stores them: nothing received yet.
OrderLines(items) ==
    [i \in DOMAIN items |->
        [product |-> items[i].product, ordered |-> items[i].ordered, received |-> 0]]

\* create_po: the order and its lines are inserted in the request's transaction;
\* an unknown product, or a field of the request that int() or Decimal() cannot
\* convert (a price left out arrives as None; here a Null quantity), raises.
CreatePO(r) ==
    /\ Running(r)
    /\ job[r].op = "create_po" /\ job[r].pc = "start"
    /\ LET items == job[r].items IN
       IF \E i \in DOMAIN items :
             items[i].product = Unknown \/ items[i].ordered = Null
                \/ ~Fits(items[i].ordered)
       THEN Raise(r)
       ELSE /\ Stage(r, [row \in {PORow(r)} |->
                           [status |-> "draft", warehouse |-> job[r].warehouse,
                            lines |-> OrderLines(items)]], NoRows, <<>>)
            /\ job' = [job EXCEPT ![r].pc = "done"]

\* Mutant: updating the order loses its lines.
WithStatusAlone(r, o, s) ==
    [row \in {PORow(o)} |-> [View(r)[row] EXCEPT !.status = s, !.lines = <<>>]]

\* update_status(): UPDATE purchase_orders SET status = s WHERE id = o.
WithStatus(r, o, s) ==
    [row \in {PORow(o)} |-> [View(r)[row] EXCEPT !.status = s]]

\* Mutant: an order that was received may be approved again.
ApprovableAgain == {"draft", "pending_approval", "fully_received"}

Approvable == {"draft", "pending_approval"}

\* approve_po: the status is checked on what the SELECT returned; the UPDATE that
\* follows names the order only by its id.
ApprovePO(r) ==
    /\ Running(r)
    /\ job[r].op = "approve_po" /\ job[r].pc = "start"
    /\ LET row == PORow(job[r].po) IN
       IF row \notin DOMAIN View(r) \/ View(r)[row].status \notin Approvable
       THEN Raise(r)
       ELSE /\ Stage(r, NoRows, WithStatus(r, job[r].po, "approved"), <<>>)
            /\ job' = [job EXCEPT ![r].pc = "done"]

=============================================================================
