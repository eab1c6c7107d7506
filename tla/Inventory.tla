------------------------------ MODULE Inventory ------------------------------
(***************************************************************************)
(* InventoryRepository and InventoryService: stock balances, the ledger,   *)
(* and the manual adjustment of a balance.                                 *)
(***************************************************************************)
EXTENDS Database

CONSTANT Counts     \* the quantities stock-takers submit: [product, quantity]

AdjustJob(p, w, n) ==
    [op |-> "adjust_stock", pc |-> "start", product |-> p, warehouse |-> w,
     quantity |-> n]

\* Mutant: only the rows that the session holds itself are looked at.
HeldStockOf(r, p, w) ==
    {row \in DOMAIN session[r].writes \cap StockRows : row.product = p /\ row.warehouse = w}

\* get_stock(): the balance rows of a product in a warehouse that r can see.
StockOf(r, p, w) ==
    {row \in DOMAIN View(r) \cap StockRows : row.product = p /\ row.warehouse = w}

\* scalar_one_or_none() raises MultipleResultsFound on two rows.
Ambiguous(r, p, w) == Cardinality(StockOf(r, p, w)) > 1

\* get_or_create_stock(): the row found by the SELECT, or a new one at zero.
OpenStock(r, p, w) ==
    IF StockOf(r, p, w) = {} THEN StockRow(p, w, r)
    ELSE CHOOSE row \in StockOf(r, p, w) : TRUE

NewStock(r, p, w) ==
    IF StockOf(r, p, w) = {} THEN [row \in {StockRow(p, w, r)} |-> 0] ELSE NoRows

OnHand(r, p, w) ==
    IF StockOf(r, p, w) = {} THEN 0 ELSE View(r)[OpenStock(r, p, w)]

\* Mutants: before and after swapped; the balance recorded for the change.
LedgerEntrySwapped(type, p, w, before, after, r) ==
    [type |-> type, product |-> p, warehouse |-> w, change |-> after - before,
     before |-> after, after |-> before, by |-> r]
LedgerEntryOfBalance(type, p, w, before, after, r) ==
    [type |-> type, product |-> p, warehouse |-> w, change |-> after,
     before |-> before, after |-> after, by |-> r]

\* record_transaction(): a ledger row, written with absolute before and after values.
LedgerEntry(type, p, w, before, after, r) ==
    [type |-> type, product |-> p, warehouse |-> w, change |-> after - before,
     before |-> before, after |-> after, by |-> r]

\* Mutant: a balance is only ever raised.
AssignGrowing(row, before, after) ==
    IF after <= before THEN NoRows ELSE [x \in {row} |-> after]

\* Assigning quantity_on_hand marks the row dirty only when the value changes.
Assign(row, before, after) ==
    IF before = after THEN NoRows ELSE [x \in {row} |-> after]

\* adjust_stock: overwrite the balance with the counted quantity and record the
\* difference to the balance that was read.
AdjustStock(r) ==
    /\ Running(r)
    /\ job[r].op = "adjust_stock" /\ job[r].pc = "start"
    /\ LET p == job[r].product
           w == job[r].warehouse
           new == job[r].quantity
       IN  IF p = Unknown \/ Ambiguous(r, p, w) \/ ~Fits(new)
           THEN Raise(r)
           ELSE LET before == OnHand(r, p, w)
                    type == IF new >= before THEN "manual_adjustment_in"
                            ELSE "manual_adjustment_out"
                IN  /\ Stage(r, NewStock(r, p, w),
                             Assign(OpenStock(r, p, w), before, new),
                             <<LedgerEntry(type, p, w, before, new, r)>>)
                    /\ job' = [job EXCEPT ![r].pc = "done"]

-----------------------------------------------------------------------------
(* What a table of balances and a ledger say of a product in a warehouse.  *)

BalanceRows(t, p, w) ==
    {row \in DOMAIN t \cap StockRows : row.product = p /\ row.warehouse = w}

\* The positions of their entries in a ledger.
EntriesOf(l, p, w) ==
    {n \in DOMAIN l : l[n].product = p /\ l[n].warehouse = w}

\* Each entry starts from the balance that the entry before it left, the first from zero.
Chained(l, p, w) ==
    \A n \in EntriesOf(l, p, w) :
        \/ /\ \A k \in EntriesOf(l, p, w) : k >= n
           /\ l[n].before = 0
        \/ \E m \in EntriesOf(l, p, w) :
              /\ m < n
              /\ \A k \in EntriesOf(l, p, w) : k <= m \/ k >= n
              /\ l[n].before = l[m].after

\* The change that an entry records is the difference it records.
Recorded(l) == \A n \in DOMAIN l : l[n].change = l[n].after - l[n].before

\* The balance is what the last entry left, and zero if there is no entry.
Settled(t, l, p, w) ==
    \/ EntriesOf(l, p, w) = {} /\ \A row \in BalanceRows(t, p, w) : t[row] = 0
    \/ \E n \in EntriesOf(l, p, w) :
          /\ \A k \in EntriesOf(l, p, w) : k <= n
          /\ \A row \in BalanceRows(t, p, w) : t[row] = l[n].after
          /\ BalanceRows(t, p, w) = {} => l[n].after = 0

\* A balance is zero or was put there by an entry of its product and warehouse.
Explained(row, n, l) ==
    \/ n = 0
    \/ \E i \in DOMAIN l : /\ l[i].product = row.product
                           /\ l[i].warehouse = row.warehouse
                           /\ l[i].after = n

=============================================================================
