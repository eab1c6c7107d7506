---------------------------- MODULE MCProcurement ----------------------------
(***************************************************************************)
(* Instances of Procurement for TLC.                                       *)
(***************************************************************************)
EXTENDS Procurement

CONSTANTS
    p1, p2, w1, o1,        \* model values: products, a warehouse, an order
    r1,                    \* ... and a request
    FiledStatus            \* the statuses the order on file may start in

\* The orders on file each order two pieces of p1; no goods have moved yet.
MCOrders(s) ==
    [row \in {PORow(o) : o \in OnFile} |->
        [status |-> s, warehouse |-> w1,
         lines |-> OrderLines(<<[product |-> p1, ordered |-> 2]>>)]]
MCFiled == {[table |-> MCOrders(s), ledger |-> <<>>] : s \in FiledStatus}

\* The same with one piece of each product counted in earlier.
MCCounted(p) ==
    [type |-> "manual_adjustment_in", product |-> p, warehouse |-> w1,
     change |-> 1, before |-> 0, after |-> 1, by |-> o1]
MCStocked ==
    {[table |-> Overlay(f.table, [row \in {StockRow(p, w1, o1) : p \in Product} |-> 1]),
      ledger |-> SetToSeq({MCCounted(p) : p \in Product})] : f \in MCFiled}

MCNone == {}
MCItems == {<<[product |-> p1, ordered |-> 2]>>,
            <<[product |-> p1, ordered |-> 1], [product |-> Unknown, ordered |-> 1]>>}

One(p, n, a) == [product |-> p, received |-> n, accepted |-> a, batch |-> FALSE]

\* Two pieces of p1, as ordered.
MCAsOrdered == {<<One(p1, 2, 2)>>}

\* More than was ordered.
MCTooMany == {<<One(p1, 3, 3)>>}

\* Two products, delivered in either order.
MCTwoProducts == {<<One(p1, 2, 2), One(p2, 1, 1)>>, <<One(p2, 1, 1), One(p1, 2, 2)>>}

\* A partly rejected line with a batch and a wholly rejected one; a second line that
\* raises; a large line, which may not fit on top of another; a missing quantity.
MCMixed == {<<[product |-> p1, received |-> 2, accepted |-> 1, batch |-> TRUE],
              One(p1, 1, 0)>>,
            <<One(p1, 1, 1), One(Unknown, 1, 1)>>,
            <<One(p1, 2, 2)>>,
            <<One(p1, 2, Null)>>}

MCCounts == {[product |-> p1, quantity |-> n] : n \in {0, 2, 3}}

\* More than an empty shelf has, and less than one that was filled.
MCOneCounted == {[product |-> p1, quantity |-> 1]}

Symmetry == Permutations(Request)
SymmetryOthers == Permutations(Request \ {r1})

=============================================================================
