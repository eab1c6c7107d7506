------------------------------- MODULE Pricing -------------------------------
(***************************************************************************)
(* The money of a purchase order: create_po computes each line with exact  *)
(* decimals, every column rounds what it is given, and the order's totals  *)
(* are sums of the exact amounts, not of the stored ones.                  *)
(*                                                                         *)
(* Amounts on file are in paise, prices as clients send them in 1/Scale    *)
(* paisa, tax rates in hundredths of a percent; an amount computed from    *)
(* them is a whole number of 1/Exact paise.                                *)
(***************************************************************************)
EXTENDS Integers, Sequences

CONSTANTS
    Product, Unknown,      \* the products on file, and an id that is none
    GstRate,               \* the rate of each product, or NotANumber
    NotANumber,            \* a text that Decimal() refuses
    Null,                  \* a price left out
    Orders,                \* the item lists that clients send
    Scale,
    QuantityLimit, PriceLimit, RateLimit, TaxLimit, LineLimit, OrderLimit
                           \* what the columns cannot hold any more

Exact == Scale * 10000

\* A workbook may put any text into gst_rate; 10000 hundredths of a percent are the whole.
ASSUME PricingAssumption ==
    /\ Scale \in Nat \ {0}
    /\ {QuantityLimit, PriceLimit, RateLimit, TaxLimit, LineLimit, OrderLimit}
         \subseteq Nat \ {0}
    /\ Unknown \notin Product
    /\ NotANumber \notin Int /\ Null \notin Int
    /\ \A p \in Product : GstRate[p] \in Int \cup {NotANumber}
    /\ Orders \subseteq Seq([product : Product \cup {Unknown}, quantity : Nat \ {0},
                             unit_price : Int \cup {Null}])

VARIABLES
    items,       \* the request
    state,       \* "lines", "created", or the exception that ended the request
    lines,       \* the line items inserted so far
    subtotal, total_tax,   \* the accumulators, exact
    order,       \* the order's columns, in paise
    billed       \* history: the sum of the line totals on file

vars == <<items, state, lines, subtotal, total_tax, order, billed>>

-----------------------------------------------------------------------------
(* Columns.                                                                *)

\* numeric(p, 2) rounds half away from zero.
Rounded(x, unit) ==
    IF x >= 0 THEN (2 * x + unit) \div (2 * unit)
    ELSE -((unit - 2 * x) \div (2 * unit))

Paise(x) == Rounded(x, Exact)

Within(x, limit) == -limit < x /\ x < limit

\* Mutant: the columns of an order are as narrow as those of a line.
OrderFitsLine(o) ==
    Within(o.subtotal, LineLimit) /\ Within(o.tax_amount, LineLimit)
        /\ Within(o.total_amount, LineLimit)

\* The order's columns, all of type numeric(14, 2).
OrderFits(o) ==
    Within(o.subtotal, OrderLimit) /\ Within(o.tax_amount, OrderLimit)
        /\ Within(o.total_amount, OrderLimit)

\* Mutant: the column of the line's total has no limit.
LineFitsButTotal(line) ==
    /\ line.ordered_quantity < QuantityLimit
    /\ Within(line.unit_price, PriceLimit) /\ Within(line.gst_rate, RateLimit)
    /\ Within(line.tax_amount, TaxLimit)

LineFits(line) ==
    /\ line.ordered_quantity < QuantityLimit
    /\ Within(line.unit_price, PriceLimit) /\ Within(line.gst_rate, RateLimit)
    /\ Within(line.tax_amount, TaxLimit) /\ Within(line.line_total, LineLimit)

-----------------------------------------------------------------------------
(* The loop of create_po.                                                  *)

\* The item whose turn it is.
Item == items[Len(lines) + 1]
Due == state = "lines" /\ Len(lines) < Len(items)

\* Decimal() accepts the price and the rate.
Convertible(item) ==
    item.unit_price # Null /\ GstRate[item.product] # NotANumber

LineSubtotal(item) == (item.quantity * item.unit_price) * 10000
LineTax(item) == (item.quantity * item.unit_price) * GstRate[item.product]

LineOf(item) ==
    [product |-> item.product, ordered_quantity |-> item.quantity,
     unit_price |-> Rounded(item.unit_price, Scale), gst_rate |-> GstRate[item.product],
     tax_amount |-> Paise(LineTax(item)),
     line_total |-> Paise(LineSubtotal(item) + LineTax(item))]

\* The request fails and its transaction is rolled back.
Fail(e) ==
    /\ state' = e
    /\ lines' = <<>> /\ order' = Null /\ billed' = 0
    /\ UNCHANGED <<items, subtotal, total_tax>>

RefuseItem ==
    /\ Due
    /\ \/ Item.product = Unknown /\ Fail("ResourceNotFoundException")
       \/ Item.product # Unknown /\ ~Convertible(Item) /\ Fail("InvalidOperation")
       \/ /\ Item.product # Unknown /\ Convertible(Item) /\ ~LineFits(LineOf(Item))
          /\ Fail("DataError")

\* Mutant: the tax of the order is the tax of its last line.
AddLineLosingTax ==
    /\ Due
    /\ Item.product # Unknown /\ Convertible(Item) /\ LineFits(LineOf(Item))
    /\ lines' = Append(lines, LineOf(Item))
    /\ subtotal' = subtotal + LineSubtotal(Item)
    /\ total_tax' = LineTax(Item)
    /\ billed' = billed + LineOf(Item).line_total
    /\ UNCHANGED <<items, state, order>>

AddLine ==
    /\ Due
    /\ Item.product # Unknown /\ Convertible(Item) /\ LineFits(LineOf(Item))
    /\ lines' = Append(lines, LineOf(Item))
    /\ subtotal' = subtotal + LineSubtotal(Item)
    /\ total_tax' = total_tax + LineTax(Item)
    /\ billed' = billed + LineOf(Item).line_total
    /\ UNCHANGED <<items, state, order>>

OrderOf ==
    [subtotal |-> Paise(subtotal), tax_amount |-> Paise(total_tax),
     total_amount |-> Paise(subtotal + total_tax)]

\* After the last line the totals replace the zeros the order was inserted with.
StoreTotals ==
    /\ state = "lines" /\ Len(lines) = Len(items)
    /\ \/ ~OrderFits(OrderOf) /\ Fail("DataError")
       \/ /\ OrderFits(OrderOf)
          /\ state' = "created" /\ order' = OrderOf
          /\ UNCHANGED <<items, lines, subtotal, total_tax, billed>>

Init ==
    /\ items \in Orders
    /\ state = "lines"
    /\ lines = <<>> /\ billed = 0
    /\ subtotal = 0 /\ total_tax = 0
    /\ order = [subtotal |-> 0, tax_amount |-> 0, total_amount |-> 0]

Next == RefuseItem \/ AddLine \/ StoreTotals

Spec == Init /\ [][Next]_vars

-----------------------------------------------------------------------------
(* Properties.                                                             *)

Paisa(limit) == -limit .. limit

LineItem ==
    [product : Product, ordered_quantity : 1 .. QuantityLimit,
     unit_price : Paisa(PriceLimit), gst_rate : Paisa(RateLimit),
     tax_amount : Paisa(TaxLimit), line_total : Paisa(LineLimit)]
Order == [subtotal : Paisa(OrderLimit), tax_amount : Paisa(OrderLimit),
          total_amount : Paisa(OrderLimit)]

\* What is inserted fits its column.
TypeOK ==
    /\ state \in {"lines", "created", "ResourceNotFoundException", "InvalidOperation",
                  "DataError"}
    /\ \A i \in DOMAIN lines : lines[i] \in LineItem
    /\ subtotal \in Int /\ total_tax \in Int /\ billed \in Int
    /\ order \in Order \cup {Null}

\* The invoice adds up as far as rounding allows, for any number of lines: the stored
\* total differs from subtotal plus tax by at most one paisa, and from the sum of the
\* stored line totals by at most half a paisa for each line and for itself.
OrderAddsUp ==
    state = "created" =>
        /\ Within(order.total_amount - (order.subtotal + order.tax_amount), 2)
        /\ Within(2 * (billed - order.total_amount), Len(lines) + 2)

\* If no rate is negative, an order whose lines were all accepted is only refused for its
\* totals if it has more lines than an order's columns have room for.
TotalsNeedManyLines ==
    (state = "lines" /\ Len(lines) = Len(items) /\ ~OrderFits(OrderOf)) =>
        \/ \E i \in DOMAIN lines : lines[i].gst_rate < 0
        \/ Len(lines) * LineLimit > OrderLimit

=============================================================================
