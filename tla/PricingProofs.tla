---------------------------- MODULE PricingProofs ----------------------------
(***************************************************************************)
(* The money of an order adds up for any number of lines, any prices and   *)
(* any width of the columns.                                               *)
(***************************************************************************)
EXTENDS Pricing, TLAPS

-----------------------------------------------------------------------------
(* Integers: cancelling a factor, and what rounding does.                  *)

\* A positive factor on both sides of an inequality may be dropped.
LEMMA Cancel ==
    ASSUME NEW u \in Nat \ {0}, NEW a \in Int, NEW b \in Int, u * a < u * b
    PROVE  a < b
<1>1. SUFFICES ASSUME a >= b PROVE FALSE
  OBVIOUS
<1>2. u * (a - b) >= 0 BY <1>1
<1>3. u * (a - b) = u * a - u * b OBVIOUS
<1> QED BY <1>2, <1>3

\* Integer division, in terms of products.
LEMMA Division ==
    ASSUME NEW a \in Int, NEW b \in Nat \ {0}
    PROVE  /\ a \div b \in Int
           /\ b * (a \div b) <= a
           /\ a < b * (a \div b) + b
OBVIOUS

\* A rounded amount is off by half a unit at most, and by exactly half a unit only away
\* from zero.
LEMMA RoundingError ==
    ASSUME NEW x \in Int, NEW u \in Nat \ {0}
    PROVE  /\ Rounded(x, u) \in Int
           /\ -u <= 2 * (u * Rounded(x, u)) - 2 * x
           /\ 2 * (u * Rounded(x, u)) - 2 * x <= u
           /\ x >= 0 => -u < 2 * (u * Rounded(x, u)) - 2 * x
           /\ x <= 0 => 2 * (u * Rounded(x, u)) - 2 * x < u
<1> DEFINE up == (2 * x + u) \div (2 * u)
           down == (u - 2 * x) \div (2 * u)
<1>0. 2 * u \in Nat \ {0} /\ 2 * x + u \in Int /\ u - 2 * x \in Int
  OBVIOUS
<1>1. /\ up \in Int /\ (2 * u) * up <= 2 * x + u
      /\ 2 * x + u < (2 * u) * up + 2 * u
  BY ONLY <1>0, Division
<1>2. /\ down \in Int /\ (2 * u) * down <= u - 2 * x
      /\ u - 2 * x < (2 * u) * down + 2 * u
  BY ONLY <1>0, Division
<1>3. Rounded(x, u) = IF x >= 0 THEN up ELSE -down
  BY DEF Rounded
<1>4. /\ (2 * u) * up = 2 * (u * up)
      /\ (2 * u) * down = 2 * (u * down)
      /\ u * (-down) = -(u * down)
  BY <1>1, <1>2
<1> HIDE DEF up, down
<1>5. CASE x >= 0
  BY <1>1, <1>3, <1>4, <1>5
<1>6. CASE ~(x >= 0)
  BY <1>2, <1>3, <1>4, <1>6
<1> QED BY <1>5, <1>6

\* Which amounts a column takes.
LEMMA WhatFits ==
    ASSUME NEW x \in Int, NEW u \in Nat \ {0}, NEW limit \in Nat \ {0}
    PROVE  Within(Rounded(x, u), limit) <=>
             /\ 2 * x < u * (2 * limit - 1)
             /\ -(u * (2 * limit - 1)) < 2 * x
<1> DEFINE r == Rounded(x, u)
<1>1. /\ r \in Int
      /\ -u <= 2 * (u * r) - 2 * x
      /\ 2 * (u * r) - 2 * x <= u
      /\ x >= 0 => -u < 2 * (u * r) - 2 * x
      /\ x <= 0 => 2 * (u * r) - 2 * x < u
  BY RoundingError
<1>2. u * (2 * limit - 1) = 2 * (u * limit) - u /\ u <= u * limit
  <2>1. u * (limit - 1) >= 0 OBVIOUS
  <2>2. u * (limit - 1) = u * limit - u OBVIOUS
  <2> QED BY <2>1, <2>2
<1> HIDE DEF r
<1>3. ASSUME r < limit PROVE 2 * x < u * (2 * limit - 1)
  <2>1. u * (limit - 1 - r) >= 0 BY <1>1, <1>3
  <2>2. u * (limit - 1 - r) = u * limit - u - u * r BY <1>1
  <2> QED BY <1>1, <1>2, <2>1, <2>2
<1>4. ASSUME -limit < r PROVE -(u * (2 * limit - 1)) < 2 * x
  <2>1. u * (r + limit - 1) >= 0 BY <1>1, <1>4
  <2>2. u * (r + limit - 1) = u * r + u * limit - u BY <1>1
  <2> QED BY <1>1, <1>2, <2>1, <2>2
<1>5. ASSUME 2 * x < u * (2 * limit - 1) PROVE r < limit
  <2>1. u * r < u * limit BY <1>1, <1>2, <1>5
  <2> QED BY <1>1, <2>1, Cancel
<1>6. ASSUME -(u * (2 * limit - 1)) < 2 * x PROVE -limit < r
  <2>1. u * (-limit) = -(u * limit) /\ -limit \in Int OBVIOUS
  <2>2. u * (-limit) < u * r BY <1>1, <1>2, <1>6, <2>1
  <2> QED BY <1>1, <2>1, <2>2, Cancel
<1> QED BY <1>3, <1>4, <1>5, <1>6 DEF Within, r

-----------------------------------------------------------------------------
(* The inductive invariant.                                                *)

\* The requests and what has been inserted for them.
Shapes ==
    /\ items \in Orders
    /\ state \in {"lines", "created", "ResourceNotFoundException", "InvalidOperation",
                  "DataError"}
    /\ lines \in Seq(LineItem) /\ Len(lines) <= Len(items)
    /\ subtotal \in Int /\ total_tax \in Int /\ billed \in Int
    /\ order \in Order \cup {Null}

\* Each line adds at most half a paisa to the distance of what is on file and the sum.
LinesAddUp ==
    state \in {"lines", "created"} =>
        /\ -(Len(lines) * Exact) <= 2 * (Exact * billed) - 2 * (subtotal + total_tax)
        /\ 2 * (Exact * billed) - 2 * (subtotal + total_tax) <= Len(lines) * Exact

TotalsAreSums == state = "created" => order = OrderOf

\* The largest exact amount, doubled, that a line's column takes.
LineMax == Exact * (2 * LineLimit - 1) - 1

SumWithin(x) == -(Len(lines) * LineMax) <= 2 * x /\ 2 * x <= Len(lines) * LineMax

\* Without negative rates neither sum is further from zero than that of the totals.
SumsAreBounded ==
    (state = "lines" /\ \A i \in DOMAIN lines : lines[i].gst_rate >= 0) =>
        SumWithin(subtotal) /\ SumWithin(total_tax) /\ SumWithin(subtotal + total_tax)

IInv == Shapes /\ LinesAddUp /\ TotalsAreSums /\ SumsAreBounded

ItemType ==
    [product : Product \cup {Unknown}, quantity : Nat \ {0}, unit_price : Int \cup {Null}]

\* Every request is a list of items.
LEMMA ItemLists ==
    ASSUME NEW o \in Orders
    PROVE  o \in Seq(ItemType) /\ Len(o) \in Nat
<1>1. o \in Seq(ItemType)
  BY PricingAssumption DEF ItemType
<1> QED BY <1>1

\* The constants, and what is made of them.
LEMMA Constants ==
    /\ Exact \in Nat \ {0} /\ Scale \in Nat \ {0}
    /\ QuantityLimit \in Nat \ {0} /\ PriceLimit \in Nat \ {0} /\ RateLimit \in Nat \ {0}
    /\ TaxLimit \in Nat \ {0} /\ LineLimit \in Nat \ {0} /\ OrderLimit \in Nat \ {0}
    /\ LineMax \in Nat
<1>1. /\ Scale \in Nat \ {0}
      /\ QuantityLimit \in Nat \ {0} /\ PriceLimit \in Nat \ {0}
      /\ RateLimit \in Nat \ {0} /\ TaxLimit \in Nat \ {0}
      /\ LineLimit \in Nat \ {0} /\ OrderLimit \in Nat \ {0}
  BY PricingAssumption
<1>2. Exact \in Nat \ {0}
  BY <1>1 DEF Exact
<1>3. LineMax \in Nat
  <2>1. Exact * (LineLimit - 1) >= 0 BY <1>1, <1>2
  <2>2. Exact * (2 * LineLimit - 1) = 2 * (Exact * (LineLimit - 1)) + Exact
    BY <1>1, <1>2
  <2>3. Exact * (LineLimit - 1) \in Int /\ LineMax \in Int BY <1>1, <1>2 DEF LineMax
  <2> QED BY <1>2, <2>1, <2>2, <2>3 DEF LineMax
<1> QED BY <1>1, <1>2, <1>3

\* What an accepted item contributes.
LEMMA AcceptedItem ==
    ASSUME Shapes, Due, Item.product # Unknown, Convertible(Item), LineFits(LineOf(Item))
    PROVE  /\ LineOf(Item) \in LineItem
           /\ LineSubtotal(Item) \in Int /\ LineTax(Item) \in Int
           /\ LineOf(Item).gst_rate = GstRate[Item.product]
           /\ LineOf(Item).line_total = Paise(LineSubtotal(Item) + LineTax(Item))
           /\ LineOf(Item).gst_rate >= 0 =>
                \/ LineSubtotal(Item) >= 0 /\ LineTax(Item) >= 0
                \/ LineSubtotal(Item) <= 0 /\ LineTax(Item) <= 0
<1>1. items \in Seq(ItemType)
  BY ItemLists DEF Shapes
<1>2. Len(lines) + 1 \in DOMAIN items
  BY <1>1 DEF Shapes, Due
<1>3. Item \in ItemType
  BY <1>1, <1>2 DEF Item
<1> DEFINE q == Item.quantity
           p == Item.unit_price
           g == GstRate[Item.product]
<1>4. q \in Nat \ {0} /\ p \in Int /\ g \in Int /\ Item.product \in Product
  BY <1>3, PricingAssumption DEF ItemType, Convertible
<1>5. q * p \in Int /\ LineSubtotal(Item) = (q * p) * 10000 /\ LineTax(Item) = (q * p) * g
  BY <1>4 DEF LineSubtotal, LineTax
<1>6. LineSubtotal(Item) \in Int /\ LineTax(Item) \in Int
  BY <1>4, <1>5
<1>7. LineOf(Item) = [product |-> Item.product, ordered_quantity |-> q,
                      unit_price |-> Rounded(p, Scale), gst_rate |-> g,
                      tax_amount |-> Paise(LineTax(Item)),
                      line_total |-> Paise(LineSubtotal(Item) + LineTax(Item))]
  BY DEF LineOf
<1>8. /\ Rounded(p, Scale) \in Int /\ Paise(LineTax(Item)) \in Int
      /\ Paise(LineSubtotal(Item) + LineTax(Item)) \in Int
  <2>1. LineSubtotal(Item) + LineTax(Item) \in Int BY <1>6
  <2> QED BY <1>4, <1>6, <2>1, Constants, RoundingError DEF Paise
<1>9. LineOf(Item) \in LineItem
  <2> HIDE DEF q, p, g
  <2>1. LineFits(LineOf(Item)) OBVIOUS
  <2>2. /\ q < QuantityLimit /\ Within(Rounded(p, Scale), PriceLimit) /\ Within(g, RateLimit)
        /\ Within(Paise(LineTax(Item)), TaxLimit)
        /\ Within(Paise(LineSubtotal(Item) + LineTax(Item)), LineLimit)
    BY <1>7, <2>1 DEF LineFits
  <2>3. /\ q \in 1 .. QuantityLimit /\ Rounded(p, Scale) \in Paisa(PriceLimit)
        /\ g \in Paisa(RateLimit) /\ Paise(LineTax(Item)) \in Paisa(TaxLimit)
        /\ Paise(LineSubtotal(Item) + LineTax(Item)) \in Paisa(LineLimit)
    BY <1>4, <1>8, <2>2, Constants DEF Within, Paisa
  <2> QED BY <1>4, <1>7, <2>3 DEF LineItem
<1>10. g >= 0 => \/ LineSubtotal(Item) >= 0 /\ LineTax(Item) >= 0
                 \/ LineSubtotal(Item) <= 0 /\ LineTax(Item) <= 0
  <2> DEFINE a == q * p
  <2>1. a \in Int /\ g \in Int BY <1>4, <1>5
  <2> HIDE DEF a, g
  <2>2. g >= 0 => \/ a * 10000 >= 0 /\ a * g >= 0
                  \/ a * 10000 <= 0 /\ a * g <= 0
    BY <2>1
  <2> QED BY <1>5, <2>2 DEF a
<1> QED BY <1>6, <1>7, <1>9, <1>10

-----------------------------------------------------------------------------
(* The steps.                                                              *)

\* The totals are whole paise, and of the type of their columns if they fit.
LEMMA OrderOfType ==
    ASSUME Shapes
    PROVE  /\ OrderOf.subtotal = Paise(subtotal) /\ Paise(subtotal) \in Int
           /\ OrderOf.tax_amount = Paise(total_tax) /\ Paise(total_tax) \in Int
           /\ OrderOf.total_amount = Paise(subtotal + total_tax)
           /\ Paise(subtotal + total_tax) \in Int
           /\ OrderFits(OrderOf) => OrderOf \in Order
<1>1. subtotal \in Int /\ total_tax \in Int /\ subtotal + total_tax \in Int
  BY DEF Shapes
<1>2. /\ Paise(subtotal) \in Int /\ Paise(total_tax) \in Int
      /\ Paise(subtotal + total_tax) \in Int
  BY <1>1, Constants, RoundingError DEF Paise
<1>3. /\ OrderOf.subtotal = Paise(subtotal) /\ OrderOf.tax_amount = Paise(total_tax)
      /\ OrderOf.total_amount = Paise(subtotal + total_tax)
  BY DEF OrderOf
<1>4. ASSUME OrderFits(OrderOf) PROVE OrderOf \in Order
  <2>1. /\ Paise(subtotal) \in Paisa(OrderLimit) /\ Paise(total_tax) \in Paisa(OrderLimit)
        /\ Paise(subtotal + total_tax) \in Paisa(OrderLimit)
    BY <1>2, <1>3, <1>4, Constants DEF OrderFits, Within, Paisa
  <2> QED BY <2>1 DEF OrderOf, Order
<1> QED BY <1>2, <1>3, <1>4

\* The invariant holds when a request arrives,
LEMMA InitIInv == Init => IInv
<1> SUFFICES ASSUME Init PROVE IInv
  OBVIOUS
<1>1. lines = <<>> /\ Len(lines) = 0 /\ lines \in Seq(LineItem)
  BY DEF Init
<1>2. items \in Seq(ItemType) /\ Len(items) \in Nat
  BY ItemLists DEF Init
<1>3. order \in Order
  BY Constants DEF Init, Order, Paisa
<1>4. Shapes
  BY <1>1, <1>2, <1>3 DEF Init, Shapes
<1>5. LinesAddUp /\ SumsAreBounded /\ TotalsAreSums
  BY <1>1, Constants DEF Init, LinesAddUp, SumsAreBounded, SumWithin, TotalsAreSums
<1> QED BY <1>4, <1>5 DEF IInv

\* ... is kept by every failure,
LEMMA FailStep ==
    ASSUME IInv, NEW e \in {"ResourceNotFoundException", "InvalidOperation", "DataError"},
           Fail(e)
    PROVE  IInv'
<1>1. lines' = <<>> /\ Len(lines') = 0 /\ lines' \in Seq(LineItem)
  BY DEF Fail
<1>2. items \in Seq(ItemType) /\ Len(items) \in Nat
  BY ItemLists DEF IInv, Shapes
<1>3. Shapes'
  BY <1>1, <1>2 DEF Fail, IInv, Shapes
<1>4. state' \notin {"lines", "created"}
  BY DEF Fail
<1> QED BY <1>3, <1>4 DEF IInv, LinesAddUp, SumsAreBounded, TotalsAreSums

\* ... by every line,
LEMMA AddLineStep == ASSUME IInv, AddLine PROVE IInv'
<1> DEFINE s == LineSubtotal(Item)
           t == LineTax(Item)
           line == LineOf(Item)
<1>0. Shapes /\ Due
  BY DEF IInv, AddLine
<1>1. /\ line \in LineItem /\ s \in Int /\ t \in Int
      /\ line.line_total = Paise(s + t)
      /\ line.gst_rate >= 0 => \/ s >= 0 /\ t >= 0
                               \/ s <= 0 /\ t <= 0
  BY <1>0, AcceptedItem DEF AddLine
<1>2. Within(line.line_total, LineLimit)
  BY DEF AddLine, LineFits
<1>3. /\ lines' = Append(lines, line) /\ subtotal' = subtotal + s
      /\ total_tax' = total_tax + t /\ billed' = billed + line.line_total
      /\ items' = items /\ state' = state /\ state = "lines" /\ order' = order
      /\ Len(lines) < Len(items)
  BY <1>0 DEF AddLine, Due
<1> HIDE DEF s, t, line
<1>4. lines \in Seq(LineItem) /\ Len(lines) \in Nat /\ lines' \in Seq(LineItem)
      /\ Len(lines') = Len(lines) + 1
  BY <1>0, <1>1, <1>3 DEF Shapes
<1>5. items \in Seq(ItemType) /\ Len(items) \in Nat
  BY ItemLists, <1>0 DEF Shapes
<1>6. s + t \in Int /\ Paise(s + t) \in Int
      /\ -Exact <= 2 * (Exact * Paise(s + t)) - 2 * (s + t)
      /\ 2 * (Exact * Paise(s + t)) - 2 * (s + t) <= Exact
  <2>1. s + t \in Int BY <1>1
  <2> QED BY <2>1, Constants, RoundingError DEF Paise
<1>7. Shapes'
  BY <1>0, <1>1, <1>3, <1>4, <1>5, <1>6 DEF Shapes
<1>8. LinesAddUp'
  <2>1. /\ -(Len(lines) * Exact) <= 2 * (Exact * billed) - 2 * (subtotal + total_tax)
        /\ 2 * (Exact * billed) - 2 * (subtotal + total_tax) <= Len(lines) * Exact
    BY <1>3 DEF IInv, LinesAddUp
  <2>2. Exact * billed' = Exact * billed + Exact * Paise(s + t)
    BY <1>0, <1>1, <1>3, <1>6, Constants DEF Shapes
  <2>3. Len(lines') * Exact = Len(lines) * Exact + Exact
    BY <1>4, Constants
  <2>4. /\ Exact * billed \in Int /\ Len(lines) * Exact \in Int
        /\ Exact * Paise(s + t) \in Int /\ subtotal \in Int /\ total_tax \in Int
    BY <1>0, <1>4, <1>6, Constants DEF Shapes
  <2> DEFINE n == Len(lines) * Exact
             b == Exact * billed
             p == Exact * Paise(s + t)
             x == subtotal + total_tax
             d == s + t
  <2>5. x \in Int /\ subtotal' + total_tax' = x + d
    BY <1>1, <1>3, <2>4
  <2>6. /\ Len(lines') * Exact = n + Exact /\ Exact * billed' = b + p
        /\ n \in Int /\ b \in Int /\ p \in Int /\ d \in Int /\ Exact \in Int
        /\ -n <= 2 * b - 2 * x /\ 2 * b - 2 * x <= n
        /\ -Exact <= 2 * p - 2 * d /\ 2 * p - 2 * d <= Exact
    BY <1>6, <2>1, <2>2, <2>3, <2>4, Constants
  <2> HIDE DEF n, b, p, x, d
  <2>7. -(n + Exact) <= 2 * (b + p) - 2 * (x + d) /\ 2 * (b + p) - 2 * (x + d) <= n + Exact
    BY <2>5, <2>6
  <2>8. /\ -(Len(lines') * Exact) <= 2 * (Exact * billed') - 2 * (subtotal' + total_tax')
        /\ 2 * (Exact * billed') - 2 * (subtotal' + total_tax') <= Len(lines') * Exact
    BY <2>5, <2>6, <2>7
  <2> QED BY <2>8 DEF LinesAddUp, Exact
<1>9. TotalsAreSums'
  BY <1>3 DEF TotalsAreSums
<1>10. SumsAreBounded'
  <2> SUFFICES ASSUME \A i \in DOMAIN lines' : lines'[i].gst_rate >= 0
               PROVE  SumWithin(subtotal)' /\ SumWithin(total_tax)'
                        /\ SumWithin(subtotal + total_tax)'
    BY DEF SumsAreBounded
  <2>1. \A i \in DOMAIN lines : i \in DOMAIN lines' /\ lines'[i] = lines[i]
    BY <1>3, <1>4
  <2>2. SumWithin(subtotal) /\ SumWithin(total_tax) /\ SumWithin(subtotal + total_tax)
    BY <1>3, <2>1 DEF IInv, SumsAreBounded
  <2>3. lines'[Len(lines) + 1] = line /\ Len(lines) + 1 \in DOMAIN lines'
    BY <1>3, <1>4
  <2>4. (s >= 0 /\ t >= 0) \/ (s <= 0 /\ t <= 0)
    <3>1. line.gst_rate >= 0 BY <2>3
    <3> QED BY <1>1, <3>1
  <2>5. -LineMax <= 2 * (s + t) /\ 2 * (s + t) <= LineMax
    <3>1. /\ 2 * (s + t) < Exact * (2 * LineLimit - 1)
          /\ -(Exact * (2 * LineLimit - 1)) < 2 * (s + t)
      BY <1>1, <1>2, <1>6, Constants, WhatFits DEF Paise
    <3>2. Exact * (2 * LineLimit - 1) \in Int
      BY Constants
    <3> QED BY <1>6, <3>1, <3>2 DEF LineMax
  <2>6. /\ -LineMax <= 2 * s /\ 2 * s <= LineMax
        /\ -LineMax <= 2 * t /\ 2 * t <= LineMax
    BY <1>1, <2>4, <2>5, Constants
  <2>7. Len(lines') * LineMax = Len(lines) * LineMax + LineMax
    BY <1>4, Constants
  <2>8. Len(lines) * LineMax \in Int /\ subtotal \in Int /\ total_tax \in Int
    BY <1>0, <1>4, Constants DEF Shapes
  <2>9. ASSUME NEW x \in Int, NEW d \in Int, SumWithin(x),
               -LineMax <= 2 * d, 2 * d <= LineMax
        PROVE  /\ -(Len(lines') * LineMax) <= 2 * (x + d)
               /\ 2 * (x + d) <= Len(lines') * LineMax
    BY <2>7, <2>8, <2>9, Constants DEF SumWithin
  <2>10. subtotal' + total_tax' = (subtotal + total_tax) + (s + t)
    BY <1>1, <1>3, <2>8
  <2>11. LineMax' = LineMax
    BY DEF LineMax, Exact
  <2>12. ASSUME NEW x \in Int, NEW d \in Int, SumWithin(x),
                -LineMax <= 2 * d, 2 * d <= LineMax
         PROVE  /\ -(Len(lines') * LineMax') <= 2 * (x + d)
                /\ 2 * (x + d) <= Len(lines') * LineMax'
    BY <2>9, <2>11, <2>12
  <2>13. SumWithin(subtotal)'
    BY <1>1, <1>3, <2>2, <2>6, <2>8, <2>12 DEF SumWithin
  <2>14. SumWithin(total_tax)'
    BY <1>1, <1>3, <2>2, <2>6, <2>8, <2>12 DEF SumWithin
  <2>15. SumWithin(subtotal + total_tax)'
    <3>1. subtotal + total_tax \in Int BY <2>8
    <3> QED BY <1>6, <2>2, <2>5, <2>10, <2>12, <3>1 DEF SumWithin
  <2> QED BY <2>13, <2>14, <2>15
<1> QED BY <1>7, <1>8, <1>9, <1>10 DEF IInv

\* ... by the totals,
LEMMA StoreTotalsStep == ASSUME IInv, StoreTotals PROVE IInv'
<1>1. CASE Fail("DataError")
  BY <1>1, FailStep
<1>2. CASE /\ OrderFits(OrderOf)
           /\ state' = "created" /\ order' = OrderOf
           /\ UNCHANGED <<items, lines, subtotal, total_tax, billed>>
  <2>1. OrderOf \in Order
    BY <1>2, OrderOfType DEF IInv
  <2>2. state = "lines" /\ OrderOf' = OrderOf
    BY <1>2 DEF StoreTotals, OrderOf, Paise
  <2>3. Shapes'
    BY <1>2, <2>1 DEF IInv, Shapes
  <2>4. LinesAddUp'
    BY <1>2, <2>2 DEF IInv, LinesAddUp, Exact
  <2> QED BY <1>2, <2>2, <2>3, <2>4 DEF IInv, TotalsAreSums, SumsAreBounded
<1> QED BY <1>1, <1>2 DEF StoreTotals

\* ... and so by every step.
LEMMA Step == IInv /\ [Next]_vars => IInv'
<1> SUFFICES ASSUME IInv, [Next]_vars PROVE IInv'
  OBVIOUS
<1>1. CASE RefuseItem
  BY <1>1, FailStep DEF RefuseItem
<1>2. CASE AddLine
  BY <1>2, AddLineStep
<1>3. CASE StoreTotals
  BY <1>3, StoreTotalsStep
<1>4. CASE UNCHANGED vars
  <2>1. Shapes' /\ LinesAddUp' /\ TotalsAreSums'
    BY <1>4 DEF vars, IInv, Shapes, LinesAddUp, TotalsAreSums, OrderOf
  <2>2. SumsAreBounded'
    BY <1>4 DEF vars, IInv, SumsAreBounded, SumWithin
  <2> QED BY <2>1, <2>2 DEF IInv
<1> QED BY <1>1, <1>2, <1>3, <1>4 DEF Next

\* The invariant holds of every reachable state.
THEOREM Invariance == Spec => []IInv
BY InitIInv, Step, PTL DEF Spec

-----------------------------------------------------------------------------
(* What follows.                                                           *)

\* No amount is stored that its column cannot hold, whatever clients and workbooks send.
THEOREM ColumnsHold == Spec => []TypeOK
<1>1. IInv => TypeOK
  BY DEF IInv, Shapes, TypeOK
<1> QED BY <1>1, Invariance, PTL

\* The distance of the totals follows from that of the lines.
LEMMA AddsUp == IInv => OrderAddsUp
<1> SUFFICES ASSUME IInv, state = "created" PROVE
      /\ Within(order.total_amount - (order.subtotal + order.tax_amount), 2)
      /\ Within(2 * (billed - order.total_amount), Len(lines) + 2)
  BY DEF OrderAddsUp
<1> DEFINE S == Paise(subtotal)
           T == Paise(total_tax)
           A == Paise(subtotal + total_tax)
           n == Len(lines)
<1>1. /\ order.subtotal = S /\ order.tax_amount = T /\ order.total_amount = A
      /\ S \in Int /\ T \in Int /\ A \in Int
  BY OrderOfType DEF IInv, TotalsAreSums
<1>2. /\ subtotal \in Int /\ total_tax \in Int /\ billed \in Int /\ n \in Nat
      /\ subtotal + total_tax \in Int
  BY DEF IInv, Shapes
<1>3. /\ -Exact <= 2 * (Exact * S) - 2 * subtotal
      /\ 2 * (Exact * S) - 2 * subtotal <= Exact
      /\ -Exact <= 2 * (Exact * T) - 2 * total_tax
      /\ 2 * (Exact * T) - 2 * total_tax <= Exact
      /\ -Exact <= 2 * (Exact * A) - 2 * (subtotal + total_tax)
      /\ 2 * (Exact * A) - 2 * (subtotal + total_tax) <= Exact
  BY <1>2, Constants, RoundingError DEF Paise
<1>4. /\ -(n * Exact) <= 2 * (Exact * billed) - 2 * (subtotal + total_tax)
      /\ 2 * (Exact * billed) - 2 * (subtotal + total_tax) <= n * Exact
  BY DEF IInv, LinesAddUp
<1> HIDE DEF S, T, A, n
<1>5. Exact * S \in Int /\ Exact * T \in Int /\ Exact * A \in Int /\ Exact * billed \in Int
      /\ n * Exact \in Int
  BY <1>1, <1>2, Constants
<1>6. A - (S + T) < 2 /\ (S + T) - A < 2
  <2>1. /\ Exact * (A - (S + T)) = Exact * A - Exact * S - Exact * T
        /\ Exact * ((S + T) - A) = Exact * S + Exact * T - Exact * A
        /\ Exact * 2 = Exact + Exact
    BY <1>1, Constants
  <2>2. Exact * (A - (S + T)) < Exact * 2 /\ Exact * ((S + T) - A) < Exact * 2
    BY <1>2, <1>3, <1>5, <2>1, Constants
  <2>3. A - (S + T) \in Int /\ (S + T) - A \in Int
    BY <1>1
  <2> QED BY <2>2, <2>3, Constants, Cancel
<1>7. 2 * (billed - A) < n + 2 /\ 2 * (A - billed) < n + 2
  <2>1. /\ Exact * (2 * (billed - A)) = 2 * (Exact * billed) - 2 * (Exact * A)
        /\ Exact * (2 * (A - billed)) = 2 * (Exact * A) - 2 * (Exact * billed)
        /\ Exact * (n + 2) = n * Exact + Exact + Exact
    BY <1>1, <1>2, Constants
  <2>2. /\ Exact * (2 * (billed - A)) < Exact * (n + 2)
        /\ Exact * (2 * (A - billed)) < Exact * (n + 2)
    BY <1>2, <1>3, <1>4, <1>5, <2>1, Constants
  <2>3. 2 * (billed - A) \in Int /\ 2 * (A - billed) \in Int /\ n + 2 \in Int
    BY <1>1, <1>2
  <2> QED BY <2>2, <2>3, Constants, Cancel
<1>8. /\ Within(A - (S + T), 2)
      /\ Within(2 * (billed - A), n + 2)
  BY <1>1, <1>2, <1>6, <1>7 DEF Within
<1> QED BY <1>1, <1>8 DEF n

\* An order's stored amounts add up as far as rounding allows, with any number of lines.
THEOREM OrdersAddUp == Spec => []OrderAddsUp
BY Invariance, AddsUp, PTL

\* Few enough lines leave the totals within their columns.
LEMMA EnoughRoom ==
    ASSUME IInv, state = "lines", \A i \in DOMAIN lines : lines[i].gst_rate >= 0,
           Len(lines) * LineLimit <= OrderLimit
    PROVE  OrderFits(OrderOf)
<1> DEFINE n == Len(lines)
<1>1. /\ subtotal \in Int /\ total_tax \in Int /\ n \in Nat
      /\ subtotal + total_tax \in Int
  BY DEF IInv, Shapes
<1>2. SumWithin(subtotal) /\ SumWithin(total_tax) /\ SumWithin(subtotal + total_tax)
  BY DEF IInv, SumsAreBounded
<1>3. n * LineLimit <= OrderLimit
  OBVIOUS
<1> DEFINE nL == n * LineLimit
<1>4. n * LineMax = 2 * (Exact * nL) - n * Exact - n
  BY <1>1, Constants DEF LineMax
<1>5. Exact * (2 * OrderLimit - 1) = 2 * (Exact * OrderLimit) - Exact
  BY Constants
<1>6. Exact * nL <= Exact * OrderLimit
  <2>1. nL \in Int BY <1>1, Constants
  <2>2. Exact * (OrderLimit - nL) >= 0 BY <1>3, <2>1, Constants
  <2>3. Exact * (OrderLimit - nL) = Exact * OrderLimit - Exact * nL
    BY <2>1, Constants
  <2>4. Exact * OrderLimit \in Int /\ Exact * nL \in Int BY <2>1, Constants
  <2> QED BY <2>2, <2>3, <2>4
<1>7. n * LineMax < Exact * (2 * OrderLimit - 1)
  <2>1. CASE n = 0
    <3>1. n * LineMax = 0 BY <2>1, Constants
    <3>2. Exact * (OrderLimit - 1) >= 0 BY Constants
    <3>3. Exact * (2 * OrderLimit - 1) = 2 * (Exact * (OrderLimit - 1)) + Exact BY Constants
    <3>4. Exact * (OrderLimit - 1) \in Int BY Constants
    <3> QED BY <3>1, <3>2, <3>3, <3>4, Constants
  <2>2. CASE n >= 1
    <3>1. n * Exact >= Exact BY <1>1, <2>2, Constants
    <3>2. Exact * nL \in Int /\ n * Exact \in Int /\ Exact * OrderLimit \in Int
      BY <1>1, Constants
    <3> QED BY <1>1, <1>4, <1>5, <1>6, <2>2, <3>1, <3>2, Constants
  <2> QED BY <1>1, <2>1, <2>2
<1>8. ASSUME NEW x \in Int, SumWithin(x) PROVE Within(Paise(x), OrderLimit)
  <2>1. n * LineMax \in Int /\ Exact * (2 * OrderLimit - 1) \in Int
    BY <1>1, Constants
  <2>2. 2 * x < Exact * (2 * OrderLimit - 1) /\ -(Exact * (2 * OrderLimit - 1)) < 2 * x
    BY <1>7, <1>8, <2>1 DEF SumWithin
  <2> QED BY <2>2, Constants, WhatFits DEF Paise
<1> QED BY <1>1, <1>2, <1>8, OrderOfType DEF IInv, OrderFits

\* If no rate is negative, an order is only refused for its totals if it has more lines than
\* the widest lines that an order's columns have room for.
THEOREM TotalsFit == Spec => []TotalsNeedManyLines
<1>1. IInv => TotalsNeedManyLines
  <2> SUFFICES ASSUME IInv, state = "lines", ~OrderFits(OrderOf),
                      \A i \in DOMAIN lines : ~(lines[i].gst_rate < 0),
                      ~(Len(lines) * LineLimit > OrderLimit)
               PROVE  FALSE
    BY DEF TotalsNeedManyLines
  <2>1. lines \in Seq(LineItem) /\ Len(lines) \in Nat
    BY DEF IInv, Shapes
  <2>2. ASSUME NEW i \in DOMAIN lines PROVE lines[i].gst_rate \in Int
    <3>1. lines[i] \in LineItem BY <2>1
    <3>2. lines[i].gst_rate \in Paisa(RateLimit) BY <3>1 DEF LineItem
    <3> QED BY <3>2, Constants DEF Paisa
  <2>3. Len(lines) * LineLimit \in Int
    BY <2>1, Constants
  <2> QED BY <2>2, <2>3, EnoughRoom, Constants
<1> QED BY <1>1, Invariance, PTL

=============================================================================
