------------------------------ MODULE MCPricing ------------------------------
(***************************************************************************)
(* An instance of Pricing for TLC: short orders of a few products, columns *)
(* narrow enough for each of them to overflow.                             *)
(***************************************************************************)
EXTENDS Pricing, TLC

CONSTANTS snack, juice, tea, gum, soap   \* model values: products

MCGstRate == (snack :> 500) @@ (juice :> 1800) @@ (tea :> 0) @@ (gum :> -5000)
               @@ (soap :> NotANumber)

\* Prices in tenths of a paisa.
MCItem(p, q, u) == [product |-> p, quantity |-> q, unit_price |-> u]
MCItems ==
    {MCItem(snack, 3, 15), MCItem(snack, 1, 4), MCItem(juice, 1, 99), MCItem(juice, 2, -25),
     MCItem(juice, 5, 320), MCItem(tea, 1, 5), MCItem(tea, 2, 995), MCItem(tea, 3, 990),
     MCItem(gum, 2, 990), MCItem(gum, 5, 700), MCItem(gum, 5, 750),
     MCItem(tea, 90, 1), MCItem(tea, 1, 1000),
     MCItem(soap, 1, 10), MCItem(tea, 1, Null), MCItem(Unknown, 1, 10)}

\* An order has at least one item.
MCOrders == {<<i>> : i \in MCItems} \cup (MCItems \X MCItems)
              \cup (MCItems \X MCItems \X MCItems)

=============================================================================
