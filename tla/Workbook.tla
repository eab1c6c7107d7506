------------------------------ MODULE Workbook ------------------------------
(***************************************************************************)
(* The product workbook: what parse_product_excel() makes of a sheet.  A   *)
(* row of the sheet is a record of its cells; a cell is blank, or holds a  *)
(* value that converts, or one that does not.                              *)
(***************************************************************************)
EXTENDS Integers, Sequences

CONSTANTS
    Code, Upper,   \* SKUs as typed, and their upper case
    Blank,         \* an empty cell
    Garbled        \* a cell that int() or Decimal() refuses

\* str(cell or "").strip() is empty for a blank cell, and also for a zero.
Filled(cell) == cell # Blank

\* The cells of a row have a product in them: SKU and name, and numbers that convert.
IsProduct(cells) ==
    /\ Filled(cells.sku) /\ Filled(cells.name)
    /\ cells.mrp # Garbled /\ cells.selling # Garbled

\* A blank price is 0, a blank selling price the retail price; so is a zero.
Price(cell, default) == IF cell = Blank \/ cell = 0 THEN default ELSE cell

ProductItem(cells) ==
    LET mrp == Price(cells.mrp, 0)
    IN  [sku |-> Upper[cells.sku], name |-> cells.name, mrp |-> mrp,
         selling_price |-> Price(cells.selling, mrp)]

\* Blank rows, rows without a SKU or a name and rows that do not convert are skipped
\* without a word; the others keep their order.
ParseProductExcel(rows) ==
    LET parsed[n \in 0 .. Len(rows)] ==
          IF n = 0 THEN <<>>
          ELSE IF IsProduct(rows[n]) THEN Append(parsed[n - 1], ProductItem(rows[n]))
          ELSE parsed[n - 1]
    IN  parsed[Len(rows)]

=============================================================================
