------------------------------ MODULE MCCatalog ------------------------------
(***************************************************************************)
(* Instances of Catalog for TLC.  Names are numbers, in collation order.   *)
(***************************************************************************)
EXTENDS Catalog, TLC

CONSTANTS
    f1, f2, k1,            \* model values: ids on file
    a, A, B, C,            \* codes: a is A in lower case, B is free
    b1                     \* a barcode, and a GST number

MCUpper == (a :> A) @@ (A :> A) @@ (B :> B) @@ (C :> C)

\* Two products and two suppliers, the first of each with a barcode or a GST number, with
\* room for names before and between them; and, in the second shelf, the second product in
\* a category.
Plain ==
    (ItemRow("products", f1) :> Product(A, b1, 2, Null, 1, 1))
      @@ (ItemRow("products", f2) :> Product(C, Null, 4, Null, 1, 1))
      @@ (ItemRow("suppliers", f1) :> Supplier(A, b1, 2))
      @@ (ItemRow("suppliers", f2) :> Supplier(C, Null, 4))
Categorised ==
    [Plain EXCEPT ![ItemRow("products", f2)].category = k1]
      @@ (CategoryRow(k1) :> ProductCategory("snacks", "snacks"))
MCShelves == {Plain, Categorised}

NewProduct(sku, barcode, name, category) ==
    [kind |-> "products", data |-> Product(sku, barcode, name, category, 2, 2)]
NewSupplier(code, gst, name) ==
    [kind |-> "suppliers", data |-> Supplier(code, gst, name)]
MCDrafts ==
    {NewProduct(B, Null, 1, Null), NewProduct(a, Null, 1, Null), NewProduct(B, b1, 1, Null),
     NewProduct(B, Null, 1, k1), NewSupplier(B, Null, 3), NewSupplier(B, b1, 1)}

MCChanges ==
    {[row |-> ItemRow("products", f1), data |-> [sku |-> B]],
     [row |-> ItemRow("products", f1), data |-> [sku |-> a, name |-> 4]],
     [row |-> ItemRow("suppliers", f1), data |-> [code |-> B]],
     [row |-> ItemRow("suppliers", k1), data |-> [name |-> 1]]}

MCCategories == {[name |-> n, slug |-> "drinks"] : n \in {"snacks", "drinks"}}

Cells(sku, name, mrp, selling) ==
    [sku |-> sku, name |-> name, mrp |-> mrp, selling |-> selling]
Sheet(rows) == [suffix |-> ".xlsx", readable |-> TRUE, rows |-> rows]
MCFiles ==
    {Sheet(<<Cells(a, 1, 3, Blank), Cells(B, 1, 0, 4)>>),
     Sheet(<<Cells(B, 2, 5, 5), Cells(Blank, 1, 1, 1), Cells(A, 1, Blank, 6)>>),
     Sheet(<<Cells(B, 1, 1, 1), Cells(a, 2, Garbled, 1), Cells(B, 3, 2, 2)>>),
     Sheet(<<Cells(A, 1, 1, 1), Cells(B, 9, 1, 1)>>),
     Sheet(<<Cells(A, Blank, 1, 1)>>),
     [suffix |-> ".xls", readable |-> FALSE, rows |-> <<>>],
     [suffix |-> ".csv", readable |-> FALSE, rows |-> <<>>]}

MCReads == [rows |-> {ItemRow("products", f1), ItemRow("products", f2)},
            barcodes |-> {b1, B}]

MCScenarios ==
    {{"create", "update"}, {"upload", "update"}, {"upload", "create"},
     {"create", "list"}, {"update", "list"}, {"get", "barcode", "create_category"}}

=============================================================================
