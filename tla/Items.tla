------------------------------- MODULE Items -------------------------------
(***************************************************************************)
(* Products, suppliers and product categories: the requests that create,   *)
(* change and read one of them.  Products and suppliers are served alike:  *)
(* each has a code (sku, code) that is unique and whose uniqueness the     *)
(* service checks before it writes, and a second unique column (barcode,   *)
(* gst_number) that nothing checks.                                        *)
(***************************************************************************)
EXTENDS Store

CONSTANTS
    Code,      \* the spellings of SKUs and supplier codes that clients send
    Upper      \* code.upper(), as a function on Code

ASSUME ItemsAssumption ==
    /\ Upper \in [Code -> Code]
    /\ \A c \in Code : Upper[Upper[c]] = Upper[c]
    /\ Null \notin Code

Kind == {"products", "suppliers"}
CodeColumn == [products |-> "sku", suppliers |-> "code"]

ItemRow(t, id) == RowOf(t, id, 0)
CategoryRow(id) == RowOf("product_categories", id, 0)

\* The columns of each table that the properties tell apart.
Columns ==
    [products |-> {"sku", "barcode", "name", "category", "mrp", "selling_price"},
     suppliers |-> {"code", "gst_number", "name"},
     product_categories |-> {"name", "slug"}]

Product(sku, barcode, name, category, mrp, selling) ==
    [sku |-> sku, barcode |-> barcode, name |-> name, category |-> category,
     mrp |-> mrp, selling_price |-> selling]
Supplier(code, gst, name) == [code |-> code, gst_number |-> gst, name |-> name]
ProductCategory(name, slug) == [name |-> name, slug |-> slug]

At(r, op, pc) == Running(r) /\ job[r].op = op /\ job[r].pc = pc
GoTo(r, pc) == job' = [job EXCEPT ![r].pc = pc]

Committed == {o \in Request : session[o].state = "committed"}

\* The rows of table t that a session sees.
RowsOf(r, t) == {row \in DOMAIN View(r) : row.table = t}

\* exists_by_sku() and exists_by_code(), and the selects by sku, code and barcode.
ExistsBySku(r, sku, exclude) ==
    \E row \in RowsOf(r, "products") \ exclude : View(r)[row].sku = Upper[sku]
ExistsByCode(r, code, exclude) ==
    \E row \in RowsOf(r, "suppliers") \ exclude : View(r)[row].code = Upper[code]
GetBySku(r, sku) == {row \in RowsOf(r, "products") : View(r)[row].sku = Upper[sku]}
GetByBarcode(r, barcode) ==
    {row \in RowsOf(r, "products") : View(r)[row].barcode = barcode}

Exists(r, t, code, exclude) ==
    IF t = "products" THEN ExistsBySku(r, code, exclude)
    ELSE ExistsByCode(r, code, exclude)

\* Mutant: the code is stored as it was sent.
AsSent(t, data) == data

\* The columns create() and update() write: the code in upper case.
Stored(t, data) ==
    IF CodeColumn[t] \in DOMAIN data
    THEN [data EXCEPT ![CodeColumn[t]] = Upper[@]] ELSE data

\* Building the answer touches product.category: a product that has one loads it lazily,
\* which an async session refuses.
Unreadable(row, value) == row.table = "products" /\ value.category # Null

\* get_product() and get_supplier(): the row as this session sees it, or 404.
Answer(r, row) ==
    IF row \notin DOMAIN View(r) THEN Raise(r, "ResourceNotFoundException")
    ELSE IF Unreadable(row, View(r)[row]) THEN Raise(r, "MissingGreenlet")
    ELSE GoTo(r, "done") /\ UNCHANGED <<table, session>>

-----------------------------------------------------------------------------
(* POST /products, POST /suppliers                                         *)

\* past: the requests whose commits the last check could see (history).
CreateJob(t, data) ==
    [op |-> "create", pc |-> "start", kind |-> t, data |-> data, past |-> {}]

\* Mutant: the uniqueness of the code is left to the database.
CheckNothing(r, t) ==
    /\ At(r, "create", "start") /\ job[r].kind = t
    /\ job' = [job EXCEPT ![r].pc = "insert", ![r].past = Committed]
    /\ UNCHANGED <<table, session>>

CheckCode(r, t) ==
    /\ At(r, "create", "start") /\ job[r].kind = t
    /\ IF Exists(r, t, job[r].data[CodeColumn[t]], {})
       THEN Raise(r, "ConflictException")
       ELSE /\ job' = [job EXCEPT ![r].pc = "insert", ![r].past = Committed]
            /\ UNCHANGED <<table, session>>

Insert(r, t) ==
    /\ At(r, "create", "insert") /\ job[r].kind = t
    /\ Stage(r, ItemRow(t, r), Stored(t, job[r].data))
    /\ GoTo(r, "read")

ReadNew(r, t) ==
    /\ At(r, "create", "read") /\ job[r].kind = t
    /\ Answer(r, ItemRow(t, r))

CreateProduct(r) ==
    CheckCode(r, "products") \/ Insert(r, "products") \/ ReadNew(r, "products")
CreateSupplier(r) ==
    CheckCode(r, "suppliers") \/ Insert(r, "suppliers") \/ ReadNew(r, "suppliers")

\* POST /products/categories: no check precedes the insert.
CategoryJob(name, slug) ==
    [op |-> "create_category", pc |-> "start", data |-> ProductCategory(name, slug)]

CreateCategory(r) ==
    /\ At(r, "create_category", "start")
    /\ Stage(r, CategoryRow(r), job[r].data)
    /\ GoTo(r, "done")

-----------------------------------------------------------------------------
(* PUT /products/{id}, PUT /suppliers/{id}                                 *)

\* The route drops the fields that are None.
UpdateJob(row, data) ==
    [op |-> "update", pc |-> "start", kind |-> row.table, row |-> row,
     data |-> data, past |-> {}]

\* The code is only checked if the row, as it was read here, has another one.
Load(r, t) ==
    LET row == job[r].row
        column == CodeColumn[t]
    IN  /\ At(r, "update", "start") /\ job[r].kind = t
        /\ IF row \notin DOMAIN View(r) THEN Raise(r, "ResourceNotFoundException")
           ELSE /\ job' = [job EXCEPT
                     ![r].past = Committed,
                     ![r].pc = IF /\ column \in DOMAIN job[r].data
                                  /\ Upper[job[r].data[column]] # View(r)[row][column]
                               THEN "check" ELSE "write"]
                /\ UNCHANGED <<table, session>>

CheckOthers(r, t) ==
    /\ At(r, "update", "check") /\ job[r].kind = t
    /\ IF Exists(r, t, job[r].data[CodeColumn[t]], {job[r].row})
       THEN Raise(r, "ConflictException")
       ELSE /\ job' = [job EXCEPT ![r].pc = "write", ![r].past = Committed]
            /\ UNCHANGED <<table, session>>

Write(r, t) ==
    /\ At(r, "update", "write") /\ job[r].kind = t
    /\ Stage(r, job[r].row, Stored(t, job[r].data))
    /\ GoTo(r, "read")

ReadUpdated(r, t) ==
    /\ At(r, "update", "read") /\ job[r].kind = t
    /\ Answer(r, job[r].row)

UpdateProduct(r) ==
    \/ Load(r, "products") \/ CheckOthers(r, "products")
    \/ Write(r, "products") \/ ReadUpdated(r, "products")
UpdateSupplier(r) ==
    \/ Load(r, "suppliers") \/ CheckOthers(r, "suppliers")
    \/ Write(r, "suppliers") \/ ReadUpdated(r, "suppliers")

-----------------------------------------------------------------------------
(* GET /products/{id}, /products/barcode/{barcode}, /suppliers/{id}        *)

GetJob(row) == [op |-> "get", pc |-> "start", row |-> row]
BarcodeJob(barcode) == [op |-> "barcode", pc |-> "start", barcode |-> barcode]

GetItem(r) == At(r, "get", "start") /\ Answer(r, job[r].row)

LookupBarcode(r) ==
    /\ At(r, "barcode", "start")
    /\ LET found == GetByBarcode(r, job[r].barcode) IN
       IF found = {} THEN Raise(r, "ResourceNotFoundException")
       ELSE \E row \in found : Answer(r, row)

=============================================================================
