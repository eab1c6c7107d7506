------------------------------- MODULE Upload -------------------------------
(***************************************************************************)
(* POST /upload/products-excel: the rows of a workbook are looked up and   *)
(* written one after the other, in one transaction.                        *)
(***************************************************************************)
EXTENDS Items, Sequences

CONSTANTS
    Blank, Garbled,   \* cells of a sheet: empty, and one that does not convert
    TooWide           \* the names that do not fit their column

INSTANCE Workbook

\* A row of a sheet: a cell for each column that is read.  Names are numbers, in the
\* order of the collation.
SheetRow ==
    [sku : Code \cup {Blank}, name : Int \cup {Blank},
     mrp : Int \cup {Blank, Garbled}, selling : Int \cup {Blank, Garbled}]

\* A file has a suffix, and either is a workbook with rows or cannot be read.
UploadJob(file) ==
    [op |-> "upload", pc |-> "start", file |-> file, items |-> <<>>, i |-> 1,
     created |-> 0, updated |-> 0, past |-> {}]

AcceptedSuffixes == {".xlsx", ".xls"}

\* The suffix is checked, the sheet parsed; openpyxl raises for what is no workbook.
ReceiveFile(r) ==
    LET file == job[r].file
        items == ParseProductExcel(file.rows)
    IN  /\ At(r, "upload", "start")
        /\ IF file.suffix \notin AcceptedSuffixes THEN Raise(r, "ValidationException")
           ELSE IF ~file.readable THEN Raise(r, "BadZipFile")
           ELSE IF items = <<>> THEN Raise(r, "ValidationException")
           ELSE /\ job' = [job EXCEPT ![r].items = items, ![r].pc = "items"]
                /\ UNCHANGED <<table, session>>

Item(r) == job[r].items[job[r].i]
Counted(r, field) ==
    job' = [job EXCEPT ![r].i = @ + 1, ![r][field] = @ + 1, ![r].past = Committed]

\* The product that an item updates, if there is one.
Existing(r) == GetBySku(r, Item(r).sku)

\* Mutant: an update leaves the price of the product as it is.
UpsertKeepingPrice(r) ==
    /\ At(r, "upload", "items") /\ job[r].i <= Len(job[r].items)
    /\ IF Item(r).name \in TooWide THEN Raise(r, "DataError")
       ELSE \/ /\ Existing(r) = {}
               /\ Stage(r, RowOf("products", r, job[r].i),
                        Product(Item(r).sku, Null, Item(r).name, Null, Item(r).mrp,
                                Item(r).selling_price))
               /\ Counted(r, "created")
            \/ \E row \in Existing(r) :
                  /\ Stage(r, row, [sku |-> Item(r).sku, name |-> Item(r).name])
                  /\ Counted(r, "updated")

\* An item is looked up, then updated or inserted; the first statement that fails ends
\* the whole upload.
UpsertItem(r) ==
    /\ At(r, "upload", "items") /\ job[r].i <= Len(job[r].items)
    /\ IF Item(r).name \in TooWide THEN Raise(r, "DataError")
       ELSE \/ /\ Existing(r) = {}
               /\ Stage(r, RowOf("products", r, job[r].i),
                        Product(Item(r).sku, Null, Item(r).name, Null, Item(r).mrp,
                                Item(r).selling_price))
               /\ Counted(r, "created")
            \/ \E row \in Existing(r) : Stage(r, row, Item(r)) /\ Counted(r, "updated")

FinishUpload(r) ==
    /\ At(r, "upload", "items") /\ job[r].i > Len(job[r].items)
    /\ GoTo(r, "done")
    /\ UNCHANGED <<table, session>>

UploadProducts(r) == ReceiveFile(r) \/ UpsertItem(r) \/ FinishUpload(r)

=============================================================================
