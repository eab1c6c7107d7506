------------------------------ MODULE Catalog ------------------------------
(***************************************************************************)
(* The catalog back end: products, suppliers and categories are created,   *)
(* changed and read, workbooks of products are uploaded, and a client      *)
(* lists what is on file, all at the same time.                            *)
(***************************************************************************)
EXTENDS Upload, Listing

CONSTANTS
    Shelves,      \* the tables to start from
    Drafts,       \* the [kind, data] pairs that clients create
    Changes,      \* the [row, data] pairs that clients update
    Categories,   \* the [name, slug] pairs that clients create
    Files,        \* the files that clients upload
    Reads,        \* the rows, and the barcodes, that clients look up
    Scenarios     \* the sets of operations that meet in one behaviour

\* What is on file has distinct keys and was put there by requests served earlier.
ASSUME CatalogAssumption ==
    \A rows \in Shelves :
        Distinct(rows) /\ \A row \in DOMAIN rows : row.id \in OnFile

\* The rows of each table have its columns.
CatalogRowsOK(rows) ==
    \A row \in DOMAIN rows :
        row.table \in DOMAIN Columns /\ DOMAIN rows[row] = Columns[row.table]

\* The columns of an item that have a type: its code is text, its name has a place in the
\* collation order.
ItemValues(t, data) ==
    /\ CodeColumn[t] \in DOMAIN data => data[CodeColumn[t]] \in Code
    /\ "name" \in DOMAIN data => data.name \in Int

\* What is on file was stored by this code, codes in upper case; what clients send
\* conforms to ProductCreate, ProductUpdate, SupplierCreate and SupplierUpdate; a sheet
\* has rows of cells.
ASSUME InputsAssumption ==
    /\ \A rows \in Shelves :
         /\ IsFiniteSet(DOMAIN rows)
         /\ CatalogRowsOK(rows)
         /\ \A row \in DOMAIN rows : row.table \in Kind =>
              /\ ItemValues(row.table, rows[row])
              /\ Upper[rows[row][CodeColumn[row.table]]] = rows[row][CodeColumn[row.table]]
    /\ \A d \in Drafts :
         d.kind \in Kind /\ DOMAIN d.data = Columns[d.kind] /\ ItemValues(d.kind, d.data)
    /\ \A c \in Changes :
         /\ c.row.table \in Kind
         /\ DOMAIN c.data \subseteq Columns[c.row.table] /\ ItemValues(c.row.table, c.data)
    /\ \A f \in Files : f.rows \in Seq(SheetRow)
    /\ {Blank, Garbled} \cap (Code \cup Int) = {}
    /\ Limit \in Nat \ {0}

catalogVars == <<table, session, job, walk>>

Done(r) == Running(r) /\ job[r].pc = "done"
Finish(r) ==
    /\ Done(r)
    /\ Respond(r, IF job[r].op \in {"create", "create_category"} THEN CREATED ELSE OK)

NoJob == [op |-> "none", pc |-> "start"]

Init ==
    /\ table \in Shelves
    /\ \E m \in Managers : session = [r \in Request |-> FreshSession(m)]
    /\ job = [r \in Request |-> NoJob]
    /\ walk = NoWalk

\* What clients may ask for.
Jobs ==
    {CreateJob(d.kind, d.data) : d \in Drafts}
      \cup {UpdateJob(c.row, c.data) : c \in Changes}
      \cup {CategoryJob(c.name, c.slug) : c \in Categories}
      \cup {UploadJob(f) : f \in Files}
      \cup {GetJob(row) : row \in Reads.rows}
      \cup {BarcodeJob(b) : b \in Reads.barcodes}

\* Bounds the instance: which operations may run against each other.
InScenario(op) ==
    \E s \in Scenarios :
        /\ op \in s
        /\ walk # NoWalk => "list" \in s
        /\ \A o \in Request : job[o].op \in s \cup {"none"}

Submit(r) == \E j \in Jobs : InScenario(j.op) /\ Arrive(r, j)

Serve(r) ==
    \/ CreateProduct(r)
    \/ CreateSupplier(r)
    \/ CreateCategory(r)
    \/ UpdateProduct(r)
    \/ UpdateSupplier(r)
    \/ GetItem(r)
    \/ LookupBarcode(r)
    \/ UploadProducts(r)
    \/ Execute(r)
    \/ Finish(r)
    \/ Commit(r)
    \/ Discard(r)
    \/ DeadlockVictim(r)

Next ==
    \/ \E r \in Request : (Submit(r) \/ Serve(r) \/ Crash(r)) /\ UNCHANGED walk
    \/ InScenario("list") /\ List

Spec == Init /\ [][Next]_catalogVars

\* A coroutine that can run is run by the event loop, the database executes every
\* statement that nothing blocks and its deadlock detector ends every cycle; clients
\* need not send anything, nothing has to crash.
FairSpec == Spec /\ \A r \in Request : WF_catalogVars(Serve(r) /\ UNCHANGED walk)

-----------------------------------------------------------------------------
(* Properties.                                                             *)

\* Every row has the columns of its table, and every session and walk is in one of the
\* states of its protocol.
TypeOK ==
    /\ CatalogRowsOK(table)
    /\ \A r \in Request :
         /\ session[r].state \in SessionState
         /\ session[r].manager \in AllManagers
         /\ session[r].answer \in {NoAnswer, OK, CREATED, 404, 409, 422, 500}
         /\ CatalogRowsOK(session[r].writes)
    /\ walk.state \in {"off", "count", "page", "done", "failed"}

\* One product per SKU and one supplier per code, in whatever case clients and workbooks
\* spell them, although every path checks and writes in separate statements.
OneItemPerCode ==
    \A t \in Kind : \A a, b \in {row \in DOMAIN table : row.table = t} :
        Upper[table[a][CodeColumn[t]]] = Upper[table[b][CodeColumn[t]]] => a = b

\* The code that the failed statement of a request was to enter.
CodesOf(r) ==
    LET row == session[r].pending.row
    IN  {k \in KeysOf(row, Outgoing(r)) : k[2] = CodeColumn[row.table]}

\* A uniqueness error that reaches the client as a 500 has one of two causes: the request
\* entered a value of a column that nothing checks, or its code passed the check and
\* was taken by another request that committed between the check and the write.
UniquenessErrorsHaveACause ==
    [][\A r \in Request :
         (session[r].error # "IntegrityError" /\ session'[r].error = "IntegrityError") =>
             \/ job[r].op = "create_category"
             \/ \E row \in DOMAIN table \ {session[r].pending.row} :
                  (KeysOf(row, table[row]) \cap KeysOf(session[r].pending.row, Outgoing(r)))
                      \ CodesOf(r) # {}
             \/ \E o \in Committed \ job[r].past :
                  CodesOf(r) \cap KeysIn(session[o].writes) # {}
      ]_catalogVars

\* What an upload stores: for every product of the sheet, its last row.
LastRowStored(item, items, rows) ==
    \E row \in DOMAIN rows :
        /\ row.table = "products" /\ rows[row].sku = item.sku
        /\ \E i \in DOMAIN items :
             /\ \A j \in DOMAIN items : items[j].sku = item.sku => j <= i
             /\ \A c \in DOMAIN items[i] : rows[row][c] = items[i][c]

\* An upload that commits stores its sheet exactly: every product of the sheet with the
\* data of its last row, as many new products as it reports created, and one
\* created or updated product reported for every row that counts.  Concurrent uploads,
\* creations and renamings of the same products do not get in between.
UploadIsExact ==
    [][\A r \in Request :
         (job[r].op = "upload" /\ session[r].state = "returned"
            /\ session'[r].state = "committed") =>
             LET items == ParseProductExcel(job[r].file.rows) IN
             /\ \A i \in DOMAIN items : LastRowStored(items[i], items, table')
             /\ Cardinality({row \in DOMAIN table' \ DOMAIN table : row.id = r})
                  = job[r].created
             /\ job[r].created + job[r].updated = Len(items)
      ]_catalogVars

\* A client that pages through a list sees every row that was on file when it began, even
\* if rows are added meanwhile, as long as nothing is committed between the count and
\* the page of one request, no row is renamed and no two rows have the same name.
NothingMissed ==
    (walk.state = "done" /\ ~walk.disturbed) => walk.first \subseteq walk.shown

=============================================================================
