--------------------------- MODULE CatalogProofs ---------------------------
(***************************************************************************)
(* The catalog, for every number of requests, every set of jobs and files, *)
(* every table to start from and both session managers: its unique keys    *)
(* and its refinement of UnitOfWork, the causes of its uniqueness errors,  *)
(* what an upload stores, and what a client sees that lists page by page.  *)
(***************************************************************************)
EXTENDS Catalog, StoreProofs, FiniteSetTheorems, NaturalsInduction, WellFoundedInduction

\* The coroutines: an update that has found its row may write it.
JobsOK ==
    /\ job = [r \in Request |-> job[r]]
    /\ \A r \in Request :
        /\ IsJob(job[r])
        /\ (job[r].op = "update" /\ job[r].pc # "start") => Mine(r, job[r].row)

\* The inductive invariant.
IInv == StoreInv /\ JobsOK

\* What a step of the coroutine of r does to the store and to its own job.
Stepped(r) ==
    /\ StoreStep
    /\ DOMAIN table \subseteq DOMAIN table'
    /\ job' = [job EXCEPT ![r] = job'[r]]
    /\ IsJob(job'[r])
    /\ (job'[r].op = "update" /\ job'[r].pc # "start") => Mine(r, job'[r].row)

\* Such a step keeps the inductive invariant.
LEMMA SteppedKeeps ==
    ASSUME IInv, NEW r \in Request, Stepped(r)
    PROVE  IInv' /\ [Abstract!Next]_Abstract!vars
<1>1. StoreInv' /\ [Abstract!Next]_Abstract!vars
  BY StoreStepKeeps DEF IInv, Stepped
<1>2. JobsOK'
  BY DEF IInv, JobsOK, Stepped, Mine
<1> QED BY <1>1, <1>2 DEF IInv

\* A row that a session sees is one it may write.
LEMMA SeenIsMine ==
    ASSUME StoreInv, NEW r \in Request, NEW row \in DOMAIN View(r)
    PROVE  Mine(r, row)
BY ViewFacts DEF StoreInv, OwnWork, Mine

\* The four ways in which a statement of a coroutine ends.
LEMMA RaiseSteps ==
    ASSUME IInv, NEW r \in Request, NEW e, Live(r), Raise(r, e)
    PROVE  Stepped(r)
BY RaiseQuiet DEF IInv, JobsOK, Stepped, StoreStep, Raise

\* The coroutine goes on without a statement.
LEMMA GoSteps ==
    ASSUME IInv, NEW r \in Request, UNCHANGED <<table, session>>,
           job' = [job EXCEPT ![r] = job'[r]], IsJob(job'[r]),
           job'[r].op = "update" => Mine(r, job'[r].row)
    PROVE  Stepped(r)
BY DEF Stepped, StoreStep

\* The coroutine sends a statement.
LEMMA StageSteps ==
    ASSUME IInv, NEW r \in Request, NEW row, NEW set, Running(r), Stage(r, row, set),
           Mine(r, row), job' = [job EXCEPT ![r] = job'[r]], IsJob(job'[r]),
           job'[r].op = "update" => Mine(r, job'[r].row)
    PROVE  Stepped(r)
BY StageQuiet DEF IInv, Stepped, StoreStep, Stage

\* The position of a coroutine is one field of its job.
LEMMA GoToFacts ==
    ASSUME IInv, NEW r \in Request, NEW pc, GoTo(r, pc)
    PROVE  /\ job' = [job EXCEPT ![r] = job'[r]]
           /\ IsJob(job'[r])
           /\ job'[r].op = job[r].op /\ job'[r].pc = pc
           /\ job'[r].row = job[r].row
<1>1. IsJob(job[r])
  BY DEF IInv, JobsOK
<1>2. job'[r] = [job[r] EXCEPT !.pc = pc] /\ job' = [job EXCEPT ![r] = job'[r]]
  BY DEF IInv, JobsOK, GoTo
<1>3. IsJob(job'[r])
  BY <1>1, <1>2 DEF IsJob
<1>4. job'[r].op = job[r].op /\ job'[r].pc = pc /\ job'[r].row = job[r].row
  BY <1>1, <1>2 DEF IsJob
<1> QED BY <1>2, <1>3, <1>4

\* Reading the row back changes no more than the position of the coroutine.
LEMMA AnswerSteps ==
    ASSUME IInv, NEW r \in Request, NEW row, Running(r), Answer(r, row),
           job[r].op = "update" => job[r].pc # "start"
    PROVE  Stepped(r)
<1>1. Live(r)
  BY DEF Running, Live
<1>2. CASE \E e : Raise(r, e)
  BY <1>1, <1>2, RaiseSteps
<1>3. CASE GoTo(r, "done") /\ UNCHANGED <<table, session>>
  BY <1>3, GoToFacts, GoSteps DEF IInv, JobsOK
<1> QED BY <1>2, <1>3 DEF Answer

\* A check that has passed.
LEMMA PassedFacts ==
    ASSUME IInv, NEW r \in Request, NEW pc,
           job' = [job EXCEPT ![r].pc = pc, ![r].past = Committed]
    PROVE  /\ job' = [job EXCEPT ![r] = job'[r]]
           /\ IsJob(job'[r])
           /\ job'[r].op = job[r].op
           /\ job'[r].row = job[r].row
<1> DEFINE j == [job[r] EXCEPT !["pc"] = pc]
           k == [j EXCEPT !["past"] = Committed]
<1>1. IsJob(job[r])
  BY DEF IInv, JobsOK
<1>2. job'[r] = k /\ job' = [job EXCEPT ![r] = job'[r]]
  BY DEF IInv, JobsOK
<1>3. IsJob(j) /\ j.op = job[r].op /\ j.row = job[r].row
  BY <1>1, Field
<1> HIDE DEF j
<1>4. IsJob(k) /\ k.op = j.op /\ k.row = j.row
  BY <1>3, Field
<1> QED BY <1>2, <1>3, <1>4

-----------------------------------------------------------------------------
(* The actions of Items.                                                   *)

\* Creating a product or a supplier.
LEMMA CreateSteps ==
    ASSUME IInv, NEW r \in Request, NEW t, CheckCode(r, t) \/ Insert(r, t) \/ ReadNew(r, t)
    PROVE  Stepped(r)
<1>1. Live(r) /\ Running(r) /\ job[r].op = "create"
  BY DEF CheckCode, Insert, ReadNew, At, Running, Live
<1>2. CASE CheckCode(r, t)
  <2>1. CASE Raise(r, "ConflictException")
    BY <1>1, <2>1, RaiseSteps
  <2>2. CASE /\ job' = [job EXCEPT ![r].pc = "insert", ![r].past = Committed]
             /\ UNCHANGED <<table, session>>
    BY <1>1, <2>2, PassedFacts, GoSteps
  <2> QED BY <1>2, <2>1, <2>2 DEF CheckCode
<1>3. CASE Insert(r, t)
  <2>1. Mine(r, ItemRow(t, r))
    BY DEF Mine, ItemRow, RowOf
  <2> QED BY <1>1, <1>3, <2>1, GoToFacts, StageSteps DEF Insert
<1>4. CASE ReadNew(r, t)
  BY <1>1, <1>4, AnswerSteps DEF ReadNew
<1> QED BY <1>2, <1>3, <1>4

\* Creating a category.
LEMMA CategorySteps ==
    ASSUME IInv, NEW r \in Request, CreateCategory(r)
    PROVE  Stepped(r)
<1>1. Mine(r, CategoryRow(r))
  BY DEF Mine, CategoryRow, RowOf
<1> QED BY <1>1, GoToFacts, StageSteps DEF CreateCategory, At

\* Updating a product or a supplier: only what was found is written.
LEMMA UpdateSteps ==
    ASSUME IInv, NEW r \in Request, NEW t,
           Load(r, t) \/ CheckOthers(r, t) \/ Write(r, t) \/ ReadUpdated(r, t)
    PROVE  Stepped(r)
<1>1. Live(r) /\ Running(r) /\ job[r].op = "update" /\ StoreInv
  BY DEF Load, CheckOthers, Write, ReadUpdated, At, Running, Live, IInv
<1>2. job[r].pc # "start" => Mine(r, job[r].row)
  BY <1>1 DEF IInv, JobsOK
<1>3. CASE Load(r, t)
  <2>1. CASE job[r].row \notin DOMAIN View(r)
    BY <1>1, <1>3, <2>1, RaiseSteps DEF Load
  <2>2. CASE job[r].row \in DOMAIN View(r)
    <3>1. Mine(r, job[r].row)
      BY <1>1, <2>2, SeenIsMine
    <3>2. PICK pc : job' = [job EXCEPT ![r].pc = pc, ![r].past = Committed]
      <4> DEFINE next == IF /\ CodeColumn[t] \in DOMAIN job[r].data
                            /\ Upper[job[r].data[CodeColumn[t]]]
                                 # View(r)[job[r].row][CodeColumn[t]]
                         THEN "check" ELSE "write"
      <4>1. job' = [job EXCEPT ![r].past = Committed, ![r].pc = next]
        BY <1>3, <2>2 DEF Load
      <4> HIDE DEF next
      <4>2. job' = [job EXCEPT ![r].pc = next, ![r].past = Committed]
        BY <4>1 DEF IInv, JobsOK, IsJob
      <4> QED BY <4>2
    <3> QED BY <1>1, <1>3, <2>2, <3>1, <3>2, PassedFacts, GoSteps DEF Load
  <2> QED BY <2>1, <2>2
<1>4. CASE CheckOthers(r, t)
  <2>1. job[r].pc = "check"
    BY <1>4 DEF CheckOthers, At
  <2>2. CASE Raise(r, "ConflictException")
    BY <1>1, <2>2, RaiseSteps
  <2>3. CASE /\ job' = [job EXCEPT ![r].pc = "write", ![r].past = Committed]
             /\ UNCHANGED <<table, session>>
    BY <1>2, <2>1, <2>3, PassedFacts, GoSteps
  <2> QED BY <1>4, <2>2, <2>3 DEF CheckOthers
<1>5. CASE Write(r, t)
  BY <1>1, <1>2, <1>5, GoToFacts, StageSteps DEF Write, At
<1>6. CASE ReadUpdated(r, t)
  BY <1>1, <1>6, AnswerSteps DEF ReadUpdated, At
<1> QED BY <1>3, <1>4, <1>5, <1>6

\* Reading one product or supplier.
LEMMA ReadSteps ==
    ASSUME IInv, NEW r \in Request, GetItem(r) \/ LookupBarcode(r)
    PROVE  Stepped(r)
<1>1. Live(r) /\ Running(r) /\ job[r].op \in {"get", "barcode"}
  BY DEF GetItem, LookupBarcode, At, Running, Live
<1>2. CASE GetItem(r)
  BY <1>1, <1>2, AnswerSteps DEF GetItem
<1>3. CASE LookupBarcode(r)
  <2>1. CASE Raise(r, "ResourceNotFoundException")
    BY <1>1, <2>1, RaiseSteps
  <2>2. CASE \E row : Answer(r, row)
    BY <1>1, <2>2, AnswerSteps
  <2> QED BY <1>3, <2>1, <2>2 DEF LookupBarcode
<1> QED BY <1>2, <1>3

-----------------------------------------------------------------------------
(* The actions of Upload.                                                  *)

\* Counting an item.
LEMMA CountedFacts ==
    ASSUME IInv, NEW r \in Request, NEW field \in {"created", "updated"}, Counted(r, field)
    PROVE  /\ job' = [job EXCEPT ![r] = job'[r]]
           /\ IsJob(job'[r])
           /\ job'[r].op = job[r].op
<1> DEFINE j == [job[r] EXCEPT !["i"] = job[r].i + 1]
           k == [j EXCEPT ![field] = job[r][field] + 1]
           l == [k EXCEPT !["past"] = Committed]
<1>1. IsJob(job[r])
  BY DEF IInv, JobsOK
<1>2. job'[r] = l /\ job' = [job EXCEPT ![r] = job'[r]]
  BY DEF IInv, JobsOK, Counted
<1>3. IsJob(j) /\ j.op = job[r].op
  BY <1>1, Field
<1> HIDE DEF j
<1>4. IsJob(k) /\ k.op = j.op
  BY <1>3, Field
<1> HIDE DEF k
<1>5. IsJob(l) /\ l.op = k.op
  BY <1>4, Field
<1> QED BY <1>2, <1>3, <1>4, <1>5

\* Uploading a workbook: rows that are found are on file or new in this upload.
LEMMA UploadSteps ==
    ASSUME IInv, NEW r \in Request, UploadProducts(r)
    PROVE  Stepped(r)
<1>1. Live(r) /\ Running(r) /\ job[r].op = "upload" /\ StoreInv
  BY DEF UploadProducts, ReceiveFile, UpsertItem, FinishUpload, At, Running, Live, IInv
<1>2. CASE ReceiveFile(r)
  <2>1. CASE \E e : Raise(r, e)
    BY <1>1, <2>1, RaiseSteps
  <2>2. ASSUME NEW items, UNCHANGED <<table, session>>,
               job' = [job EXCEPT ![r].items = items, ![r].pc = "items"]
        PROVE  Stepped(r)
    <3> DEFINE j == [job[r] EXCEPT !["items"] = items]
               k == [j EXCEPT !["pc"] = "items"]
    <3>1. IsJob(job[r])
      BY DEF IInv, JobsOK
    <3>2. job'[r] = k /\ job' = [job EXCEPT ![r] = job'[r]]
      BY <2>2 DEF IInv, JobsOK
    <3>3. IsJob(j) /\ j.op = job[r].op
      BY <3>1, Field
    <3> HIDE DEF j
    <3>4. IsJob(k) /\ k.op = j.op
      BY <3>3, Field
    <3> QED BY <1>1, <2>2, <3>2, <3>3, <3>4, GoSteps
  <2> QED BY <1>2, <2>1, <2>2 DEF ReceiveFile
<1>3. CASE UpsertItem(r)
  <2>1. CASE Raise(r, "DataError")
    BY <1>1, <2>1, RaiseSteps
  <2>2. ASSUME NEW row, NEW set, Stage(r, row, set), Mine(r, row),
               NEW field \in {"created", "updated"}, Counted(r, field)
        PROVE  Stepped(r)
    BY <1>1, <2>2, CountedFacts, StageSteps
  <2>3. Mine(r, RowOf("products", r, job[r].i))
    BY DEF Mine, RowOf
  <2>4. \A row \in Existing(r) : Mine(r, row)
    BY <1>1, SeenIsMine DEF Existing, GetBySku, RowsOf
  <2> QED BY <1>3, <2>1, <2>2, <2>3, <2>4 DEF UpsertItem
<1>4. CASE FinishUpload(r)
  BY <1>1, <1>4, GoToFacts, GoSteps DEF FinishUpload
<1> QED BY <1>2, <1>3, <1>4 DEF UploadProducts

-----------------------------------------------------------------------------
(* The whole catalog.                                                      *)

\* A client sends a request.
LEMMA SubmitSteps ==
    ASSUME IInv, NEW r \in Request, Submit(r)
    PROVE  Stepped(r)
<1>1. PICK j \in Jobs : Arrive(r, j)
  BY DEF Submit
<1>2. IsJob(j) /\ (j.op = "update" => j.pc = "start")
  BY DEF Jobs, CreateJob, UpdateJob, CategoryJob, UploadJob, GetJob, BarcodeJob, IsJob
<1> QED BY <1>1, <1>2, ArriveQuiet DEF IInv, JobsOK, Stepped, StoreStep, Arrive

\* The steps of the database and of the session managers leave the coroutine where it is.
LEMMA StoreSteps ==
    ASSUME IInv, NEW r \in Request,
           Execute(r) \/ Commit(r) \/ Discard(r) \/ DeadlockVictim(r) \/ Crash(r)
    PROVE  Stepped(r)
<1>1. StoreInv /\ job' = job /\ IsJob(job[r])
  BY DEF IInv, JobsOK, Execute, Raise, Commit, Discard, DeadlockVictim, Crash
<1>2. StoreStep
  BY <1>1, DiscardQuiet, VictimQuiet DEF StoreStep
<1>3. DOMAIN table \subseteq DOMAIN table'
  BY ViewFacts DEF Execute, Raise, Commit, Discard, DeadlockVictim, Crash
<1>4. job' = [job EXCEPT ![r] = job'[r]]
  BY <1>1 DEF IInv, JobsOK
<1>5. (job[r].op = "update" /\ job[r].pc # "start") => Mine(r, job[r].row)
  BY DEF IInv, JobsOK
<1> QED BY <1>1, <1>2, <1>3, <1>4, <1>5 DEF Stepped

\* The handler returns.
LEMMA FinishSteps ==
    ASSUME IInv, NEW r \in Request, Finish(r)
    PROVE  Stepped(r)
<1>1. PICK status : Respond(r, status) /\ Running(r) /\ job[r].pc = "done"
  BY DEF Finish, Done
<1>2. StoreStep /\ table' = table /\ job' = job
  BY <1>1, RespondQuiet DEF IInv, StoreStep, Respond
<1> QED BY <1>2 DEF IInv, JobsOK, Stepped

\* Every step keeps the inductive invariant, and refines the abstract specification.
LEMMA StepKeeps ==
    ASSUME IInv, [Next]_catalogVars
    PROVE  IInv' /\ [Abstract!Next]_Abstract!vars
<1>1. CASE UNCHANGED <<table, session, job>>
  <2>1. StoreStep
    BY <1>1 DEF StoreStep
  <2>2. JobsOK'
    BY <1>1 DEF IInv, JobsOK, Mine
  <2> QED BY <2>1, <2>2, StoreStepKeeps DEF IInv
<1>2. ASSUME NEW r \in Request, Submit(r) \/ Serve(r) \/ Crash(r)
      PROVE  IInv' /\ [Abstract!Next]_Abstract!vars
  <2>1. CASE CreateProduct(r) \/ CreateSupplier(r)
    BY <2>1, CreateSteps, SteppedKeeps DEF CreateProduct, CreateSupplier
  <2>2. CASE CreateCategory(r)
    BY <2>2, CategorySteps, SteppedKeeps
  <2>3. CASE UpdateProduct(r) \/ UpdateSupplier(r)
    BY <2>3, UpdateSteps, SteppedKeeps DEF UpdateProduct, UpdateSupplier
  <2>4. CASE GetItem(r) \/ LookupBarcode(r)
    BY <2>4, ReadSteps, SteppedKeeps
  <2>5. CASE UploadProducts(r)
    BY <2>5, UploadSteps, SteppedKeeps
  <2>6. CASE Execute(r) \/ Commit(r) \/ Discard(r) \/ DeadlockVictim(r) \/ Crash(r)
    BY <2>6, StoreSteps, SteppedKeeps
  <2>7. CASE Submit(r) \/ Finish(r)
    BY <2>7, SubmitSteps, FinishSteps, SteppedKeeps
  <2> QED BY <1>2, <2>1, <2>2, <2>3, <2>4, <2>5, <2>6, <2>7 DEF Serve
<1>3. CASE List
  BY <1>1, <1>3 DEF List, StartWalk, CountRows, SelectPage, storeVars
<1> QED BY <1>1, <1>2, <1>3 DEF Next, catalogVars

\* What is on file satisfies the inductive invariant, and is nobody's of the requests.
LEMMA InitHolds ==
    ASSUME Init
    PROVE  IInv /\ Abstract!Init
<1>1. PICK m : session = [r \in Request |-> FreshSession(m)]
  BY DEF Init
<1>2. Distinct(table) /\ \A row \in DOMAIN table : row.id \notin Request
  BY CatalogAssumption, StoreAssumption DEF Init
<1>3. StoreInv /\ Abstract!Init
  BY <1>1, <1>2, InitStore, InitMaps
<1>4. JobsOK
  BY DEF Init, JobsOK, NoJob, IsJob
<1> QED BY <1>3, <1>4 DEF IInv

\* The inductive invariant holds throughout.
THEOREM Invariance == Spec => []IInv
<1>1. Init => IInv
  BY InitHolds
<1>2. IInv /\ [Next]_catalogVars => IInv'
  BY StepKeeps
<1> QED BY <1>1, <1>2, PTL DEF Spec

\* The requests of the catalog take effect in one step or not at all.
THEOREM Refinement == Spec => ImplementsUnitOfWork
<1>1. Init => Abstract!Init
  BY InitHolds
<1>2. IInv /\ [Next]_catalogVars => [Abstract!Next]_Abstract!vars
  BY StepKeeps
<1> QED BY <1>1, <1>2, Invariance, PTL DEF Spec, ImplementsUnitOfWork, Abstract!Spec

-----------------------------------------------------------------------------
(* The second part: what rows hold, how far each coroutine has come, and   *)
(* what it has found, sent and written by then.                            *)

\* The columns that a statement sets, and the whole row.
PartOK(row, set) ==
    /\ row.table \in DOMAIN Columns
    /\ DOMAIN set \subseteq Columns[row.table]
    /\ row.table \in Kind =>
         /\ ItemValues(row.table, set)
         /\ CodeColumn[row.table] \in DOMAIN set =>
              Upper[set[CodeColumn[row.table]]] = set[CodeColumn[row.table]]
RowOK(row, value) == PartOK(row, value) /\ DOMAIN value = Columns[row.table]
RowsOK(rows) ==
    IsFiniteSet(DOMAIN rows) /\ \A row \in DOMAIN rows : RowOK(row, rows[row])

\* The coroutines; the data they were sent is of the right kind.
StoredCode == {c \in Code : Upper[c] = c}
SheetItem == [sku : StoredCode, name : Int, mrp : Int, selling_price : Int]
NoJobs == [op : {"none"}, pc : {"start"}]
CreateJobs ==
    [op : {"create"}, pc : {"start", "insert", "read", "done"}, kind : Kind,
     data : {d.data : d \in Drafts}, past : SUBSET Request]
UpdateJobs ==
    [op : {"update"}, pc : {"start", "check", "write", "read", "done"}, kind : Kind,
     row : {c.row : c \in Changes}, data : {c.data : c \in Changes}, past : SUBSET Request]
CategoryJobs ==
    [op : {"create_category"}, pc : {"start", "done"},
     data : {ProductCategory(c.name, c.slug) : c \in Categories}]
UploadJobs ==
    [op : {"upload"}, pc : {"start", "items", "done"}, file : Files, items : Seq(SheetItem),
     i : Nat, created : Nat, updated : Nat, past : SUBSET Request]
GetJobs == [op : {"get"}, pc : {"start", "done"}, row : Reads.rows]
BarcodeJobs == [op : {"barcode"}, pc : {"start", "done"}, barcode : Reads.barcodes]
JobType ==
    NoJobs \cup CreateJobs \cup UpdateJobs \cup CategoryJobs \cup UploadJobs \cup GetJobs
      \cup BarcodeJobs

Typed(r) ==
    /\ job[r] \in JobType
    /\ job[r].op = "create" =>
         DOMAIN job[r].data = Columns[job[r].kind] /\ ItemValues(job[r].kind, job[r].data)
    /\ job[r].op = "update" =>
         /\ job[r].kind = job[r].row.table
         /\ DOMAIN job[r].data \subseteq Columns[job[r].kind]
         /\ ItemValues(job[r].kind, job[r].data)
         /\ job[r].pc # "start" => job[r].row \in DOMAIN View(r)
    /\ session[r].state \in SessionState
    /\ session[r].manager \in AllManagers
    /\ session[r].answer \in {NoAnswer, OK, CREATED, 404, 409, 422, 500}
    /\ RowsOK(W(r))

\* The statement that a session waits for is the one of its operation.
NewProduct(item) ==
    Product(item.sku, Null, item.name, Null, item.mrp, item.selling_price)
StatementOK(r) ==
    LET p == session[r].pending
        j == job[r]
    IN  Waiting(r) =>
          \/ /\ j.op = "create" /\ j.pc = "read"
             /\ p.row = ItemRow(j.kind, r) /\ p.set = Stored(j.kind, j.data)
          \/ /\ j.op = "update" /\ j.pc = "read"
             /\ p.row = j.row /\ p.set = Stored(j.kind, j.data)
          \/ /\ j.op = "create_category" /\ j.pc = "done"
             /\ p.row = CategoryRow(r) /\ p.set = j.data
          \/ /\ j.op = "upload" /\ j.pc = "items" /\ j.i - 1 \in DOMAIN j.items
             /\ \/ p.row = RowOf("products", r, j.i - 1) /\ p.set = NewProduct(j.items[j.i - 1])
                \/ /\ p.row.table = "products" /\ p.row \in DOMAIN View(r)
                   /\ p.set = j.items[j.i - 1]

\* Until its statement has been executed, a creation or an update has written nothing; an
\* upload has written nothing until it has read its sheet.
NothingYet(r) ==
    /\ (Running(r) /\ job[r].pc \in {"start", "insert", "check", "write"}) => DOMAIN W(r) = {}
    /\ (Waiting(r) /\ job[r].op \in {"create", "update", "create_category"}) => DOMAIN W(r) = {}

\* The rows of a request are on file only if it has committed.
Unseen(r) ==
    session[r].state # "committed" => \A row \in DOMAIN table : row.id # r

\* The code that row is to have is not in view, unless it has come with a commit since
\* the check.
Clear(r, row, code) ==
    \A other \in DOMAIN View(r) \ {row} :
        (other.table = row.table /\ View(r)[other][CodeColumn[row.table]] = code) =>
            \E o \in Committed \ job[r].past :
                <<row.table, CodeColumn[row.table], code>> \in KeysIn(session[o].writes)
ClearOK(r) ==
    LET p == session[r].pending
        j == job[r]
    IN  /\ (Running(r) /\ j.op = "create" /\ j.pc = "insert") =>
             Clear(r, ItemRow(j.kind, r), Upper[j.data[CodeColumn[j.kind]]])
        /\ (Running(r) /\ j.op = "update" /\ j.pc = "write" /\ CodeColumn[j.kind] \in DOMAIN j.data) =>
             Clear(r, j.row, Upper[j.data[CodeColumn[j.kind]]])
        /\ (Waiting(r) /\ p.row.table \in Kind /\ CodeColumn[p.row.table] \in DOMAIN p.set) =>
             Clear(r, p.row, p.set[CodeColumn[p.row.table]])
History(r) ==
    /\ "past" \in DOMAIN job[r] => job[r].past \subseteq Committed
    /\ ClearOK(r)

\* What an upload has sent to the database: the rows it has written, and the statement
\* under way.  For every product among the items served, the row holds the last of them.
Sent(r) ==
    IF Waiting(r)
    THEN Overlay(W(r), [x \in {session[r].pending.row} |-> session[r].pending.set])
    ELSE W(r)
SentNew(r) == {row \in DOMAIN Sent(r) : row.id = r}
Holds(value, item) ==
    /\ value.sku = item.sku /\ value.name = item.name
    /\ value.mrp = item.mrp /\ value.selling_price = item.selling_price
ItemStored(rows, items, n, j) ==
    \E l \in 1 .. n :
        /\ items[l].sku = items[j].sku
        /\ \A m \in 1 .. n : items[m].sku = items[j].sku => m <= l
        /\ \E row \in DOMAIN rows : row.table = "products" /\ Holds(rows[row], items[l])

\* An upload counts the items it has served, has sent a new row for each that it counts as
\* created, and has stored the last item so far of every product.
UploadOK(r) ==
    LET j == job[r]
    IN  (j.op = "upload" /\ Live(r)) =>
          /\ j.pc = "start" =>
               /\ j.items = <<>> /\ j.i = 1 /\ j.created = 0 /\ j.updated = 0
          /\ j.pc # "start" => j.items = ParseProductExcel(j.file.rows)
          /\ j.i \in 1 .. Len(j.items) + 1
          /\ j.pc = "done" => j.i = Len(j.items) + 1
          /\ session[r].state = "returned" => j.pc = "done"
          /\ j.created + j.updated = j.i - 1
          /\ IsFiniteSet(SentNew(r)) /\ Cardinality(SentNew(r)) = j.created
          /\ \A row \in SentNew(r) : row.table = "products" => row.n \in 1 .. j.i - 1
          /\ \A n \in 1 .. j.i - 1 : ItemStored(Sent(r), j.items, j.i - 1, n)

\* All of it.
RequestOK(r) ==
    /\ Typed(r) /\ StatementOK(r) /\ NothingYet(r) /\ Unseen(r) /\ History(r) /\ UploadOK(r)

\* How many rows come no later than this one in a list.
Rank(x, rows) == Cardinality({y \in DOMAIN rows : rows[y].name <= rows[x].name})

\* A client on its way through the pages: unless it was disturbed, it has been shown each
\* of the first rows that belong to the pages so far.
WalkState == {"off", "count", "page", "done", "failed"}
WalkTyped(w) ==
    /\ w = [state |-> w.state, kind |-> w.kind, page |-> w.page, total |-> w.total,
            shown |-> w.shown, first |-> w.first, seen |-> w.seen, disturbed |-> w.disturbed]
    /\ w.state \in WalkState \ {"off"}
    /\ w.kind \in Kind
    /\ w.page \in Nat \ {0}
    /\ w.disturbed \in BOOLEAN
    /\ w.first \subseteq DOMAIN w.seen
    /\ DOMAIN w.seen \subseteq DOMAIN Listed(w.kind)
    /\ \A row \in DOMAIN w.seen : w.seen[row].name \in Int
    /\ w.state = "page" => w.total = Cardinality(DOMAIN w.seen)
ShownOK(w) ==
    /\ (w.state \in {"count", "page"} /\ ~w.disturbed) =>
         \A x \in w.first : Rank(x, w.seen) <= PageOffset(w.page, Limit) => x \in w.shown
    /\ (w.state = "done" /\ ~w.disturbed) => w.first \subseteq w.shown
WalkOK == walk = NoWalk \/ (WalkTyped(walk) /\ ShownOK(walk))

\* The second inductive invariant.
CatalogInv ==
    /\ IInv
    /\ RowsOK(table)
    /\ \A r \in Request : RequestOK(r)
    /\ WalkOK

-----------------------------------------------------------------------------
(* Operators.                                                              *)

\* Induction over the natural numbers, on a set.
LEMMA NumbersInduct ==
    ASSUME NEW S, 0 \in S, \A n \in Nat : n \in S => n + 1 \in S
    PROVE  Nat \subseteq S
<1> DEFINE R == OpToRel(<, Nat)
           U == Nat \ S
<1>1. IsWellFoundedOn(R, Nat)
  BY NatLessThanWellFounded
<1>2. \A x, y \in Nat : x < y => <<x, y>> \in R
  BY DEF OpToRel
<1> HIDE DEF R
<1>3. ASSUME U # {} PROVE FALSE
  <2>1. PICK x \in U : \A y \in U : ~(<<y, x>> \in R)
    BY <1>1, <1>3, WFMin
  <2>2. x # 0 /\ x - 1 \in Nat /\ x - 1 < x
    BY <2>1
  <2>3. x - 1 \in U
    BY <2>1, <2>2
  <2> QED BY <1>2, <2>1, <2>2, <2>3
<1> QED BY <1>3

\* A row with a product gives an item whose code is in upper case.
LEMMA ProductTyped ==
    ASSUME NEW cells \in SheetRow, IsProduct(cells)
    PROVE  ProductItem(cells) \in SheetItem
<1>1. cells.sku \in Code /\ cells.name \in Int
  BY DEF SheetRow, IsProduct, Filled
<1>2. Upper[cells.sku] \in StoredCode
  BY <1>1, ItemsAssumption DEF StoredCode
<1> DEFINE mrp == Price(cells.mrp, 0)
<1>3. mrp \in Int
  BY DEF Price, SheetRow, IsProduct
<1> HIDE DEF mrp
<1>4. Price(cells.selling, mrp) \in Int
  BY <1>3 DEF Price, SheetRow, IsProduct
<1>5. ProductItem(cells) = [sku |-> Upper[cells.sku], name |-> cells.name, mrp |-> mrp,
                            selling_price |-> Price(cells.selling, mrp)]
  BY DEF ProductItem, mrp
<1> QED BY <1>1, <1>2, <1>3, <1>4, <1>5 DEF SheetItem

\* What the parser has made of the first rows of a sheet.
ParsedUpto(f, rows, n) ==
    f = [m \in 0 .. n |->
           IF m = 0 THEN <<>>
           ELSE IF IsProduct(rows[m]) THEN Append(f[m - 1], ProductItem(rows[m]))
           ELSE f[m - 1]]

\* It makes something of every sheet.
LEMMA ParserDefined ==
    ASSUME NEW rows, Len(rows) \in Nat
    PROVE  \E f : ParsedUpto(f, rows, Len(rows))
<1> DEFINE S == {n \in Nat : \E f : ParsedUpto(f, rows, n)}
<1>1. 0 \in S
  <2> DEFINE f == [m \in 0 .. 0 |-> <<>>]
  <2>1. ParsedUpto(f, rows, 0)
    BY DEF ParsedUpto
  <2> QED BY <2>1
<1>2. ASSUME NEW n \in Nat, n \in S PROVE n + 1 \in S
  <2>1. PICK f : ParsedUpto(f, rows, n)
    BY <1>2
  <2> DEFINE last == IF IsProduct(rows[n + 1]) THEN Append(f[n], ProductItem(rows[n + 1]))
                     ELSE f[n]
             g == [m \in 0 .. n + 1 |-> IF m = n + 1 THEN last ELSE f[m]]
  <2>2. \A m \in 0 .. n : g[m] = f[m]
    OBVIOUS
  <2>3. g[n + 1] = last /\ n \in 0 .. n /\ g[n] = f[n]
    OBVIOUS
  <2>4. \A m \in 0 .. n + 1 :
          g[m] = IF m = 0 THEN <<>>
                 ELSE IF IsProduct(rows[m]) THEN Append(g[m - 1], ProductItem(rows[m]))
                 ELSE g[m - 1]
    <3> TAKE m \in 0 .. n + 1
    <3>1. CASE m = n + 1
      BY <3>1, <2>3
    <3>2. CASE m = 0
      <4>1. f[0] = <<>>
        BY <2>1 DEF ParsedUpto
      <4> QED BY <3>2, <2>2, <4>1
    <3>3. CASE m \in 1 .. n
      <4>1. m - 1 \in 0 .. n /\ m \in 0 .. n /\ m # 0
        BY <3>3
      <4>2. f[m] = IF IsProduct(rows[m]) THEN Append(f[m - 1], ProductItem(rows[m])) ELSE f[m - 1]
        BY <2>1, <4>1 DEF ParsedUpto
      <4>3. g[m] = f[m] /\ g[m - 1] = f[m - 1]
        BY <2>2, <4>1
      <4> HIDE DEF g
      <4> QED BY <4>1, <4>2, <4>3
    <3> QED BY <3>1, <3>2, <3>3
  <2>5. g = [m \in 0 .. n + 1 |-> g[m]]
    OBVIOUS
  <2> HIDE DEF g
  <2>6. ParsedUpto(g, rows, n + 1)
    BY <2>4, <2>5 DEF ParsedUpto
  <2> QED BY <2>6
<1> HIDE DEF S
<1>3. Nat \subseteq S
  BY <1>1, <1>2, NumbersInduct
<1> QED BY <1>3 DEF S

\* The parser makes items of a sheet.
LEMMA ParserTyped ==
    ASSUME NEW rows \in Seq(SheetRow)
    PROVE  ParseProductExcel(rows) \in Seq(SheetItem)
<1> DEFINE parsed == CHOOSE f : ParsedUpto(f, rows, Len(rows))
<1>1. ParsedUpto(parsed, rows, Len(rows))
  BY ParserDefined
<1>2. ParseProductExcel(rows) = parsed[Len(rows)]
  BY DEF ParseProductExcel, ParsedUpto
<1> HIDE DEF parsed
<1> DEFINE S == {n \in Nat : n <= Len(rows) => parsed[n] \in Seq(SheetItem)}
<1>3. 0 \in S
  BY <1>1 DEF ParsedUpto
<1>4. ASSUME NEW n \in Nat, n \in S PROVE n + 1 \in S
  <2> SUFFICES ASSUME n + 1 <= Len(rows) PROVE parsed[n + 1] \in Seq(SheetItem)
    OBVIOUS
  <2>1. rows[n + 1] \in SheetRow /\ parsed[n] \in Seq(SheetItem)
    BY <1>4
  <2>2. n + 1 \in 0 .. Len(rows) /\ n + 1 # 0 /\ (n + 1) - 1 = n
    OBVIOUS
  <2>3. parsed[n + 1] = IF IsProduct(rows[n + 1])
                        THEN Append(parsed[n], ProductItem(rows[n + 1])) ELSE parsed[n]
    BY <1>1, <2>2 DEF ParsedUpto
  <2>4. IsProduct(rows[n + 1]) => ProductItem(rows[n + 1]) \in SheetItem
    BY <2>1, ProductTyped
  <2> QED BY <2>1, <2>3, <2>4
<1> HIDE DEF S
<1>5. Nat \subseteq S
  BY <1>3, <1>4, NumbersInduct
<1> QED BY <1>2, <1>5 DEF S

\* Codes are entered in upper case, and only into the column for codes.
LEMMA StoredFacts ==
    ASSUME NEW t \in Kind, NEW data, DOMAIN data \subseteq Columns[t], ItemValues(t, data),
           NEW row, row.table = t
    PROVE  /\ DOMAIN Stored(t, data) = DOMAIN data
           /\ PartOK(row, Stored(t, data))
           /\ CodeColumn[t] \in DOMAIN data =>
                Stored(t, data)[CodeColumn[t]] = Upper[data[CodeColumn[t]]]
<1>1. t \in DOMAIN Columns /\ CodeColumn[t] # "name"
  BY DEF Kind, Columns, CodeColumn
<1>2. CASE CodeColumn[t] \in DOMAIN data
  <2> DEFINE c == CodeColumn[t]
  <2>1. data[c] \in Code
    BY <1>2 DEF ItemValues
  <2>2. Upper[data[c]] \in Code /\ Upper[Upper[data[c]]] = Upper[data[c]]
    BY <2>1, ItemsAssumption
  <2>3. Stored(t, data) = [data EXCEPT ![c] = Upper[data[c]]]
    BY <1>2 DEF Stored
  <2>4. /\ DOMAIN Stored(t, data) = DOMAIN data
        /\ Stored(t, data)[c] = Upper[data[c]]
        /\ "name" \in DOMAIN data => Stored(t, data)["name"] = data["name"]
    BY <1>1, <1>2, <2>3
  <2>5. ItemValues(t, Stored(t, data))
    BY <2>2, <2>4 DEF ItemValues
  <2> QED BY <1>1, <2>2, <2>4, <2>5 DEF PartOK
<1>3. CASE CodeColumn[t] \notin DOMAIN data
  <2>1. Stored(t, data) = data
    BY <1>3 DEF Stored
  <2> QED BY <1>1, <1>3, <2>1 DEF PartOK
<1> QED BY <1>2, <1>3

\* Columns set on a row give a row.
LEMMA OverlayRow ==
    ASSUME NEW row, NEW value, NEW set, RowOK(row, value), PartOK(row, set)
    PROVE  RowOK(row, Overlay(value, set))
<1> DEFINE v == Overlay(value, set)
<1>1. /\ DOMAIN v = DOMAIN value \cup DOMAIN set
      /\ \A c \in DOMAIN set : v[c] = set[c]
      /\ \A c \in DOMAIN value \ DOMAIN set : v[c] = value[c]
  BY OverlayFacts
<1> HIDE DEF v
<1>2. DOMAIN v = Columns[row.table]
  BY <1>1 DEF RowOK, PartOK
<1>3. row.table \in Kind => ItemValues(row.table, v)
  BY <1>1 DEF RowOK, PartOK, ItemValues
<1>4. (row.table \in Kind /\ CodeColumn[row.table] \in DOMAIN v) =>
         Upper[v[CodeColumn[row.table]]] = v[CodeColumn[row.table]]
  BY <1>1 DEF RowOK, PartOK
<1> QED BY <1>2, <1>3, <1>4 DEF RowOK, PartOK, v

\* The rows a session sees are rows.
LEMMA ViewOK ==
    ASSUME RowsOK(table), NEW r \in Request, RowsOK(W(r))
    PROVE  RowsOK(View(r))
<1>1. IsFiniteSet(DOMAIN View(r))
  BY ViewFacts, FS_Union DEF RowsOK
<1> QED BY <1>1, ViewFacts DEF RowsOK

\* What stands in the code column of an item.
LEMMA CodeFacts ==
    ASSUME NEW row, NEW value, RowOK(row, value), row.table \in Kind
    PROVE  /\ CodeColumn[row.table] \in DOMAIN value
           /\ value[CodeColumn[row.table]] \in StoredCode
           /\ value[CodeColumn[row.table]] # Null
           /\ "name" \in DOMAIN value /\ value.name \in Int
           /\ <<row.table, CodeColumn[row.table], value[CodeColumn[row.table]]>>
                \in KeysOf(row, value)
<1>1. /\ CodeColumn[row.table] \in Columns[row.table] /\ "name" \in Columns[row.table]
      /\ CodeColumn[row.table] \in Unique[row.table]
  BY DEF Kind, Columns, CodeColumn, Unique
<1>2. /\ value[CodeColumn[row.table]] \in Code
      /\ Upper[value[CodeColumn[row.table]]] = value[CodeColumn[row.table]]
      /\ value.name \in Int
  BY <1>1 DEF RowOK, PartOK, ItemValues
<1>3. value[CodeColumn[row.table]] # Null
  BY <1>2, ItemsAssumption
<1> QED BY <1>1, <1>2, <1>3 DEF RowOK, StoredCode, KeysOf

\* Rows that are distinct have distinct codes.
LEMMA CodesDistinct ==
    ASSUME NEW rows, RowsOK(rows), Distinct(rows),
           NEW a \in DOMAIN rows, NEW b \in DOMAIN rows,
           a.table \in Kind, b.table = a.table,
           rows[a][CodeColumn[a.table]] = rows[b][CodeColumn[a.table]]
    PROVE  a = b
<1>1. RowOK(a, rows[a]) /\ RowOK(b, rows[b])
  BY DEF RowsOK
<1>2. <<a.table, CodeColumn[a.table], rows[a][CodeColumn[a.table]]>>
        \in KeysOf(a, rows[a]) \cap KeysOf(b, rows[b])
  BY <1>1, CodeFacts
<1> QED BY <1>2 DEF Distinct

\* The statuses that the catalog answers with.
LEMMA Statuses ==
    /\ StatusOf("ResourceNotFoundException") = 404
    /\ StatusOf("ConflictException") = 409
    /\ StatusOf("ValidationException") = 422
    /\ StatusOf("MissingGreenlet") = 500
    /\ StatusOf("BadZipFile") = 500
    /\ StatusOf("DataError") = 500
    /\ StatusOf("IntegrityError") = 500
    /\ StatusOf("DBAPIError") = 500
BY DEF StatusOf, DefaultCode, HandlerStatus, StatusOfCode, StatusCodeMap

-----------------------------------------------------------------------------
(* What a step of one request leaves of the others.                        *)

\* A step of r: the others stay as they are, and see no less.
Moves(r) ==
    /\ \A q \in Request \ {r} : session'[q] = session[q] /\ job'[q] = job[q]
    /\ session[r].state # "committed"
    /\ table' = table \/ (Commit(r) /\ session'[r].state = "committed" /\ W(r)' = W(r))
    /\ \A q \in Request : DOMAIN View(q) \subseteq DOMAIN View(q)'
    /\ walk' = walk

\* What the others see is what they have seen, or was written by r.
LEMMA ViewMoves ==
    ASSUME NEW r \in Request, NEW q \in Request \ {r}, Moves(r)
    PROVE  \A x \in DOMAIN View(q)' :
              \/ x \in DOMAIN View(q) /\ View(q)'[x] = View(q)[x]
              \/ /\ Commit(r) /\ session'[r].state = "committed" /\ W(r)' = W(r)
                 /\ x \in DOMAIN W(r) /\ View(q)'[x] = W(r)[x]
<1>1. W(q)' = W(q) /\ session'[q] = session[q]
  BY DEF Moves, W
<1>2. CASE table' = table
  BY <1>1, <1>2 DEF View, W
<1>3. CASE Commit(r) /\ session'[r].state = "committed" /\ W(r)' = W(r)
  <2>1. table' = View(r)
    BY <1>3 DEF Commit
  <2>2. View(q)' = Overlay(View(r), W(q))
    BY <1>1, <2>1 DEF View, W
  <2>3. PICK f, g : f = View(r) /\ g = W(q)
    OBVIOUS
  <2>4. View(q)' = Overlay(f, g)
    BY <2>2, <2>3
  <2>5. /\ DOMAIN Overlay(f, g) = DOMAIN f \cup DOMAIN g
        /\ \A x \in DOMAIN g : Overlay(f, g)[x] = g[x]
        /\ \A x \in DOMAIN f \ DOMAIN g : Overlay(f, g)[x] = f[x]
    BY OverlayFacts
  <2>6. ASSUME NEW x \in DOMAIN View(q)', x \in DOMAIN W(q)
        PROVE  x \in DOMAIN View(q) /\ View(q)'[x] = View(q)[x]
    BY <2>3, <2>4, <2>5, <2>6, ViewFacts
  <2>7. ASSUME NEW x \in DOMAIN View(q)', x \notin DOMAIN W(q), x \in DOMAIN W(r)
        PROVE  View(q)'[x] = W(r)[x]
    BY <2>3, <2>4, <2>5, <2>7, ViewFacts
  <2>8. ASSUME NEW x \in DOMAIN View(q)', x \notin DOMAIN W(q), x \notin DOMAIN W(r)
        PROVE  x \in DOMAIN View(q) /\ View(q)'[x] = View(q)[x]
    <3>1. x \in DOMAIN table \ DOMAIN W(r) /\ View(q)'[x] = View(r)[x]
      BY <2>3, <2>4, <2>5, <2>8, ViewFacts
    <3> QED BY <2>8, <3>1, ViewFacts
  <2> QED BY <1>3, <2>6, <2>7, <2>8
<1> QED BY <1>2, <1>3 DEF Moves

\* What had committed stays so.
LEMMA CommittedMoves ==
    ASSUME NEW r \in Request, Moves(r)
    PROVE  /\ Committed \subseteq Committed'
           /\ \A o \in Committed : session'[o].writes = session[o].writes
           /\ Commit(r) => r \notin Committed
<1>1. \A o \in Committed : o \in Request \ {r} /\ session'[o] = session[o]
  BY DEF Moves, Committed
<1> QED BY <1>1 DEF Committed

\* A code that is clear stays clear: what comes into view comes with a commit.
LEMMA ClearLasts ==
    ASSUME NEW r \in Request, NEW q \in Request \ {r}, Moves(r), RowsOK(W(r)),
           job[q].past \subseteq Committed,
           NEW row, row.table \in Kind, NEW code, Clear(q, row, code)
    PROVE  Clear(q, row, code)'
<1> DEFINE c == CodeColumn[row.table]
           key == <<row.table, c, code>>
<1>1. SUFFICES ASSUME NEW other \in DOMAIN View(q)', other # row, other.table = row.table,
                      View(q)'[other][c] = code
               PROVE  \E o \in Committed' \ job'[q].past : key \in KeysIn(session'[o].writes)
  BY DEF Clear
<1>2. job'[q] = job[q]
  BY DEF Moves
<1>3. CASE other \in DOMAIN View(q) /\ View(q)'[other] = View(q)[other]
  <2>1. PICK o \in Committed \ job[q].past : key \in KeysIn(session[o].writes)
    BY <1>1, <1>3 DEF Clear
  <2> QED BY <1>2, <2>1, CommittedMoves
<1>4. CASE /\ Commit(r) /\ session'[r].state = "committed" /\ W(r)' = W(r)
           /\ other \in DOMAIN W(r) /\ View(q)'[other] = W(r)[other]
  <2>1. r \in Committed' \ job'[q].past
    BY <1>2, <1>4, CommittedMoves DEF Committed
  <2>2. RowOK(other, W(r)[other])
    BY <1>4 DEF RowsOK
  <2>3. key \in KeysOf(other, W(r)[other])
    BY <1>1, <1>4, <2>2, CodeFacts
  <2>4. key \in KeysIn(W(r))
    BY <1>4, <2>3 DEF KeysIn
  <2> QED BY <1>4, <2>1, <2>4 DEF W
<1> QED BY <1>1, <1>3, <1>4, ViewMoves

\* The jobs by their operations.
LEMMA JobFacts ==
    ASSUME NEW r \in Request, Typed(r)
    PROVE  /\ job[r].op = "none" => job[r] \in NoJobs
           /\ job[r].op = "create" => job[r] \in CreateJobs
           /\ job[r].op = "update" => job[r] \in UpdateJobs
           /\ job[r].op = "create_category" => job[r] \in CategoryJobs
           /\ job[r].op = "upload" => job[r] \in UploadJobs
           /\ job[r].op = "get" => job[r] \in GetJobs
           /\ job[r].op = "barcode" => job[r] \in BarcodeJobs
BY DEF Typed, JobType, NoJobs, CreateJobs, UpdateJobs, CategoryJobs, UploadJobs, GetJobs,
       BarcodeJobs

\* The other requests are where they were.
LEMMA OtherKeeps ==
    ASSUME CatalogInv, NEW r \in Request, NEW q \in Request \ {r}, Moves(r)
    PROVE  RequestOK(q)'
<1>1. /\ session'[q] = session[q] /\ job'[q] = job[q] /\ W(q)' = W(q)
      /\ DOMAIN View(q) \subseteq DOMAIN View(q)'
  BY DEF Moves, W
<1>2. RequestOK(q) /\ RowsOK(W(r)) /\ OwnWork
  BY DEF CatalogInv, RequestOK, Typed, IInv, StoreInv
<1>3. /\ Waiting(q)' = Waiting(q) /\ Running(q)' = Running(q) /\ Live(q)' = Live(q)
  BY <1>1 DEF Waiting, Running, Live
<1>4. Typed(q)'
  BY <1>1, <1>2 DEF RequestOK, Typed
<1>5. StatementOK(q)'
  BY <1>1, <1>2, <1>3 DEF RequestOK, StatementOK
<1>6. NothingYet(q)'
  BY <1>1, <1>2, <1>3 DEF RequestOK, NothingYet
<1>7. Unseen(q)'
  <2> SUFFICES ASSUME session[q].state # "committed", NEW row \in DOMAIN table'
               PROVE  row.id # q
    BY <1>1 DEF Unseen
  <2>1. CASE row \in DOMAIN table
    BY <2>1, <1>2 DEF RequestOK, Unseen
  <2>2. CASE Commit(r) /\ row \notin DOMAIN table
    <3>1. row \in DOMAIN W(r)
      BY <2>2, ViewFacts DEF Commit
    <3>2. row.id = r
      BY <1>2, <2>2, <3>1 DEF OwnWork, Mine
    <3> QED BY <3>2
  <2> QED BY <2>1, <2>2 DEF Moves
<1>8. History(q)'
  <2>1. "past" \in DOMAIN job[q] => job[q].past \subseteq Committed
    BY <1>2 DEF RequestOK, History
  <2>2. \A x, y : (x.table \in Kind /\ "past" \in DOMAIN job[q] /\ Clear(q, x, y)) => Clear(q, x, y)'
    BY <1>2, <2>1, ClearLasts
  <2>3. PICK p : p = session[q].pending
    OBVIOUS
  <2>4. PICK j : j = job[q]
    OBVIOUS
  <2>5. session'[q].pending = p /\ job'[q] = j
    BY <1>1, <2>3, <2>4
  <2>6. Typed(q) /\ StatementOK(q) /\ ClearOK(q)
    BY <1>2 DEF RequestOK, History
  <2>7. ASSUME Running(q), j.op = "create", j.pc = "insert"
        PROVE  Clear(q, ItemRow(j.kind, q), Upper[j.data[CodeColumn[j.kind]]])'
    <3>1. j.kind \in Kind /\ "past" \in DOMAIN j
      BY <2>4, <2>6, <2>7, JobFacts DEF CreateJobs
    <3>2. ItemRow(j.kind, q).table = j.kind
      BY DEF ItemRow, RowOf
    <3>3. Clear(q, ItemRow(j.kind, q), Upper[j.data[CodeColumn[j.kind]]])
      BY <2>4, <2>6, <2>7 DEF ClearOK
    <3> QED BY <2>2, <2>4, <3>1, <3>2, <3>3
  <2>8. ASSUME Running(q), j.op = "update", j.pc = "write", CodeColumn[j.kind] \in DOMAIN j.data
        PROVE  Clear(q, j.row, Upper[j.data[CodeColumn[j.kind]]])'
    <3>1. j.kind \in Kind /\ "past" \in DOMAIN j /\ j.row.table = j.kind
      BY <2>4, <2>6, <2>8, JobFacts DEF UpdateJobs, Typed
    <3>2. Clear(q, j.row, Upper[j.data[CodeColumn[j.kind]]])
      BY <2>4, <2>6, <2>8 DEF ClearOK
    <3> QED BY <2>2, <2>4, <3>1, <3>2
  <2>9. ASSUME Waiting(q), p.row.table \in Kind, CodeColumn[p.row.table] \in DOMAIN p.set
        PROVE  Clear(q, p.row, p.set[CodeColumn[p.row.table]])'
    <3>1. "past" \in DOMAIN job[q]
      <4>1. p.row.table # "product_categories"
        BY <2>9 DEF Kind
      <4>2. job[q].op \in {"create", "update", "upload"}
        BY <2>3, <2>6, <2>9, <4>1 DEF StatementOK, CategoryRow, RowOf
      <4> QED BY <2>6, <4>2, JobFacts DEF CreateJobs, UpdateJobs, UploadJobs
    <3>2. Clear(q, p.row, p.set[CodeColumn[p.row.table]])
      BY <2>3, <2>6, <2>9 DEF ClearOK
    <3> QED BY <2>2, <2>9, <3>1, <3>2
  <2>10. ClearOK(q)'
    BY <1>3, <2>5, <2>7, <2>8, <2>9 DEF ClearOK
  <2>11. Committed \subseteq Committed'
    BY CommittedMoves
  <2> QED BY <1>1, <2>1, <2>10, <2>11 DEF History
<1>9. UploadOK(q)'
  <2>1. Sent(q)' = Sent(q)
    BY <1>1, <1>3 DEF Sent
  <2>2. SentNew(q)' = SentNew(q)
    BY <2>1 DEF SentNew
  <2> QED BY <1>1, <1>2, <1>3, <2>1, <2>2 DEF RequestOK, UploadOK
<1> QED BY <1>4, <1>5, <1>6, <1>7, <1>8, <1>9 DEF RequestOK

-----------------------------------------------------------------------------
(* The ways in which a step of r leaves r.                                 *)

\* A step that writes nothing, and leaves the other coroutines alone.
LEMMA QuietMoves ==
    ASSUME StoreInv, NEW r \in Request, Quiet(r),
           \A q \in Request \ {r} : job'[q] = job[q], walk' = walk
    PROVE  Moves(r) /\ W(r)' = W(r) /\ View(r)' = View(r)
<1>1. \A q \in Request \ {r} : session'[q] = session[q]
  BY DEF Quiet, StoreInv, Sessions
<1>2. session[r].state # "committed" /\ table' = table /\ session'[r].writes = session[r].writes
  BY DEF Quiet
<1>3. \A q \in Request : View(q)' = View(q)
  BY <1>1, <1>2 DEF View
<1> QED BY <1>1, <1>2, <1>3 DEF Moves, W

\* A step of the coroutine alone.
LEMMA GoMoves ==
    ASSUME NEW r \in Request, Running(r), UNCHANGED <<table, session>>,
           \A q \in Request \ {r} : job'[q] = job[q], walk' = walk
    PROVE  Moves(r) /\ W(r)' = W(r) /\ View(r)' = View(r)
BY DEF Moves, Running, View, W

\* A statement that is executed.
LEMMA ExecuteMoves ==
    ASSUME StoreInv, NEW r \in Request, Execute(r), ~Duplicate(r), walk' = walk
    PROVE  Moves(r)
<1>1. /\ table' = table /\ job' = job /\ session[r].state = "open"
      /\ \A o \in Request \ {r} : session'[o] = session[o]
  BY ExecuteWrites
<1>2. \A q \in Request : DOMAIN View(q) \subseteq DOMAIN View(q)'
  BY ViewsGrow DEF StoreStep
<1> QED BY <1>1, <1>2 DEF Moves

\* A commit.
LEMMA CommitMoves ==
    ASSUME StoreInv, NEW r \in Request, Commit(r), walk' = walk
    PROVE  /\ Moves(r) /\ table' = View(r) /\ job' = job
           /\ session'[r].state = "committed" /\ W(r)' = W(r)
           /\ session'[r].manager = session[r].manager
           /\ session'[r].answer = session[r].answer
<1>1. /\ job' = job /\ session[r].state = "returned" /\ table' = View(r)
      /\ \A o \in Request \ {r} : session'[o] = session[o]
      /\ session'[r] = [session[r] EXCEPT !.state = "committed"]
  BY DEF Commit, StoreInv, Sessions
<1>2. /\ session'[r].state = "committed" /\ session'[r].writes = session[r].writes
      /\ session'[r].manager = session[r].manager
      /\ session'[r].answer = session[r].answer
  BY <1>1 DEF StoreInv, Sessions, IsSession
<1>3. \A q \in Request : DOMAIN View(q) \subseteq DOMAIN View(q)'
  BY ViewsGrow DEF StoreStep
<1> QED BY <1>1, <1>2, <1>3 DEF Moves, W

\* All the requests together.
LEMMA Together ==
    ASSUME CatalogInv, IInv', NEW r \in Request, Moves(r), RequestOK(r)'
    PROVE  CatalogInv'
<1>1. \A q \in Request : RequestOK(q)'
  BY OtherKeeps
<1>2. RowsOK(table)'
  <2>1. RowsOK(View(r))
    BY ViewOK DEF CatalogInv, RequestOK, Typed
  <2> QED BY <2>1 DEF Moves, Commit, CatalogInv
<1>3. DOMAIN table \subseteq DOMAIN table'
  BY ViewFacts DEF Moves, Commit
<1>4. WalkOK'
  <2>1. walk' = walk
    BY DEF Moves
  <2>2. \A t : DOMAIN Listed(t) \subseteq DOMAIN Listed(t)'
    BY <1>3 DEF Listed
  <2> QED BY <2>1, <2>2 DEF CatalogInv, WalkOK, WalkTyped, ShownOK
<1> QED BY <1>1, <1>2, <1>4 DEF CatalogInv

\* A code stays clear for r itself as long as r sees the same and has checked nothing anew.
LEMMA ClearKept ==
    ASSUME NEW r \in Request, NEW row, NEW code, Clear(r, row, code), Moves(r),
           View(r)' = View(r), job'[r].past = job[r].past
    PROVE  Clear(r, row, code)'
BY CommittedMoves DEF Clear

\* A request that is over: its statements and its codes no longer matter.
LEMMA OverKeeps ==
    ASSUME CatalogInv, NEW r \in Request, Moves(r), W(r)' = W(r), job'[r] = job[r],
           session'[r].state \in {"failed", "discarded", "committed"},
           session'[r].manager = session[r].manager,
           session'[r].answer \in {NoAnswer, OK, CREATED, 404, 409, 422, 500}
    PROVE  RequestOK(r)'
<1>1. ~Live(r)' /\ ~Waiting(r)' /\ ~Running(r)'
  BY DEF Live, Waiting, Running
<1>2. DOMAIN View(r) \subseteq DOMAIN View(r)' /\ RequestOK(r)
  BY DEF Moves, CatalogInv
<1>3. Typed(r)'
  BY <1>2 DEF RequestOK, Typed, SessionState
<1>4. StatementOK(r)' /\ NothingYet(r)' /\ UploadOK(r)'
  BY <1>1 DEF StatementOK, NothingYet, UploadOK
<1>5. Unseen(r)'
  <2>1. CASE table' = table
    BY <1>2, <2>1 DEF Moves, RequestOK, Unseen
  <2>2. CASE session'[r].state = "committed"
    BY <2>2 DEF Unseen
  <2> QED BY <2>1, <2>2 DEF Moves
<1>6. History(r)'
  BY <1>1, <1>2, CommittedMoves DEF RequestOK, History, ClearOK
<1> QED BY <1>3, <1>4, <1>5, <1>6 DEF RequestOK

\* A request that fails.
LEMMA RaiseEnds ==
    ASSUME CatalogInv, NEW r \in Request, Live(r), NEW e, Raise(r, e), walk' = walk,
           StatusOf(e) \in {404, 409, 422, 500}
    PROVE  Moves(r) /\ RequestOK(r)'
<1>1. StoreInv
  BY DEF CatalogInv, IInv
<1>2. Quiet(r) /\ table' = table /\ job' = job
  BY <1>1, RaiseQuiet DEF Raise
<1>3. Moves(r) /\ W(r)' = W(r)
  BY <1>1, <1>2, QuietMoves
<1>4. session'[r] = [session[r] EXCEPT !.state = "failed", !.answer = StatusOf(e), !.error = e]
  BY <1>1 DEF Raise, StoreInv, Sessions
<1>5. /\ session'[r].state = "failed" /\ session'[r].manager = session[r].manager
      /\ session'[r].answer = StatusOf(e)
  <2>1. IsSession(session[r])
    BY <1>1 DEF StoreInv, Sessions
  <2>2. session'[r] = Failed(session[r], "failed", StatusOf(e), e)
    BY <1>4 DEF Failed
  <2>3. PICK x : x = StatusOf(e)
    OBVIOUS
  <2>4. session'[r] =
          [state |-> "failed", manager |-> session[r].manager, writes |-> session[r].writes,
           pending |-> session[r].pending, answer |-> x, error |-> e]
    BY <2>1, <2>2, <2>3, Replaced
  <2> QED BY <2>3, <2>4
<1> QED BY <1>2, <1>3, <1>5, OverKeeps

\* The positions before the statement of a creation or an update.
EarlyPc == {"start", "insert", "check", "write"}

\* A coroutine that goes on without a statement.
LEMMA GoEnds ==
    ASSUME CatalogInv, NEW r \in Request, Running(r), UNCHANGED <<table, session>>,
           \A q \in Request \ {r} : job'[q] = job[q], walk' = walk,
           Typed(r)', History(r)', UploadOK(r)',
           job'[r].pc \in EarlyPc => job[r].pc \in EarlyPc
    PROVE  Moves(r) /\ RequestOK(r)'
<1>1. Moves(r) /\ W(r)' = W(r)
  BY GoMoves
<1>2. ~Waiting(r)' /\ Running(r)'
  BY DEF Running, Waiting
<1>3. RequestOK(r)
  BY DEF CatalogInv
<1>4. NothingYet(r)'
  BY <1>1, <1>2, <1>3 DEF RequestOK, NothingYet, EarlyPc
<1>5. Unseen(r)'
  BY <1>3 DEF RequestOK, Unseen
<1>6. StatementOK(r)'
  BY <1>2 DEF StatementOK
<1> QED BY <1>1, <1>4, <1>5, <1>6 DEF RequestOK

\* The code of a creation or of an update is clear when it has been checked, or is the
\* one that the row has.
LEMMA NowClear ==
    ASSUME NEW r \in Request, NEW row, NEW code, View(r)' = View(r),
           \A other \in DOMAIN View(r) \ {row} :
              ~(other.table = row.table /\ View(r)[other][CodeColumn[row.table]] = code)
    PROVE  Clear(r, row, code)'
BY DEF Clear

\* A coroutine that sends its statement, with what its check says of the code.
LEMMA StageEnds ==
    ASSUME CatalogInv, NEW r \in Request, NEW row, NEW set, Running(r), Stage(r, row, set),
           Mine(r, row), \A q \in Request \ {r} : job'[q] = job[q], walk' = walk,
           Typed(r)', StatementOK(r)', UploadOK(r)',
           job'[r].pc \notin EarlyPc,
           job'[r].op \in {"create", "update", "create_category"} => job[r].pc \in EarlyPc,
           "past" \in DOMAIN job'[r] => job'[r].past \subseteq Committed,
           (row.table \in Kind /\ CodeColumn[row.table] \in DOMAIN set) =>
              Clear(r, row, set[CodeColumn[row.table]])'
    PROVE  Moves(r) /\ RequestOK(r)'
<1>1. StoreInv /\ RequestOK(r)
  BY DEF CatalogInv, IInv
<1>2. Moves(r) /\ W(r)' = W(r) /\ View(r)' = View(r) /\ table' = table
  BY <1>1, StageQuiet, QuietMoves DEF Stage
<1>3. session'[r] = [session[r] EXCEPT !.pending = [row |-> row, set |-> set]]
  BY <1>1 DEF Stage, StoreInv, Sessions
<1>4. /\ session'[r].pending.row = row /\ session'[r].pending.set = set
      /\ session'[r].state = "open"
  BY <1>1, <1>3 DEF StoreInv, Sessions, IsSession, Running
<1>5. NothingYet(r)'
  BY <1>1, <1>2 DEF RequestOK, NothingYet, EarlyPc
<1>6. Unseen(r)'
  BY <1>1, <1>2, <1>4 DEF RequestOK, Unseen, Running
<1>7. History(r)'
  <2>1. ClearOK(r)'
    BY <1>4 DEF ClearOK, EarlyPc
  <2> QED BY <1>2, <2>1, CommittedMoves DEF History
<1> QED BY <1>2, <1>5, <1>6, <1>7 DEF RequestOK

-----------------------------------------------------------------------------
(* Creations, updates and reads.                                           *)

\* A step of the coroutine keeps its types.
LEMMA TypedNext ==
    ASSUME CatalogInv, NEW r \in Request, W(r)' = W(r), View(r)' = View(r),
           session'[r].state = "open", session'[r].manager = session[r].manager,
           session'[r].answer = session[r].answer, job'[r] \in JobType,
           job'[r].op = job[r].op,
           job[r].op \in {"create", "update"} =>
              job'[r].kind = job[r].kind /\ job'[r].data = job[r].data,
           job[r].op = "update" =>
              /\ job'[r].row = job[r].row
              /\ job'[r].pc # "start" => job[r].row \in DOMAIN View(r)
    PROVE  Typed(r)'
<1>1. Typed(r)
  BY DEF CatalogInv, RequestOK
<1> QED BY <1>1 DEF Typed, SessionState

\* Sending a statement changes nothing of a session but the statement.
LEMMA StageSession ==
    ASSUME StoreInv, NEW r \in Request, NEW row, NEW set, Running(r), Stage(r, row, set)
    PROVE  /\ session'[r].state = "open" /\ session'[r].manager = session[r].manager
           /\ session'[r].answer = session[r].answer /\ W(r)' = W(r) /\ View(r)' = View(r)
           /\ session'[r].pending.row = row /\ session'[r].pending.set = set
           /\ table' = table
           /\ session'[r].pending = [row |-> row, set |-> set]
<1>1. session'[r] = [session[r] EXCEPT !.pending = [row |-> row, set |-> set]] /\ table' = table
  BY DEF Stage, StoreInv, Sessions
<1>2. /\ session'[r].writes = session[r].writes /\ session'[r].state = "open"
      /\ session'[r].manager = session[r].manager /\ session'[r].answer = session[r].answer
      /\ session'[r].pending = [row |-> row, set |-> set]
  BY <1>1 DEF StoreInv, Sessions, IsSession, Running
<1> QED BY <1>1, <1>2 DEF W, View

\* What the check of a code has found.
LEMMA ChecksClear ==
    ASSUME NEW r \in Request, NEW t \in Kind, NEW code, NEW row, row.table = t,
           ~Exists(r, t, code, {}) \/ ~Exists(r, t, code, {row})
    PROVE  \A other \in DOMAIN View(r) \ {row} :
              ~(other.table = t /\ View(r)[other][CodeColumn[t]] = Upper[code])
BY DEF Kind, CodeColumn, Exists, ExistsBySku, ExistsByCode, RowsOf

\* Reading the answer ends a coroutine, or fails.
LEMMA AnswerEnds ==
    ASSUME CatalogInv, NEW r \in Request, NEW row, Running(r), Answer(r, row), walk' = walk,
           job[r].op \in {"create", "update", "get", "barcode"},
           job[r].op = "update" => job[r].pc # "start"
    PROVE  Moves(r) /\ RequestOK(r)'
<1>1. Live(r)
  BY DEF Running, Live
<1>2. CASE Raise(r, "ResourceNotFoundException") \/ Raise(r, "MissingGreenlet")
  BY <1>1, <1>2, RaiseEnds, Statuses
<1>3. CASE GoTo(r, "done") /\ UNCHANGED <<table, session>>
  <2>1. /\ job'[r] = [job[r] EXCEPT !.pc = "done"]
        /\ \A q \in Request \ {r} : job'[q] = job[q]
    BY <1>3 DEF GoTo, CatalogInv, IInv, JobsOK
  <2>2. Typed(r) /\ History(r)
    BY DEF CatalogInv, RequestOK
  <2>3. /\ job'[r] \in JobType /\ job'[r].op = job[r].op /\ job'[r].pc = "done"
        /\ "past" \in DOMAIN job'[r] => "past" \in DOMAIN job[r] /\ job'[r].past = job[r].past
    BY <2>1, <2>2, JobFacts DEF JobType, CreateJobs, UpdateJobs, GetJobs, BarcodeJobs
  <2>4. job[r].op \in {"create", "update"} =>
          job'[r].kind = job[r].kind /\ job'[r].data = job[r].data
    BY <2>1, <2>2, JobFacts DEF CreateJobs, UpdateJobs
  <2>5. job[r].op = "update" => job'[r].row = job[r].row /\ job[r].row \in DOMAIN View(r)
    BY <2>1, <2>2, JobFacts DEF UpdateJobs, Typed
  <2>6. W(r)' = W(r) /\ View(r)' = View(r) /\ session' = session /\ session[r].state = "open"
    BY <1>3 DEF W, View, Running
  <2>7. Typed(r)'
    BY <2>3, <2>4, <2>5, <2>6, TypedNext
  <2>8. History(r)'
    <3>1. ~Waiting(r)' /\ Committed' = Committed
      BY <2>6 DEF Running, Waiting, Committed
    <3> QED BY <2>2, <2>3, <3>1 DEF History, ClearOK
  <2>9. UploadOK(r)'
    BY <2>3 DEF UploadOK
  <2> QED BY <1>3, <2>1, <2>3, <2>7, <2>8, <2>9, GoEnds DEF EarlyPc
<1> QED BY <1>2, <1>3 DEF Answer

\* Creating a product or a supplier.
LEMMA CreateEnds ==
    ASSUME CatalogInv, NEW r \in Request, NEW t \in Kind, walk' = walk,
           CheckCode(r, t) \/ Insert(r, t) \/ ReadNew(r, t)
    PROVE  Moves(r) /\ RequestOK(r)'
<1>1. /\ Live(r) /\ Running(r) /\ job[r].op = "create" /\ job[r].kind = t
      /\ session[r].state = "open"
  BY DEF CheckCode, Insert, ReadNew, At, Running, Live
<1>2. StoreInv /\ Typed(r) /\ History(r) /\ job = [o \in Request |-> job[o]]
  BY DEF CatalogInv, RequestOK, IInv, JobsOK
<1>3. job[r] \in CreateJobs
  BY <1>1, <1>2, JobFacts
<1> DEFINE code == job[r].data[CodeColumn[t]]
<1>4. CASE CheckCode(r, t)
  <2>1. CASE Raise(r, "ConflictException")
    BY <1>1, <2>1, RaiseEnds, Statuses
  <2>2. CASE /\ ~Exists(r, t, code, {})
             /\ job' = [job EXCEPT ![r].pc = "insert", ![r].past = Committed]
             /\ UNCHANGED <<table, session>>
    <3>1. /\ job'[r] = [job[r] EXCEPT !.pc = "insert", !.past = Committed]
          /\ \A q \in Request \ {r} : job'[q] = job[q]
      BY <1>2, <2>2
    <3>2. Committed \subseteq Request
      BY DEF Committed
    <3>3. /\ job'[r] \in CreateJobs /\ job'[r].kind = t /\ job'[r].data = job[r].data
          /\ job'[r].pc = "insert" /\ job'[r].past = Committed /\ job'[r].op = "create"
      BY <1>1, <1>3, <3>1, <3>2 DEF CreateJobs
    <3>4. W(r)' = W(r) /\ View(r)' = View(r) /\ session' = session
      BY <2>2 DEF W, View
    <3>5. Typed(r)'
      BY <1>1, <3>3, <3>4, TypedNext DEF JobType
    <3>6. History(r)'
      <4>1. PICK row, c : row = ItemRow(t, r) /\ c = Upper[code]
        OBVIOUS
      <4>2. row.table = t
        BY <4>1 DEF ItemRow, RowOf
      <4>3. Clear(r, row, c)'
        BY <2>2, <3>4, <4>1, <4>2, ChecksClear, NowClear
      <4>4. ClearOK(r)'
        <5>1. ~Waiting(r)'
          BY <1>1, <3>4 DEF Running, Waiting
        <5>2. ItemRow(t, r)' = row /\ (Upper[code])' = c
          BY <3>3, <4>1 DEF ItemRow, RowOf
        <5> QED BY <3>3, <4>1, <4>3, <5>1, <5>2 DEF ClearOK
      <4>5. Committed' = Committed
        BY <3>4 DEF Committed
      <4> QED BY <3>3, <4>4, <4>5 DEF History
    <3>7. UploadOK(r)'
      BY <3>3 DEF UploadOK
    <3>8. job[r].pc \in EarlyPc
      BY <1>4 DEF CheckCode, At, EarlyPc
    <3> QED BY <1>1, <2>2, <3>1, <3>5, <3>6, <3>7, <3>8, GoEnds
  <2> QED BY <1>4, <2>1, <2>2 DEF CheckCode
<1>5. CASE Insert(r, t)
  <2>1. PICK row, set : row = ItemRow(t, r) /\ set = Stored(t, job[r].data)
    OBVIOUS
  <2>2. Stage(r, row, set) /\ job[r].pc = "insert" /\ GoTo(r, "read")
    BY <1>5, <2>1 DEF Insert, At
  <2>3. /\ job'[r] = [job[r] EXCEPT !.pc = "read"]
        /\ \A q \in Request \ {r} : job'[q] = job[q]
    BY <1>2, <2>2 DEF GoTo
  <2>4. /\ job'[r] \in CreateJobs /\ job'[r].kind = t /\ job'[r].data = job[r].data
        /\ job'[r].pc = "read" /\ job'[r].past = job[r].past /\ job'[r].op = "create"
    BY <1>1, <1>3, <2>3 DEF CreateJobs
  <2>5. row.table = t /\ Mine(r, row)
    BY <2>1 DEF ItemRow, RowOf, Mine
  <2>6. /\ W(r)' = W(r) /\ View(r)' = View(r) /\ session'[r].state = "open"
        /\ session'[r].manager = session[r].manager /\ session'[r].answer = session[r].answer
        /\ session'[r].pending.row = row /\ session'[r].pending.set = set
    BY <1>1, <1>2, <2>2, StageSession
  <2>7. Typed(r)'
    BY <1>1, <2>4, <2>6, TypedNext DEF JobType
  <2>8. StatementOK(r)'
    <3>1. ItemRow(t, r)' = row /\ Stored(t, job'[r].data) = set
      BY <2>1, <2>4 DEF ItemRow, RowOf
    <3> QED BY <2>4, <2>6, <3>1 DEF StatementOK
  <2>9. set[CodeColumn[t]] = Upper[code]
    <3>1. DOMAIN job[r].data = Columns[t] /\ ItemValues(t, job[r].data)
      BY <1>1, <1>2 DEF Typed
    <3>2. CodeColumn[t] \in DOMAIN job[r].data
      BY <3>1 DEF Columns, CodeColumn, Kind
    <3> QED BY <2>1, <2>5, <3>1, <3>2, StoredFacts
  <2>10. Clear(r, row, set[CodeColumn[t]])'
    <3>1. Clear(r, row, set[CodeColumn[t]])
      BY <1>1, <1>2, <2>1, <2>2, <2>9 DEF History, ClearOK
    <3>2. Moves(r)
      BY <1>1, <1>2, <2>2, <2>3, <2>5, StageQuiet, QuietMoves
    <3> QED BY <2>4, <2>6, <3>1, <3>2, ClearKept
  <2>11. UploadOK(r)'
    BY <2>4 DEF UploadOK
  <2>12. job[r].past \subseteq Committed
    BY <1>2, <1>3 DEF History, CreateJobs
  <2> QED BY <1>1, <2>2, <2>3, <2>4, <2>5, <2>7, <2>8, <2>10, <2>11, <2>12, StageEnds DEF EarlyPc
<1>6. CASE ReadNew(r, t)
  BY <1>1, <1>6, AnswerEnds DEF ReadNew
<1> QED BY <1>4, <1>5, <1>6

\* Creating a category.
LEMMA CategoryEnds ==
    ASSUME CatalogInv, NEW r \in Request, walk' = walk, CreateCategory(r)
    PROVE  Moves(r) /\ RequestOK(r)'
<1>1. /\ Running(r) /\ job[r].op = "create_category" /\ job[r].pc = "start"
      /\ session[r].state = "open"
  BY DEF CreateCategory, At, Running
<1>2. StoreInv /\ Typed(r) /\ History(r) /\ job = [o \in Request |-> job[o]]
  BY DEF CatalogInv, RequestOK, IInv, JobsOK
<1>3. job[r] \in CategoryJobs
  BY <1>1, <1>2, JobFacts
<1>4. PICK row, set : row = CategoryRow(r) /\ set = job[r].data
  OBVIOUS
<1>5. Stage(r, row, set) /\ GoTo(r, "done")
  BY <1>4 DEF CreateCategory
<1>6. /\ job'[r] = [job[r] EXCEPT !.pc = "done"]
      /\ \A q \in Request \ {r} : job'[q] = job[q]
  BY <1>2, <1>5 DEF GoTo
<1>7. /\ job'[r] \in CategoryJobs /\ job'[r].data = job[r].data
      /\ job'[r].pc = "done" /\ job'[r].op = "create_category" /\ "past" \notin DOMAIN job'[r]
  BY <1>3, <1>6 DEF CategoryJobs
<1>8. row.table = "product_categories" /\ Mine(r, row) /\ row.table \notin Kind
  BY <1>4 DEF CategoryRow, RowOf, Mine, Kind
<1>9. /\ W(r)' = W(r) /\ View(r)' = View(r) /\ session'[r].state = "open"
      /\ session'[r].manager = session[r].manager /\ session'[r].answer = session[r].answer
      /\ session'[r].pending.row = row /\ session'[r].pending.set = set
  BY <1>1, <1>2, <1>5, StageSession
<1>10. Typed(r)'
  BY <1>1, <1>7, <1>9, TypedNext DEF JobType
<1>11. StatementOK(r)'
  <2>1. CategoryRow(r)' = row
    BY <1>4 DEF CategoryRow, RowOf
  <2> QED BY <1>4, <1>7, <1>9, <2>1 DEF StatementOK
<1>12. UploadOK(r)'
  BY <1>7 DEF UploadOK
<1> QED BY <1>1, <1>5, <1>6, <1>7, <1>8, <1>10, <1>11, <1>12, StageEnds DEF EarlyPc

\* Updating a product or a supplier.
LEMMA UpdateEnds ==
    ASSUME CatalogInv, NEW r \in Request, NEW t \in Kind, walk' = walk,
           Load(r, t) \/ CheckOthers(r, t) \/ Write(r, t) \/ ReadUpdated(r, t)
    PROVE  Moves(r) /\ RequestOK(r)'
<1>1. /\ Live(r) /\ Running(r) /\ job[r].op = "update" /\ job[r].kind = t
      /\ session[r].state = "open"
  BY DEF Load, CheckOthers, Write, ReadUpdated, At, Running, Live
<1>2. StoreInv /\ Typed(r) /\ History(r) /\ job = [o \in Request |-> job[o]]
  BY DEF CatalogInv, RequestOK, IInv, JobsOK
<1>3. job[r] \in UpdateJobs /\ job[r].row.table = t
  BY <1>1, <1>2, JobFacts DEF Typed
<1>4. DOMAIN job[r].data \subseteq Columns[t] /\ ItemValues(t, job[r].data)
  BY <1>1, <1>2 DEF Typed
<1> DEFINE c == CodeColumn[t]
           code == job[r].data[c]
\* A check that has passed, or was not needed.
<1>5. ASSUME NEW pc \in {"check", "write"},
             job' = [job EXCEPT ![r].pc = pc, ![r].past = Committed],
             UNCHANGED <<table, session>>, job[r].pc \in {"start", "check"},
             job[r].row \in DOMAIN View(r),
             (pc = "write" /\ c \in DOMAIN job[r].data) =>
               \A other \in DOMAIN View(r) \ {job[r].row} :
                 ~(other.table = t /\ View(r)[other][c] = Upper[code])
      PROVE  Moves(r) /\ RequestOK(r)'
  <2>1. /\ job'[r] = [job[r] EXCEPT !.pc = pc, !.past = Committed]
        /\ \A q \in Request \ {r} : job'[q] = job[q]
    BY <1>2, <1>5
  <2>2. Committed \subseteq Request
    BY DEF Committed
  <2>3. /\ job'[r] \in UpdateJobs /\ job'[r].kind = t /\ job'[r].data = job[r].data
        /\ job'[r].pc = pc /\ job'[r].past = Committed /\ job'[r].op = "update"
        /\ job'[r].row = job[r].row
    BY <1>1, <1>3, <2>1, <2>2 DEF UpdateJobs
  <2>4. W(r)' = W(r) /\ View(r)' = View(r) /\ session' = session
    BY <1>5 DEF W, View
  <2>5. Typed(r)'
    BY <1>1, <1>5, <2>3, <2>4, TypedNext DEF JobType
  <2>6. History(r)'
    <3>1. PICK row, x : row = job[r].row /\ x = Upper[code]
      OBVIOUS
    <3>2. (pc = "write" /\ c \in DOMAIN job[r].data) => Clear(r, row, x)'
      BY <1>3, <1>5, <2>4, <3>1, NowClear
    <3>3. ClearOK(r)'
      <4>1. ~Waiting(r)'
        BY <1>1, <2>4 DEF Running, Waiting
      <4>2. (Upper[code])' = x
        BY <2>3, <3>1
      <4> QED BY <2>3, <3>1, <3>2, <4>1, <4>2 DEF ClearOK
    <3>4. Committed' = Committed
      BY <2>4 DEF Committed
    <3> QED BY <2>3, <3>3, <3>4 DEF History
  <2>7. UploadOK(r)'
    BY <2>3 DEF UploadOK
  <2> QED BY <1>1, <1>5, <2>1, <2>5, <2>6, <2>7, GoEnds DEF EarlyPc
<1>6. CASE Load(r, t)
  <2>1. CASE Raise(r, "ResourceNotFoundException")
    BY <1>1, <2>1, RaiseEnds, Statuses
  <2>2. CASE job[r].row \in DOMAIN View(r)
    <3>1. PICK pc : pc = IF c \in DOMAIN job[r].data /\ Upper[code] # View(r)[job[r].row][c]
                         THEN "check" ELSE "write"
      OBVIOUS
    <3>2. job' = [job EXCEPT ![r].past = Committed, ![r].pc = pc]
      BY <1>6, <2>2, <3>1 DEF Load
    <3>3. job' = [job EXCEPT ![r].pc = pc, ![r].past = Committed]
      BY <1>2, <1>3, <3>2 DEF UpdateJobs
    <3>4. pc \in {"check", "write"} /\ UNCHANGED <<table, session>> /\ job[r].pc = "start"
      BY <1>6, <2>2, <3>1 DEF Load, At
    <3>5. ASSUME pc = "write", c \in DOMAIN job[r].data,
                 NEW other \in DOMAIN View(r), other # job[r].row, other.table = t
          PROVE  View(r)[other][c] # Upper[code]
      <4>1. Upper[code] = View(r)[job[r].row][c]
        BY <3>1, <3>5
      <4>2. RowsOK(View(r)) /\ Distinct(View(r))
        BY <1>1, <1>2, ViewOK DEF CatalogInv, Typed, StoreInv, ViewsDistinct
      <4> QED BY <1>3, <2>2, <3>5, <4>1, <4>2, CodesDistinct
    <3> QED BY <1>5, <2>2, <3>3, <3>4, <3>5
  <2> QED BY <1>6, <2>1, <2>2 DEF Load
<1>7. CASE CheckOthers(r, t)
  <2>1. CASE Raise(r, "ConflictException")
    BY <1>1, <2>1, RaiseEnds, Statuses
  <2>2. CASE /\ ~Exists(r, t, code, {job[r].row})
             /\ job' = [job EXCEPT ![r].pc = "write", ![r].past = Committed]
             /\ UNCHANGED <<table, session>>
    <3>1. job[r].pc = "check"
      BY <1>7 DEF CheckOthers, At
    <3>2. job[r].row \in DOMAIN View(r)
      BY <1>1, <1>2, <3>1 DEF Typed
    <3>3. \A other \in DOMAIN View(r) \ {job[r].row} :
            ~(other.table = t /\ View(r)[other][c] = Upper[code])
      BY <1>3, <2>2, ChecksClear
    <3> QED BY <1>5, <2>2, <3>1, <3>2, <3>3
  <2> QED BY <1>7, <2>1, <2>2 DEF CheckOthers
<1>8. CASE Write(r, t)
  <2>1. PICK row, set : row = job[r].row /\ set = Stored(t, job[r].data)
    OBVIOUS
  <2>2. Stage(r, row, set) /\ job[r].pc = "write" /\ GoTo(r, "read")
    BY <1>8, <2>1 DEF Write, At
  <2>3. /\ job'[r] = [job[r] EXCEPT !.pc = "read"]
        /\ \A q \in Request \ {r} : job'[q] = job[q]
    BY <1>2, <2>2 DEF GoTo
  <2>4. /\ job'[r] \in UpdateJobs /\ job'[r].kind = t /\ job'[r].data = job[r].data
        /\ job'[r].pc = "read" /\ job'[r].past = job[r].past /\ job'[r].op = "update"
        /\ job'[r].row = row
    BY <1>1, <1>3, <2>1, <2>3 DEF UpdateJobs
  <2>5. row \in DOMAIN View(r)
    BY <1>1, <1>2, <2>1, <2>2 DEF Typed
  <2>6. row.table = t /\ Mine(r, row)
    BY <1>2, <1>3, <2>1, <2>5, SeenIsMine
  <2>7. /\ W(r)' = W(r) /\ View(r)' = View(r) /\ session'[r].state = "open"
        /\ session'[r].manager = session[r].manager /\ session'[r].answer = session[r].answer
        /\ session'[r].pending.row = row /\ session'[r].pending.set = set
    BY <1>1, <1>2, <2>2, StageSession
  <2>8. Typed(r)'
    BY <1>1, <2>1, <2>4, <2>5, <2>7, TypedNext DEF JobType
  <2>9. StatementOK(r)'
    BY <2>1, <2>4, <2>7 DEF StatementOK
  <2>10. ASSUME c \in DOMAIN set
         PROVE  Clear(r, row, set[c])'
    <3>1. c \in DOMAIN job[r].data /\ set[c] = Upper[code]
      BY <1>4, <2>1, <2>6, <2>10, StoredFacts
    <3>2. Clear(r, row, set[c])
      BY <1>1, <1>2, <2>1, <2>2, <3>1 DEF History, ClearOK
    <3>3. Moves(r)
      BY <1>1, <1>2, <2>2, <2>3, <2>6, StageQuiet, QuietMoves
    <3> QED BY <2>4, <2>7, <3>2, <3>3, ClearKept
  <2>11. UploadOK(r)'
    BY <2>4 DEF UploadOK
  <2>12. job[r].past \subseteq Committed
    BY <1>2, <1>3 DEF History, UpdateJobs
  <2> QED BY <1>1, <2>2, <2>3, <2>4, <2>6, <2>8, <2>9, <2>10, <2>11, <2>12, StageEnds
          DEF EarlyPc
<1>9. CASE ReadUpdated(r, t)
  BY <1>1, <1>9, AnswerEnds DEF ReadUpdated, At
<1> QED BY <1>6, <1>7, <1>8, <1>9

\* Reading a product or a supplier.
LEMMA ReadEnds ==
    ASSUME CatalogInv, NEW r \in Request, walk' = walk, GetItem(r) \/ LookupBarcode(r)
    PROVE  Moves(r) /\ RequestOK(r)'
<1>1. Live(r) /\ Running(r) /\ job[r].op \in {"get", "barcode"}
  BY DEF GetItem, LookupBarcode, At, Running, Live
<1>2. CASE Raise(r, "ResourceNotFoundException")
  BY <1>1, <1>2, RaiseEnds, Statuses
<1>3. CASE \E row : Answer(r, row)
  BY <1>1, <1>3, AnswerEnds
<1> QED BY <1>2, <1>3 DEF GetItem, LookupBarcode

-----------------------------------------------------------------------------
(* Uploads.                                                                *)

\* Serving one more item: the row sent for it holds it, and the rows that hold the last
\* item of another product are not touched.
LEMMA OneMoreItem ==
    ASSUME NEW items \in Seq(SheetItem), NEW i \in 1 .. Len(items), NEW rows, NEW row, NEW sent,
           DOMAIN sent = DOMAIN rows \cup {row},
           \A x \in DOMAIN rows \ {row} : sent[x] = rows[x],
           row.table = "products", Holds(sent[row], items[i]),
           row \in DOMAIN rows => rows[row].sku = items[i].sku,
           \A n \in 1 .. i - 1 : ItemStored(rows, items, i - 1, n)
    PROVE  \A n \in 1 .. i : ItemStored(sent, items, i, n)
<1>1. row \in DOMAIN sent
  OBVIOUS
<1>2. ASSUME NEW n \in 1 .. i, items[n].sku = items[i].sku
      PROVE  ItemStored(sent, items, i, n)
  BY <1>1, <1>2 DEF ItemStored
<1>3. ASSUME NEW n \in 1 .. i, items[n].sku # items[i].sku
      PROVE  ItemStored(sent, items, i, n)
  <2>1. n \in 1 .. i - 1
    BY <1>3
  <2>2. PICK l \in 1 .. i - 1 :
          /\ items[l].sku = items[n].sku
          /\ \A m \in 1 .. i - 1 : items[m].sku = items[n].sku => m <= l
          /\ \E x \in DOMAIN rows : x.table = "products" /\ Holds(rows[x], items[l])
    BY <2>1 DEF ItemStored
  <2>3. PICK x \in DOMAIN rows : x.table = "products" /\ Holds(rows[x], items[l])
    BY <2>2
  <2>4. x # row
    BY <1>3, <2>2, <2>3 DEF Holds
  <2>5. x \in DOMAIN sent /\ sent[x] = rows[x]
    BY <2>3, <2>4
  <2>6. \A m \in 1 .. i : items[m].sku = items[n].sku => m <= l
    BY <1>3, <2>2
  <2> QED BY <2>2, <2>3, <2>5, <2>6 DEF ItemStored
<1> QED BY <1>2, <1>3

\* An item of a sheet gives the columns of a product.
LEMMA ItemFacts ==
    ASSUME NEW item \in SheetItem, NEW row, row.table = "products"
    PROVE  /\ PartOK(row, item) /\ RowOK(row, NewProduct(item))
           /\ Holds(item, item) /\ Holds(NewProduct(item), item)
           /\ item.sku \in Code /\ Upper[item.sku] = item.sku
           /\ DOMAIN item = {"sku", "name", "mrp", "selling_price"}
           /\ DOMAIN NewProduct(item) = Columns["products"]
           /\ NewProduct(item).sku = item.sku /\ NewProduct(item).barcode = Null
<1>1. /\ item.sku \in Code /\ Upper[item.sku] = item.sku /\ item.name \in Int
      /\ DOMAIN item = {"sku", "name", "mrp", "selling_price"}
  BY DEF SheetItem, StoredCode
<1>2. NewProduct(item) =
        [sku |-> item.sku, barcode |-> Null, name |-> item.name, category |-> Null,
         mrp |-> item.mrp, selling_price |-> item.selling_price]
  BY DEF NewProduct, Product
<1>3. DOMAIN NewProduct(item) = Columns["products"]
  BY <1>2 DEF Columns
<1>4. /\ NewProduct(item).sku = item.sku /\ NewProduct(item).name = item.name
      /\ NewProduct(item).mrp = item.mrp /\ NewProduct(item).selling_price = item.selling_price
      /\ NewProduct(item).barcode = Null
  BY <1>2
<1> HIDE DEF NewProduct
<1>5. PartOK(row, item)
  BY <1>1 DEF PartOK, ItemValues, Columns, CodeColumn
<1>6. RowOK(row, NewProduct(item))
  BY <1>1, <1>3, <1>4 DEF RowOK, PartOK, ItemValues, Columns, CodeColumn
<1> QED BY <1>1, <1>3, <1>4, <1>5, <1>6 DEF Holds

\* A statement with columns is one.
LEMMA SomeStatement ==
    ASSUME NEW row, NEW set, DOMAIN set # {}
    PROVE  [row |-> row, set |-> set] # NoStatement
<1>1. set # NoRows
  BY DEF NoRows
<1> QED BY <1>1 DEF NoStatement

\* An upload sends the statement for its next item.
LEMMA ItemSent ==
    ASSUME CatalogInv, NEW r \in Request, At(r, "upload", "items"),
           job[r].i <= Len(job[r].items), walk' = walk,
           NEW row, NEW set, Stage(r, row, set), row.table = "products", Mine(r, row),
           NEW field \in {"created", "updated"}, Counted(r, field),
           \/ /\ field = "created" /\ row = RowOf("products", r, job[r].i)
              /\ set = NewProduct(Item(r)) /\ Existing(r) = {}
           \/ field = "updated" /\ row \in Existing(r) /\ set = Item(r)
    PROVE  Moves(r) /\ RequestOK(r)'
<1> DEFINE j == job[r]
           i == j.i
           item == j.items[i]
<1>1. /\ Running(r) /\ Live(r) /\ session[r].state = "open" /\ j.op = "upload" /\ j.pc = "items"
      /\ Item(r) = item /\ ~Waiting(r)
  BY DEF At, Running, Live, Item, Waiting
<1>2. /\ StoreInv /\ Typed(r) /\ UploadOK(r) /\ Unseen(r)
      /\ job = [o \in Request |-> job[o]]
  BY DEF CatalogInv, RequestOK, IInv, JobsOK
<1>3. j \in UploadJobs
  BY <1>1, <1>2, JobFacts
<1>4. /\ j.items \in Seq(SheetItem) /\ i \in 1 .. Len(j.items)
      /\ item \in SheetItem /\ i \in Nat /\ j.created \in Nat /\ j.updated \in Nat
  <2>1. j.items \in Seq(SheetItem) /\ i \in Nat /\ j.created \in Nat /\ j.updated \in Nat
    BY <1>3 DEF UploadJobs
  <2>2. i \in 1 .. Len(j.items) + 1
    BY <1>1, <1>2 DEF UploadOK
  <2> QED BY <2>1, <2>2
<1>5. /\ W(r)' = W(r) /\ View(r)' = View(r) /\ session'[r].state = "open"
      /\ session'[r].manager = session[r].manager /\ session'[r].answer = session[r].answer
      /\ session'[r].pending.row = row /\ session'[r].pending.set = set
      /\ session'[r].pending = [row |-> row, set |-> set] /\ table' = table
  BY <1>1, <1>2, StageSession
<1>6. /\ job'[r] = [j EXCEPT !.i = i + 1, ![field] = j[field] + 1, !.past = Committed]
      /\ \A q \in Request \ {r} : job'[q] = job[q]
  BY <1>2 DEF Counted
<1>7. Committed \subseteq Request
  BY DEF Committed
<1>8. /\ job'[r] \in UploadJobs /\ job'[r].op = "upload" /\ job'[r].pc = "items"
      /\ job'[r].file = j.file /\ job'[r].items = j.items /\ job'[r].i = i + 1
      /\ job'[r].past = Committed
      /\ field = "created" => job'[r].created = j.created + 1 /\ job'[r].updated = j.updated
      /\ field = "updated" => job'[r].created = j.created /\ job'[r].updated = j.updated + 1
  <2> PICK k, old, m, n, past : /\ k = job'[r] /\ old = j /\ m = i + 1 /\ n = j[field] + 1
                                /\ past = Committed
    OBVIOUS
  <2>1. old \in UploadJobs /\ m \in Nat /\ n \in Nat /\ past \in SUBSET Request
    BY <1>3, <1>4, <1>7
  <2>2. CASE field = "created"
    <3>1. k = [old EXCEPT !.i = m, !.created = n, !.past = past]
      BY <1>6, <2>2
    <3>2. k = [op |-> old.op, pc |-> old.pc, file |-> old.file, items |-> old.items, i |-> m,
               created |-> n, updated |-> old.updated, past |-> past]
      BY <2>1, <3>1 DEF UploadJobs
    <3>3. k \in UploadJobs
      BY <2>1, <3>2 DEF UploadJobs
    <3> QED BY <1>1, <2>2, <3>2, <3>3
  <2>3. CASE field = "updated"
    <3>1. k = [old EXCEPT !.i = m, !.updated = n, !.past = past]
      BY <1>6, <2>3
    <3>2. k = [op |-> old.op, pc |-> old.pc, file |-> old.file, items |-> old.items, i |-> m,
               created |-> old.created, updated |-> n, past |-> past]
      BY <2>1, <3>1 DEF UploadJobs
    <3>3. k \in UploadJobs
      BY <2>1, <3>2 DEF UploadJobs
    <3> QED BY <1>1, <2>3, <3>2, <3>3
  <2> QED BY <2>2, <2>3
<1>9. /\ PartOK(row, item) /\ RowOK(row, NewProduct(item)) /\ Holds(set, item)
      /\ item.sku \in Code /\ Upper[item.sku] = item.sku
      /\ DOMAIN set # {} /\ set.sku = item.sku
  BY <1>1, <1>4, ItemFacts DEF Columns
<1>10. Waiting(r)'
  BY <1>5, <1>9, SomeStatement DEF Waiting
<1>11. \A x \in Existing(r) : /\ x \in DOMAIN View(r) /\ x.table = "products"
                              /\ View(r)[x].sku = item.sku
  BY <1>1, <1>9 DEF Existing, GetBySku, RowsOf
<1>12. Typed(r)'
  BY <1>1, <1>5, <1>8, TypedNext DEF JobType
<1>13. StatementOK(r)'
  <2>1. job'[r].i - 1 = i /\ i \in DOMAIN j.items
    BY <1>4, <1>8
  <2>2. \/ row = RowOf("products", r, i) /\ set = NewProduct(item)
        \/ row \in DOMAIN View(r)' /\ set = item
    BY <1>1, <1>5, <1>11
  <2>3. \/ /\ row = RowOf("products", r, job'[r].i - 1)
           /\ set = NewProduct(job'[r].items[job'[r].i - 1])
        \/ row \in DOMAIN View(r)' /\ set = job'[r].items[job'[r].i - 1]
    BY <1>8, <2>1, <2>2
  <2> QED BY <1>5, <1>8, <2>1, <2>3 DEF StatementOK, RowOf, NewProduct, Product
<1>14. Clear(r, row, set[CodeColumn[row.table]])'
  <2>1. ASSUME NEW x \in DOMAIN View(r), x # row, x.table = "products",
               View(r)[x].sku = item.sku
        PROVE  FALSE
    <3>1. x \in Existing(r)
      BY <1>1, <1>9, <2>1 DEF Existing, GetBySku, RowsOf
    <3>2. row \in Existing(r)
      BY <3>1
    <3>3. RowsOK(View(r)) /\ Distinct(View(r))
      BY <1>1, <1>2, ViewOK DEF CatalogInv, Typed, StoreInv, ViewsDistinct
    <3>4. View(r)[row].sku = item.sku /\ row \in DOMAIN View(r)
      BY <1>11, <3>2
    <3> QED BY <2>1, <3>3, <3>4, CodesDistinct DEF CodeColumn, Kind
  <2>2. \A other \in DOMAIN View(r) \ {row} :
           ~(/\ other.table = row.table
             /\ View(r)[other][CodeColumn[row.table]] = set[CodeColumn[row.table]])
    BY <1>9, <2>1 DEF CodeColumn
  <2> QED BY <1>5, <2>2, NowClear
<1>15. UploadOK(r)'
  <2>1. Sent(r) = W(r) /\ Sent(r)' = Overlay(W(r), [x \in {row} |-> set])
    BY <1>1, <1>5, <1>10 DEF Sent
  <2>2. DOMAIN Sent(r)' = DOMAIN W(r) \cup {row}
    BY <2>1 DEF Overlay
  <2>3. SentNew(r)' = IF row.id = r THEN SentNew(r) \cup {row} ELSE SentNew(r)
    BY <2>1, <2>2 DEF SentNew
  <2>4. /\ IsFiniteSet(SentNew(r)) /\ Cardinality(SentNew(r)) = j.created
        /\ \A x \in SentNew(r) : x.table = "products" => x.n \in 1 .. i - 1
        /\ \A n \in 1 .. i - 1 : ItemStored(Sent(r), j.items, i - 1, n)
        /\ j.created + j.updated = i - 1
        /\ j.items = ParseProductExcel(j.file.rows)
    BY <1>1, <1>2 DEF UploadOK
  <2>5. field = "updated" /\ row.id = r => row \in SentNew(r)
    <3>1. row.id = r => row \notin DOMAIN table
      BY <1>1, <1>2 DEF Unseen
    <3>2. field = "updated" => row \in DOMAIN View(r)
      BY <1>11
    <3> QED BY <2>1, <3>1, <3>2, ViewFacts DEF SentNew
  <2>6. field = "created" => row.id = r /\ row.n = i /\ row \notin SentNew(r)
    BY <1>4, <2>4 DEF RowOf
  <2>7. /\ IsFiniteSet(SentNew(r)') /\ Cardinality(SentNew(r)') = job'[r].created
        /\ \A x \in SentNew(r)' : x.table = "products" => x.n \in 1 .. i
    <3>1. CASE field = "created"
      <4>1. SentNew(r)' = SentNew(r) \cup {row}
        BY <2>3, <2>6, <3>1
      <4>2. /\ IsFiniteSet(SentNew(r) \cup {row})
            /\ Cardinality(SentNew(r) \cup {row}) = Cardinality(SentNew(r)) + 1
        BY <2>4, <2>6, <3>1, FS_AddElement
      <4> QED BY <1>4, <1>8, <2>4, <2>6, <3>1, <4>1, <4>2
    <3>2. CASE field = "updated"
      <4>1. SentNew(r)' = SentNew(r)
        BY <2>3, <2>5, <3>2
      <4> QED BY <1>4, <1>8, <2>4, <3>2, <4>1
    <3> QED BY <3>1, <3>2
  <2>8. row \in DOMAIN W(r) => W(r)[row].sku = item.sku
    <3>1. ASSUME row \in DOMAIN W(r), field = "updated" PROVE W(r)[row].sku = item.sku
      BY <1>11, <3>1, ViewFacts
    <3>2. ASSUME row \in DOMAIN W(r), field = "created" PROVE FALSE
      BY <2>1, <2>6, <3>2 DEF SentNew
    <3> QED BY <3>1, <3>2
  <2>9. \A n \in 1 .. i : ItemStored(Sent(r)', j.items, i, n)
    <3>1. PICK rows, sheet, k, sent : /\ rows = W(r) /\ sheet = j.items /\ k = i
                                      /\ sent = Sent(r)'
      OBVIOUS
    <3>2. /\ sheet \in Seq(SheetItem) /\ k \in 1 .. Len(sheet)
          /\ DOMAIN sent = DOMAIN rows \cup {row}
          /\ \A x \in DOMAIN rows \ {row} : sent[x] = rows[x]
          /\ sent[row] = set /\ Holds(set, sheet[k])
      BY <1>4, <1>9, <2>1, <3>1 DEF Overlay
    <3>3. row \in DOMAIN rows => rows[row].sku = sheet[k].sku
      BY <2>8, <3>1
    <3>4. \A n \in 1 .. k - 1 : ItemStored(rows, sheet, k - 1, n)
      BY <2>1, <2>4, <3>1
    <3>5. \A n \in 1 .. k : ItemStored(sent, sheet, k, n)
      BY <3>2, <3>3, <3>4, OneMoreItem
    <3> QED BY <3>1, <3>5
  <2>10. (i + 1) - 1 = i /\ i + 1 \in 1 .. Len(j.items) + 1
    BY <1>4
  <2>11. job'[r].created + job'[r].updated = i
    <3>1. PICK x, y, z : x = j.created /\ y = j.updated /\ z = i
      OBVIOUS
    <3>2. x + y = z - 1 /\ x \in Nat /\ y \in Nat /\ z \in Nat
      BY <1>4, <2>4, <3>1
    <3>3. (x + 1) + y = z /\ x + (y + 1) = z
      BY <3>2
    <3>4. \/ job'[r].created = x + 1 /\ job'[r].updated = y
          \/ job'[r].created = x /\ job'[r].updated = y + 1
      BY <1>8, <3>1
    <3> QED BY <3>1, <3>3, <3>4
  <2> QED BY <1>5, <1>8, <2>4, <2>7, <2>9, <2>10, <2>11 DEF UploadOK
<1> QED BY <1>1, <1>6, <1>8, <1>12, <1>13, <1>14, <1>15, StageEnds
        DEF EarlyPc

\* An upload reads its sheet, serves its items one after the other, and is done.
LEMMA UploadEnds ==
    ASSUME CatalogInv, NEW r \in Request, walk' = walk, UploadProducts(r)
    PROVE  Moves(r) /\ RequestOK(r)'
<1>1. Live(r) /\ Running(r) /\ job[r].op = "upload" /\ session[r].state = "open"
  BY DEF UploadProducts, ReceiveFile, UpsertItem, FinishUpload, At, Running, Live
<1>2. /\ StoreInv /\ Typed(r) /\ UploadOK(r) /\ History(r)
      /\ job = [o \in Request |-> job[o]]
  BY DEF CatalogInv, RequestOK, IInv, JobsOK
<1>3. job[r] \in UploadJobs
  BY <1>1, <1>2, JobFacts
\* A step of the coroutine alone.
<1>4. ASSUME UNCHANGED <<table, session>>, \A q \in Request \ {r} : job'[q] = job[q],
             job'[r] \in UploadJobs, job'[r].pc \in {"items", "done"},
             job'[r].past = job[r].past, job'[r].created = job[r].created,
             job'[r].updated = job[r].updated, job'[r].i = job[r].i,
             job'[r].items = ParseProductExcel(job'[r].file.rows),
             job'[r].i \in 1 .. Len(job'[r].items) + 1,
             job'[r].pc = "done" => job'[r].i = Len(job'[r].items) + 1,
             \A n \in 1 .. job[r].i - 1 : ItemStored(Sent(r), job'[r].items, job[r].i - 1, n)
      PROVE  Moves(r) /\ RequestOK(r)'
  <2>1. /\ W(r)' = W(r) /\ View(r)' = View(r) /\ session' = session /\ Sent(r)' = Sent(r)
        /\ SentNew(r)' = SentNew(r) /\ Committed' = Committed /\ ~Waiting(r)'
        /\ job'[r].op = "upload" /\ job'[r].pc # "start"
    BY <1>1, <1>4 DEF W, View, Sent, SentNew, Committed, Waiting, Running, UploadJobs
  <2>2. Typed(r)'
    BY <1>1, <1>4, <2>1, TypedNext DEF JobType
  <2>3. History(r)'
    <3>1. job[r].past \subseteq Committed
      BY <1>2, <1>3 DEF History, UploadJobs
    <3> QED BY <1>4, <2>1, <3>1 DEF History, ClearOK
  <2>4. UploadOK(r)'
    <3>1. /\ IsFiniteSet(SentNew(r)) /\ Cardinality(SentNew(r)) = job[r].created
          /\ \A x \in SentNew(r) : x.table = "products" => x.n \in 1 .. job[r].i - 1
          /\ job[r].created + job[r].updated = job[r].i - 1
      BY <1>1, <1>2 DEF UploadOK
    <3> QED BY <1>1, <1>4, <2>1, <3>1 DEF UploadOK
  <2> QED BY <1>1, <1>4, <2>2, <2>3, <2>4, GoEnds DEF EarlyPc
<1>5. CASE ReceiveFile(r)
  <2>1. CASE Raise(r, "ValidationException") \/ Raise(r, "BadZipFile")
    BY <1>1, <2>1, RaiseEnds, Statuses
  <2>2. PICK items : items = ParseProductExcel(job[r].file.rows)
    OBVIOUS
  <2>3. CASE /\ job' = [job EXCEPT ![r].items = items, ![r].pc = "items"]
             /\ UNCHANGED <<table, session>>
    <3>1. PICK old, k : old = job[r] /\ k = job'[r]
      OBVIOUS
    <3>2. /\ k = [old EXCEPT !.items = items, !.pc = "items"]
          /\ \A q \in Request \ {r} : job'[q] = job[q]
      BY <1>2, <2>3, <3>1
    <3>3. k = [op |-> old.op, pc |-> "items", file |-> old.file, items |-> items, i |-> old.i,
               created |-> old.created, updated |-> old.updated, past |-> old.past]
      BY <1>3, <3>1, <3>2 DEF UploadJobs
    <3>4. items \in Seq(SheetItem)
      BY <1>3, <2>2, ParserTyped, InputsAssumption DEF UploadJobs
    <3>5. k \in UploadJobs
      BY <1>3, <3>1, <3>3, <3>4 DEF UploadJobs
    <3>6. job[r].pc = "start" /\ job[r].i = 1
      BY <1>1, <1>2, <1>5 DEF ReceiveFile, At, UploadOK
    <3>7. Len(items) \in Nat /\ 1 \in 1 .. Len(items) + 1
      BY <3>4
    <3>8. \A n \in 1 .. job[r].i - 1 : ItemStored(Sent(r), items, job[r].i - 1, n)
      BY <3>6
    <3>9. /\ job'[r] \in UploadJobs /\ job'[r].pc = "items" /\ job'[r].past = job[r].past
          /\ job'[r].created = job[r].created /\ job'[r].updated = job[r].updated
          /\ job'[r].i = job[r].i /\ job'[r].items = items /\ job'[r].file = job[r].file
      BY <3>1, <3>3, <3>5
    <3>10. job'[r].items = ParseProductExcel(job'[r].file.rows)
      BY <2>2, <3>9
    <3>11. job'[r].i \in 1 .. Len(job'[r].items) + 1
      BY <3>6, <3>7, <3>9
    <3>12. \A n \in 1 .. job[r].i - 1 : ItemStored(Sent(r), job'[r].items, job[r].i - 1, n)
      BY <3>8, <3>9
    <3>13. UNCHANGED <<table, session>>
      BY <2>3
    <3> QED BY <1>4, <3>2, <3>9, <3>10, <3>11, <3>12, <3>13
  <2> QED BY <1>5, <2>1, <2>2, <2>3 DEF ReceiveFile
<1>6. CASE UpsertItem(r)
  <2>1. /\ At(r, "upload", "items") /\ job[r].i <= Len(job[r].items)
    BY <1>6 DEF UpsertItem
  <2>2. CASE Raise(r, "DataError")
    BY <1>1, <2>2, RaiseEnds, Statuses
  <2>3. ASSUME Existing(r) = {}, Counted(r, "created"), NEW row, NEW set, Stage(r, row, set),
               row = RowOf("products", r, job[r].i), set = NewProduct(Item(r))
        PROVE  Moves(r) /\ RequestOK(r)'
    <3>1. row.table = "products" /\ Mine(r, row)
      BY <2>3 DEF RowOf, Mine
    <3>2. "created" \in {"created", "updated"}
      OBVIOUS
    <3> QED BY <2>1, <2>3, <3>1, <3>2, ItemSent
  <2>4. ASSUME NEW row \in Existing(r), Counted(r, "updated"), NEW set, Stage(r, row, set),
               set = Item(r)
        PROVE  Moves(r) /\ RequestOK(r)'
    <3>1. row.table = "products" /\ row \in DOMAIN View(r)
      BY DEF Existing, GetBySku, RowsOf
    <3>2. Mine(r, row)
      BY <1>2, <3>1, SeenIsMine
    <3>3. "updated" \in {"created", "updated"}
      OBVIOUS
    <3> QED BY <2>1, <2>4, <3>1, <3>2, <3>3, ItemSent
  <2>5. PICK item : item = Item(r)
    OBVIOUS
  <2>6. \/ Raise(r, "DataError")
        \/ /\ Existing(r) = {} /\ Counted(r, "created")
           /\ Stage(r, RowOf("products", r, job[r].i), NewProduct(item))
        \/ \E row \in Existing(r) : Stage(r, row, item) /\ Counted(r, "updated")
    BY <1>6, <2>5 DEF UpsertItem, NewProduct
  <2> QED BY <2>2, <2>3, <2>4, <2>5, <2>6
<1>7. CASE FinishUpload(r)
  <2>1. PICK old, k : old = job[r] /\ k = job'[r]
    OBVIOUS
  <2>2. /\ k = [old EXCEPT !.pc = "done"]
        /\ \A q \in Request \ {r} : job'[q] = job[q]
        /\ UNCHANGED <<table, session>>
        /\ job[r].pc = "items" /\ job[r].i > Len(job[r].items)
    BY <1>2, <1>7, <2>1 DEF FinishUpload, GoTo, At
  <2>3. k = [op |-> old.op, pc |-> "done", file |-> old.file, items |-> old.items, i |-> old.i,
             created |-> old.created, updated |-> old.updated, past |-> old.past]
    BY <1>3, <2>1, <2>2 DEF UploadJobs
  <2>4. k \in UploadJobs
    BY <1>3, <2>1, <2>3 DEF UploadJobs
  <2>5. /\ job[r].items = ParseProductExcel(job[r].file.rows)
        /\ job[r].i \in 1 .. Len(job[r].items) + 1
        /\ \A n \in 1 .. job[r].i - 1 : ItemStored(Sent(r), job[r].items, job[r].i - 1, n)
    BY <1>1, <1>2, <2>2 DEF UploadOK
  <2>6. job[r].i = Len(job[r].items) + 1
    <3>1. Len(job[r].items) \in Nat
      BY <1>3 DEF UploadJobs
    <3> QED BY <2>2, <2>5, <3>1
  <2> QED BY <1>4, <2>1, <2>2, <2>3, <2>4, <2>5, <2>6
<1> QED BY <1>5, <1>6, <1>7 DEF UploadProducts

-----------------------------------------------------------------------------
(* The database and the session managers.                                  *)

\* The statement of a waiting request sets columns of its row, and gives a whole row.
LEMMA StatementFacts ==
    ASSUME CatalogInv, NEW r \in Request, Waiting(r)
    PROVE  /\ PartOK(session[r].pending.row, session[r].pending.set)
           /\ RowOK(session[r].pending.row, Outgoing(r))
<1> DEFINE row == session[r].pending.row
           set == session[r].pending.set
           j == job[r]
<1>1. Typed(r) /\ StatementOK(r) /\ RowsOK(View(r))
  BY ViewOK DEF CatalogInv, RequestOK, Typed
<1>2. /\ PartOK(row, set)
      /\ row \in DOMAIN View(r) \/ DOMAIN set = Columns[row.table]
  <2>1. CASE j.op = "create" /\ row = ItemRow(j.kind, r) /\ set = Stored(j.kind, j.data)
    <3>1. PICK t : t = j.kind
      OBVIOUS
    <3>2. /\ t \in Kind /\ row.table = t
          /\ DOMAIN j.data = Columns[t] /\ ItemValues(t, j.data)
      BY <1>1, <2>1, <3>1, JobFacts DEF CreateJobs, Typed, ItemRow, RowOf
    <3> QED BY <2>1, <3>1, <3>2, StoredFacts
  <2>2. CASE j.op = "update" /\ j.pc = "read" /\ row = j.row /\ set = Stored(j.kind, j.data)
    <3>1. PICK t : t = j.kind
      OBVIOUS
    <3>2. /\ t \in Kind /\ row.table = t /\ row \in DOMAIN View(r)
          /\ DOMAIN j.data \subseteq Columns[t] /\ ItemValues(t, j.data)
      BY <1>1, <2>2, <3>1, JobFacts DEF UpdateJobs, Typed
    <3> QED BY <2>2, <3>1, <3>2, StoredFacts
  <2>3. CASE j.op = "create_category" /\ row = CategoryRow(r) /\ set = j.data
    <3>1. row.table = "product_categories" /\ DOMAIN set = {"name", "slug"}
      BY <1>1, <2>3, JobFacts DEF CategoryJobs, CategoryRow, RowOf, ProductCategory
    <3> QED BY <3>1 DEF PartOK, Columns, Kind
  <2>4. CASE /\ j.op = "upload" /\ j.i - 1 \in DOMAIN j.items
             /\ \/ row = RowOf("products", r, j.i - 1) /\ set = NewProduct(j.items[j.i - 1])
                \/ /\ row.table = "products" /\ row \in DOMAIN View(r)
                   /\ set = j.items[j.i - 1]
    <3>1. PICK item : item = j.items[j.i - 1]
      OBVIOUS
    <3>2. item \in SheetItem
      BY <1>1, <2>4, <3>1, JobFacts DEF UploadJobs
    <3>3. row.table = "products"
      BY <2>4 DEF RowOf
    <3> QED BY <2>4, <3>1, <3>2, <3>3, ItemFacts DEF RowOK
  <2> QED BY <1>1, <2>1, <2>2, <2>3, <2>4 DEF StatementOK
<1>3. Outgoing(r) = IF row \in DOMAIN View(r) THEN Overlay(View(r)[row], set) ELSE set
  BY DEF Outgoing
<1>4. row \in DOMAIN View(r) => RowOK(row, Overlay(View(r)[row], set))
  BY <1>1, <1>2, OverlayRow DEF RowsOK
<1> QED BY <1>2, <1>3, <1>4 DEF RowOK

\* A statement that is executed.
LEMMA ExecuteEnds ==
    ASSUME CatalogInv, NEW r \in Request, walk' = walk, Execute(r)
    PROVE  Moves(r) /\ RequestOK(r)'
<1>1. Waiting(r) /\ Live(r) /\ session[r].state = "open"
  BY DEF Execute, Waiting, Live
<1>2. CASE Raise(r, "IntegrityError")
  BY <1>1, <1>2, RaiseEnds, Statuses
<1>3. CASE ~Duplicate(r)
  <2> DEFINE row == session[r].pending.row
             set == session[r].pending.set
  <2>1. /\ StoreInv /\ Typed(r) /\ StatementOK(r) /\ Unseen(r) /\ UploadOK(r) /\ History(r)
    BY DEF CatalogInv, RequestOK, IInv
  <2>2. Moves(r)
    BY <1>3, <2>1, ExecuteMoves
  <2>3. /\ table' = table /\ job' = job
        /\ session'[r].state = "open" /\ session'[r].manager = session[r].manager
        /\ session'[r].answer = session[r].answer
        /\ session'[r].pending = NoStatement
        /\ DOMAIN W(r)' = DOMAIN W(r) \cup {row}
        /\ W(r)'[row] = Outgoing(r)
        /\ \A a \in DOMAIN W(r) \ {row} : W(r)'[a] = W(r)[a]
    BY <1>3, <2>1, ExecuteWrites DEF W
  <2>4. ~Waiting(r)' /\ Running(r)'
    BY <2>3 DEF Waiting, Running
  <2>5. PartOK(row, set) /\ RowOK(row, Outgoing(r))
    BY <1>1, StatementFacts
  <2>6. Typed(r)'
    <3>1. RowsOK(W(r)')
      <4>1. RowsOK(W(r))
        BY <2>1 DEF Typed
      <4>2. IsFiniteSet(DOMAIN W(r)')
        BY <2>3, <4>1, FS_AddElement DEF RowsOK
      <4> QED BY <2>3, <2>5, <4>1, <4>2 DEF RowsOK
    <3>2. DOMAIN View(r) \subseteq DOMAIN View(r)'
      BY <2>2 DEF Moves
    <3> QED BY <2>1, <2>3, <3>1, <3>2 DEF Typed, SessionState
  <2>7. StatementOK(r)'
    BY <2>4 DEF StatementOK
  <2>8. job[r].pc \in {"read", "done", "items"}
    BY <1>1, <2>1 DEF StatementOK
  <2>9. NothingYet(r)'
    BY <2>3, <2>4, <2>8 DEF NothingYet
  <2>10. Unseen(r)'
    BY <1>1, <2>1, <2>3 DEF Unseen
  <2>11. History(r)'
    BY <2>1, <2>2, <2>3, <2>4, <2>8, CommittedMoves DEF History, ClearOK
  <2>12. UploadOK(r)'
    <3> SUFFICES ASSUME job[r].op = "upload" PROVE UploadOK(r)'
      BY <2>3 DEF UploadOK
    <3>1. /\ Sent(r) = Overlay(W(r), [x \in {row} |-> set])
          /\ Sent(r)' = W(r)'
      BY <1>1, <2>4 DEF Sent
    <3>2. /\ DOMAIN Sent(r)' = DOMAIN Sent(r)
          /\ Sent(r)[row] = set /\ Sent(r)'[row] = Outgoing(r)
          /\ \A x \in DOMAIN Sent(r) \ {row} : Sent(r)'[x] = Sent(r)[x]
      BY <2>3, <3>1 DEF Overlay
    <3>3. SentNew(r)' = SentNew(r)
      BY <3>2 DEF SentNew
    <3>4. \A item : Holds(set, item) => Holds(Outgoing(r), item)
      <4>1. {"sku", "name", "mrp", "selling_price"} \subseteq DOMAIN set
        <5>1. PICK item : item = job[r].items[job[r].i - 1]
          OBVIOUS
        <5>2. item \in SheetItem
          BY <1>1, <2>1, <5>1, JobFacts DEF StatementOK, UploadJobs
        <5>3. set = item \/ set = NewProduct(item)
          BY <1>1, <2>1, <5>1 DEF StatementOK
        <5>4. PICK x : x = RowOf("products", r, 0)
          OBVIOUS
        <5>5. x.table = "products"
          BY <5>4 DEF RowOf
        <5> QED BY <5>2, <5>3, <5>5, ItemFacts DEF Columns
      <4>2. \A c \in DOMAIN set : Outgoing(r)[c] = set[c]
        <5>1. PICK f, g : f = View(r)[row] /\ g = set
          OBVIOUS
        <5>2. Outgoing(r) = IF row \in DOMAIN View(r) THEN Overlay(f, g) ELSE g
          BY <5>1 DEF Outgoing
        <5>3. /\ DOMAIN Overlay(f, g) = DOMAIN f \cup DOMAIN g
              /\ \A c \in DOMAIN g : Overlay(f, g)[c] = g[c]
              /\ \A c \in DOMAIN f \ DOMAIN g : Overlay(f, g)[c] = f[c]
          BY OverlayFacts
        <5>4. \A c \in DOMAIN g : Outgoing(r)[c] = g[c]
          BY <5>2, <5>3
        <5> QED BY <5>1, <5>4
      <4> QED BY <4>1, <4>2 DEF Holds
    <3>5. \A items, m, n : ItemStored(Sent(r), items, m, n) => ItemStored(Sent(r)', items, m, n)
      <4> TAKE items, m, n
      <4> HAVE ItemStored(Sent(r), items, m, n)
      <4>1. PICK l \in 1 .. m :
              /\ items[l].sku = items[n].sku
              /\ \A k \in 1 .. m : items[k].sku = items[n].sku => k <= l
              /\ \E x \in DOMAIN Sent(r) : x.table = "products" /\ Holds(Sent(r)[x], items[l])
        BY DEF ItemStored
      <4>2. PICK x \in DOMAIN Sent(r) : x.table = "products" /\ Holds(Sent(r)[x], items[l])
        BY <4>1
      <4>3. x \in DOMAIN Sent(r)' /\ Holds(Sent(r)'[x], items[l])
        BY <3>2, <3>4, <4>2
      <4> QED BY <4>1, <4>2, <4>3 DEF ItemStored
    <3>6. Live(r)' = Live(r)
      BY <1>1, <2>3 DEF Live
    <3> QED BY <1>1, <2>1, <2>3, <3>2, <3>3, <3>5, <3>6 DEF UploadOK
  <2> QED BY <2>2, <2>6, <2>7, <2>9, <2>10, <2>11, <2>12 DEF RequestOK
<1> QED BY <1>2, <1>3 DEF Execute


\* The steps that end a request.
LEMMA StoreEnds ==
    ASSUME CatalogInv, NEW r \in Request, walk' = walk,
           Commit(r) \/ Discard(r) \/ DeadlockVictim(r) \/ Crash(r)
    PROVE  Moves(r) /\ RequestOK(r)'
<1>1. StoreInv /\ Typed(r) /\ IsSession(session[r])
  BY DEF CatalogInv, RequestOK, IInv, StoreInv, Sessions
<1>2. session[r].answer \in {NoAnswer, OK, CREATED, 404, 409, 422, 500}
  BY <1>1 DEF Typed
<1>3. CASE Commit(r)
  BY <1>1, <1>2, <1>3, CommitMoves, OverKeeps
<1>4. CASE Discard(r) \/ Crash(r)
  <2>1. Moves(r) /\ W(r)' = W(r) /\ job' = job
    BY <1>1, <1>4, DiscardQuiet, QuietMoves DEF Discard, Crash
  <2>2. /\ session'[r].state \in {"failed", "discarded"}
        /\ session'[r].manager = session[r].manager
        /\ session'[r].answer \in {NoAnswer, session[r].answer}
    <3>1. PICK s, t : s = session[r] /\ t = session'[r]
      OBVIOUS
    <3>2. IsSession(s)
      BY <1>1, <3>1
    <3>3. CASE Discard(r)
      <4>1. t = [s EXCEPT !.state = "discarded"]
        BY <1>1, <3>1, <3>3 DEF Discard, StoreInv, Sessions
      <4>2. t.state = "discarded" /\ t.manager = s.manager /\ t.answer = s.answer
        BY <3>2, <4>1 DEF IsSession
      <4> QED BY <3>1, <4>2
    <3>4. CASE Crash(r)
      <4>1. t = Returned(s, "failed", NoAnswer)
        BY <1>1, <3>1, <3>4 DEF Crash, StoreInv, Sessions, Returned
      <4>2. t = [state |-> "failed", manager |-> s.manager, writes |-> s.writes,
                 pending |-> s.pending, answer |-> NoAnswer, error |-> s.error]
        BY <3>2, <4>1, Replaced
      <4> QED BY <3>1, <4>2
    <3> QED BY <1>4, <3>3, <3>4
  <2> QED BY <1>2, <2>1, <2>2, OverKeeps
<1>5. CASE DeadlockVictim(r)
  <2>1. Live(r) /\ Raise(r, "DBAPIError")
    BY <1>5 DEF DeadlockVictim, Waiting, Live
  <2> QED BY <2>1, RaiseEnds, Statuses
<1> QED BY <1>3, <1>4, <1>5

\* The handler returns.
LEMMA FinishEnds ==
    ASSUME CatalogInv, NEW r \in Request, walk' = walk, Finish(r)
    PROVE  Moves(r) /\ RequestOK(r)'
<1>1. PICK status \in {OK, CREATED} : Respond(r, status)
  BY DEF Finish
<1>2. Running(r) /\ job[r].pc = "done" /\ session[r].state = "open" /\ ~Waiting(r) /\ Live(r)
  BY DEF Finish, Done, Running, Waiting, Live
<1>3. /\ StoreInv /\ Typed(r) /\ IsSession(session[r]) /\ Unseen(r) /\ History(r)
      /\ UploadOK(r)
  BY DEF CatalogInv, RequestOK, IInv, StoreInv, Sessions
<1>4. /\ Moves(r) /\ W(r)' = W(r) /\ View(r)' = View(r) /\ job' = job /\ table' = table
  <2>1. Quiet(r) /\ job' = job /\ table' = table
    BY <1>1, <1>2, <1>3, RespondQuiet DEF Respond
  <2> QED BY <1>3, <2>1, QuietMoves
<1>5. /\ session'[r].state = "returned" /\ session'[r].manager = session[r].manager
      /\ session'[r].answer = status
  <2>1. PICK s, t : s = session[r] /\ t = session'[r]
    OBVIOUS
  <2>2. t = Returned(s, "returned", status)
    BY <1>1, <1>3, <2>1 DEF Respond, StoreInv, Sessions, Returned
  <2>3. t = [state |-> "returned", manager |-> s.manager, writes |-> s.writes,
             pending |-> s.pending, answer |-> status, error |-> s.error]
    BY <1>3, <2>1, <2>2, Replaced
  <2> QED BY <2>1, <2>3
<1>6. ~Waiting(r)' /\ ~Running(r)' /\ Live(r)'
  BY <1>5 DEF Waiting, Running, Live
<1>7. Typed(r)'
  BY <1>1, <1>3, <1>4, <1>5 DEF Typed, SessionState
<1>8. StatementOK(r)' /\ NothingYet(r)'
  BY <1>6 DEF StatementOK, NothingYet
<1>9. Unseen(r)'
  BY <1>2, <1>3, <1>4 DEF Unseen
<1>10. History(r)'
  BY <1>3, <1>4, <1>6, CommittedMoves DEF History, ClearOK
<1>11. UploadOK(r)'
  <2>1. Sent(r)' = Sent(r)
    BY <1>2, <1>4, <1>6 DEF Sent
  <2>2. SentNew(r)' = SentNew(r)
    BY <2>1 DEF SentNew
  <2> QED BY <1>2, <1>3, <1>4, <2>1, <2>2 DEF UploadOK
<1> QED BY <1>4, <1>7, <1>8, <1>9, <1>10, <1>11 DEF RequestOK

\* What clients send is of the right kind.
LEMMA JobsTyped ==
    ASSUME NEW j \in Jobs
    PROVE  /\ j \in JobType /\ j.pc = "start"
           /\ "past" \in DOMAIN j => j.past = {}
           /\ j.op = "create" =>
                DOMAIN j.data = Columns[j.kind] /\ ItemValues(j.kind, j.data)
           /\ j.op = "update" =>
                /\ j.kind = j.row.table
                /\ DOMAIN j.data \subseteq Columns[j.kind] /\ ItemValues(j.kind, j.data)
           /\ j.op = "upload" =>
                j.items = <<>> /\ j.i = 1 /\ j.created = 0 /\ j.updated = 0
<1>1. ASSUME NEW d \in Drafts, j = CreateJob(d.kind, d.data)
      PROVE  /\ j \in CreateJobs /\ j.past = {} /\ j.kind = d.kind /\ j.data = d.data
             /\ j.op = "create" /\ j.pc = "start"
             /\ DOMAIN d.data = Columns[d.kind] /\ ItemValues(d.kind, d.data)
  BY <1>1, InputsAssumption DEF CreateJob, CreateJobs
<1>2. ASSUME NEW c \in Changes, j = UpdateJob(c.row, c.data)
      PROVE  /\ j \in UpdateJobs /\ j.past = {} /\ j.kind = j.row.table /\ j.data = c.data
             /\ j.op = "update" /\ j.pc = "start" /\ j.row = c.row
             /\ DOMAIN c.data \subseteq Columns[c.row.table] /\ ItemValues(c.row.table, c.data)
  BY <1>2, InputsAssumption DEF UpdateJob, UpdateJobs
<1>3. ASSUME NEW c \in Categories, j = CategoryJob(c.name, c.slug)
      PROVE  /\ j \in CategoryJobs /\ "past" \notin DOMAIN j
             /\ j.op = "create_category" /\ j.pc = "start"
  BY <1>3 DEF CategoryJob, CategoryJobs
<1>4. ASSUME NEW f \in Files, j = UploadJob(f)
      PROVE  /\ j \in UploadJobs /\ j.past = {} /\ j.op = "upload" /\ j.pc = "start"
             /\ j.items = <<>> /\ j.i = 1 /\ j.created = 0 /\ j.updated = 0
  <2>1. <<>> \in Seq(SheetItem)
    OBVIOUS
  <2> QED BY <1>4, <2>1 DEF UploadJob, UploadJobs
<1>5. ASSUME NEW row \in Reads.rows, j = GetJob(row)
      PROVE  /\ j \in GetJobs /\ "past" \notin DOMAIN j
             /\ j.op = "get" /\ j.pc = "start"
  BY <1>5 DEF GetJob, GetJobs
<1>6. ASSUME NEW b \in Reads.barcodes, j = BarcodeJob(b)
      PROVE  /\ j \in BarcodeJobs /\ "past" \notin DOMAIN j
             /\ j.op = "barcode" /\ j.pc = "start"
  BY <1>6 DEF BarcodeJob, BarcodeJobs
<1> QED BY <1>1, <1>2, <1>3, <1>4, <1>5, <1>6 DEF Jobs, JobType

\* A request that arrives has done nothing.
LEMMA SubmitEnds ==
    ASSUME CatalogInv, NEW r \in Request, walk' = walk, Submit(r)
    PROVE  Moves(r) /\ RequestOK(r)'
<1>1. PICK j \in Jobs : Arrive(r, j)
  BY DEF Submit
<1>2. StoreInv /\ Typed(r) /\ Unseen(r) /\ job = [o \in Request |-> job[o]]
  BY DEF CatalogInv, RequestOK, IInv, JobsOK
<1>3. /\ session[r].state = "idle" /\ W(r) = NoRows /\ session[r].pending = NoStatement
  BY <1>1, <1>2 DEF Arrive, StoreInv, Sessions
<1>4. /\ job'[r] = j /\ \A q \in Request \ {r} : job'[q] = job[q]
      /\ table' = table
  BY <1>1, <1>2 DEF Arrive
<1>5. Moves(r) /\ W(r)' = W(r) /\ View(r)' = View(r)
  BY <1>1, <1>2, <1>4, ArriveQuiet, QuietMoves
<1>6. /\ session'[r].state = "open" /\ session'[r].manager = session[r].manager
      /\ session'[r].answer = session[r].answer /\ session'[r].pending = NoStatement
  <2>1. IsSession(session[r])
    BY <1>2 DEF StoreInv, Sessions
  <2>2. session'[r] = [session[r] EXCEPT !.state = "open"]
    BY <1>1, <1>2 DEF Arrive, StoreInv, Sessions
  <2> QED BY <1>3, <2>1, <2>2 DEF IsSession
<1>7. ~Waiting(r)' /\ DOMAIN W(r)' = {} /\ DOMAIN W(r) = {}
  BY <1>3, <1>5, <1>6 DEF Waiting, NoRows
<1>8. Typed(r)'
  <2>1. RowsOK(W(r))'
    BY <1>2, <1>5 DEF Typed
  <2> QED BY <1>2, <1>4, <1>6, <2>1, JobsTyped DEF Typed, SessionState
<1>9. StatementOK(r)' /\ NothingYet(r)'
  BY <1>7 DEF StatementOK, NothingYet
<1>10. Unseen(r)'
  BY <1>2, <1>3, <1>4 DEF Unseen
<1>11. History(r)'
  BY <1>4, <1>7, JobsTyped DEF History, ClearOK
<1>12. UploadOK(r)'
  <2>1. Sent(r)' = W(r)'
    BY <1>7 DEF Sent
  <2>2. SentNew(r)' = {}
    BY <1>7, <2>1 DEF SentNew
  <2>3. IsFiniteSet(SentNew(r)') /\ Cardinality(SentNew(r)') = 0
    BY <2>2, FS_EmptySet
  <2>4. Len(<<>>) = 0
    OBVIOUS
  <2>5. j.pc = "start" /\ (j.op = "upload" =>
          j.items = <<>> /\ j.i = 1 /\ j.created = 0 /\ j.updated = 0)
    BY JobsTyped
  <2> QED BY <1>4, <1>6, <2>2, <2>3, <2>4, <2>5 DEF UploadOK
<1> QED BY <1>5, <1>8, <1>9, <1>10, <1>11, <1>12 DEF RequestOK

\* Every step of a request.
LEMMA RequestEnds ==
    ASSUME CatalogInv, NEW r \in Request, walk' = walk, Submit(r) \/ Serve(r) \/ Crash(r)
    PROVE  Moves(r) /\ RequestOK(r)'
<1>1. "products" \in Kind /\ "suppliers" \in Kind
  BY DEF Kind
<1>2. CASE CreateProduct(r) \/ CreateSupplier(r)
  BY <1>1, <1>2, CreateEnds DEF CreateProduct, CreateSupplier
<1>3. CASE CreateCategory(r)
  BY <1>3, CategoryEnds
<1>4. CASE UpdateProduct(r) \/ UpdateSupplier(r)
  BY <1>1, <1>4, UpdateEnds DEF UpdateProduct, UpdateSupplier
<1>5. CASE GetItem(r) \/ LookupBarcode(r)
  BY <1>5, ReadEnds
<1>6. CASE UploadProducts(r)
  BY <1>6, UploadEnds
<1>7. CASE Execute(r)
  BY <1>7, ExecuteEnds
<1>8. CASE Commit(r) \/ Discard(r) \/ DeadlockVictim(r) \/ Crash(r)
  BY <1>8, StoreEnds
<1>9. CASE Submit(r) \/ Finish(r)
  BY <1>9, SubmitEnds, FinishEnds
<1> QED BY <1>2, <1>3, <1>4, <1>5, <1>6, <1>7, <1>8, <1>9 DEF Serve

-----------------------------------------------------------------------------
(* The client that lists.                                                  *)

\* The metadata of the last page: it ends no earlier than the rows that were counted.
LEMMA LastPageCovers ==
    ASSUME NEW limit \in Nat \ {0}, NEW page \in Nat \ {0}, NEW total \in Nat,
           ~PaginationMeta(page, limit, total).has_next
    PROVE  total <= page * limit
<1> DEFINE ceil == (total + limit - 1) \div limit
<1>1. ceil \in Int /\ total + limit - 1 < limit * ceil + limit
  OBVIOUS
<1>2. ceil <= page
  <2>1. ~(page < IF ceil < 1 THEN 1 ELSE ceil)
    BY DEF PaginationMeta
  <2> HIDE DEF ceil
  <2> QED BY <1>1, <2>1
<1> HIDE DEF ceil
<1>3. limit * ceil <= limit * page
  BY <1>1, <1>2
<1>4. limit * page = page * limit
  OBVIOUS
<1> QED BY <1>1, <1>3, <1>4

\* The offset of the next page.
LEMMA NextOffset ==
    ASSUME NEW limit \in Nat \ {0}, NEW page \in Nat \ {0}
    PROVE  /\ PageOffset(page + 1, limit) = PageOffset(page, limit) + limit
           /\ PageOffset(page + 1, limit) = page * limit
           /\ PageOffset(page, limit) \in Nat /\ PageOffset(1, limit) = 0
<1>1. PageOffset(page + 1, limit) = page * limit
  BY DEF PageOffset
<1>2. PageOffset(page, limit) = (page - 1) * limit
  BY DEF PageOffset
<1>3. page * limit = (page - 1) * limit + limit
  OBVIOUS
<1>4. (page - 1) * limit \in Nat
  OBVIOUS
<1>5. PageOffset(1, limit) = 0
  BY DEF PageOffset
<1> QED BY <1>1, <1>2, <1>3, <1>4, <1>5

\* A list of rows has names.
ListOK(rows) == IsFiniteSet(DOMAIN rows) /\ \A row \in DOMAIN rows : rows[row].name \in Int

\* What is listed is such a list.
LEMMA ListedOK ==
    ASSUME RowsOK(table), NEW t \in Kind
    PROVE  ListOK(Listed(t))
<1>1. /\ DOMAIN Listed(t) = {x \in DOMAIN table : x.table = t}
      /\ \A row \in DOMAIN Listed(t) : Listed(t)[row] = table[row]
  BY DEF Listed
<1>2. IsFiniteSet(DOMAIN Listed(t))
  BY <1>1, FS_Subset DEF RowsOK
<1>3. \A row \in DOMAIN Listed(t) : table[row].name \in Int
  BY <1>1, CodeFacts DEF RowsOK
<1> QED BY <1>1, <1>2, <1>3 DEF ListOK

\* The rank of a row counts the row itself, and no more than there are.
LEMMA RankFacts ==
    ASSUME NEW rows, ListOK(rows), NEW x \in DOMAIN rows
    PROVE  Rank(x, rows) \in Nat \ {0} /\ Rank(x, rows) <= Cardinality(DOMAIN rows)
<1> DEFINE S == {y \in DOMAIN rows : rows[y].name <= rows[x].name}
<1>1. S \subseteq DOMAIN rows /\ x \in S
  BY DEF ListOK
<1> HIDE DEF S
<1>2. IsFiniteSet(S) /\ Cardinality(S) <= Cardinality(DOMAIN rows)
  BY <1>1, FS_Subset DEF ListOK
<1>3. Cardinality(S) \in Nat /\ Cardinality(S) # 0
  BY <1>1, <1>2, FS_CardinalityType, FS_EmptySet
<1> QED BY <1>2, <1>3 DEF Rank, S

\* Rows that are added may put a row further back, never further to the front.
LEMMA RankGrows ==
    ASSUME NEW rows, NEW more, ListOK(rows), ListOK(more), DOMAIN rows \subseteq DOMAIN more,
           \A row \in DOMAIN rows : more[row].name = rows[row].name, NEW x \in DOMAIN rows
    PROVE  Rank(x, rows) <= Rank(x, more)
<1> DEFINE S == {y \in DOMAIN rows : rows[y].name <= rows[x].name}
           T == {y \in DOMAIN more : more[y].name <= more[x].name}
<1>1. S \subseteq T /\ T \subseteq DOMAIN more
  OBVIOUS
<1> HIDE DEF S, T
<1>2. IsFiniteSet(T)
  BY <1>1, FS_Subset DEF ListOK
<1>3. Cardinality(S) <= Cardinality(T)
  BY <1>1, <1>2, FS_Subset
<1> QED BY <1>3 DEF Rank, S, T

\* In a sorted list without ties, every row is at its rank.
LEMMA SortedRank ==
    ASSUME NEW rows, ListOK(rows), ~Tied(rows), NEW s \in Sorted(rows), NEW x \in DOMAIN rows
    PROVE  Rank(x, rows) \in DOMAIN s /\ s[Rank(x, rows)] = x
<1> DEFINE n == Cardinality(DOMAIN rows)
           S == {y \in DOMAIN rows : rows[y].name <= rows[x].name}
<1>1. /\ n \in Nat /\ s \in Bijection(1 .. n, DOMAIN rows)
      /\ \A i, j \in DOMAIN s : i < j => rows[s[i]].name <= rows[s[j]].name
  BY FS_CardinalityType DEF Sorted, ListOK
<1> HIDE DEF n
<1>2. /\ s \in [1 .. n -> DOMAIN rows] /\ DOMAIN s = 1 .. n
      /\ \A i, j \in 1 .. n : s[i] = s[j] => i = j
      /\ \A y \in DOMAIN rows : \E i \in 1 .. n : s[i] = y
  BY <1>1 DEF Bijection, Injection, Surjection, IsInjective
<1>3. PICK i \in 1 .. n : s[i] = x
  BY <1>2
<1>4. \A j \in 1 .. n : rows[s[j]].name \in Int /\ s[j] \in DOMAIN rows
  BY <1>2 DEF ListOK
<1>5. \A j \in 1 .. n : j <= i => s[j] \in S
  <2> TAKE j \in 1 .. n
  <2>1. CASE j < i
    BY <1>1, <1>2, <1>3, <1>4, <2>1
  <2>2. CASE j = i
    BY <1>3, <1>4, <2>2
  <2> QED BY <2>1, <2>2
<1>6. \A j \in 1 .. n : s[j] \in S => j <= i
  <2> TAKE j \in 1 .. n
  <2> HAVE s[j] \in S
  <2>1. ASSUME i < j PROVE FALSE
    <3>1. rows[s[i]].name <= rows[s[j]].name /\ rows[s[j]].name <= rows[s[i]].name
      BY <1>1, <1>2, <1>3, <2>1
    <3>2. rows[s[i]].name = rows[s[j]].name
      BY <1>4, <3>1
    <3>3. s[i] # s[j]
      BY <1>2, <2>1
    <3> QED BY <1>4, <3>2, <3>3 DEF Tied
  <2> QED BY <2>1
<1> DEFINE f == [k \in 1 .. i |-> s[k]]
<1>7. f \in Bijection(1 .. i, S)
  <2>1. S \subseteq DOMAIN rows
    OBVIOUS
  <2> HIDE DEF S
  <2>2. n \in Nat /\ \A k \in 1 .. i : k \in 1 .. n /\ k <= i /\ f[k] = s[k]
    BY <1>1
  <2>3. f \in [1 .. i -> S]
    BY <1>5, <2>2
  <2>4. \A j, k \in 1 .. i : f[j] = f[k] => j = k
    BY <1>2, <2>2
  <2>5. \A y \in S : \E k \in 1 .. i : f[k] = y
    <3> TAKE y \in S
    <3>1. PICK k \in 1 .. n : s[k] = y
      BY <1>2, <2>1
    <3>2. k \in 1 .. i
      BY <1>6, <3>1
    <3> QED BY <2>2, <3>1, <3>2
  <2> HIDE DEF f
  <2> QED BY <2>3, <2>4, <2>5 DEF Bijection, Injection, Surjection, IsInjective
<1> HIDE DEF f, S
<1>8. Cardinality(S) = i
  <2>1. i \in Nat /\ ExistsBijection(1 .. i, S)
    BY <1>7 DEF ExistsBijection
  <2> QED BY <2>1, FS_CountingElements
<1> QED BY <1>2, <1>3, <1>8 DEF Rank, S

\* A page shows the rows whose rank falls in it.
LEMMA PageShows ==
    ASSUME NEW rows, ListOK(rows), ~Tied(rows), NEW s \in Sorted(rows), NEW x \in DOMAIN rows,
           NEW page \in Nat \ {0}, Rank(x, rows) <= PageOffset(page + 1, Limit)
    PROVE  Rank(x, rows) <= PageOffset(page, Limit) \/ x \in OnPage(s, page)
<1>1. PICK k : k = Rank(x, rows)
  OBVIOUS
<1>2. k \in DOMAIN s /\ s[k] = x /\ k \in Nat
  BY <1>1, SortedRank, RankFacts
<1>3. k <= PageOffset(page, Limit) + Limit /\ PageOffset(page, Limit) \in Nat
  BY <1>1, NextOffset, InputsAssumption
<1> QED BY <1>1, <1>2, <1>3 DEF OnPage

\* Beginning, counting and selecting.
LEMMA ListKeeps ==
    ASSUME RowsOK(table), WalkOK, List
    PROVE  WalkOK'
<1>1. table' = table /\ \A t : Listed(t)' = Listed(t)
  BY DEF List, StartWalk, CountRows, SelectPage, storeVars, Listed
<1>2. walk = NoWalk \/ (WalkTyped(walk) /\ ShownOK(walk))
  BY DEF WalkOK
<1>3. SUFFICES WalkTyped(walk)' /\ ShownOK(walk)'
  BY DEF WalkOK
<1>4. ASSUME NEW t \in Kind, StartWalk(t) PROVE WalkTyped(walk)' /\ ShownOK(walk)'
  <2>1. PICK rows : rows = Listed(t)
    OBVIOUS
  <2>2. ListOK(rows)
    BY <2>1, ListedOK
  <2>3. walk' = [state |-> "count", kind |-> t, page |-> 1, total |-> 0, shown |-> {},
                 first |-> DOMAIN rows, seen |-> rows, disturbed |-> FALSE]
    BY <1>4, <2>1 DEF StartWalk, NewWalk
  <2>4. WalkTyped(walk)'
    BY <1>1, <2>1, <2>2, <2>3 DEF WalkTyped, WalkState, ListOK
  <2>5. \A x \in DOMAIN rows : ~(Rank(x, rows) <= PageOffset(1, Limit))
    <3> TAKE x \in DOMAIN rows
    <3>1. PICK k : k = Rank(x, rows)
      OBVIOUS
    <3>2. k \in Nat \ {0}
      BY <2>2, <3>1, RankFacts
    <3>3. PageOffset(1, Limit) = 0
      BY InputsAssumption, NextOffset
    <3> QED BY <3>1, <3>2, <3>3
  <2> QED BY <2>3, <2>4, <2>5 DEF ShownOK
<1>5. ASSUME CountRows PROVE WalkTyped(walk)' /\ ShownOK(walk)'
  <2>1. WalkTyped(walk) /\ ShownOK(walk) /\ walk.state = "count"
    BY <1>2, <1>5 DEF CountRows, NoWalk
  <2>2. PICK rows, w, v : rows = Listed(w.kind) /\ w = walk /\ v = walk'
    OBVIOUS
  <2>3. ListOK(rows)
    BY <2>1, <2>2, ListedOK DEF WalkTyped
  <2>4. PICK n, d : n = Cardinality(DOMAIN rows) /\ d = (w.disturbed \/ Renamed(w.seen, rows))
    OBVIOUS
  <2>5. v = [w EXCEPT !.state = "page", !.total = n, !.disturbed = d, !.seen = rows]
    BY <1>5, <2>2, <2>4 DEF CountRows
  <2>6. v = [state |-> "page", kind |-> w.kind, page |-> w.page, total |-> n,
             shown |-> w.shown, first |-> w.first, seen |-> rows, disturbed |-> d]
    BY <2>1, <2>2, <2>5 DEF WalkTyped
  <2>7. DOMAIN w.seen \subseteq DOMAIN rows
    BY <2>1, <2>2 DEF WalkTyped
  <2>8. WalkTyped(walk)'
    <3>1. Listed(w.kind)' = rows /\ w.first \subseteq DOMAIN rows /\ d \in BOOLEAN
      BY <1>1, <2>1, <2>2, <2>4, <2>7 DEF WalkTyped
    <3> QED BY <2>1, <2>2, <2>3, <2>4, <2>6, <3>1 DEF WalkTyped, WalkState, ListOK
  <2>9. ASSUME ~d, NEW x \in w.first, Rank(x, rows) <= PageOffset(w.page, Limit)
        PROVE  x \in w.shown
    <3>1. PICK before : before = w.seen
      OBVIOUS
    <3>2. /\ ListOK(before) /\ x \in DOMAIN before /\ DOMAIN before \subseteq DOMAIN rows
          /\ \A row \in DOMAIN before : rows[row].name = before[row].name
      <4>1. IsFiniteSet(DOMAIN before)
        BY <2>3, <2>7, <3>1, FS_Subset DEF ListOK
      <4> QED BY <2>1, <2>2, <2>4, <2>7, <2>9, <3>1, <4>1 DEF WalkTyped, ListOK, Renamed
    <3>3. Rank(x, before) <= Rank(x, rows)
      BY <2>3, <3>2, RankGrows
    <3>4. PICK i, j, m : i = Rank(x, before) /\ j = Rank(x, rows) /\ m = PageOffset(w.page, Limit)
      OBVIOUS
    <3>5. i \in Nat /\ j \in Nat /\ m \in Nat
      BY <2>1, <2>2, <2>3, <3>2, <3>4, RankFacts, NextOffset, InputsAssumption DEF WalkTyped
    <3>6. i <= m
      BY <2>9, <3>3, <3>4, <3>5
    <3>7. ~w.disturbed
      BY <2>4, <2>9
    <3> QED BY <2>1, <2>2, <3>1, <3>4, <3>6, <3>7 DEF ShownOK
  <2> QED BY <2>2, <2>6, <2>8, <2>9 DEF ShownOK
<1>6. ASSUME SelectPage PROVE WalkTyped(walk)' /\ ShownOK(walk)'
  <2>1. WalkTyped(walk) /\ ShownOK(walk) /\ walk.state = "page"
    BY <1>2, <1>6 DEF SelectPage, NoWalk
  <2>2. PICK rows, w, v : rows = Listed(w.kind) /\ w = walk /\ v = walk'
    OBVIOUS
  <2>3. ListOK(rows)
    BY <2>1, <2>2, ListedOK DEF WalkTyped
  <2>4. PICK more : more = PaginationMeta(w.page, Limit, w.total).has_next
    OBVIOUS
  <2>5. PICK s \in Sorted(rows) :
          IF \E row \in OnPage(s, w.page) : Unreadable(row, rows[row])
          THEN v = [w EXCEPT !.state = "failed"]
          ELSE v = [w EXCEPT !.state = IF more THEN "count" ELSE "done",
                             !.page = IF more THEN @ + 1 ELSE @,
                             !.shown = @ \cup OnPage(s, w.page),
                             !.disturbed = @ \/ Tied(rows) \/ rows # w.seen]
    BY <1>6, <2>2, <2>4 DEF SelectPage
  <2>6. CASE v = [w EXCEPT !.state = "failed"]
    <3>1. v = [state |-> "failed", kind |-> w.kind, page |-> w.page, total |-> w.total,
               shown |-> w.shown, first |-> w.first, seen |-> w.seen,
               disturbed |-> w.disturbed]
      BY <2>1, <2>2, <2>6 DEF WalkTyped
    <3> QED BY <1>1, <2>1, <2>2, <3>1 DEF WalkTyped, ShownOK, WalkState
  <2>7. CASE v = [w EXCEPT !.state = IF more THEN "count" ELSE "done",
                           !.page = IF more THEN @ + 1 ELSE @,
                           !.shown = @ \cup OnPage(s, w.page),
                           !.disturbed = @ \/ Tied(rows) \/ rows # w.seen]
    <3>1. PICK st, p, shown, d :
            /\ st = IF more THEN "count" ELSE "done"
            /\ p = IF more THEN w.page + 1 ELSE w.page
            /\ shown = w.shown \cup OnPage(s, w.page)
            /\ d = (w.disturbed \/ Tied(rows) \/ rows # w.seen)
      OBVIOUS
    <3>2. v = [w EXCEPT !.state = st, !.page = p, !.shown = shown, !.disturbed = d]
      BY <2>7, <3>1
    <3>3. v = [state |-> st, kind |-> w.kind, page |-> p, total |-> w.total,
               shown |-> shown, first |-> w.first, seen |-> w.seen, disturbed |-> d]
      BY <2>1, <2>2, <3>2 DEF WalkTyped
    <3>4. w.page \in Nat \ {0} /\ p \in Nat \ {0} /\ d \in BOOLEAN /\ st \in {"count", "done"}
      BY <2>1, <2>2, <3>1 DEF WalkTyped
    <3>5. WalkTyped(walk)'
      BY <1>1, <2>1, <2>2, <3>3, <3>4 DEF WalkTyped, WalkState
    <3>6. ASSUME ~d, NEW x \in w.first, Rank(x, rows) <= PageOffset(w.page + 1, Limit)
          PROVE  x \in shown
      <4>1. ~w.disturbed /\ ~Tied(rows) /\ rows = w.seen
        BY <3>1, <3>6
      <4>2. x \in DOMAIN rows
        BY <2>1, <2>2, <4>1 DEF WalkTyped
      <4>3. CASE Rank(x, rows) <= PageOffset(w.page, Limit)
        BY <2>1, <2>2, <3>1, <4>1, <4>3 DEF ShownOK
      <4>4. CASE x \in OnPage(s, w.page)
        BY <3>1, <4>4
      <4> QED BY <2>3, <2>5, <3>4, <3>6, <4>1, <4>2, <4>3, <4>4, PageShows
    <3>7. CASE more
      <4>1. ~d => rows = w.seen
        BY <3>1
      <4>2. v.state = "count" /\ v.page = w.page + 1
        BY <3>1, <3>3, <3>7
      <4>3. \A x \in w.first :
              (~d /\ Rank(x, w.seen) <= PageOffset(w.page + 1, Limit)) => x \in shown
        BY <3>6, <4>1
      <4> QED BY <2>2, <3>3, <3>5, <4>2, <4>3 DEF ShownOK
    <3>8. CASE ~more
      <4>1. ASSUME ~d, NEW x \in w.first
            PROVE  Rank(x, rows) <= PageOffset(w.page + 1, Limit)
        <5>1. rows = w.seen
          BY <3>1, <4>1
        <5>2. x \in DOMAIN rows
          BY <2>1, <2>2, <5>1 DEF WalkTyped
        <5>3. w.total = Cardinality(DOMAIN rows)
          BY <2>1, <2>2, <5>1 DEF WalkTyped
        <5>4. PICK i, m, k, l : /\ i = Rank(x, rows) /\ m = w.total
                                /\ k = PageOffset(w.page + 1, Limit) /\ l = w.page * Limit
          OBVIOUS
        <5>5. i \in Nat /\ m \in Nat /\ i <= m
          BY <2>3, <5>2, <5>3, <5>4, RankFacts, FS_CardinalityType DEF ListOK
        <5>6. m <= l
          BY <2>4, <3>4, <3>8, <5>4, <5>5, LastPageCovers, InputsAssumption
        <5>7. k = l /\ l \in Nat
          <6>1. PICK page, limit : page = w.page /\ limit = Limit
            OBVIOUS
          <6>2. page \in Nat \ {0} /\ limit \in Nat \ {0}
            BY <3>4, <6>1, InputsAssumption
          <6>3. PageOffset(page + 1, limit) = page * limit /\ page * limit \in Nat
            BY <6>2, NextOffset
          <6> QED BY <5>4, <6>1, <6>3
        <5> QED BY <5>4, <5>5, <5>6, <5>7
      <4>2. ~d => w.first \subseteq shown
        BY <3>6, <4>1
      <4> QED BY <2>2, <3>1, <3>3, <3>5, <3>8, <4>2 DEF ShownOK
    <3> QED BY <3>7, <3>8
  <2> QED BY <2>5, <2>6, <2>7
<1> QED BY <1>4, <1>5, <1>6 DEF List

-----------------------------------------------------------------------------
(* The second invariant holds throughout.                                  *)

\* What is on file when the service starts.
LEMMA InitCatalog ==
    ASSUME Init
    PROVE  CatalogInv
<1>1. PICK m \in Managers : session = [r \in Request |-> FreshSession(m)]
  BY DEF Init
<1>2. IInv
  BY InitHolds
<1>3. RowsOK(table)
  <2>1. PICK rows \in Shelves : table = rows
    BY DEF Init
  <2>2. IsFiniteSet(DOMAIN rows) /\ CatalogRowsOK(rows)
    BY InputsAssumption
  <2>3. \A row \in DOMAIN rows : row.table \in Kind =>
          /\ ItemValues(row.table, rows[row])
          /\ Upper[rows[row][CodeColumn[row.table]]] = rows[row][CodeColumn[row.table]]
    BY InputsAssumption
  <2>4. \A row \in DOMAIN rows : RowOK(row, rows[row])
    BY <2>2, <2>3 DEF CatalogRowsOK, RowOK, PartOK
  <2> QED BY <2>1, <2>2, <2>4 DEF RowsOK
<1>4. ASSUME NEW r \in Request PROVE RequestOK(r)
  <2>1. /\ session[r].state = "idle" /\ session[r].manager = m /\ W(r) = NoRows
        /\ session[r].answer = NoAnswer
    BY <1>1 DEF FreshSession, W
  <2>2. m \in AllManagers
    BY StoreAssumption
  <2>3. job[r].op = "none" /\ job[r].pc = "start" /\ job[r] \in NoJobs /\ DOMAIN job[r] = {"op", "pc"}
    BY DEF Init, NoJob, NoJobs
  <2>4. ~Waiting(r) /\ ~Running(r) /\ ~Live(r)
    BY <2>1 DEF Waiting, Running, Live
  <2>5. RowsOK(W(r))
    <3>1. DOMAIN W(r) = {}
      BY <2>1 DEF NoRows
    <3> QED BY <3>1, FS_EmptySet DEF RowsOK
  <2>6. Typed(r)
    BY <2>1, <2>2, <2>3, <2>5 DEF Typed, JobType, SessionState
  <2>7. Unseen(r)
    BY CatalogAssumption, StoreAssumption DEF Init, Unseen
  <2> QED BY <2>3, <2>4, <2>6, <2>7
          DEF RequestOK, StatementOK, NothingYet, History, ClearOK, UploadOK
<1>5. WalkOK
  BY DEF Init, WalkOK
<1> QED BY <1>2, <1>3, <1>4, <1>5 DEF CatalogInv

\* Every step keeps it.
LEMMA CatalogStep ==
    ASSUME CatalogInv, [Next]_catalogVars
    PROVE  CatalogInv'
<1>1. IInv'
  BY StepKeeps DEF CatalogInv
<1>2. ASSUME NEW r \in Request, Submit(r) \/ Serve(r) \/ Crash(r), walk' = walk
      PROVE  CatalogInv'
  BY <1>1, <1>2, RequestEnds, Together
<1>3. ASSUME UNCHANGED storeVars, WalkOK' PROVE CatalogInv'
  <2>1. table' = table /\ session' = session /\ job' = job
    BY <1>3 DEF storeVars
  <2>2. RowsOK(table)'
    BY <2>1 DEF CatalogInv
  <2>3. ASSUME NEW r \in Request PROVE RequestOK(r)'
    <3>1. /\ W(r)' = W(r) /\ View(r)' = View(r) /\ Committed' = Committed
          /\ Waiting(r)' = Waiting(r) /\ Running(r)' = Running(r) /\ Live(r)' = Live(r)
      BY <2>1 DEF W, View, Committed, Waiting, Running, Live
    <3>2. Sent(r)' = Sent(r)
      BY <2>1, <3>1 DEF Sent
    <3>3. SentNew(r)' = SentNew(r)
      BY <3>2 DEF SentNew
    <3>4. RequestOK(r)
      BY DEF CatalogInv
    <3>5. Typed(r)' /\ StatementOK(r)' /\ NothingYet(r)' /\ Unseen(r)'
      BY <2>1, <3>1, <3>4 DEF RequestOK, Typed, StatementOK, NothingYet, Unseen
    <3>6. History(r)'
      <4>1. \A row, code : Clear(r, row, code)' = Clear(r, row, code)
        BY <2>1, <3>1 DEF Clear
      <4> QED BY <2>1, <3>1, <3>4, <4>1 DEF RequestOK, History, ClearOK
    <3>7. UploadOK(r)'
      BY <2>1, <3>1, <3>2, <3>3, <3>4 DEF RequestOK, UploadOK
    <3> QED BY <3>5, <3>6, <3>7 DEF RequestOK
  <2> QED BY <1>1, <1>3, <2>2, <2>3 DEF CatalogInv
<1>4. CASE List
  <2>1. UNCHANGED storeVars
    BY <1>4 DEF List, StartWalk, CountRows, SelectPage
  <2> QED BY <1>3, <1>4, <2>1, ListKeeps DEF CatalogInv
<1>5. CASE UNCHANGED catalogVars
  <2>1. UNCHANGED storeVars /\ walk' = walk /\ \A t : Listed(t)' = Listed(t)
    BY <1>5 DEF catalogVars, storeVars, Listed
  <2>2. WalkOK'
    BY <2>1 DEF CatalogInv, WalkOK, WalkTyped, ShownOK
  <2> QED BY <1>3, <2>1, <2>2
<1> QED BY <1>2, <1>4, <1>5 DEF Next

\* Rows are whole, coroutines are where their jobs say, checked codes are clear, uploads
\* have stored what they have served, and walks have shown what they have passed.
THEOREM CatalogInvariance == Spec => []CatalogInv
<1>1. Init => CatalogInv
  BY InitCatalog
<1>2. CatalogInv /\ [Next]_catalogVars => CatalogInv'
  BY CatalogStep
<1> QED BY <1>1, <1>2, PTL DEF Spec

\* Every row has the columns of its table, and every session and walk is in one of the
\* states of its protocol.
THEOREM TypeCorrect == Spec => []TypeOK
<1>1. CatalogInv => TypeOK
  <2> SUFFICES ASSUME CatalogInv PROVE TypeOK
    OBVIOUS
  <2>1. CatalogRowsOK(table)
    BY DEF CatalogInv, RowsOK, RowOK, PartOK, CatalogRowsOK
  <2>2. ASSUME NEW r \in Request PROVE Typed(r) /\ CatalogRowsOK(session[r].writes)
    <3>1. Typed(r)
      BY DEF CatalogInv, RequestOK
    <3> QED BY <3>1 DEF Typed, RowsOK, RowOK, PartOK, CatalogRowsOK, W
  <2>3. walk.state \in {"off", "count", "page", "done", "failed"}
    BY DEF CatalogInv, WalkOK, WalkTyped, WalkState, NoWalk
  <2> QED BY <2>1, <2>2, <2>3 DEF TypeOK, Typed
<1> QED BY <1>1, CatalogInvariance, PTL

\* One product per SKU and one supplier per code, however clients and workbooks spell them.
THEOREM OneCodeOneItem == Spec => []OneItemPerCode
<1>1. CatalogInv => OneItemPerCode
  <2> SUFFICES ASSUME CatalogInv, NEW t \in Kind,
                      NEW a \in DOMAIN table, NEW b \in DOMAIN table, a.table = t, b.table = t,
                      Upper[table[a][CodeColumn[t]]] = Upper[table[b][CodeColumn[t]]]
               PROVE  a = b
    BY DEF OneItemPerCode
  <2>1. RowsOK(table) /\ Distinct(table) /\ RowOK(a, table[a]) /\ RowOK(b, table[b])
    BY DEF CatalogInv, IInv, StoreInv, RowsOK
  <2>2. /\ Upper[table[a][CodeColumn[t]]] = table[a][CodeColumn[t]]
        /\ Upper[table[b][CodeColumn[t]]] = table[b][CodeColumn[t]]
    BY <2>1, CodeFacts DEF StoredCode
  <2> QED BY <2>1, <2>2, CodesDistinct
<1> QED BY <1>1, CatalogInvariance, PTL

\* A client that pages through a list undisturbed has seen every row that was there when
\* it began.
THEOREM NothingIsMissed == Spec => []NothingMissed
<1>1. CatalogInv => NothingMissed
  BY DEF CatalogInv, WalkOK, ShownOK, NoWalk, NothingMissed
<1> QED BY <1>1, CatalogInvariance, PTL

\* What a commit of an upload leaves in the table.
LEMMA UploadCommits ==
    ASSUME CatalogInv, NEW r \in Request, Commit(r), walk' = walk, job[r].op = "upload",
           NEW items, items = ParseProductExcel(job[r].file.rows)
    PROVE  /\ \A i \in DOMAIN items : LastRowStored(items[i], items, table')
           /\ Cardinality({row \in DOMAIN table' \ DOMAIN table : row.id = r}) = job[r].created
           /\ job[r].created + job[r].updated = Len(items)
<1>1. /\ StoreInv /\ Typed(r) /\ UploadOK(r) /\ Unseen(r)
      /\ session[r].state = "returned" /\ Live(r) /\ ~Waiting(r)
  BY DEF CatalogInv, RequestOK, IInv, Commit, Live, Waiting
<1>2. job[r] \in UploadJobs
  BY <1>1, JobFacts
<1>3. PICK rows : rows = W(r)
  OBVIOUS
<1>4. Sent(r) = rows
  BY <1>1, <1>3 DEF Sent
<1>5. /\ job[r].items = items /\ job[r].i = Len(items) + 1
      /\ job[r].created + job[r].updated = job[r].i - 1
      /\ Cardinality(SentNew(r)) = job[r].created
      /\ \A n \in 1 .. job[r].i - 1 : ItemStored(rows, items, job[r].i - 1, n)
  BY <1>1, <1>4 DEF UploadOK
<1>6. items \in Seq(SheetItem) /\ Len(items) \in Nat
  BY <1>2, <1>5 DEF UploadJobs
<1>7. job[r].i - 1 = Len(items) /\ DOMAIN items = 1 .. Len(items)
  BY <1>5, <1>6
<1>8. PICK after : after = table'
  OBVIOUS
<1>9. /\ DOMAIN after = DOMAIN table \cup DOMAIN rows
      /\ \A row \in DOMAIN rows : after[row] = rows[row]
  BY <1>3, <1>8, ViewFacts DEF Commit
<1>10. ASSUME NEW i \in DOMAIN items PROVE LastRowStored(items[i], items, after)
  <2>1. ItemStored(rows, items, Len(items), i)
    BY <1>5, <1>7
  <2>2. PICK l \in 1 .. Len(items) :
          /\ items[l].sku = items[i].sku
          /\ \A m \in 1 .. Len(items) : items[m].sku = items[i].sku => m <= l
          /\ \E row \in DOMAIN rows : row.table = "products" /\ Holds(rows[row], items[l])
    BY <2>1 DEF ItemStored
  <2>3. PICK row \in DOMAIN rows : row.table = "products" /\ Holds(rows[row], items[l])
    BY <2>2
  <2>4. items[l] \in SheetItem
    BY <1>6
  <2>5. DOMAIN items[l] = {"sku", "name", "mrp", "selling_price"}
    BY <2>4 DEF SheetItem
  <2>6. row \in DOMAIN after /\ after[row] = rows[row] /\ l \in DOMAIN items
    BY <1>7, <1>9
  <2>7. \A c \in DOMAIN items[l] : after[row][c] = items[l][c]
    BY <2>3, <2>5, <2>6 DEF Holds
  <2>8. after[row].sku = items[i].sku
    BY <2>2, <2>3, <2>6 DEF Holds
  <2> QED BY <1>7, <2>2, <2>3, <2>6, <2>7, <2>8 DEF LastRowStored
<1>11. {row \in DOMAIN after \ DOMAIN table : row.id = r} = SentNew(r)
  BY <1>1, <1>4, <1>9 DEF SentNew, Unseen
<1> QED BY <1>5, <1>7, <1>8, <1>10, <1>11

\* Who commits was at its commit.
LEMMA OnlyCommitCommits ==
    ASSUME CatalogInv, NEW r \in Request, [Next]_catalogVars,
           session[r].state = "returned", session'[r].state = "committed"
    PROVE  Commit(r) /\ walk' = walk
<1>1. session' # session
  OBVIOUS
<1>2. PICK q \in Request : (Submit(q) \/ Serve(q) \/ Crash(q)) /\ walk' = walk
  BY <1>1 DEF Next, catalogVars, List, StartWalk, CountRows, SelectPage, storeVars
<1>3. q = r
  BY <1>2, RequestEnds DEF Moves
<1>4. StoreInv /\ IsSession(session[r])
  BY DEF CatalogInv, IInv, StoreInv, Sessions
<1>5. ~Running(r) /\ ~Waiting(r)
  BY DEF Running, Waiting
<1>6. ~Submit(r) /\ ~Execute(r) /\ ~Finish(r) /\ ~DeadlockVictim(r)
  BY <1>5 DEF Submit, Arrive, Execute, Finish, Done, DeadlockVictim
<1>7. ~Discard(r) /\ ~Crash(r)
  <2>1. Discard(r) => session'[r].state = "discarded"
    BY <1>4 DEF Discard, StoreInv, Sessions, IsSession
  <2>2. Crash(r) => session'[r].state = "failed"
    BY <1>4 DEF Crash, StoreInv, Sessions, IsSession
  <2> QED BY <2>1, <2>2
<1>8. /\ ~CreateProduct(r) /\ ~CreateSupplier(r) /\ ~CreateCategory(r)
      /\ ~UpdateProduct(r) /\ ~UpdateSupplier(r)
      /\ ~GetItem(r) /\ ~LookupBarcode(r) /\ ~UploadProducts(r)
  BY <1>5 DEF CreateProduct, CreateSupplier, CreateCategory, UpdateProduct, UpdateSupplier,
     GetItem, LookupBarcode, UploadProducts, CheckCode, Insert, ReadNew, Load, CheckOthers,
     Write, ReadUpdated, ReceiveFile, UpsertItem, FinishUpload, At
<1> QED BY <1>2, <1>3, <1>6, <1>7, <1>8 DEF Serve

\* An upload that commits stores the last row of every product of its sheet, as many new
\* products as it reports, and reports a product for every row that counts.
THEOREM UploadsAreExact == Spec => UploadIsExact
<1> DEFINE Exact ==
      \A r \in Request :
         (job[r].op = "upload" /\ session[r].state = "returned"
            /\ session'[r].state = "committed") =>
             LET items == ParseProductExcel(job[r].file.rows) IN
             /\ \A i \in DOMAIN items : LastRowStored(items[i], items, table')
             /\ Cardinality({row \in DOMAIN table' \ DOMAIN table : row.id = r})
                  = job[r].created
             /\ job[r].created + job[r].updated = Len(items)
<1>1. ASSUME CatalogInv, [Next]_catalogVars PROVE [Exact]_catalogVars
  BY <1>1, OnlyCommitCommits, UploadCommits
<1> QED BY <1>1, CatalogInvariance, PTL DEF Spec, UploadIsExact

\* The code that a failed statement was to enter, or a value that nothing checks.
LEMMA DuplicateCauses ==
    ASSUME CatalogInv, NEW r \in Request, Waiting(r), Duplicate(r)
    PROVE  \/ job[r].op = "create_category"
           \/ \E row \in DOMAIN table \ {session[r].pending.row} :
                (KeysOf(row, table[row]) \cap KeysOf(session[r].pending.row, Outgoing(r)))
                    \ CodesOf(r) # {}
           \/ \E o \in Committed \ job[r].past :
                CodesOf(r) \cap KeysIn(session[o].writes) # {}
<1> SUFFICES ASSUME job[r].op # "create_category"
             PROVE  \/ \E row \in DOMAIN table \ {session[r].pending.row} :
                         (KeysOf(row, table[row]) \cap KeysOf(session[r].pending.row, Outgoing(r)))
                             \ CodesOf(r) # {}
                    \/ \E o \in Committed \ job[r].past :
                         CodesOf(r) \cap KeysIn(session[o].writes) # {}
  OBVIOUS
<1>1. PICK p, set, out, view : /\ p = session[r].pending.row /\ set = session[r].pending.set
                               /\ out = Outgoing(r) /\ view = View(r)
  OBVIOUS
<1>2. /\ Typed(r) /\ StatementOK(r) /\ NothingYet(r) /\ History(r) /\ Live(r)
      /\ RowsOK(view) /\ Distinct(view) /\ RowOK(p, out) /\ PartOK(p, set)
  <2>1. Typed(r) /\ StatementOK(r) /\ NothingYet(r) /\ History(r) /\ Live(r)
    BY DEF CatalogInv, RequestOK, Waiting, Live
  <2>2. RowsOK(view)
    BY <1>1, <2>1, ViewOK DEF CatalogInv, Typed
  <2>3. Distinct(view)
    BY <1>1, <2>1 DEF CatalogInv, IInv, StoreInv, ViewsDistinct
  <2> QED BY <1>1, <2>1, <2>2, <2>3, StatementFacts
<1>3. p.table \in Kind
  BY <1>1, <1>2, JobFacts
     DEF StatementOK, CreateJobs, UpdateJobs, ItemRow, RowOf, Kind, Typed
<1>4. PICK other \in DOMAIN view \ {p}, key \in KeysOf(p, out) : key \in KeysOf(other, view[other])
  BY <1>1 DEF Duplicate
<1>5. PICK c \in Unique[p.table] : out[c] # Null /\ key = <<p.table, c, out[c]>>
  BY <1>4 DEF KeysOf
<1>6. other.table = p.table /\ view[other][c] = out[c]
  BY <1>4, <1>5 DEF KeysOf
\* What the statement does not set is not entered twice: it stood in view before.
<1>7. ASSUME p \in DOMAIN view, out[c] = view[p][c] PROVE FALSE
  <2>1. key \in KeysOf(p, view[p])
    BY <1>5, <1>7 DEF KeysOf
  <2> QED BY <1>2, <1>4, <1>7, <2>1 DEF Distinct
<1>8. /\ p \notin DOMAIN view => out = set
      /\ p \in DOMAIN view =>
           /\ \A d \in DOMAIN set : out[d] = set[d]
           /\ \A d \in DOMAIN view[p] \ DOMAIN set : out[d] = view[p][d]
  <2>1. PICK old : old = view[p]
    OBVIOUS
  <2>2. out = IF p \in DOMAIN view THEN Overlay(old, set) ELSE set
    BY <1>1, <2>1 DEF Outgoing
  <2>3. /\ DOMAIN Overlay(old, set) = DOMAIN old \cup DOMAIN set
        /\ \A x \in DOMAIN set : Overlay(old, set)[x] = set[x]
        /\ \A x \in DOMAIN old \ DOMAIN set : Overlay(old, set)[x] = old[x]
    BY OverlayFacts
  <2> QED BY <2>1, <2>2, <2>3
<1>9. c \in Columns[p.table]
  BY <1>3 DEF Kind, Unique, Columns
<1>10. c \in DOMAIN set /\ out[c] = set[c]
  <2>1. p \in DOMAIN view => DOMAIN view[p] = Columns[p.table]
    BY <1>2 DEF RowsOK, RowOK
  <2>2. p \notin DOMAIN view => DOMAIN set = Columns[p.table]
    BY <1>2, <1>8 DEF RowOK
  <2> QED BY <1>7, <1>8, <1>9, <2>1, <2>2
<1>11. CASE c = CodeColumn[p.table]
  <2>1. key \in CodesOf(r)
    BY <1>1, <1>4, <1>5, <1>11 DEF CodesOf
  <2>2. Clear(r, p, out[c])
    BY <1>1, <1>2, <1>3, <1>10, <1>11 DEF History, ClearOK
  <2>3. PICK o \in Committed \ job[r].past :
          <<p.table, CodeColumn[p.table], out[c]>> \in KeysIn(session[o].writes)
    BY <1>1, <1>4, <1>6, <1>11, <2>2 DEF Clear
  <2> QED BY <1>5, <1>11, <2>1, <2>3
<1>12. CASE c # CodeColumn[p.table]
  <2>1. key \notin CodesOf(r)
    BY <1>1, <1>5, <1>12 DEF CodesOf
  <2>2. other \notin DOMAIN W(r)
    <3>1. CASE job[r].op \in {"create", "update"}
      BY <1>2, <3>1 DEF NothingYet
    <3>2. CASE job[r].op = "upload"
      <4>1. PICK item : item = job[r].items[job[r].i - 1]
        OBVIOUS
      <4>2. item \in SheetItem /\ p.table = "products" /\ (set = item \/ set = NewProduct(item))
        BY <1>1, <1>2, <3>2, <4>1, JobFacts DEF StatementOK, UploadJobs, RowOf
      <4>3. DOMAIN item = {"sku", "name", "mrp", "selling_price"} /\ NewProduct(item).barcode = Null
        BY <4>2, ItemFacts
      <4>4. c = "barcode"
        BY <1>12, <4>2 DEF Unique, CodeColumn
      <4> QED BY <1>5, <1>10, <4>2, <4>3, <4>4
    <3> QED BY <1>2, <3>1, <3>2 DEF StatementOK
  <2>3. other \in DOMAIN table /\ view[other] = table[other]
    BY <1>1, <1>4, <2>2, ViewFacts
  <2>4. other \in DOMAIN table \ {session[r].pending.row}
    BY <1>1, <1>4, <2>3
  <2> QED BY <1>1, <1>4, <2>1, <2>3, <2>4
<1> QED BY <1>11, <1>12

\* A step of a coroutine that is not a statement of its own enters no uniqueness error.
Blameless(r) ==
    session'[r].error = "IntegrityError" => session[r].error = "IntegrityError"

\* An exception that is another one.
LEMMA RaiseBlames ==
    ASSUME StoreInv, NEW r \in Request, NEW e, e # "IntegrityError", Raise(r, e)
    PROVE  Blameless(r)
<1>1. PICK s, t, x : s = session[r] /\ t = session'[r] /\ x = StatusOf(e)
  OBVIOUS
<1>2. IsSession(s) /\ t = Failed(s, "failed", x, e)
  BY <1>1 DEF Raise, StoreInv, Sessions, Failed
<1>3. t = [state |-> "failed", manager |-> s.manager, writes |-> s.writes,
           pending |-> s.pending, answer |-> x, error |-> e]
  BY <1>2, Replaced
<1>4. t.error = e
  BY <1>3
<1> QED BY <1>1, <1>4 DEF Blameless

\* Sending a statement is none.
LEMMA StageBlames ==
    ASSUME StoreInv, NEW r \in Request, NEW row, NEW set, Stage(r, row, set)
    PROVE  Blameless(r)
BY DEF Stage, StoreInv, Sessions, IsSession, Blameless

\* Nor does reading the row back end in one.
LEMMA AnswerBlames ==
    ASSUME StoreInv, NEW r \in Request, NEW row, Answer(r, row)
    PROVE  Blameless(r)
<1>1. CASE Raise(r, "ResourceNotFoundException") \/ Raise(r, "MissingGreenlet")
  BY <1>1, RaiseBlames
<1>2. CASE session' = session
  BY <1>2 DEF Blameless
<1> QED BY <1>1, <1>2 DEF Answer

\* Only a statement that meets a duplicate fails with a uniqueness error.
LEMMA OnlyDuplicatesBlame ==
    ASSUME CatalogInv, NEW r \in Request, Submit(r) \/ Serve(r) \/ Crash(r),
           ~(Execute(r) /\ Duplicate(r))
    PROVE  Blameless(r)
<1>1. StoreInv /\ IsSession(session[r])
  BY DEF CatalogInv, IInv, StoreInv, Sessions
<1>2. CASE session' = session
  BY <1>2 DEF Blameless
<1>3. CASE CreateProduct(r) \/ CreateSupplier(r) \/ CreateCategory(r)
  BY <1>1, <1>3, RaiseBlames, StageBlames, AnswerBlames
     DEF CreateProduct, CreateSupplier, CreateCategory, CheckCode, Insert, ReadNew, Blameless
<1>4. CASE UpdateProduct(r) \/ UpdateSupplier(r)
  BY <1>1, <1>4, RaiseBlames, StageBlames, AnswerBlames
     DEF UpdateProduct, UpdateSupplier, Load, CheckOthers, Write, ReadUpdated, Blameless
<1>5. CASE GetItem(r) \/ LookupBarcode(r)
  BY <1>1, <1>5, RaiseBlames, AnswerBlames DEF GetItem, LookupBarcode
<1>6. CASE UploadProducts(r)
  <2>1. \/ session' = session
        \/ \E e \in {"ValidationException", "BadZipFile", "DataError"} : Raise(r, e)
        \/ \E row, set : Stage(r, row, set)
    BY <1>6 DEF UploadProducts, ReceiveFile, UpsertItem, FinishUpload
  <2> QED BY <1>1, <1>2, <2>1, RaiseBlames, StageBlames
<1>7. CASE Execute(r)
  <2>1. session'[r] = [session[r] EXCEPT !.writes = session'[r].writes, !.pending = NoStatement]
    <3>1. PICK w : session' = [session EXCEPT ![r].writes = w, ![r].pending = NoStatement]
      BY <1>7 DEF Execute
    <3>2. session'[r] = [session[r] EXCEPT !.writes = w, !.pending = NoStatement]
      BY <1>1, <3>1 DEF StoreInv, Sessions
    <3> QED BY <1>1, <3>2 DEF IsSession
  <2>2. session'[r].error = session[r].error
    BY <1>1, <2>1 DEF IsSession
  <2> QED BY <2>2 DEF Blameless
<1>8. CASE Finish(r)
  BY <1>1, <1>8 DEF Finish, Respond, StoreInv, Sessions, IsSession, Blameless
<1>9. CASE Commit(r) \/ Discard(r) \/ Crash(r)
  BY <1>1, <1>9 DEF Commit, Discard, Crash, StoreInv, Sessions, IsSession, Blameless
<1>10. CASE DeadlockVictim(r)
  BY <1>1, <1>10, RaiseBlames DEF DeadlockVictim
<1>11. CASE Submit(r)
  BY <1>1, <1>11 DEF Submit, Arrive, StoreInv, Sessions, IsSession, Blameless
<1> QED BY <1>3, <1>4, <1>5, <1>6, <1>7, <1>8, <1>9, <1>10, <1>11 DEF Serve

\* A uniqueness error that reaches a client has one of two causes: a value of a column that
\* nothing checks, or a code that was taken by a commit between its check and its write.
THEOREM UniquenessErrorsExplained == Spec => UniquenessErrorsHaveACause
<1> DEFINE
      Cause(r) ==
        \/ job[r].op = "create_category"
        \/ \E row \in DOMAIN table \ {session[r].pending.row} :
             (KeysOf(row, table[row]) \cap KeysOf(session[r].pending.row, Outgoing(r)))
                 \ CodesOf(r) # {}
        \/ \E o \in Committed \ job[r].past :
             CodesOf(r) \cap KeysIn(session[o].writes) # {}
      Explained ==
        \A r \in Request :
           (session[r].error # "IntegrityError" /\ session'[r].error = "IntegrityError") =>
             Cause(r)
<1>1. ASSUME CatalogInv, [Next]_catalogVars PROVE [Explained]_catalogVars
  <2> SUFFICES ASSUME NEW r \in Request,
                      session[r].error # "IntegrityError", session'[r].error = "IntegrityError"
               PROVE  Cause(r)
    OBVIOUS
  <2>1. session' # session
    OBVIOUS
  <2>2. PICK q \in Request : (Submit(q) \/ Serve(q) \/ Crash(q)) /\ walk' = walk
    BY <1>1, <2>1 DEF Next, catalogVars, List, StartWalk, CountRows, SelectPage, storeVars
  <2>3. q = r
    BY <1>1, <2>2, RequestEnds DEF Moves
  <2>4. Execute(r) /\ Duplicate(r)
    BY <1>1, <2>2, <2>3, OnlyDuplicatesBlame DEF Blameless
  <2> QED BY <1>1, <2>4, DuplicateCauses DEF Execute
<1> QED BY <1>1, CatalogInvariance, PTL DEF Spec, UniquenessErrorsHaveACause
=============================================================================
