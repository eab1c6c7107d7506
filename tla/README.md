# Vendiman ERP in TLA+

Four models of one system. The first is of the back end's procurement and inventory
core: what happens when several requests that create and approve purchase orders, receive
goods and adjust stock are served at once, when they raise half-way, and when a worker
dies. The second is of the services that build on unique columns: accounts and tokens on
one hand, products, suppliers, workbooks and paged lists on the other, over one model of
the store. The third is of the money of an order. The fourth is of the front end's HTTP
client: what happens to calls when the access token expires under them. The modules are
translated from the sources (paths below are relative to `src/backend/app` and
`src/frontend/src`), TLC checks them on small instances, and TLAPS proves the main
invariants and the refinements for all instances.

## 1. Inventory: the system and its parts

FastAPI routes call services; services call repositories; repositories share
one SQLAlchemy `AsyncSession` per request on one PostgreSQL database. Redis
serves authentication. A React front end talks to the API through one axios
client. Requests are coroutines: they interleave at every `await`, and several
worker processes share the database.

| Component | State it keeps | Operations that change state | Hard behaviour | What makes it correct |
|---|---|---|---|---|
| Sessions and engine (`core/database.py`, `core/dependencies.py`) | transaction of each request, connection pool | begin at the first statement, flush, commit, rollback, close | who commits; row locks; pool exhausted; crash | one-step effect or none; success means stored; every request ends |
| Goods receipts (`services/grn_service.py`) | notes, lines, batches | `create_grn` | many statements, one line may raise | all or nothing; order was approved; order lines counted |
| Purchase orders (`services/po_service.py`) | orders, lines | `create_po`, `approve_po` | status checked on one statement, changed by another | the documented state machine |
| Inventory (`services/inventory_service.py`, `repositories/inventory_repository.py`) | balances, ledger | `adjust_stock`, `get_or_create_stock`, `record_transaction` | read, then write an absolute value; select, then insert | ledger explains balance; one row per pair |
| Authentication (`services/auth_service.py`, `core/redis_client.py`) | users, refresh tokens, denylist | login, refresh, logout, register, `update_me` | concurrent refresh, crash between revocation and replacement, expiry while serving, Redis failing | a token is exchanged twice only by overlapping requests; nobody is signed out without a cause; one address, one account; logout is final |
| HTTP client (`api/client.ts`, `stores/auth.store.ts`) | access token, refresh flag, queue | 401 handling, refresh, logout | refresh races late answers and logout | one refresh at a time; every call is settled once |
| Catalog (`services/product_service.py`, `supplier_service.py`, their repositories) | products, suppliers, categories | create, update; read, look-up by barcode, paged lists | check, then write; stale reads; pages counted and selected in two statements, each page a request | unique keys; one item per code in any spelling; a 500 only for a race or an unchecked column; pages miss nothing they need not |
| Upload (`api/v1/upload.py`, `utils/excel_parser.py`) | products | upsert of a workbook | one transaction over all rows, locks in the order of the sheet | the sheet, exactly, or nothing; ends |
| Money (`services/po_service.py`) | totals of an order | `create_po` | rounding by columns; widths | totals agree with lines; refused for a cause |
| Answers (`core/exceptions.py`, `main.py`, `schemas/common.py`) | none | exception to status, page arithmetic | - | part of the catalog's and the accounts' properties |
| Middleware, logging, configuration | none | none | - | - |
| Alerts, analytics, health | none | none (queries) | - | - |
| Machines, challans, transfers, orders, workers, migrations | tables or settings only | none in the code base | - | - |
| Front-end pages | lists in component state | post products and suppliers; the rest stays local | - | - |

The hazards, each at its line and with the properties that cover it, are in
`PROJECT.json`.

## 2. Modules

`Database` is extended by `PurchaseOrders` and `Inventory`, these by
`GoodsReceipt`, and this by `Procurement`, which has the next-state relation.
`Procurement` instantiates `UnitOfWork`. `MCProcurement` extends `Procurement` with the instances
for TLC. `Overlaps` adds a history variable to `Procurement`, `past`: which requests had committed when
each of them took its first step, in which it reads the order's status or the balance it goes by. It
changes no step, and says which requests overlapped. `MCOverlaps` extends `MCProcurement` and `Overlaps`;
it takes `SoundOnFile`, the hypothesis of one theorem, as an `ASSUME`, so that TLC evaluates it on the
instance it checks. `ProcurementProofs` extends `Procurement` with the proofs of types and refinement,
`ReceiptProofs` extends that with the proofs about documents, and `LedgerProofs` extends this and
`Overlaps` with those about the ledger and about overlapping requests.
`Store` extends `Answers` and is extended by `Auth` and by `Items`; `Upload` and
`Listing` extend `Items` (and `Upload` instantiates `Workbook`), `Catalog` extends both.
`MCCatalog` has its instances.
`Store` instantiates `UnitOfWork` too: both back-end models promise the same to a request.
`StoreProofs` holds what is proved of the store once, for `AuthProofs` and
`CatalogProofs`. `Pricing` and `PricingProofs` stand alone.
`ClientRefresh` stands alone: to the back end its calls are requests like any other,
and to it the back end is a source of answers. It instantiates `Promises`;
`ClientRefreshProofs` extends it.

**Database.** `table` holds the committed rows by identity (balances, orders,
notes, batches; the lines of an order or a note are in its row, since they are
written with it and never on their own), `ledger` the committed rows of
`inventory_transactions` in commit order. `session[r]` is the session of request
`r`: `writes` and `posted` are what it has sent to the server and not committed,
`dirty` and `entries` what its next flush will send. `job[r]` is its coroutine.

- PostgreSQL runs at READ COMMITTED, since `create_engine()` sets no isolation
  level. So `View(r)`, what a SELECT returns, is the committed table under r's
  own writes, read afresh by every statement; an UPDATE (in `Flush`) waits for
  the row lock of another transaction and holds its own until the end. Inserts
  need no lock: their keys are drawn with `uuid4()`, and `inventory_stocks` has no
  unique constraint to wait on. A foreign key takes a lock that does not conflict
  with these updates.
- `autoflush=False`: pending changes reach the server only by `flush()`. Every
  handler is therefore cut at its flushes. A step reads and computes, inserts rows
  that nobody else can see, and leaves its updates pending; `Flush` sends them as
  soon as no other transaction has the rows. Other requests run in between.
- Two session managers exist. The routes use `get_db`, which never commits;
  `get_async_session` commits at the end. `Managers` says which are in use. With
  `get_db` alone nothing is ever stored (run `durable`), and nothing else could be
  said about the services. The other runs therefore serve the same services with
  the committing manager, or with both: what they show is what the services
  guarantee as soon as their work is committed, as their documentation assumes.
  Only the choice of the manager differs; the handlers are the same.
- `Connect` and `PoolTimeout` model the pool, `Raise` an exception leaving the
  handler, `Crash` the loss of the worker or its connection, `DeadlockVictim` the
  deadlock detector of the server.

**PurchaseOrders, Inventory, GoodsReceipt.** One action per service method where
a method has one flush (`CreatePO`, `ApprovePO`, `AdjustStock`); `create_grn` is
`OpenGRN`, then for each item `FailLine`, `RecordLine` or `CreditLine`, then
`ClosePO`. The early returns and exceptions are their guards: an unknown product, a
quantity left out (`int(None)` raises), a value too wide for its INTEGER column,
two balance rows (`scalar_one_or_none()` raises), a status that does not allow the
operation. A batch leaves with the flush after the one the model gives it; as
nobody can see it before the commit, the difference cannot be observed.

**Answers.** The exception classes with their codes, the handler that maps codes to
statuses (400 for a code it does not know), those of `JWTError` and request validation, 500
for the rest; offset, `total_pages` and `has_next` of a page.

**Store.** A smaller database than `Database`, with what that one leaves out: unique
columns (`Unique`, read off the `unique=True` of the tables in use). No ledger, no pool,
no pending flush: these services flush every statement. `Stage` sends a statement, `Execute` runs it
once `Blockers` is empty: no other transaction holds the row, and none has entered or
superseded a key the statement enters (PostgreSQL waits for that transaction to
end). Then it writes, or raises `IntegrityError` if another row has the key.
`View`, `Commit`, `Discard`, `Crash` and `DeadlockVictim` are as in `Database`. Every request
has its own session, and one session manager serves all of them, chosen by `Init`.

**Auth.** `login`, `refresh`, `logout`, `register`, `get_me`, `update_me`, each cut at its
statements. A token is a record of its claims; `jti` names the request that issued it;
`Garbage` is a string that is none. `BearerError` and `RoleError` are the dependencies of the
routes. The denylist is read, but the only call that would write it, `setex`, does not exist, so
no key is ever found, and `get` returns `None` if Redis cannot be reached: the look-up never
denies. Clients present any token ever issued, a bearer and a refresh token that do not
belong together, and tokens that expire (`Expire`) between any two steps.

**Items, Workbook, Upload, Listing, Catalog.** Products and suppliers are served alike,
so one set of actions takes the table as a parameter. `past` remembers what had committed when a check
passed, so that a later failure can be traced to a race. A product with a category
cannot be answered: its category is loaded lazily, which an async session refuses
(`Unreadable`); the request then fails after its write and is rolled back.
`Workbook` says which rows of a sheet count and what a blank or zero price becomes; `Upload` looks
each item up and updates or inserts it. An `.xls` is accepted by its suffix and refused by the
reader. `Listing` is one client that walks the pages: `CountRows` and `SelectPage` are
two statements, and rows with one name come in any order. `Catalog` puts them together.

**Pricing.** `create_po`, line by line, in whole numbers fine enough to be exact:
quantity, price and rate may be too wide for their columns, the rate may be no number, each
stored amount is rounded half away from zero by its column, the totals are
computed from the exact amounts and stored last.

**ClientRefresh.** One page with its store (`accessToken`, `signedIn`), the
interceptors' variables (`isRefreshing`, `failedQueue`, the marks `_retry`) and the calls
(`call`, `bearer`).

- JavaScript runs a callback and its microtasks to the end, so a step is one answer
  with everything that follows from it: `Refreshed` stores the token, empties the queue
  and sends every waiting call again, since `processQueue`'s promises, the retries and
  their request interceptors all run before the next answer is looked at.
- A call refused with 401 is marked and refreshes (`StartRefresh`), or waits if another
  call does (`Enqueue`), or fails if it is marked (`Fail`, with all other errors and the
  timeout). A call without a token of the back end cannot succeed; one with a token may
  be refused at any time, since tokens expire.
- The user may log out and in while answers are due; nothing is cancelled then. A reload,
  by the user or for `window.location.href`, clears the memory and keeps the user that
  `sessionStorage` has.
- `RefreshAnswers` says what the refresh endpoint may answer. The back end at hand can only
  refuse, because the client sends no body (run `client_refused`). The run `client` also lets
  it answer with a token, as the client's documentation expects, so that all of
  the interceptor is exercised.

**Promises.** The abstract specification of the client: a call is made, then settled
once; calls that fail for one reason may be rejected together, and a reload forgets all.

**UnitOfWork.** The abstract specification: a request begins, and is then abandoned
without effect or applied in one step, which adds rows and postings of that
request only and removes none.

In both back-end models a request's rows carry its name (`uuid4()` keys never collide), so
the abstract `Apply(r)` can say whose they are.

**Procurement.** `Submit` (a client sends any request of `Jobs`), `Serve` (every step
of the server for a request) and `Crash`; `Outcome` maps the state of a session to
the abstract outcome of its request.

## 3. What is checked

Constants are model values; requests are interchangeable (but for r1 where others may receive its order), so runs of
`Procurement` without a liveness property use symmetry on them. Deadlock is not checked: each request is
served once, and a state in which all have been answered has no successor.

| Run | Instance | Holds |
|---|---|---|
| `receipts` | 3 requests (approve or receive order o1, filed as draft, create an order, count stock), both managers, an order for an unknown product, receipts with a rejected line, a batch, an unknown product, a missing quantity, a sum beyond `MaxInt` | `TypeOK`, `ReceiptIsAtomic`, `NoTraceUnlessCommitted`, `ImplementsUnitOfWork` |
| `lifecycle` | 4 requests, 4 connections; r1 may create an order; that one and the one on file, a draft, are approved and received, stock is counted to 1 | `ReceiptsNeedApproval`, `DocumentsAreImmutable`, `BalancesArePosted`, `DriftBreaksTheChain`, `ReopeningNeedsOverlap`, `SecondReceiptNeedsOverlap`, `SecondRowNeedsOverlap`, `DriftNeedsOverlap` |
| `liveness` | 3 receipts of two products on file, in either order, 2 connections | `EveryRequestEnds` |
| `client` | 3 calls, refreshes that succeed or fail | `TypeOK`, `OneRefresh`, `QueueIsServed`, `ImplementsPromises`, `EveryCallSettles`, `AnswersRunOut` |
| `auth` | 3 requests, an administrator with an old session and an inactive account, two spellings of one address, one token that may expire | `TypeOK`, `OneAccountPerAddress`, `ForkNeedsOverlap`, `RefusedOnlyForCause`, `ServerErrorsAreRaces`, `RotationIsAtomic` |
| `catalog` | 2 requests, 7 files, shelves with and without a category, and a client that lists two products or two suppliers, a row a page, while the requests add, change and rename rows | `TypeOK`, `OneItemPerCode`, `UniquenessErrorsHaveACause`, `NothingMissed`, `UploadIsExact`, `ImplementsUnitOfWork`, `EveryRequestEnds` |
| `pricing` | every order of 1 to 3 of 16 items, columns narrow enough for each to overflow | `TypeOK`, `OrderAddsUp`, `TotalsNeedManyLines` |

| Run | Refutes | What the documentation says |
|---|---|---|
| `durable` | `SuccessIsDurable` | `get_db()` commits on success (`repositories/base.py:163-165`) |
| `lost_update` | `LedgerExplainsBalance` | the ledger is a complete, trustworthy trail (`domain/models/inventory.py:18-21`) |
| `over_receipt` | `ReceivedWithinOrdered` | received quantity cannot exceed ordered quantity (`domain/models/grn.py:7-9`, `core/exceptions.py:132`) |
| `client_refused` | `RefreshKeepsUser` | no need to log in again when a token expires (`api/client.ts:17-19`) |
| `logout` | `LogoutRevokes` | logout revokes the refresh token (`services/auth_service.py:10`) |

What is received is not bounded by what was ordered, with or without concurrency: `create_grn` compares the
two quantities nowhere, so a single receipt with nobody else around breaks `ReceivedWithinOrdered`
(`over_receipt`, with one connection). That a receipt updates the received quantities of the
order's lines (`services/grn_service.py:4-6`) holds in no instance: no statement of `create_grn` writes them.

Three more documented statements are false of concurrent requests: that the ledger explains the balance
(`domain/models/inventory.py:18-21`, refuted by `lost_update`), that there is one balance row per product and
warehouse (`domain/models/inventory.py:7`), and that FULLY_RECEIVED has no way out (`domain/enums.py:101-104`). An
order can moreover be received twice. `lifecycle`, in which all four happen, checks what the code keeps: each
of them needs two requests that overlapped, that is, neither of which had committed when the other began.

- A balance differs from its ledger only if two of the requests that moved it overlapped (`DriftNeedsOverlap`).
- A request inserts a second row of a pair only if it overlapped the request that inserted the other
  (`SecondRowNeedsOverlap`).
- A received order is reopened only if two approvals of it overlapped, each with a view that the other's
  commit had not reached (`ReopeningNeedsOverlap`).
- It is received twice only if the two receipts overlapped, or such approvals reopened it
  (`SecondReceiptNeedsOverlap`): a client that posts its receipt again after the answer is refused. Both cases
  occur in the instance.

Requests that move other balances, fail or crash do no harm, however they overlap with these. In particular,
requests served one at a time have none of the four. `DriftBreaksTheChain` says how a drift
can be found: it always shows as an entry whose `quantity_before` is not the `quantity_after` of the entry
before it.

In `auth`, `ForkNeedsOverlap` is what is left of "a refresh token is used once": two
requests that overlap may both exchange it, a later replay never succeeds.
`RefusedOnlyForCause` is the client's side of it: whatever fails or crashes between the revocation
and its commit, the old token still works. `ServerErrorsAreRaces` and, in `catalog`,
`UniquenessErrorsHaveACause` say that a check before an insert may be overtaken but never be wrong on
its own: each 500 is traced to the commit that overtook it, or to a column that nothing checks.
The second is an action property, judged at the step in which the statement fails, since what
is in the table later says nothing about what it collided with.
`AnswersRunOut` is why calls cannot keep each other waiting: whatever moves a call makes
less of what is left (calls to be made, then calls that may still cause a refresh, then
refreshes, then calls sent), compared in that order as sets. The mark `_retry` is what
makes a refresh count, since it sends every waiting call again.
`NothingMissed` says exactly when paging by offset is safe: no commit between the count and the
page of one request, no rename, no two rows of one name. Between two pages rows may be added and
changed: in `catalog` a product appears before the page the client has reached, which is shown another one again
and never sees the new one, or a supplier appears between the two; none that was there at the start is missed.

**Bounds.** `Request` (3 or 4): every race above needs two requests, a third makes
one of them follow a commit, a fourth lets an order be created first or, in `lifecycle`, be approved twice
and received twice, and a balance drift once it was counted. `MaxInt` is
2, 3 or 6 and stands for the 32-bit maximum; 2 lets a second line overflow.
Lines per receipt: at most 2, enough for a later line to raise after an earlier one
was credited, and for the lock cycle. `PoolSize` is 1 to 4: less than, or equal
to, the requests. The runs that refute need two requests (one for `durable` and `over_receipt`).

`auth` and `catalog`: 3 and 2 requests. Every race of two requests happens, in `auth` also
with a third that replays what the first two were sent. To keep the instances small, `Scenarios`
names which operations meet in one behaviour (a registration does not touch a
token, nor an upload a supplier); within a scenario all interleavings and crashes are explored,
in `auth` under both managers, in `catalog` under the committing one (without a commit the list never
changes). Sheets have at most three rows: one product twice, one
blank, one garbled, one too wide, two in opposite orders for the lock cycle. `Limit = 1` makes
every row a page; with two rows on file and a free code in either table, a walk has two or three pages: a product
appears before those on file, a supplier between them. `pricing`: three lines are one more than the widest lines the order's
columns hold; `Scale = 10` gives prices a tenth of a paisa; the column limits are small
and keep, in the main, the order of the real ones: a line's total is narrower than an order's and wider
than a price. A price and a tax have one width in the code; here the tax's is the wider, so that
there are lines refused by each column alone: by the quantity, the price, the tax or the total.

Calls: 3. One refreshes, one waits in the queue, and a third joins it or comes late,
after the refresh has ended; what was queued can then refresh in its turn while another
waits.

**Fairness.** In `Procurement`, `FairSpec` is weakly fair to `Serve(r)` for every request. The event loop
runs every ready coroutine, the server executes what is not blocked, and its
deadlock detector (`deadlock_timeout`) and the pool's timeout end what is. Nothing
is assumed of clients (`Submit`) or crashes. A row lock is released only when its
holder ends, so a waiting `Flush` depends on the others' fairness; were
the session of a deadlock's victim left open, the property would fail. In `Catalog`, `FairSpec` is the same, over the statements of `Store`: the server executes a
statement that nothing blocks, its detector ends every cycle of waits, and a handler that can
run is run. In
`ClientRefresh`, every answer comes (`WF(Answer(c))`), because axios gives up on a request
after 30 seconds (`api/client.ts:47`); users owe nothing.

## 4. What is proved

`ProcurementProofs`, with `DatabaseAssumption` and `ProcurementAssumption` only: any
number of requests, orders, products and warehouses, any request bodies the schemas
let through, any pool, both managers.

- `TypeCorrect` (`TypeOK`): no column overflows, no balance is negative.
- `FailureLeavesNoTrace` (`NoTraceUnlessCommitted`).
- `Refinement` (`ImplementsUnitOfWork`): initial states map to initial states,
  `Submit` to `Begin`, `Commit` to `Apply`, every failing step to `Abandon`, and every
  statement and flush to a stutter.

Neither of the two invariants is inductive. A flush or a commit of one session must leave the others'
work intact, for which no two sessions may have written one row (`LocksExclusive`, the guard of
`Flush`). That this stays so depends on new rows being out of everyone's reach: a row that request `r` inserts
names `r`, other sessions write only stored rows and rows of their own (`OwnWork`), and no
stored row names `r` before `r` commits (`NoTraceUnlessCommitted`), which in turn
depends on `OwnWork` when others commit. `Unstarted` (nothing is written before the
connection) covers `Connect`. For the types, `create_grn` must still find its note and
its order after other requests ran: `Opened`. `IInv` is the conjunction.
Each handler is shown to stage only well-typed work of its own (`OwnStage`), and
`StageKeepsIInv` does the rest for all of them.

`ReceiptProofs`, also with `BooksAssumption` (the store to start with is finite, its ledger
rows record what they say, a balance is zero or has its entry, and is the last entry's where the
chain is intact):

- `ReceiptsAreAtomic` (`ReceiptIsAtomic`), `ReceiptsAreApproved` (`ReceiptsNeedApproval`),
  `PostedBalances` (`BalancesArePosted`), `DocumentsStay` (`DocumentsAreImmutable`).
- `NothingIsKept`: with `Managers = {"get_db"}`, as in the run `durable`, no request stores anything,
  whatever it is answered. Only a commit changes the store (`OnlyCommitsStore`), and no session gets
  another manager than one in use (`ManagersStay`).

A flush moves rows and postings from the pending part of a session to the part that was sent, at a
time of its own and possibly in the midst of a receipt. What a request has done in all, `Work(r)` and
`Posts(r)`, does not change by it, so the invariant is stated of these: how many lines, postings and
batches a receipt has at item `i` (`ReceiptWork`), which status a session may give to which order
(`OrderWork`), that every pending balance has its posting (`BalanceWork`), and that what was
committed is still there (`Stored`). `ReceiptInv` is the conjunction over requests, with `OrdersInv` for what is
stored. That the approval has committed follows although `create_grn` may act on a stale
status: no operation takes a stored order back to a draft (`GoodsOrder`).

`LedgerProofs`, by the same assumptions:

- `DriftIsVisible` (`DriftBreaksTheChain`), for any number of concurrent requests. `LedgerInv` says that where
  the chain of entries is intact and the pair has one row, its balance is the `quantity_after` of the last one, and of each
  session that its entries follow each other from the balance it saw; the sum of the movements of an
  intact chain then telescopes. A lost update breaks the chain in the commit that loses it.
- `SecondRowsOverlap` (`SecondRowNeedsOverlap`), for any number of requests and connections, of `HistorySpec`. A session
  takes the only row of the pair in its view, or adds one if there is none. `RowsInv` says therefore that
  any other stored row of the pair came from a request that is not in its past (`RowsApart`), and that this stays so
  once both are stored (`StoredApart`). Nor does the request that committed first have
  the other in its past, which holds only what had committed.
- `DriftsOverlap` (`DriftNeedsOverlap`), of the same, if the books on file are sound (`SoundOnFile`): one row a
  pair, an intact chain, and its last entry the balance. `DriftInv` says that where no two movers of a pair overlapped its
  books are sound, and would be so with the work of any session that had all movers in its past added. A request that
  commits without having them in its past overlapped one of them. Entries of other pairs that were
  committed in between make no difference (`SoundApart`).
- `ReopeningsOverlap` (`ReopeningNeedsOverlap`) and `SecondReceiptsOverlap` (`SecondReceiptNeedsOverlap`), of the same. No approval of its order had committed when an approval passed
  its check, since a stored order never goes back to a draft (`ApprovedLater`, `ApprovalStays`); so two committed
  approvals of one order overlap. What is left is that there are two: `HistoryInv` says that the order of a
  stored receipt is fully received unless it was approved twice (`ClosedOrTwice`), that an approval whose check is no longer
  true was overtaken by another one (`Overtaken`), and that a receipt with a receipt of its
  order in its past met an order that was approved twice (`AfterReceipt`).

`ClientRefreshProofs`, for every set of calls and of answers:

- `TypeCorrect` (`TypeOK`), `RefreshesAreSingle` (`OneRefresh`), `TheQueueIsServed` (`QueueIsServed`).
- `Refinement` (`ImplementsPromises`): `Make` maps to `Make`, `Succeed` to `Fulfill`, `Fail` and
  `RefreshFailed` to `Reject`, `Reload` to `Forget`, all else to a stutter.

`FlagIsHeld`, that the flag is up exactly while a call awaits its refresh, makes both
invariants inductive: a second refresh needs the flag down, and the step that lowers it
empties the queue. `CallsRunOut` (`AnswersRunOut`) uses that what is in the queue waits: each of the
four sets is shown to shrink, or to stay, by where the calls go (`MoveLeaves`). The order is
well-founded for finitely many calls, so with an answer to everything sent every call settles;
the step from there to `EveryCallSettles` needs fairness and `ENABLED`, and stays with TLC. The refinement needs `QueueIsServed`: were a settled call still in
the queue, the end of a refresh would settle it again.

`StoreProofs`, with `StoreAssumption` only: any component whose steps are `StoreStep`s.
A step is quiet (it writes nothing: `Quiet`), executes a statement, or commits. `Distinct(table)`, no
unique key stored twice, is not inductive. `StoreInv` adds that no session in progress sees a
key twice (`ViewsDistinct`, which a commit needs for its own rows) and that sessions in progress write
different rows, and no key another has entered or superseded (`WritesApart`, which the others'
views need when one commits); `Unblocked` shows that waiting for `Blockers` establishes it.
`OwnWork` (rows on file or of one's own) carries the refinement. `StoreStepKeeps` is the result that the
components use: the invariant is kept, and the step maps to a step of `UnitOfWork` or a stutter.

`CatalogProofs`, also with `ItemsAssumption`, `CatalogAssumption` (what is on file has
distinct keys and belongs to no request to come) and `InputsAssumption` (what is on file, in requests and in
sheets has the columns and types of the schema; codes on file are in upper case): each operation is shown to take such steps only
(`CreateSteps`, `UpdateSteps`, `UploadSteps`, ...), for any jobs and any files. `JobsOK`
is needed because an update writes the row it found some steps earlier: it is still there.

- `Refinement` (`ImplementsUnitOfWork`).
- `TypeCorrect` (`TypeOK`), `OneCodeOneItem` (`OneItemPerCode`), `UniquenessErrorsExplained`
  (`UniquenessErrorsHaveACause`), `UploadsAreExact` (`UploadIsExact`), `NothingIsMissed` (`NothingMissed`).

All but the refinement need `CatalogInv`. `Typed` and `StatementOK` say what a session has at each `pc`
and which statement it may wait for; codes that are stored are in upper case, whence two
spellings of one code are one key. `ClearOK` says that a code that was checked is not in view
unless a commit since the check brought it (`Clear`): this is what traces an `IntegrityError` to its
cause. For an upload (`UploadOK`), the last of the items served so far of every product is in
what the session has sent, which has as many new rows as are counted as created; that the parser returns
rows of the right type is an induction over its loop. For the listing (`WalkOK`), every row whose
`Rank` belongs to the pages read has been shown: the rank of a row never falls while rows
are added, it is the row's place on the sorted list (`SortedRank`), and the last page reaches it
(`LastPageCovers`).

`AuthProofs`, also with `AuthAssumption` and `AccountsAssumption`:

- `NoAddressTwice` (`OneAccountPerAddress`). Emails on file and in all writes are in lower case
  (`AccountsOK`), so two accounts of one address would share a key. A statement that updates a
  user must find it in view, or it would insert a row without an address: `StatementOK`, from the
  position of the login that found the user (`Position`) and from `ViewsGrow`: no session
  ever loses sight of a row.
- `TypeCorrect` (`TypeOK`), `RotationsAreAtomic` (`RotationIsAtomic`), `ForksOverlap` (`ForkNeedsOverlap`),
  `RefusalsHaveACause` (`RefusedOnlyForCause`), `ServerErrorsWereRaces` (`ServerErrorsAreRaces`), by `AuthInv`. `WritesOK` and
  `SendsOK` say what each operation has written and may send next, and `Progress` that a request
  that has reached a `pc` has sent what leads there: at the end of a refresh the old token is
  revoked and its successor stored, for one user. `History` says that none of the requests that
  had committed when a token was checked exchanged it, whence two exchanges overlap, and that
  an address found free is still free unless an `Overtaker` has stored it since. `TableOK` says that a
  token whose history is `Known` is revoked only if a request exchanged it, and that a
  good one on file stays in the table, so a refusal has one of the named causes. A registration
  has written nothing when it waits, so nobody waits for it and it is in no deadlock;
  that leaves the overtaken check as the only reason for its 500.

`PricingProofs`, with `PricingAssumption`, for any items, prices, rates and widths: the
inductive invariant says that lines have their shapes, that the accumulators are the exact
sums of the lines and `billed` of the rounded ones up to half a unit each, and that they are
bounded by the number of lines. It rests on `RoundingError`: a rounded amount is off by half a unit.

- `ColumnsHold` (`TypeOK`), `OrdersAddUp` (`OrderAddsUp`), `TotalsFit` (`TotalsNeedManyLines`).

**Model-checked only.** `EveryRequestEnds` and `EveryCallSettles`: liveness under fairness is
beyond the prover. Every other property that a passing run checks is a theorem. Wherever a result would need an induction
over data with an operator as its parameter (sums over the ledger, the parser's loop, the rows of a
sorted page), the induction is made over a set, by the well-foundedness of `<` or of the subsets of a finite
set: "the numbers for which the claim holds" are a set, and contain 0 and successors.

## 5. Not modelled

- In procurement and inventory: dates, texts, users and roles; the damaged condition of a line
  (the code stores it and credits the line all the same); listings, among them the order of
  ledger rows by `created_at`. An unknown supplier fails `create_po` before any write and is left out.
- In authentication: rate limits and settings; changes of role or status, which no operation
  makes; the pool, which `Database` has.
- In the catalog: the filters of lists; columns that no check and no property reads. Whitespace
  around a SKU is stripped by the workbook only; the API upper-cases it as it is, so spellings
  that differ in blanks are different codes in the model as in the code. A `gst_rate` left blank or 0 in a
  workbook becomes 18: an input of `Pricing`, not of `Upload`.
- In pricing: the 28 digits of Python's decimal context; prices with more digits than
  `Scale` gives and rates with more than two. The answer to the POST shows the amounts before rounding,
  until they are read again.
- `parse_vend_transactions_excel`, `utils/pagination.py` and the generic repository: nothing calls them.
- Alerts, analytics and health checks read only, with no state of their own to go wrong. Machines, delivery challans,
  transfers and orders are tables without an operation. The background workers name task
  modules that do not exist. Migrations, scripts, middleware, logging and configuration
  set things up and change nothing afterwards.
- The pages of the front end: layout and component state; what they keep is never sent.

Rows are never deleted by the code in scope.

## 6. Plan

The components with behaviour of their own are modelled, and the safety properties of the
runs are proved. What could follow:

1. `StoreProofs` could say which sessions the deadlock detector may choose, which is the part
   of `EveryRequestEnds` that is a safety property.
2. `LedgerProofs` and `CatalogProofs` both begin with an induction over the natural numbers on a
   set; should a third module need it, it belongs in one of its own.
