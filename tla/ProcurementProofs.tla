------------------------- MODULE ProcurementProofs -------------------------
(***************************************************************************)
(* Invariants of Procurement and its refinement of UnitOfWork, for every   *)
(* number of requests, products, warehouses and orders, every request body *)
(* and every size of the pool.                                             *)
(***************************************************************************)
EXTENDS Procurement, TLAPS

\* A row that request r may write: one it inserted, or one that is stored.
OwnRow(r, row) == row.id = r \/ row \in DOMAIN table

\* A list of ledger rows written by r.
OwnEntries(r, s) == \A i \in DOMAIN s : s[i].by = r

\* The transaction of r touches stored rows and rows of its own, and posts in its own name.
OwnWork(r) ==
    /\ \A row \in DOMAIN session[r].writes : OwnRow(r, row)
    /\ \A row \in DOMAIN session[r].dirty : OwnRow(r, row)
    /\ OwnEntries(r, session[r].posted)
    /\ OwnEntries(r, session[r].entries)

\* Nothing was sent to the server before a connection was checked out.
Unstarted(r) ==
    session[r].state \in {"idle", "waiting"} => DOMAIN session[r].writes = {}

\* Every session has its type and is confined to its request's work.
SessionsOK ==
    /\ session = [r \in Request |-> session[r]]
    /\ \A r \in Request : SessionOK(session[r]) /\ OwnWork(r) /\ Unstarted(r)

\* Past the status check, create_grn has inserted its note and has its order in view.
Opened(r) ==
    job[r].op = "create_grn" /\ job[r].pc # "start" =>
        /\ GRNRow(r) \in DOMAIN session[r].writes
        /\ PORow(job[r].po) \in DOMAIN View(r)

\* No two transactions in progress have both written the same row.
LocksExclusive ==
    \A r, o \in Request : r # o => Held(r) \cap Held(o) = {}

\* The part of the inductive invariant about rows and sessions: LocksExclusive follows
\* because a new row belongs to its request and is in nobody else's reach until it is
\* stored, which NoTraceUnlessCommitted rules out before the commit.
DataInv ==
    /\ RowsOK(table)
    /\ ledger \in Seq(Entry)
    /\ SessionsOK
    /\ NoTraceUnlessCommitted
    /\ LocksExclusive

\* The part about the position of the coroutines.
JobInv ==
    /\ job \in [Request -> Job]
    /\ \A r \in Request : Opened(r)

\* The inductive invariant.
IInv == DataInv /\ JobInv
-----------------------------------------------------------------------------
\* Overlay joins the domains of well-typed row sets, and is well typed.
LEMMA OverlayOK ==
    ASSUME NEW f, NEW g, RowsOK(f), RowsOK(g)
    PROVE  /\ RowsOK(Overlay(f, g))
           /\ DOMAIN Overlay(f, g) = DOMAIN f \cup DOMAIN g
           /\ \A row \in DOMAIN f \cup DOMAIN g :
                 Overlay(f, g)[row] = IF row \in DOMAIN g THEN g[row] ELSE f[row]
BY DEF Overlay, RowsOK

\* The empty row set is well typed.
LEMMA NoRowsOK == RowsOK(NoRows) /\ DOMAIN NoRows = {}
BY DEF NoRows, RowsOK

\* Appending r's ledger rows keeps the old ones, in place, and adds rows of r only.
LEMMA ConcatOf ==
    ASSUME NEW s \in Seq(Entry), NEW t \in Seq(Entry), NEW r, OwnEntries(r, t)
    PROVE  /\ s \o t \in Seq(Entry)
           /\ Len(s) <= Len(s \o t)
           /\ \A i \in DOMAIN (s \o t) : (s \o t)[i].by = r
                \/ (i \in DOMAIN s /\ (s \o t)[i] = s[i])
           /\ \A i \in 1 .. Len(s) : (s \o t)[i] = s[i]
           /\ \A i \in Len(s) + 1 .. Len(s \o t) : (s \o t)[i].by = r
BY DEF OwnEntries

\* Two lists of r's ledger rows, one after the other, are ledger rows of r.
LEMMA ConcatOwn ==
    ASSUME NEW s \in Seq(Entry), NEW t \in Seq(Entry), NEW r,
           OwnEntries(r, s), OwnEntries(r, t)
    PROVE  s \o t \in Seq(Entry) /\ OwnEntries(r, s \o t)
BY DEF OwnEntries

\* Initially nothing of any request is stored, held or waiting.
LEMMA InitIInv == Init => IInv
<1> SUFFICES ASSUME Init PROVE IInv
  OBVIOUS
<1> USE NoRowsOK
<1>1. PICK f \in Filed : table = f.table /\ ledger = f.ledger
  BY DEF Init
<1>2. RowsOK(table) /\ ledger \in Seq(Entry)
  BY <1>1, ProcurementAssumption
<1>3. /\ session = [r \in Request |-> FreshSession("get_db")]
      /\ job = [r \in Request |-> NoJob]
  BY DEF Init
<1>4. SessionOK(FreshSession("get_db"))
  BY DEF FreshSession, SessionOK, SessionState, AllManagers
<1>5. SessionsOK
  BY <1>3, <1>4 DEF SessionsOK, OwnWork, OwnEntries, Unstarted, FreshSession
<1>6. NoTraceUnlessCommitted
  BY <1>1, ProcurementAssumption, DatabaseAssumption DEF NoTraceUnlessCommitted
<1>7. LocksExclusive
  BY <1>3 DEF LocksExclusive, Held, Live, FreshSession
<1>8. JobInv
  BY <1>3 DEF JobInv, NoJob, Job, PC, Opened
<1> QED
  BY <1>2, <1>5, <1>6, <1>7, <1>8 DEF IInv, DataInv
-----------------------------------------------------------------------------
\* What a request sees is well typed: the stored rows and its own.
LEMMA ViewOK ==
    ASSUME DataInv, NEW r \in Request
    PROVE  /\ RowsOK(View(r))
           /\ DOMAIN View(r) = DOMAIN table \cup DOMAIN session[r].writes
<1>1. RowsOK(table) /\ RowsOK(session[r].writes)
  BY DEF DataInv, SessionsOK, SessionOK
<1>2. /\ RowsOK(Overlay(table, session[r].writes))
      /\ DOMAIN Overlay(table, session[r].writes)
           = DOMAIN table \cup DOMAIN session[r].writes
  BY <1>1, OverlayOK
<1> QED
  BY <1>2 DEF View

\* What a handler hands to its unit of work is well typed and its own.
OwnStage(r, new, dirty, entries) ==
    /\ RowsOK(new)
    /\ RowsOK(dirty)
    /\ entries \in Seq(Entry)
    /\ \A row \in DOMAIN new : row.id = r
    /\ \A row \in DOMAIN dirty : row.id = r \/ row \in DOMAIN View(r)
    /\ OwnEntries(r, entries)

\* The effect of Stage, field by field.
LEMMA StageStep ==
    ASSUME DataInv, NEW r \in Request, NEW new, NEW dirty, NEW entries,
           Stage(r, new, dirty, entries), RowsOK(new)
    PROVE  /\ session' = [q \in Request |-> session'[q]]
           /\ \A q \in Request \ {r} : session'[q] = session[q]
           /\ session'[r] = [state |-> session[r].state,
                             manager |-> session[r].manager,
                             writes |-> Overlay(session[r].writes, new),
                             posted |-> session[r].posted,
                             dirty |-> dirty, entries |-> entries]
           /\ table' = table /\ ledger' = ledger
<1>1. /\ session = [q \in Request |-> session[q]]
      /\ SessionOK(session[r])
  BY DEF DataInv, SessionsOK
<1>2. session[r] = [state |-> session[r].state, manager |-> session[r].manager,
                    writes |-> session[r].writes, posted |-> session[r].posted,
                    dirty |-> session[r].dirty, entries |-> session[r].entries]
  BY <1>1 DEF SessionOK
<1> QED
  BY <1>1, <1>2 DEF Stage

\* A handler that stages its own work disturbs no other session.
LEMMA StageKeepsDataInv ==
    ASSUME DataInv, NEW r \in Request, NEW new, NEW dirty, NEW entries,
           Running(r), Stage(r, new, dirty, entries), OwnStage(r, new, dirty, entries)
    PROVE  DataInv'
<1>1. RowsOK(new) /\ RowsOK(dirty) /\ entries \in Seq(Entry)
  BY DEF OwnStage
<1>2. /\ session' = [q \in Request |-> session'[q]]
      /\ \A q \in Request \ {r} : session'[q] = session[q]
      /\ session'[r] = [state |-> session[r].state,
                        manager |-> session[r].manager,
                        writes |-> Overlay(session[r].writes, new),
                        posted |-> session[r].posted,
                        dirty |-> dirty, entries |-> entries]
      /\ table' = table /\ ledger' = ledger
  BY <1>1, StageStep
<1>3. SessionOK(session[r]) /\ OwnWork(r)
  BY DEF DataInv, SessionsOK
<1>4. /\ RowsOK(session'[r].writes)
      /\ DOMAIN session'[r].writes = DOMAIN session[r].writes \cup DOMAIN new
  <2>1. RowsOK(session[r].writes)
    BY <1>3 DEF SessionOK
  <2>2. session'[r].writes = Overlay(session[r].writes, new)
    BY <1>2
  <2>3. /\ RowsOK(Overlay(session[r].writes, new))
        /\ DOMAIN Overlay(session[r].writes, new)
             = DOMAIN session[r].writes \cup DOMAIN new
    BY <1>1, <2>1, OverlayOK
  <2> QED
    BY <2>2, <2>3
<1>5. session[r].state = "open"
  BY DEF Running
<1>6. SessionOK(session'[r])
  BY <1>1, <1>2, <1>3, <1>4 DEF SessionOK
<1>7. OwnWork(r)'
  <2>1. \A row \in DOMAIN session'[r].writes : OwnRow(r, row)'
    BY <1>2, <1>3, <1>4 DEF OwnWork, OwnRow, OwnStage
  <2>2. \A row \in DOMAIN session'[r].dirty : OwnRow(r, row)'
    <3>1. DOMAIN View(r) = DOMAIN table \cup DOMAIN session[r].writes
      BY ViewOK
    <3>2. \A row \in DOMAIN dirty : row.id = r \/ row \in DOMAIN table
      BY <1>3, <3>1 DEF OwnWork, OwnRow, OwnStage
    <3> QED
      BY <1>2, <3>2 DEF OwnRow
  <2>3. OwnEntries(r, session'[r].posted) /\ OwnEntries(r, session'[r].entries)
    BY <1>2, <1>3 DEF OwnWork, OwnStage
  <2> QED
    BY <1>2, <2>1, <2>2, <2>3 DEF OwnWork, OwnEntries
<1>8. SessionsOK'
  <2>1. \A q \in Request \ {r} : (SessionOK(session[q]) /\ OwnWork(q) /\ Unstarted(q))'
    BY <1>2 DEF DataInv, SessionsOK, OwnWork, OwnRow, OwnEntries, Unstarted
  <2>2. Unstarted(r)'
    BY <1>2, <1>5 DEF Unstarted
  <2> QED
    BY <1>2, <1>6, <1>7, <2>1, <2>2 DEF SessionsOK
<1>9. \A q \in Request : session'[q].state = session[q].state
  BY <1>2
<1>10. NoTraceUnlessCommitted'
  BY <1>2, <1>9 DEF DataInv, NoTraceUnlessCommitted
<1>11. LocksExclusive'
  <2>1. \A q \in Request \ {r} : Held(q)' = Held(q)
    BY <1>2 DEF Held, Live
  <2>2. Held(r)' = Held(r) \cup DOMAIN new
    BY <1>2, <1>4, <1>5 DEF Held, Live
  <2>3. \A q \in Request \ {r} : Held(q) \cap DOMAIN new = {}
    <3> SUFFICES ASSUME NEW q \in Request \ {r}, NEW row \in Held(q),
                        row \in DOMAIN new
                 PROVE  FALSE
      OBVIOUS
    <3>1. row.id = r /\ OwnRow(q, row)
      BY DEF OwnStage, DataInv, SessionsOK, OwnWork, Held
    <3>2. row \notin DOMAIN table
      BY <1>5, <3>1 DEF DataInv, NoTraceUnlessCommitted
    <3> QED
      BY <3>1, <3>2 DEF OwnRow
  <2> QED
    BY <2>1, <2>2, <2>3 DEF LocksExclusive, DataInv
<1> QED
  BY <1>2, <1>8, <1>10, <1>11 DEF DataInv
-----------------------------------------------------------------------------
\* A step that changes only the state and the manager of the session of r.
Becomes(r, s, m) ==
    /\ session' = [q \in Request |-> session'[q]]
    /\ \A q \in Request \ {r} : session'[q] = session[q]
    /\ session'[r] = [state |-> s, manager |-> m,
                      writes |-> session[r].writes, posted |-> session[r].posted,
                      dirty |-> session[r].dirty, entries |-> session[r].entries]
    /\ table' = table /\ ledger' = ledger

\* The state of a session changes and nothing else of it.
LEMMA StateStep ==
    ASSUME DataInv, NEW r \in Request, NEW s,
           session' = [session EXCEPT ![r].state = s], UNCHANGED <<table, ledger>>
    PROVE  Becomes(r, s, session[r].manager)
<1>1. /\ session = [q \in Request |-> session[q]]
      /\ session[r] = [state |-> session[r].state, manager |-> session[r].manager,
                       writes |-> session[r].writes, posted |-> session[r].posted,
                       dirty |-> session[r].dirty, entries |-> session[r].entries]
  BY DEF DataInv, SessionsOK, SessionOK
<1> QED
  BY <1>1 DEF Becomes

\* A session that moves on without committing keeps the invariant.
LEMMA BecomingKeepsDataInv ==
    ASSUME DataInv, NEW r \in Request, NEW s \in SessionState, NEW m \in AllManagers,
           Becomes(r, s, m),
           session[r].state # "committed", s # "committed",
           s \in {"idle", "waiting"} => session[r].state \in {"idle", "waiting"},
           s \in {"open", "returned"} =>
               Live(r) \/ session[r].state \in {"idle", "waiting"}
    PROVE  DataInv'
<1>1. /\ session' = [q \in Request |-> session'[q]]
      /\ \A q \in Request \ {r} : session'[q] = session[q]
      /\ session'[r] = [state |-> s, manager |-> m,
                        writes |-> session[r].writes, posted |-> session[r].posted,
                        dirty |-> session[r].dirty, entries |-> session[r].entries]
      /\ table' = table /\ ledger' = ledger
  BY DEF Becomes
<1>2. SessionOK(session[r]) /\ OwnWork(r) /\ Unstarted(r)
  BY DEF DataInv, SessionsOK
<1>3. SessionOK(session'[r])
  BY <1>1, <1>2 DEF SessionOK
<1>4. OwnWork(r)' /\ Unstarted(r)'
  BY <1>1, <1>2 DEF OwnWork, OwnRow, OwnEntries, Unstarted
<1>5. \A q \in Request \ {r} : (SessionOK(session[q]) /\ OwnWork(q) /\ Unstarted(q))'
  BY <1>1 DEF DataInv, SessionsOK, OwnWork, OwnRow, OwnEntries, Unstarted
<1>6. SessionsOK'
  BY <1>1, <1>3, <1>4, <1>5 DEF SessionsOK
<1>7. NoTraceUnlessCommitted'
  BY <1>1 DEF DataInv, NoTraceUnlessCommitted
<1>8. \A q \in Request : Held(q)' \subseteq Held(q)
  BY <1>1, <1>2 DEF Held, Live, Unstarted
<1>9. LocksExclusive'
  BY <1>8 DEF LocksExclusive, DataInv
<1> QED
  BY <1>1, <1>6, <1>7, <1>9 DEF DataInv

\* A flush locks the rows it updates; no other transaction has them.
LEMMA FlushKeepsDataInv ==
    ASSUME DataInv, NEW r \in Request, Flush(r)
    PROVE  DataInv'
<1>1. SessionOK(session[r]) /\ OwnWork(r) /\ session[r].state = "open"
  BY DEF DataInv, SessionsOK, Flush
<1>2. /\ session = [q \in Request |-> session[q]]
      /\ session[r] = [state |-> session[r].state, manager |-> session[r].manager,
                       writes |-> session[r].writes, posted |-> session[r].posted,
                       dirty |-> session[r].dirty, entries |-> session[r].entries]
  BY <1>1 DEF DataInv, SessionsOK, SessionOK
<1>3. /\ session' = [q \in Request |-> session'[q]]
      /\ \A q \in Request \ {r} : session'[q] = session[q]
      /\ session'[r] = [state |-> session[r].state, manager |-> session[r].manager,
                        writes |-> Overlay(session[r].writes, session[r].dirty),
                        posted |-> session[r].posted \o session[r].entries,
                        dirty |-> NoRows, entries |-> <<>>]
      /\ table' = table /\ ledger' = ledger
  BY <1>2 DEF Flush
<1>4. /\ RowsOK(session'[r].writes)
      /\ DOMAIN session'[r].writes
           = DOMAIN session[r].writes \cup DOMAIN session[r].dirty
  <2>1. RowsOK(session[r].writes) /\ RowsOK(session[r].dirty)
    BY <1>1 DEF SessionOK
  <2>2. LET w == Overlay(session[r].writes, session[r].dirty)
        IN  /\ RowsOK(w)
            /\ DOMAIN w = DOMAIN session[r].writes \cup DOMAIN session[r].dirty
    BY <2>1, OverlayOK
  <2> QED
    BY <1>3, <2>2
<1>5. /\ session'[r].posted \in Seq(Entry)
      /\ OwnEntries(r, session'[r].posted)
  <2>1. /\ session[r].posted \in Seq(Entry) /\ session[r].entries \in Seq(Entry)
        /\ OwnEntries(r, session[r].posted) /\ OwnEntries(r, session[r].entries)
    BY <1>1 DEF SessionOK, OwnWork
  <2>2. session'[r].posted = session[r].posted \o session[r].entries
    BY <1>2 DEF Flush
  <2> QED
    BY <2>1, <2>2, ConcatOwn
<1>6. SessionOK(session'[r])
  BY <1>1, <1>3, <1>4, <1>5, NoRowsOK DEF SessionOK
<1>7. OwnWork(r)' /\ Unstarted(r)'
  <2>1. \A row \in DOMAIN session'[r].writes : OwnRow(r, row)
    BY <1>1, <1>4 DEF OwnWork
  <2>2. DOMAIN session'[r].dirty = {} /\ session'[r].entries = <<>>
    BY <1>3, NoRowsOK
  <2>3. OwnEntries(r, <<>>)
    BY DEF OwnEntries
  <2>4. session'[r].state = "open" /\ table' = table
    BY <1>1, <1>3
  <2>5. Unstarted(r)'
    BY <2>4 DEF Unstarted
  <2>6. \A row \in DOMAIN session'[r].writes \cup DOMAIN session'[r].dirty :
           OwnRow(r, row)'
    BY <2>1, <2>2, <2>4 DEF OwnRow
  <2>7. OwnEntries(r, session'[r].posted) /\ OwnEntries(r, session'[r].entries)
    BY <1>5, <2>2, <2>3
  <2> QED
    BY <2>5, <2>6, <2>7 DEF OwnWork, OwnEntries
<1>8. \A q \in Request \ {r} : (SessionOK(session[q]) /\ OwnWork(q) /\ Unstarted(q))'
  BY <1>3 DEF DataInv, SessionsOK, OwnWork, OwnRow, OwnEntries, Unstarted
<1>9. SessionsOK'
  BY <1>3, <1>6, <1>7, <1>8 DEF SessionsOK
<1>10. NoTraceUnlessCommitted'
  BY <1>1, <1>3 DEF DataInv, NoTraceUnlessCommitted
<1>11. LocksExclusive'
  <2>1. \A q \in Request \ {r} : Held(q)' = Held(q)
    BY <1>3 DEF Held, Live
  <2>2. Held(r)' = Held(r) \cup DOMAIN session[r].dirty
    BY <1>1, <1>3, <1>4 DEF Held, Live
  <2>3. \A q \in Request \ {r} : Held(q) \cap DOMAIN session[r].dirty = {}
    BY DEF Flush, LockedByOther
  <2> QED
    BY <2>1, <2>2, <2>3 DEF LocksExclusive, DataInv
<1> QED
  BY <1>3, <1>9, <1>10, <1>11 DEF DataInv

\* A commit stores rows and postings of its own request only.
LEMMA CommitKeepsDataInv ==
    ASSUME DataInv, NEW r \in Request, Commit(r)
    PROVE  DataInv'
<1>1. SessionOK(session[r]) /\ OwnWork(r) /\ session[r].state = "returned"
  BY DEF DataInv, SessionsOK, Commit
<1>2. /\ session = [q \in Request |-> session[q]]
      /\ session[r] = [state |-> session[r].state, manager |-> session[r].manager,
                       writes |-> session[r].writes, posted |-> session[r].posted,
                       dirty |-> session[r].dirty, entries |-> session[r].entries]
  BY <1>1 DEF DataInv, SessionsOK, SessionOK
<1>3. /\ session' = [q \in Request |-> session'[q]]
      /\ \A q \in Request \ {r} : session'[q] = session[q]
      /\ session'[r] = [state |-> "committed", manager |-> session[r].manager,
                        writes |-> session[r].writes, posted |-> session[r].posted,
                        dirty |-> session[r].dirty, entries |-> session[r].entries]
      /\ table' = Overlay(table, session[r].writes)
      /\ ledger' = ledger \o session[r].posted
  BY <1>2 DEF Commit
<1>4. /\ RowsOK(table')
      /\ DOMAIN table' = DOMAIN table \cup DOMAIN session[r].writes
  <2>1. RowsOK(table) /\ RowsOK(session[r].writes)
    BY <1>1 DEF DataInv, SessionOK
  <2>2. LET t == Overlay(table, session[r].writes)
        IN  RowsOK(t) /\ DOMAIN t = DOMAIN table \cup DOMAIN session[r].writes
    BY <2>1, OverlayOK
  <2> QED
    BY <1>3, <2>2
<1>5. /\ ledger' \in Seq(Entry)
      /\ \A i \in DOMAIN ledger' : ledger'[i].by = r \/ 
            (i \in DOMAIN ledger /\ ledger'[i] = ledger[i])
  <2>1. /\ ledger \in Seq(Entry) /\ session[r].posted \in Seq(Entry)
        /\ OwnEntries(r, session[r].posted)
    BY <1>1 DEF DataInv, SessionOK, OwnWork
  <2>2. LET l == ledger \o session[r].posted
        IN  /\ l \in Seq(Entry)
            /\ \A i \in DOMAIN l : l[i].by = r \/ (i \in DOMAIN ledger /\ l[i] = ledger[i])
    BY <2>1, ConcatOf
  <2> QED
    BY <1>3, <2>2
<1>6. \A q \in Request : (OwnWork(q) /\ Unstarted(q))'
  BY <1>3, <1>4 DEF DataInv, SessionsOK, OwnWork, OwnRow, OwnEntries, Unstarted
<1>7. \A q \in Request : SessionOK(session'[q])
  <2>1. SessionOK(session'[r])
    BY <1>1, <1>3 DEF SessionOK, SessionState
  <2> QED
    BY <1>3, <2>1 DEF DataInv, SessionsOK
<1>8. SessionsOK'
  BY <1>3, <1>6, <1>7 DEF SessionsOK
<1>9. NoTraceUnlessCommitted'
  <2> SUFFICES ASSUME NEW q \in Request, session'[q].state # "committed"
               PROVE  /\ \A i \in DOMAIN ledger' : ledger'[i].by # q
                      /\ \A row \in DOMAIN table' : row.id # q
    BY DEF NoTraceUnlessCommitted
  <2>1. q # r /\ session[q].state # "committed"
    BY <1>3
  <2>2. /\ \A i \in DOMAIN ledger : ledger[i].by # q
        /\ \A row \in DOMAIN table : row.id # q
    BY <2>1 DEF DataInv, NoTraceUnlessCommitted
  <2>3. \A row \in DOMAIN session[r].writes : row.id = r \/ row \in DOMAIN table
    BY <1>1 DEF OwnWork, OwnRow
  <2> QED
    BY <1>4, <1>5, <2>1, <2>2, <2>3
<1>10. LocksExclusive'
  <2>1. \A q \in Request : Held(q)' \subseteq Held(q)
    BY <1>3 DEF Held, Live
  <2> QED
    BY <2>1 DEF LocksExclusive, DataInv
<1> QED
  BY <1>4, <1>5, <1>8, <1>9, <1>10 DEF DataInv
-----------------------------------------------------------------------------
\* Rows are never lost, so a coroutine that does not move keeps its note and its order.
LEMMA JobKept ==
    ASSUME IInv, UNCHANGED job,
           DOMAIN table \subseteq DOMAIN table',
           \A q \in Request : DOMAIN session[q].writes \subseteq DOMAIN session'[q].writes
    PROVE  JobInv'
BY DEF IInv, JobInv, Opened, View, Overlay

\* Connecting, returning, failing and being rolled back keep the invariant.
LEMMA StateKeepsIInv ==
    ASSUME IInv, NEW r \in Request, NEW s \in SessionState,
           session' = [session EXCEPT ![r].state = s],
           UNCHANGED <<table, ledger, job>>,
           session[r].state \in {"waiting", "open", "returned"},
           s \in {"open", "returned", "failed", "discarded"}
    PROVE  IInv'
<1>1. DataInv /\ session[r].manager \in AllManagers
  BY DEF IInv, DataInv, SessionsOK, SessionOK
<1>2. Becomes(r, s, session[r].manager)
  BY <1>1, StateStep
<1>3. DataInv'
  BY <1>1, <1>2, BecomingKeepsDataInv DEF Live
<1>4. JobInv'
  BY <1>2, JobKept DEF Becomes
<1> QED
  BY <1>3, <1>4 DEF IInv

\* An exception at any point of a request keeps the invariant.
LEMMA RaiseKeepsIInv ==
    ASSUME IInv, NEW r \in Request, Raise(r),
           session[r].state \in {"waiting", "open", "returned"}
    PROVE  IInv'
BY StateKeepsIInv DEF Raise, SessionState

\* Flush keeps the invariant.
LEMMA FlushKeepsIInv ==
    ASSUME IInv, NEW r \in Request, Flush(r)
    PROVE  IInv'
<1>1. DataInv /\ DataInv'
  BY FlushKeepsDataInv DEF IInv
<1>2. /\ session = [q \in Request |-> session[q]]
      /\ SessionOK(session[r])
  BY <1>1 DEF DataInv, SessionsOK
<1>3. /\ \A q \in Request \ {r} : session'[q] = session[q]
      /\ session'[r].writes = Overlay(session[r].writes, session[r].dirty)
      /\ table' = table /\ job' = job
  BY <1>2 DEF Flush, SessionOK
<1>4. \A q \in Request : DOMAIN session[q].writes \subseteq DOMAIN session'[q].writes
  BY <1>3 DEF Overlay
<1>5. JobInv'
  BY <1>3, <1>4, JobKept
<1> QED
  BY <1>1, <1>5 DEF IInv

\* Commit keeps the invariant.
LEMMA CommitKeepsIInv ==
    ASSUME IInv, NEW r \in Request, Commit(r)
    PROVE  IInv'
<1>1. DataInv /\ DataInv'
  BY CommitKeepsDataInv DEF IInv
<1>2. /\ session = [q \in Request |-> session[q]]
      /\ SessionOK(session[r])
  BY <1>1 DEF DataInv, SessionsOK
<1>3. /\ \A q \in Request : session'[q].writes = session[q].writes
      /\ table' = Overlay(table, session[r].writes) /\ job' = job
  BY <1>2 DEF Commit, SessionOK
<1>4. DOMAIN table \subseteq DOMAIN table'
  BY <1>3 DEF Overlay
<1>5. JobInv'
  BY <1>3, <1>4, JobKept
<1> QED
  BY <1>1, <1>5 DEF IInv

\* Every request that can arrive is a well-typed job at its start.
LEMMA JobsOK ==
    ASSUME NEW j \in Jobs
    PROVE  j \in Job /\ j.pc = "start"
BY ProcurementAssumption
   DEF Jobs, Job, PC, CreatePOJob, ApprovePOJob, CreateGRNJob, AdjustJob

\* The arrival of a request keeps the invariant.
LEMMA SubmitKeepsIInv ==
    ASSUME IInv, NEW r \in Request, Submit(r)
    PROVE  IInv'
<1>1. PICK m \in Managers, j \in Jobs : Arrive(r, m, j)
  BY DEF Submit
<1>2. DataInv /\ m \in AllManagers
  BY DatabaseAssumption DEF IInv
<1>3. Becomes(r, "waiting", m)
  <2>1. /\ session = [q \in Request |-> session[q]]
        /\ session[r] = [state |-> session[r].state, manager |-> session[r].manager,
                         writes |-> session[r].writes, posted |-> session[r].posted,
                         dirty |-> session[r].dirty, entries |-> session[r].entries]
    BY <1>2 DEF DataInv, SessionsOK, SessionOK
  <2> QED
    BY <1>1, <2>1 DEF Arrive, Becomes
<1>4. DataInv'
  BY <1>1, <1>2, <1>3, BecomingKeepsDataInv DEF Arrive, SessionState
<1>5. JobInv'
  <2>1. /\ job \in [Request -> Job] /\ job' = [job EXCEPT ![r] = j]
        /\ j \in Job /\ j.pc = "start"
    BY <1>1, JobsOK DEF IInv, JobInv, Arrive
  <2>2. /\ table' = table
        /\ \A q \in Request : session'[q].writes = session[q].writes
    BY <1>3 DEF Becomes
  <2>3. job' \in [Request -> Job]
    BY <2>1
  <2>4. \A q \in Request \ {r} : Opened(q)'
    BY <2>1, <2>2 DEF IInv, JobInv, Opened, View
  <2>5. Opened(r)'
    BY <2>1 DEF Opened
  <2> QED
    BY <2>3, <2>4, <2>5 DEF JobInv
<1> QED
  BY <1>4, <1>5 DEF IInv
-----------------------------------------------------------------------------
\* A handler that stages its own work and moves on keeps the invariant.
LEMMA StageKeepsIInv ==
    ASSUME IInv, NEW r \in Request, NEW new, NEW dirty, NEW entries, NEW j \in Job,
           Running(r), Stage(r, new, dirty, entries), OwnStage(r, new, dirty, entries),
           job' = [job EXCEPT ![r] = j],
           j.op = "create_grn" =>
              /\ GRNRow(r) \in DOMAIN session[r].writes \cup DOMAIN new
              /\ PORow(j.po) \in DOMAIN View(r)
    PROVE  IInv'
<1>1. DataInv'
  BY StageKeepsDataInv DEF IInv
<1>2. /\ \A q \in Request \ {r} : session'[q] = session[q]
      /\ session'[r].writes = Overlay(session[r].writes, new)
      /\ table' = table
  <2>1. DataInv /\ RowsOK(new)
    BY DEF OwnStage, IInv
  <2>2. /\ \A q \in Request \ {r} : session'[q] = session[q]
        /\ session'[r] = [state |-> session[r].state,
                          manager |-> session[r].manager,
                          writes |-> Overlay(session[r].writes, new),
                          posted |-> session[r].posted,
                          dirty |-> dirty, entries |-> entries]
        /\ table' = table
    BY <2>1, StageStep
  <2> QED
    BY <2>2
<1>3. DOMAIN session'[r].writes = DOMAIN session[r].writes \cup DOMAIN new
  BY <1>2 DEF Overlay
<1>4. job \in [Request -> Job] /\ job' \in [Request -> Job]
  BY DEF IInv, JobInv
<1>5. \A q \in Request \ {r} : Opened(q)'
  BY <1>2, <1>4 DEF IInv, JobInv, Opened, View
<1>6. Opened(r)'
  BY <1>2, <1>3, <1>4 DEF Opened, View, Overlay
<1> QED
  BY <1>1, <1>4, <1>5, <1>6 DEF IInv, JobInv

\* An integer fits an INTEGER column if and only if it is in its range.
LEMMA FitsInt == \A n \in Int : Fits(n) <=> n \in Column
BY DEF Column

\* The order that create_po inserts.
NewOrder(r) ==
    [row \in {PORow(r)} |->
        [status |-> "draft", warehouse |-> job[r].warehouse,
         lines |-> OrderLines(job[r].items)]]

\* What create_po inserts fits its columns.
LEMMA NewOrderOK ==
    ASSUME NEW r \in Request, job[r].warehouse \in Warehouse, job[r].items \in Seq(Item),
           \A i \in DOMAIN job[r].items :
              /\ job[r].items[i].product # Unknown
              /\ job[r].items[i].ordered # Null
              /\ Fits(job[r].items[i].ordered)
    PROVE  RowsOK(NewOrder(r)) /\ DOMAIN NewOrder(r) = {PORow(r)}
<1> DEFINE items == job[r].items
           value == [status |-> "draft", warehouse |-> job[r].warehouse,
                     lines |-> OrderLines(items)]
<1>1. OrderLines(items) \in Seq(POLine)
  <2>1. \A i \in DOMAIN items : items[i] \in Item
    OBVIOUS
  <2>2. 0 \in Column
    BY DatabaseAssumption DEF Column, Fits
  <2>3. \A i \in DOMAIN items :
           [product |-> items[i].product, ordered |-> items[i].ordered,
            received |-> 0] \in POLine
    BY <2>1, <2>2 DEF Item, POLine, Column
  <2>4. DOMAIN items = 1 .. Len(items) /\ Len(items) \in Nat
    OBVIOUS
  <2> HIDE DEF items
  <2> QED
    BY <2>3, <2>4 DEF OrderLines
<1>2. value \in POValue
  BY <1>1 DEF POValue, POStatus
<1> QED
  BY <1>2 DEF NewOrder, RowsOK, PORows, StockRows, GRNRows, BatchRows, PORow, PO

\* create_po keeps the invariant: what it stores fits its columns.
LEMMA CreatePOKeepsIInv ==
    ASSUME IInv, NEW r \in Request, CreatePO(r)
    PROVE  IInv'
<1> DEFINE items == job[r].items
           Bad == \E i \in DOMAIN items :
                     items[i].product = Unknown \/ items[i].ordered = Null
                        \/ ~Fits(items[i].ordered)
           j == [job[r] EXCEPT !.pc = "done"]
<1>1. job[r] \in [op : {"create_po"}, pc : PC, warehouse : Warehouse, items : Seq(Item)]
  BY DEF CreatePO, IInv, JobInv, Job
<1>2. CASE Bad
  BY <1>2, RaiseKeepsIInv DEF CreatePO, Running
<1>3. CASE ~Bad
  <2>1. /\ Running(r) /\ Stage(r, NewOrder(r), NoRows, <<>>)
        /\ job' = [job EXCEPT ![r] = j]
    BY <1>3 DEF CreatePO, NewOrder
  <2>2. RowsOK(NewOrder(r)) /\ DOMAIN NewOrder(r) = {PORow(r)}
    BY <1>1, <1>3, NewOrderOK
  <2>3. OwnStage(r, NewOrder(r), NoRows, <<>>)
    BY <2>2, NoRowsOK DEF OwnStage, OwnEntries, PORow
  <2>4. j \in Job /\ j.op = "create_po"
    BY <1>1 DEF Job, PC
  <2> HIDE DEF j
  <2> QED
    BY <2>1, <2>3, <2>4, StageKeepsIInv
<1> QED
  BY <1>2, <1>3

\* Updating the status of an order in view yields a well-typed order.
LEMMA WithStatusOK ==
    ASSUME DataInv, NEW r \in Request, NEW o \in PO, NEW s \in POStatus,
           PORow(o) \in DOMAIN View(r)
    PROVE  /\ RowsOK(WithStatus(r, o, s))
           /\ DOMAIN WithStatus(r, o, s) = {PORow(o)}
<1>1. View(r)[PORow(o)] \in POValue
  <2>1. RowsOK(View(r))
    BY ViewOK
  <2>2. PORow(o) \in PORows
    BY DEF PORow, PORows
  <2> QED
    BY <2>1, <2>2 DEF RowsOK
<1>2. [View(r)[PORow(o)] EXCEPT !.status = s] \in POValue
  BY <1>1 DEF POValue
<1> QED
  BY <1>2 DEF WithStatus, RowsOK, PORows, StockRows, GRNRows, BatchRows, PORow

\* approve_po keeps the invariant.
LEMMA ApprovePOKeepsIInv ==
    ASSUME IInv, NEW r \in Request, ApprovePO(r)
    PROVE  IInv'
<1> DEFINE o == job[r].po
           row == PORow(o)
           Bad == row \notin DOMAIN View(r) \/ View(r)[row].status \notin Approvable
           j == [job[r] EXCEPT !.pc = "done"]
<1>1. job[r] \in [op : {"approve_po"}, pc : PC, po : PO]
  BY DEF ApprovePO, IInv, JobInv, Job
<1>2. CASE Bad
  BY <1>2, RaiseKeepsIInv DEF ApprovePO, Running
<1>3. CASE ~Bad
  <2>1. /\ Running(r) /\ Stage(r, NoRows, WithStatus(r, o, "approved"), <<>>)
        /\ job' = [job EXCEPT ![r] = j]
    BY <1>3 DEF ApprovePO
  <2>2. /\ RowsOK(WithStatus(r, o, "approved"))
        /\ DOMAIN WithStatus(r, o, "approved") = {PORow(o)}
    BY <1>1, <1>3, WithStatusOK DEF IInv, POStatus
  <2>3. OwnStage(r, NoRows, WithStatus(r, o, "approved"), <<>>)
    BY <1>3, <2>2, NoRowsOK DEF OwnStage, OwnEntries
  <2>4. j \in Job /\ j.op = "approve_po"
    BY <1>1 DEF Job, PC
  <2> HIDE DEF j
  <2> QED
    BY <2>1, <2>3, <2>4, StageKeepsIInv
<1> QED
  BY <1>2, <1>3
-----------------------------------------------------------------------------
\* The balance row that get_or_create_stock() returns is in view or new, and its value is
\* a balance.
LEMMA StockOK ==
    ASSUME DataInv, NEW r \in Request, NEW p \in Product, NEW w \in Warehouse
    PROVE  /\ OpenStock(r, p, w) \in StockRows
           /\ OpenStock(r, p, w).id = r \/ OpenStock(r, p, w) \in DOMAIN View(r)
           /\ RowsOK(NewStock(r, p, w))
           /\ \A row \in DOMAIN NewStock(r, p, w) : row.id = r
           /\ OnHand(r, p, w) \in Balance
<1>1. RowsOK(View(r))
  BY ViewOK
<1>2. StockRow(p, w, r) \in StockRows /\ StockRow(p, w, r).id = r
  BY DEF StockRow, StockRows
<1>3. 0 \in Balance
  BY DatabaseAssumption DEF Balance, Column, Fits
<1>4. CASE StockOf(r, p, w) = {}
  <2>1. /\ OpenStock(r, p, w) = StockRow(p, w, r)
        /\ NewStock(r, p, w) = [row \in {StockRow(p, w, r)} |-> 0]
        /\ OnHand(r, p, w) = 0
    BY <1>4 DEF OpenStock, NewStock, OnHand
  <2>2. RowsOK([row \in {StockRow(p, w, r)} |-> 0])
    BY <1>2, <1>3 DEF RowsOK, StockRows, PORows, GRNRows, BatchRows
  <2> QED
    BY <1>2, <1>3, <2>1, <2>2
<1>5. CASE StockOf(r, p, w) # {}
  <2>1. OpenStock(r, p, w) \in StockOf(r, p, w)
    BY <1>5 DEF OpenStock
  <2>2. OpenStock(r, p, w) \in StockRows \cap DOMAIN View(r)
    BY <2>1 DEF StockOf
  <2>3. /\ NewStock(r, p, w) = NoRows
        /\ OnHand(r, p, w) = View(r)[OpenStock(r, p, w)]
    BY <1>5 DEF NewStock, OnHand
  <2>4. View(r)[OpenStock(r, p, w)] \in Balance
    BY <1>1, <2>2 DEF RowsOK
  <2> QED
    BY <2>2, <2>3, <2>4, NoRowsOK
<1> QED
  BY <1>4, <1>5

\* Assigning a balance to a balance row yields well-typed pending rows.
LEMMA AssignOK ==
    ASSUME NEW row \in StockRows, NEW before, NEW after \in Balance
    PROVE  /\ RowsOK(Assign(row, before, after))
           /\ DOMAIN Assign(row, before, after) \subseteq {row}
<1>1. RowsOK([x \in {row} |-> after])
  BY DEF RowsOK, StockRows, PORows, GRNRows, BatchRows
<1> QED
  BY <1>1, NoRowsOK DEF Assign

\* A ledger row between two balances is well typed: the difference fits its column.
LEMMA LedgerEntryOK ==
    ASSUME NEW type \in {"grn_receipt", "manual_adjustment_in", "manual_adjustment_out"},
           NEW p \in Product, NEW w \in Warehouse, NEW r \in Request,
           NEW before \in Balance, NEW after \in Balance
    PROVE  /\ <<LedgerEntry(type, p, w, before, after, r)>> \in Seq(Entry)
           /\ OwnEntries(r, <<LedgerEntry(type, p, w, before, after, r)>>)
<1>1. after - before \in Column
  BY DatabaseAssumption DEF Balance, Column, Fits
<1>2. LedgerEntry(type, p, w, before, after, r) \in Entry
  BY <1>1 DEF LedgerEntry, Entry, Balance
<1>3. LedgerEntry(type, p, w, before, after, r).by = r
  BY DEF LedgerEntry
<1> QED
  BY <1>2, <1>3 DEF OwnEntries

\* adjust_stock keeps the invariant.
LEMMA AdjustStockKeepsIInv ==
    ASSUME IInv, NEW r \in Request, AdjustStock(r)
    PROVE  IInv'
<1> DEFINE p == job[r].product
           w == job[r].warehouse
           n == job[r].quantity
           Bad == p = Unknown \/ Ambiguous(r, p, w) \/ ~Fits(n)
           before == OnHand(r, p, w)
           type == IF n >= before THEN "manual_adjustment_in"
                   ELSE "manual_adjustment_out"
           new == NewStock(r, p, w)
           dirty == Assign(OpenStock(r, p, w), before, n)
           entries == <<LedgerEntry(type, p, w, before, n, r)>>
           j == [job[r] EXCEPT !.pc = "done"]
<1>1. job[r] \in [op : {"adjust_stock"}, pc : PC, product : Product \cup {Unknown},
                  warehouse : Warehouse, quantity : Nat]
  BY DEF AdjustStock, IInv, JobInv, Job
<1>2. CASE Bad
  BY <1>2, RaiseKeepsIInv DEF AdjustStock, Running
<1>3. CASE ~Bad
  <2>1. /\ Running(r) /\ Stage(r, new, dirty, entries)
        /\ job' = [job EXCEPT ![r] = j]
    BY <1>3 DEF AdjustStock
  <2>2. p \in Product /\ w \in Warehouse /\ n \in Balance /\ DataInv
    BY <1>1, <1>3 DEF IInv, Balance, Column
  <2>3. j \in Job /\ j.op = "adjust_stock"
    BY <1>1 DEF Job, PC
  <2> HIDE DEF p, w, n, j
  <2>4. /\ OpenStock(r, p, w) \in StockRows
        /\ OpenStock(r, p, w).id = r \/ OpenStock(r, p, w) \in DOMAIN View(r)
        /\ RowsOK(new) /\ \A row \in DOMAIN new : row.id = r
        /\ before \in Balance
    BY <2>2, StockOK
  <2>5. RowsOK(dirty) /\ DOMAIN dirty \subseteq {OpenStock(r, p, w)}
    BY <2>2, <2>4, AssignOK
  <2>6. entries \in Seq(Entry) /\ OwnEntries(r, entries)
    BY <2>2, <2>4, LedgerEntryOK
  <2> HIDE DEF new, dirty, entries
  <2>7. OwnStage(r, new, dirty, entries)
    BY <2>4, <2>5, <2>6 DEF OwnStage
  <2> QED
    BY <2>1, <2>3, <2>7, StageKeepsIInv
<1> QED
  BY <1>2, <1>3
-----------------------------------------------------------------------------
\* The first part of create_grn keeps the invariant.
LEMMA OpenGRNKeepsIInv ==
    ASSUME IInv, NEW r \in Request, OpenGRN(r)
    PROVE  IInv'
<1> DEFINE row == PORow(job[r].po)
           Bad == row \notin DOMAIN View(r) \/ View(r)[row].status \notin Receivable
           value == [po |-> job[r].po, lines |-> <<>>,
                     status |-> IF job[r].auto THEN "completed" ELSE "draft"]
           new == [x \in {GRNRow(r)} |-> value]
           j == [job[r] EXCEPT !.pc = "lines"]
<1>1. job[r] \in [op : {"create_grn"}, pc : PC, po : PO, lines : Seq(Delivered),
                  auto : BOOLEAN, i : Nat \ {0}]
  BY DEF OpenGRN, IInv, JobInv, Job
<1>2. CASE Bad
  BY <1>2, RaiseKeepsIInv DEF OpenGRN, Running
<1>3. CASE ~Bad
  <2>1. /\ Running(r) /\ Stage(r, new, NoRows, <<>>)
        /\ job' = [job EXCEPT ![r] = j]
    BY <1>3 DEF OpenGRN
  <2>2. value \in GRNValue
    BY <1>1 DEF GRNValue, GRNStatus
  <2>3. RowsOK(new) /\ DOMAIN new = {GRNRow(r)}
    BY <2>2 DEF RowsOK, PORows, StockRows, GRNRows, BatchRows, GRNRow
  <2>4. OwnStage(r, new, NoRows, <<>>)
    BY <2>3, NoRowsOK DEF OwnStage, OwnEntries, GRNRow
  <2>5. j \in Job /\ j.po = job[r].po
    BY <1>1 DEF Job, PC
  <2>6. GRNRow(r) \in DOMAIN new /\ PORow(j.po) \in DOMAIN View(r)
    BY <1>3, <2>3, <2>5
  <2> HIDE DEF new, j
  <2> QED
    BY <2>1, <2>4, <2>5, <2>6, StageKeepsIInv
<1> QED
  BY <1>2, <1>3

\* What a request knows while it works through the lines of its note.
LEMMA InLines ==
    ASSUME IInv, NEW r \in Request, Running(r),
           job[r].op = "create_grn", job[r].pc = "lines"
    PROVE  /\ job[r] \in [op : {"create_grn"}, pc : PC, po : PO,
                          lines : Seq(Delivered), auto : BOOLEAN, i : Nat \ {0}]
           /\ GRNRow(r) \in DOMAIN session[r].writes
           /\ PORow(job[r].po) \in DOMAIN View(r)
           /\ View(r)[GRNRow(r)] \in GRNValue
           /\ WarehouseOf(r) \in Warehouse
<1>1. /\ job[r] \in [op : {"create_grn"}, pc : PC, po : PO,
                     lines : Seq(Delivered), auto : BOOLEAN, i : Nat \ {0}]
      /\ GRNRow(r) \in DOMAIN session[r].writes
      /\ PORow(job[r].po) \in DOMAIN View(r)
  BY DEF IInv, JobInv, Job, Opened
<1>2. /\ RowsOK(View(r))
      /\ DOMAIN View(r) = DOMAIN table \cup DOMAIN session[r].writes
  BY ViewOK DEF IInv
<1>3. GRNRow(r) \in GRNRows /\ PORow(job[r].po) \in PORows
  BY <1>1 DEF GRNRow, GRNRows, PORow, PORows
<1>4. View(r)[GRNRow(r)] \in GRNValue /\ View(r)[PORow(job[r].po)] \in POValue
  BY <1>1, <1>2, <1>3 DEF RowsOK
<1> QED
  BY <1>1, <1>4 DEF WarehouseOf, POValue

\* A line that can be processed fits the columns of the note.
LEMMA WithLineOK ==
    ASSUME IInv, NEW r \in Request, AtLine(r), ~Unprocessable(Line(r))
    PROVE  /\ Line(r).product \in Product
           /\ Line(r).accepted \in Column
           /\ RowsOK(WithLine(r, Line(r)))
           /\ DOMAIN WithLine(r, Line(r)) = {GRNRow(r)}
<1> DEFINE line == Line(r)
<1>1. /\ job[r].lines \in Seq(Delivered) /\ job[r].i \in 1 .. Len(job[r].lines)
      /\ View(r)[GRNRow(r)] \in GRNValue
  BY InLines DEF AtLine
<1>2. line \in Delivered
  BY <1>1 DEF Line
<1>3. /\ line.product \in Product /\ line.received \in Column
      /\ line.accepted \in Column /\ line.batch \in BOOLEAN
  BY <1>2 DEF Delivered, Unprocessable, Column
<1>4. line \in GRNLine
  BY <1>2, <1>3 DEF Delivered, GRNLine
<1> HIDE DEF line
<1> DEFINE note == View(r)[GRNRow(r)]
           value == [note EXCEPT !.lines = Append(note.lines, line)]
<1>5. value \in GRNValue
  <2>1. note.lines \in Seq(GRNLine)
    BY <1>1 DEF GRNValue
  <2>2. Append(note.lines, line) \in Seq(GRNLine)
    BY <1>4, <2>1
  <2> HIDE DEF note
  <2> QED
    BY <1>1, <2>2 DEF GRNValue, note
<1>6. WithLine(r, line) = [x \in {GRNRow(r)} |-> value]
  BY DEF WithLine
<1> HIDE DEF value
<1>7. /\ RowsOK(WithLine(r, line))
      /\ DOMAIN WithLine(r, line) = {GRNRow(r)}
  BY <1>5, <1>6 DEF RowsOK, PORows, StockRows, GRNRows, BatchRows, GRNRow
<1> QED
  BY <1>3, <1>7 DEF line

\* Moving to the next item leaves the job what it was.
LEMMA NextLine ==
    ASSUME IInv, NEW r \in Request, AtLine(r), job' = [job EXCEPT ![r].i = @ + 1]
    PROVE  \E j \in Job : /\ job' = [job EXCEPT ![r] = j]
                          /\ j.op = "create_grn" /\ j.po = job[r].po
<1> DEFINE j == [job[r] EXCEPT !.i = @ + 1]
<1>1. job[r] \in [op : {"create_grn"}, pc : PC, po : PO, lines : Seq(Delivered),
                  auto : BOOLEAN, i : Nat \ {0}]
  BY InLines DEF AtLine
<1>2. j \in Job /\ j.op = "create_grn" /\ j.po = job[r].po
  BY <1>1 DEF Job
<1>3. job' = [job EXCEPT ![r] = j]
  BY <1>1 DEF IInv, JobInv
<1> QED
  BY <1>2, <1>3

\* Recording a line keeps the invariant.
LEMMA RecordLineKeepsIInv ==
    ASSUME IInv, NEW r \in Request, RecordLine(r)
    PROVE  IInv'
<1> DEFINE new == WithLine(r, Line(r))
<1>1. /\ AtLine(r) /\ ~Unprocessable(Line(r)) /\ Stage(r, new, NoRows, <<>>)
      /\ job' = [job EXCEPT ![r].i = @ + 1]
  BY DEF RecordLine
<1>2. RowsOK(new) /\ DOMAIN new = {GRNRow(r)}
  BY <1>1, WithLineOK
<1>3. OwnStage(r, new, NoRows, <<>>)
  BY <1>2, NoRowsOK DEF OwnStage, OwnEntries, GRNRow
<1>4. PICK j \in Job : /\ job' = [job EXCEPT ![r] = j]
                       /\ j.op = "create_grn" /\ j.po = job[r].po
  BY <1>1, NextLine
<1>5. Running(r) /\ GRNRow(r) \in DOMAIN session[r].writes /\ PORow(j.po) \in DOMAIN View(r)
  BY <1>1, <1>4, InLines DEF AtLine
<1> HIDE DEF new
<1> QED
  BY <1>1, <1>3, <1>4, <1>5, StageKeepsIInv

\* A batch is a row of its request.
LEMMA BatchOK ==
    ASSUME NEW r \in Request, job[r].i \in Nat, NEW line, line.accepted \in Column
    PROVE  /\ RowsOK(BatchOf(r, line))
           /\ \A row \in DOMAIN BatchOf(r, line) : row.id = r
<1>1. BatchRow(r, job[r].i) \in BatchRows /\ BatchRow(r, job[r].i).id = r
  BY DEF BatchRow, BatchRows
<1>2. RowsOK([x \in {BatchRow(r, job[r].i)} |-> line.accepted])
  BY <1>1 DEF RowsOK, StockRows, PORows, GRNRows, BatchRows
<1> QED
  BY <1>1, <1>2, NoRowsOK DEF BatchOf

\* Crediting a line keeps the invariant.
LEMMA CreditLineKeepsIInv ==
    ASSUME IInv, NEW r \in Request, CreditLine(r)
    PROVE  IInv'
<1> DEFINE line == Line(r)
           p == line.product
           w == WarehouseOf(r)
           before == OnHand(r, p, w)
           after == before + line.accepted
           note == WithLine(r, Line(r))
           new == Overlay(note, NewStock(r, p, w))
           batch == BatchOf(r, line)
           stock == Assign(OpenStock(r, p, w), before, after)
           dirty == Overlay(batch, stock)
           entries == <<LedgerEntry("grn_receipt", p, w, before, after, r)>>
<1>1. /\ AtLine(r) /\ ~Unprocessable(line) /\ Credited(job[r].auto, line)
      /\ ~CannotCredit(r, line, w)
      /\ Stage(r, new, dirty, entries)
      /\ job' = [job EXCEPT ![r].i = @ + 1]
  BY DEF CreditLine
<1>2. /\ p \in Product /\ line.accepted \in Column
      /\ RowsOK(note) /\ DOMAIN note = {GRNRow(r)}
  BY <1>1, WithLineOK
<1>3. /\ Running(r) /\ w \in Warehouse /\ job[r].i \in Nat
      /\ GRNRow(r) \in DOMAIN session[r].writes
      /\ PORow(job[r].po) \in DOMAIN View(r)
  BY <1>1, InLines DEF AtLine
<1>4. DataInv
  BY DEF IInv
<1>5. /\ OpenStock(r, p, w) \in StockRows
      /\ OpenStock(r, p, w).id = r \/ OpenStock(r, p, w) \in DOMAIN View(r)
      /\ RowsOK(NewStock(r, p, w))
      /\ \A row \in DOMAIN NewStock(r, p, w) : row.id = r
      /\ before \in Balance
  BY <1>2, <1>3, <1>4, StockOK
<1>6. after \in Balance
  BY <1>1, <1>2, <1>5 DEF CannotCredit, Credited, Balance, Column
<1>7. entries \in Seq(Entry) /\ OwnEntries(r, entries)
  BY <1>2, <1>3, <1>5, <1>6, LedgerEntryOK
<1>8. RowsOK(new) /\ \A row \in DOMAIN new : row.id = r
  <2>1. RowsOK(new) /\ DOMAIN new = DOMAIN note \cup DOMAIN NewStock(r, p, w)
    BY <1>2, <1>5, OverlayOK
  <2> QED
    BY <1>2, <1>5, <2>1 DEF GRNRow
<1>9. RowsOK(dirty) /\ \A row \in DOMAIN dirty : row.id = r \/ row \in DOMAIN View(r)
  <2>1. RowsOK(batch) /\ \A row \in DOMAIN batch : row.id = r
    BY <1>2, <1>3, BatchOK
  <2>2. RowsOK(stock) /\ DOMAIN stock \subseteq {OpenStock(r, p, w)}
    BY <1>5, <1>6, AssignOK
  <2>3. RowsOK(dirty) /\ DOMAIN dirty = DOMAIN batch \cup DOMAIN stock
    BY <2>1, <2>2, OverlayOK
  <2> QED
    BY <1>5, <2>1, <2>2, <2>3
<1>10. PICK j \in Job : /\ job' = [job EXCEPT ![r] = j]
                        /\ j.op = "create_grn" /\ j.po = job[r].po
  BY <1>1, NextLine
<1> HIDE DEF new, dirty, entries
<1>11. OwnStage(r, new, dirty, entries)
  BY <1>7, <1>8, <1>9 DEF OwnStage
<1> QED
  BY <1>1, <1>3, <1>10, <1>11, StageKeepsIInv

\* The last part of create_grn keeps the invariant.
LEMMA ClosePOKeepsIInv ==
    ASSUME IInv, NEW r \in Request, ClosePO(r)
    PROVE  IInv'
<1> DEFINE o == job[r].po
           dirty == WithStatus(r, o, "fully_received")
           j == [job[r] EXCEPT !.pc = "done"]
<1>1. /\ Running(r) /\ Stage(r, NoRows, dirty, <<>>)
      /\ job[r].op = "create_grn" /\ job[r].pc = "lines"
      /\ job' = [job EXCEPT ![r] = j]
  BY DEF ClosePO
<1>2. /\ job[r] \in [op : {"create_grn"}, pc : PC, po : PO, lines : Seq(Delivered),
                     auto : BOOLEAN, i : Nat \ {0}]
      /\ GRNRow(r) \in DOMAIN session[r].writes
      /\ PORow(o) \in DOMAIN View(r)
  BY <1>1, InLines
<1>3. RowsOK(dirty) /\ DOMAIN dirty = {PORow(o)}
  BY <1>2, WithStatusOK DEF IInv, POStatus
<1>4. OwnStage(r, NoRows, dirty, <<>>)
  BY <1>2, <1>3, NoRowsOK DEF OwnStage, OwnEntries
<1>5. j \in Job /\ j.po = o
  BY <1>2 DEF Job, PC
<1> HIDE DEF dirty, j
<1> QED
  BY <1>1, <1>2, <1>4, <1>5, StageKeepsIInv
-----------------------------------------------------------------------------
\* Every step of the server keeps the invariant.
LEMMA ServeKeepsIInv ==
    ASSUME IInv, NEW r \in Request, Serve(r)
    PROVE  IInv'
<1>1. CASE Connect(r)
  BY <1>1, StateKeepsIInv DEF Connect, SessionState
<1>2. CASE PoolTimeout(r)
  BY <1>2, StateKeepsIInv DEF PoolTimeout, SessionState
<1>3. CASE CreatePO(r)
  BY <1>3, CreatePOKeepsIInv
<1>4. CASE ApprovePO(r)
  BY <1>4, ApprovePOKeepsIInv
<1>5. CASE AdjustStock(r)
  BY <1>5, AdjustStockKeepsIInv
<1>6. CASE OpenGRN(r)
  BY <1>6, OpenGRNKeepsIInv
<1>7. CASE FailLine(r)
  BY <1>7, RaiseKeepsIInv DEF FailLine, AtLine, Running
<1>8. CASE RecordLine(r)
  BY <1>8, RecordLineKeepsIInv
<1>9. CASE CreditLine(r)
  BY <1>9, CreditLineKeepsIInv
<1>10. CASE ClosePO(r)
  BY <1>10, ClosePOKeepsIInv
<1>11. CASE Flush(r)
  BY <1>11, FlushKeepsIInv
<1>12. CASE Finish(r)
  BY <1>12, StateKeepsIInv DEF Finish, Respond, Running, SessionState
<1>13. CASE Commit(r)
  BY <1>13, CommitKeepsIInv
<1>14. CASE Discard(r)
  BY <1>14, StateKeepsIInv DEF Discard, SessionState
<1>15. CASE DeadlockVictim(r)
  BY <1>15, RaiseKeepsIInv DEF DeadlockVictim, Deadlocked, InUse, Live
<1> QED
  BY <1>1, <1>2, <1>3, <1>4, <1>5, <1>6, <1>7, <1>8, <1>9, <1>10, <1>11, <1>12,
     <1>13, <1>14, <1>15 DEF Serve

\* A stuttering step keeps the invariant.
LEMMA StutterKeepsIInv ==
    ASSUME IInv, UNCHANGED vars
    PROVE  IInv'
<1> USE DEF vars
<1>1. DataInv'
  BY DEF IInv, DataInv, SessionsOK, OwnWork, OwnRow, OwnEntries, Unstarted,
         NoTraceUnlessCommitted, LocksExclusive, Held, Live
<1>2. JobInv'
  BY DEF IInv, JobInv, Opened, View
<1> QED
  BY <1>1, <1>2 DEF IInv

\* Every step keeps the invariant.
LEMMA NextKeepsIInv ==
    ASSUME IInv, [Next]_vars
    PROVE  IInv'
<1>1. ASSUME NEW r \in Request, Submit(r)
      PROVE  IInv'
  BY <1>1, SubmitKeepsIInv
<1>2. ASSUME NEW r \in Request, Serve(r)
      PROVE  IInv'
  BY <1>2, ServeKeepsIInv
<1>3. ASSUME NEW r \in Request, Crash(r)
      PROVE  IInv'
  BY <1>3, StateKeepsIInv DEF Crash, Live, SessionState
<1>4. CASE UNCHANGED vars
  BY <1>4, StutterKeepsIInv
<1> QED
  BY <1>1, <1>2, <1>3, <1>4 DEF Next

\* The inductive invariant holds in every reachable state.
THEOREM Invariance == Spec => []IInv
<1>1. Init => IInv
  BY InitIInv
<1>2. IInv /\ [Next]_vars => IInv'
  BY NextKeepsIInv
<1> QED
  BY <1>1, <1>2, PTL DEF Spec

\* Tables, sessions and jobs keep their types: no column overflows and no balance is
\* negative, whatever the requests, their number and the pool.
THEOREM TypeCorrect == Spec => []TypeOK
<1>1. IInv => TypeOK
  BY DEF IInv, DataInv, SessionsOK, JobInv, TypeOK
<1> QED
  BY <1>1, Invariance, PTL

\* A request that has not committed - it failed, crashed, deadlocked or was discarded -
\* has no row and no ledger entry in the store.
THEOREM FailureLeavesNoTrace == Spec => []NoTraceUnlessCommitted
<1>1. IInv => NoTraceUnlessCommitted
  BY DEF IInv, DataInv
<1> QED
  BY <1>1, Invariance, PTL
-----------------------------------------------------------------------------
\* A step that changes no row, no posting and no session state is a stutter.
LEMMA SameOutcome ==
    ASSUME \A q \in Request : session'[q].state = session[q].state,
           UNCHANGED <<table, ledger>>
    PROVE  UNCHANGED Abstract!vars
BY DEF Outcome, Abstract!vars

\* Staging work is invisible.
LEMMA StageIsAStutter ==
    ASSUME IInv, NEW r \in Request, NEW new, NEW dirty, NEW entries,
           Stage(r, new, dirty, entries)
    PROVE  UNCHANGED Abstract!vars
<1>1. session = [q \in Request |-> session[q]] /\ SessionOK(session[r])
  BY DEF IInv, DataInv, SessionsOK
<1>2. \A q \in Request : session'[q].state = session[q].state
  BY <1>1 DEF Stage, SessionOK
<1> QED
  BY <1>2, SameOutcome DEF Stage

\* What a change of a session's state means for the outcome of its request.
LEMMA OutcomeOfState ==
    ASSUME IInv, NEW r \in Request, NEW s \in SessionState,
           session' = [session EXCEPT ![r].state = s]
    PROVE  /\ s \in {"waiting", "open", "returned"} =>
                 Outcome' = [Outcome EXCEPT ![r] = "pending"]
           /\ s = "committed" => Outcome' = [Outcome EXCEPT ![r] = "applied"]
           /\ s \in {"failed", "discarded"} =>
                 Outcome' = [Outcome EXCEPT ![r] = "abandoned"]
<1>1. session = [q \in Request |-> session[q]] /\ SessionOK(session[r])
  BY DEF IInv, DataInv, SessionsOK
<1>2. /\ session'[r].state = s
      /\ \A q \in Request \ {r} : session'[q].state = session[q].state
  BY <1>1 DEF SessionOK
<1> QED
  BY <1>2 DEF Outcome

\* A session that ends without committing abandons its request.
LEMMA EndIsAbandon ==
    ASSUME IInv, NEW r \in Request, NEW s \in {"failed", "discarded"},
           session[r].state \in {"waiting", "open", "returned"},
           session' = [session EXCEPT ![r].state = s], UNCHANGED <<table, ledger>>
    PROVE  Abstract!Abandon(r)
<1>1. Outcome' = [Outcome EXCEPT ![r] = "abandoned"]
  BY OutcomeOfState DEF SessionState
<1>2. Outcome[r] = "pending"
  BY DEF Outcome
<1> QED
  BY <1>1, <1>2 DEF Abstract!Abandon

\* An exception abandons the request.
LEMMA RaiseIsAbandon ==
    ASSUME IInv, NEW r \in Request, Raise(r),
           session[r].state \in {"waiting", "open", "returned"}
    PROVE  Abstract!Abandon(r)
BY EndIsAbandon DEF Raise

\* Connecting and returning change nothing that the abstract specification sees.
LEMMA PendingIsAStutter ==
    ASSUME IInv, NEW r \in Request, NEW s \in {"open", "returned"},
           session[r].state \in {"waiting", "open"},
           session' = [session EXCEPT ![r].state = s], UNCHANGED <<table, ledger>>
    PROVE  UNCHANGED Abstract!vars
<1>1. Outcome' = [Outcome EXCEPT ![r] = "pending"]
  BY OutcomeOfState DEF SessionState
<1>2. Outcome[r] = "pending"
  BY DEF Outcome
<1>3. Outcome' = Outcome
  BY <1>1, <1>2 DEF Outcome
<1> QED
  BY <1>3 DEF Abstract!vars

\* The arrival of a request begins it.
LEMMA SubmitIsBegin ==
    ASSUME IInv, NEW r \in Request, Submit(r)
    PROVE  Abstract!Begin(r)
<1>1. PICK m \in Managers, j \in Jobs : Arrive(r, m, j)
  BY DEF Submit
<1>2. session = [q \in Request |-> session[q]] /\ SessionOK(session[r])
  BY DEF IInv, DataInv, SessionsOK
<1>3. /\ session[r].state = "idle" /\ session'[r].state = "waiting"
      /\ \A q \in Request \ {r} : session'[q].state = session[q].state
      /\ UNCHANGED <<table, ledger>>
  BY <1>1, <1>2 DEF Arrive, SessionOK
<1>4. Outcome[r] = "none" /\ Outcome' = [Outcome EXCEPT ![r] = "pending"]
  BY <1>3 DEF Outcome
<1> QED
  BY <1>3, <1>4 DEF Abstract!Begin

\* A commit applies the whole effect of its request at once.
LEMMA CommitIsApply ==
    ASSUME IInv, NEW r \in Request, Commit(r)
    PROVE  Abstract!Apply(r)
<1>1. /\ session[r].state = "returned"
      /\ session' = [session EXCEPT ![r].state = "committed"]
      /\ table' = Overlay(table, session[r].writes)
      /\ ledger' = ledger \o session[r].posted
  BY DEF Commit
<1>2. SessionOK(session[r]) /\ OwnWork(r) /\ ledger \in Seq(Entry)
  BY DEF IInv, DataInv, SessionsOK
<1>3. Outcome[r] = "pending" /\ Outcome' = [Outcome EXCEPT ![r] = "applied"]
  <2>1. Outcome[r] = "pending"
    BY <1>1 DEF Outcome
  <2> QED
    BY <1>1, <2>1, OutcomeOfState DEF SessionState
<1>4. /\ DOMAIN table \subseteq DOMAIN table'
      /\ \A row \in DOMAIN table' \ DOMAIN table : row.id = r
  BY <1>1, <1>2 DEF Overlay, OwnWork, OwnRow
<1>5. LET l == ledger \o session[r].posted
      IN  /\ Len(ledger) <= Len(l)
          /\ \A i \in 1 .. Len(ledger) : l[i] = ledger[i]
          /\ \A i \in Len(ledger) + 1 .. Len(l) : l[i].by = r
  BY <1>2, ConcatOf DEF SessionOK, OwnWork
<1>6. /\ Len(ledger) <= Len(ledger')
      /\ \A i \in 1 .. Len(ledger) : ledger'[i] = ledger[i]
      /\ \A i \in Len(ledger) + 1 .. Len(ledger') : ledger'[i].by = r
  BY <1>1, <1>5
<1> QED
  BY <1>3, <1>4, <1>6 DEF Abstract!Apply

\* Every step of the server is an end of its request or a stutter.
LEMMA ServeRefines ==
    ASSUME IInv, NEW r \in Request, Serve(r)
    PROVE  Abstract!Abandon(r) \/ Abstract!Apply(r) \/ UNCHANGED Abstract!vars
<1>1. CASE Connect(r)
  BY <1>1, PendingIsAStutter DEF Connect
<1>2. CASE PoolTimeout(r)
  BY <1>2, EndIsAbandon DEF PoolTimeout
<1>3. CASE CreatePO(r)
  BY <1>3, StageIsAStutter, RaiseIsAbandon DEF CreatePO, Running
<1>4. CASE ApprovePO(r)
  BY <1>4, StageIsAStutter, RaiseIsAbandon DEF ApprovePO, Running
<1>5. CASE AdjustStock(r)
  BY <1>5, StageIsAStutter, RaiseIsAbandon DEF AdjustStock, Running
<1>6. CASE OpenGRN(r)
  BY <1>6, StageIsAStutter, RaiseIsAbandon DEF OpenGRN, Running
<1>7. CASE FailLine(r)
  BY <1>7, RaiseIsAbandon DEF FailLine, AtLine, Running
<1>8. CASE RecordLine(r)
  BY <1>8, StageIsAStutter DEF RecordLine
<1>9. CASE CreditLine(r)
  BY <1>9, StageIsAStutter DEF CreditLine
<1>10. CASE ClosePO(r)
  BY <1>10, StageIsAStutter DEF ClosePO
<1>11. CASE Flush(r)
  <2>1. session = [q \in Request |-> session[q]] /\ SessionOK(session[r])
    BY DEF IInv, DataInv, SessionsOK
  <2>2. \A q \in Request : session'[q].state = session[q].state
    BY <1>11, <2>1 DEF Flush, SessionOK
  <2> QED
    BY <1>11, <2>2, SameOutcome DEF Flush
<1>12. CASE Finish(r)
  BY <1>12, PendingIsAStutter DEF Finish, Respond, Running
<1>13. CASE Commit(r)
  BY <1>13, CommitIsApply
<1>14. CASE Discard(r)
  BY <1>14, EndIsAbandon DEF Discard
<1>15. CASE DeadlockVictim(r)
  BY <1>15, RaiseIsAbandon DEF DeadlockVictim, Deadlocked, InUse, Live
<1> QED
  BY <1>1, <1>2, <1>3, <1>4, <1>5, <1>6, <1>7, <1>8, <1>9, <1>10, <1>11, <1>12,
     <1>13, <1>14, <1>15 DEF Serve

\* The sessions implement the unit of work: every request takes effect in one step, which
\* adds its own rows and postings and removes none, or has no effect.
THEOREM Refinement == Spec => ImplementsUnitOfWork
<1>1. Init => Abstract!Init
  <2> SUFFICES ASSUME Init PROVE Abstract!Init
    OBVIOUS
  <2>1. PICK f \in Filed : table = f.table /\ ledger = f.ledger
    BY DEF Init
  <2>2. /\ \A i \in DOMAIN ledger : ledger[i].by \notin Request
        /\ \A row \in DOMAIN table : row.id \notin Request
    BY <2>1, ProcurementAssumption, DatabaseAssumption
  <2>3. Outcome = [r \in Request |-> "none"]
    BY DEF Init, FreshSession, Outcome
  <2> QED
    BY <2>2, <2>3 DEF Abstract!Init
<1>2. IInv /\ [Next]_vars => [Abstract!Next]_Abstract!vars
  <2> SUFFICES ASSUME IInv, [Next]_vars
               PROVE  [Abstract!Next]_Abstract!vars
    OBVIOUS
  <2>1. ASSUME NEW r \in Request, Submit(r) PROVE [Abstract!Next]_Abstract!vars
    BY <2>1, SubmitIsBegin DEF Abstract!Next
  <2>2. ASSUME NEW r \in Request, Serve(r) PROVE [Abstract!Next]_Abstract!vars
    BY <2>2, ServeRefines DEF Abstract!Next
  <2>3. ASSUME NEW r \in Request, Crash(r) PROVE [Abstract!Next]_Abstract!vars
    BY <2>3, EndIsAbandon DEF Crash, Live, Abstract!Next
  <2>4. CASE UNCHANGED vars
    BY <2>4, SameOutcome DEF vars
  <2> QED
    BY <2>1, <2>2, <2>3, <2>4 DEF Next
<1> QED
  BY <1>1, <1>2, Invariance, PTL DEF Spec, ImplementsUnitOfWork, Abstract!Spec
=============================================================================
