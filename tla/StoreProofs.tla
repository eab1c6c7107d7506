----------------------------- MODULE StoreProofs -----------------------------
(***************************************************************************)
(* What the store guarantees to every component built on it: no row has    *)
(* two writers, no unique key is stored twice, and sessions implement      *)
(* requests that take effect in one step or not at all.                    *)
(***************************************************************************)
EXTENDS Store, Sequences, TLAPS

W(r) == session[r].writes

\* Two rows share no entry of a unique index.
Apart(a, v, b, w) == KeysOf(a, v) \cap KeysOf(b, w) = {}

\* A session is a record with the fields of a fresh one; its values have no type here.
IsSession(s) ==
    s = [state |-> s.state, manager |-> s.manager, writes |-> s.writes,
         pending |-> [row |-> s.pending.row, set |-> s.pending.set],
         answer |-> s.answer, error |-> s.error]

\* A row that request r may write: one on file, or one of its own.
Mine(r, row) == row \in DOMAIN table \/ row.id = r

Sessions ==
    /\ session = [r \in Request |-> session[r]]
    /\ \A r \in Request :
         /\ IsSession(session[r])
         /\ session[r].state = "idle" => W(r) = NoRows
         /\ session[r].state = "idle" => session[r].pending = NoStatement

\* Transactions in progress write different rows, and enter no key that another has
\* entered or superseded.
WritesApart ==
    \A r, o \in Request : (r # o /\ Live(r) /\ Live(o)) =>
        /\ DOMAIN W(r) \cap DOMAIN W(o) = {}
        /\ \A a \in DOMAIN W(r), b \in DOMAIN W(o) :
             /\ Apart(a, W(r)[a], b, W(o)[b])
             /\ b \in DOMAIN table => Apart(a, W(r)[a], b, table[b])

\* No session sees a key twice.
ViewsDistinct == \A r \in Request : Live(r) => Distinct(View(r))

OwnWork ==
    \A r \in Request :
        /\ \A row \in DOMAIN W(r) : Mine(r, row)
        /\ session[r].pending # NoStatement => Mine(r, session[r].pending.row)

StoreInv == Sessions /\ WritesApart /\ ViewsDistinct /\ OwnWork /\ Distinct(table)

\* A job is a record that names its operation and its position.
IsJob(j) == j = [f \in DOMAIN j |-> j[f]] /\ {"op", "pc"} \subseteq DOMAIN j

-----------------------------------------------------------------------------
(* Overlays and keys.                                                      *)

\* What an overlay of two functions holds.
LEMMA OverlayFacts ==
    ASSUME NEW f, NEW g
    PROVE  /\ DOMAIN Overlay(f, g) = DOMAIN f \cup DOMAIN g
           /\ \A x \in DOMAIN g : Overlay(f, g)[x] = g[x]
           /\ \A x \in DOMAIN f \ DOMAIN g : Overlay(f, g)[x] = f[x]
BY DEF Overlay

\* Which rows a session sees.
LEMMA ViewFacts ==
    ASSUME NEW r \in Request
    PROVE  /\ DOMAIN View(r) = DOMAIN table \cup DOMAIN W(r)
           /\ \A x \in DOMAIN W(r) : View(r)[x] = W(r)[x]
           /\ \A x \in DOMAIN table \ DOMAIN W(r) : View(r)[x] = table[x]
BY OverlayFacts DEF View, W

\* Which keys a transaction leaves undecided.
LEMMA UndecidedFacts ==
    ASSUME NEW o \in Request, Live(o), NEW b \in DOMAIN W(o)
    PROVE  /\ KeysOf(b, W(o)[b]) \subseteq Undecided(o)
           /\ b \in DOMAIN table => KeysOf(b, table[b]) \subseteq Undecided(o)
<1> DEFINE old == [row \in Held(o) \cap DOMAIN table |-> table[row]]
<1>1. Undecided(o) = KeysIn(W(o)) \cup KeysIn(old)
  BY DEF Undecided, W
<1>2. KeysOf(b, W(o)[b]) \subseteq KeysIn(W(o))
  BY DEF KeysIn
<1>3. ASSUME b \in DOMAIN table PROVE KeysOf(b, table[b]) \subseteq KeysIn(old)
  <2>1. b \in DOMAIN old /\ old[b] = table[b]
    BY <1>3 DEF Held, W
  <2> HIDE DEF old
  <2> QED BY <2>1 DEF KeysIn
<1> HIDE DEF old
<1> QED BY <1>1, <1>2, <1>3

\* A statement that nothing blocks meets no undecided row or key.
LEMMA Unblocked ==
    ASSUME NEW r \in Request, NEW o \in Request, r # o, Live(o), Blockers(r) = {}
    PROVE  /\ session[r].pending.row \notin DOMAIN W(o)
           /\ \A b \in DOMAIN W(o) :
                /\ Apart(session[r].pending.row, Outgoing(r), b, W(o)[b])
                /\ b \in DOMAIN table =>
                     Apart(session[r].pending.row, Outgoing(r), b, table[b])
<1>1. /\ session[r].pending.row \notin Held(o)
      /\ KeysOf(session[r].pending.row, Outgoing(r)) \cap Undecided(o) = {}
  BY DEF Blockers
<1>2. Held(o) = DOMAIN W(o)
  BY DEF Held, W
<1>3. ASSUME NEW b \in DOMAIN W(o)
      PROVE  /\ Apart(session[r].pending.row, Outgoing(r), b, W(o)[b])
             /\ b \in DOMAIN table =>
                  Apart(session[r].pending.row, Outgoing(r), b, table[b])
  BY <1>1, UndecidedFacts DEF Apart
<1> QED BY <1>1, <1>2, <1>3

-----------------------------------------------------------------------------
(* Steps that write nothing.                                               *)

\* Session r has changed, its writes have not; it may have begun, or ended.
Quiet(r) ==
    /\ table' = table
    /\ session' = [session EXCEPT ![r] = session'[r]]
    /\ IsSession(session'[r])
    /\ session'[r].writes = session[r].writes
    /\ session'[r].pending # NoStatement => Mine(r, session'[r].pending.row)
    /\ \/ session[r].state = "idle" /\ session'[r].state \in {"open", "returned"}
       \/ /\ session[r].state \in {"open", "returned"}
          /\ session'[r].state \notin {"idle", "committed"}

\* Such a step disturbs nothing.
LEMMA QuietKeeps ==
    ASSUME StoreInv, NEW r \in Request, Quiet(r)
    PROVE  StoreInv'
<1>1. /\ table' = table
      /\ session'[r] = session'[r]
      /\ \A o \in Request \ {r} : session'[o] = session[o]
      /\ \A o \in Request : W(o)' = W(o)
      /\ session' = [o \in Request |-> session'[o]]
  BY DEF Quiet, StoreInv, Sessions, W
<1>2. Sessions'
  BY <1>1 DEF Quiet, StoreInv, Sessions, W
<1>3. \A o \in Request : Live(o)' => Live(o) \/ (o = r /\ W(r) = NoRows)
  BY <1>1 DEF Quiet, StoreInv, Sessions, Live
<1>4. DOMAIN NoRows = {}
  BY DEF NoRows
<1>5. WritesApart'
  BY <1>1, <1>3, <1>4 DEF StoreInv, WritesApart, Apart
<1>6. ViewsDistinct'
  <2> SUFFICES ASSUME NEW o \in Request, Live(o)' PROVE Distinct(View(o))'
    BY DEF ViewsDistinct
  <2>1. View(o)' = View(o)
    BY <1>1 DEF View, W
  <2>2. CASE Live(o)
    BY <2>1, <2>2 DEF StoreInv, ViewsDistinct, Distinct
  <2>3. CASE W(o) = NoRows
    <3>1. /\ DOMAIN View(o) = DOMAIN table
          /\ \A x \in DOMAIN table : View(o)[x] = table[x]
      BY <1>4, <2>3, ViewFacts
    <3> QED BY <2>1, <3>1 DEF StoreInv, Distinct
  <2> QED BY <1>3, <2>2, <2>3
<1>7. OwnWork'
  BY <1>1 DEF Quiet, StoreInv, OwnWork, Mine
<1>8. Distinct(table)'
  BY <1>1 DEF StoreInv, Distinct
<1> QED BY <1>2, <1>5, <1>6, <1>7, <1>8 DEF StoreInv

-----------------------------------------------------------------------------
(* The steps of the store.                                                 *)

\* A session with two or three of its fields replaced.
Returned(s, x, y) == [s EXCEPT !.state = x, !.answer = y]
Failed(s, x, y, z) == [s EXCEPT !.state = x, !.answer = y, !.error = z]
Written(s, x, y) == [s EXCEPT !.writes = x, !.pending = y]

\* The other fields stay as they are.
LEMMA Replaced ==
    ASSUME NEW s, IsSession(s), NEW x, NEW y, NEW z
    PROVE  /\ Returned(s, x, y) =
                [state |-> x, manager |-> s.manager, writes |-> s.writes,
                 pending |-> s.pending, answer |-> y, error |-> s.error]
           /\ Failed(s, x, y, z) =
                [state |-> x, manager |-> s.manager, writes |-> s.writes,
                 pending |-> s.pending, answer |-> y, error |-> z]
           /\ Written(s, x, y) =
                [state |-> s.state, manager |-> s.manager, writes |-> x,
                 pending |-> y, answer |-> s.answer, error |-> s.error]
<1> DEFINE t == [state |-> x, manager |-> s.manager, writes |-> s.writes,
                 pending |-> s.pending, answer |-> s.answer, error |-> s.error]
           u == [state |-> x, manager |-> s.manager, writes |-> s.writes,
                 pending |-> s.pending, answer |-> y, error |-> s.error]
           w == [state |-> s.state, manager |-> s.manager, writes |-> x,
                 pending |-> s.pending, answer |-> s.answer, error |-> s.error]
<1>1. [s EXCEPT !.state = x] = t
  BY DEF IsSession
<1>2. [t EXCEPT !.answer = y] = u
  OBVIOUS
<1>3. [u EXCEPT !.error = z] =
        [state |-> x, manager |-> s.manager, writes |-> s.writes,
         pending |-> s.pending, answer |-> y, error |-> z]
  OBVIOUS
<1>4. [s EXCEPT !.writes = x] = w
  BY DEF IsSession
<1>5. [w EXCEPT !.pending = y] =
        [state |-> s.state, manager |-> s.manager, writes |-> x,
         pending |-> y, answer |-> s.answer, error |-> s.error]
  OBVIOUS
<1>6. Returned(s, x, y) = [[s EXCEPT !.state = x] EXCEPT !.answer = y]
  BY DEF Returned
<1>7. Failed(s, x, y, z) = [[[s EXCEPT !.state = x] EXCEPT !.answer = y] EXCEPT !.error = z]
  BY DEF Failed
<1>8. Written(s, x, y) = [[s EXCEPT !.writes = x] EXCEPT !.pending = y]
  BY DEF Written
<1> HIDE DEF t, u, w
<1>9. Returned(s, x, y) = u
  BY <1>1, <1>2, <1>6
<1>10. Failed(s, x, y, z) = [u EXCEPT !.error = z]
  BY <1>1, <1>2, <1>7
<1>11. Written(s, x, y) = [w EXCEPT !.pending = y]
  BY <1>4, <1>8
<1> USE DEF u
<1> QED BY <1>9, <1>10, <1>11, <1>3, <1>5

\* A request that arrives has written nothing.
LEMMA ArriveQuiet ==
    ASSUME StoreInv, NEW r \in Request, NEW j, Arrive(r, j)
    PROVE  Quiet(r)
BY DEF StoreInv, Sessions, IsSession, Arrive, Quiet, Mine, OwnWork

\* Sending a statement writes nothing.
LEMMA StageQuiet ==
    ASSUME StoreInv, NEW r \in Request, NEW row, NEW set, Stage(r, row, set),
           Running(r), Mine(r, row)
    PROVE  Quiet(r)
BY DEF StoreInv, Sessions, IsSession, Stage, Running, Quiet, Mine, OwnWork

\* A session that fails gives up its writes.
LEMMA RaiseQuiet ==
    ASSUME StoreInv, NEW r \in Request, NEW e, Live(r), Raise(r, e)
    PROVE  Quiet(r)
<1>1. session' = [session EXCEPT ![r] =
         [session[r] EXCEPT !.state = "failed", !.answer = StatusOf(e), !.error = e]]
  BY DEF StoreInv, Sessions, Raise
<1>2. session'[r] = [state |-> "failed", manager |-> session[r].manager,
                     writes |-> session[r].writes, pending |-> session[r].pending,
                     answer |-> StatusOf(e), error |-> e]
  <2>1. IsSession(session[r])
    BY DEF StoreInv, Sessions
  <2>2. session'[r] = Failed(session[r], "failed", StatusOf(e), e)
    BY <1>1 DEF StoreInv, Sessions, Failed
  <2> QED BY <2>1, <2>2, Replaced
<1>3. session' = [session EXCEPT ![r] = session'[r]]
  BY <1>1 DEF StoreInv, Sessions
<1> QED BY <1>2, <1>3 DEF StoreInv, Sessions, IsSession, Raise, Quiet, Mine, OwnWork,
               Live

\* A handler that returns has sent its statements.
LEMMA RespondQuiet ==
    ASSUME StoreInv, NEW r \in Request, NEW status, Running(r), Respond(r, status)
    PROVE  Quiet(r)
<1>1. session' = [session EXCEPT ![r] =
         [session[r] EXCEPT !.state = "returned", !.answer = status]]
  BY DEF StoreInv, Sessions, Respond
<1>2. session'[r] = [state |-> "returned", manager |-> session[r].manager,
                     writes |-> session[r].writes, pending |-> session[r].pending,
                     answer |-> status, error |-> session[r].error]
  <2>1. IsSession(session[r])
    BY DEF StoreInv, Sessions
  <2>2. session'[r] = Returned(session[r], "returned", status)
    BY <1>1 DEF StoreInv, Sessions, Returned
  <2> QED BY <2>1, <2>2, Replaced
<1>3. session' = [session EXCEPT ![r] = session'[r]]
  BY <1>1 DEF StoreInv, Sessions
<1> QED BY <1>2, <1>3
        DEF StoreInv, Sessions, IsSession, Respond, Running, Quiet, Mine, OwnWork

\* Neither closing a session nor losing it writes anything.
LEMMA DiscardQuiet ==
    ASSUME StoreInv, NEW r \in Request, Discard(r) \/ Crash(r)
    PROVE  Quiet(r)
BY DEF StoreInv, Sessions, IsSession, Discard, Crash, Quiet, Mine, OwnWork,
       Live

\* The victim of a deadlock fails.
LEMMA VictimQuiet ==
    ASSUME StoreInv, NEW r \in Request, DeadlockVictim(r)
    PROVE  Quiet(r)
BY RaiseQuiet DEF DeadlockVictim, Waiting, Live

\* A store with no session under way.
LEMMA InitStore ==
    ASSUME NEW m, session = [r \in Request |-> FreshSession(m)], Distinct(table)
    PROVE  StoreInv
<1>1. Sessions
  BY DEF Sessions, IsSession, FreshSession, NoStatement, W
<1>2. \A r \in Request : ~Live(r) /\ W(r) = NoRows /\ session[r].pending = NoStatement
  BY DEF FreshSession, Live, W
<1>3. DOMAIN NoRows = {}
  BY DEF NoRows
<1> QED BY <1>1, <1>2, <1>3 DEF StoreInv, WritesApart, ViewsDistinct, OwnWork

\* Nothing of the store has changed.
LEMMA StoreFrame ==
    ASSUME StoreInv, UNCHANGED <<table, session>>
    PROVE  StoreInv'
<1>1. Sessions'
  <2>1. session' = [r \in Request |-> session'[r]]
    BY DEF StoreInv, Sessions
  <2>2. \A r \in Request : session'[r] = session[r] /\ W(r)' = W(r)
    BY DEF W
  <2> QED BY <2>1, <2>2 DEF StoreInv, Sessions
<1>3. \A r \in Request : W(r)' = W(r) /\ View(r)' = View(r) /\ (Live(r)' <=> Live(r))
  BY DEF W, View, Live
<1>2. WritesApart'
  BY <1>3 DEF StoreInv, WritesApart, Apart
<1>4. ViewsDistinct'
  BY <1>3 DEF StoreInv, ViewsDistinct, Distinct
<1>5. OwnWork'
  BY <1>3 DEF StoreInv, OwnWork, Mine
<1>6. Distinct(table)'
  BY DEF StoreInv, Distinct
<1> QED BY <1>1, <1>2, <1>4, <1>5, <1>6 DEF StoreInv

\* What the statement of a session adds to its writes.
LEMMA ExecuteWrites ==
    ASSUME StoreInv, NEW r \in Request, Execute(r), ~Duplicate(r)
    PROVE  /\ table' = table
           /\ job' = job
           /\ \A o \in Request \ {r} : session'[o] = session[o]
           /\ session' = [o \in Request |-> session'[o]]
           /\ IsSession(session'[r])
           /\ session'[r].state = "open" /\ session[r].state = "open"
           /\ session'[r].manager = session[r].manager /\ session'[r].answer = session[r].answer
           /\ session'[r].pending = NoStatement
           /\ DOMAIN session'[r].writes = DOMAIN W(r) \cup {session[r].pending.row}
           /\ session'[r].writes[session[r].pending.row] = Outgoing(r)
           /\ \A a \in DOMAIN W(r) \ {session[r].pending.row} :
                session'[r].writes[a] = W(r)[a]
<1> DEFINE new == [x \in {session[r].pending.row} |-> Outgoing(r)]
<1>1. ~Raise(r, "IntegrityError") \/ ~Duplicate(r)
  OBVIOUS
<1>2. /\ session' = [session EXCEPT ![r].writes = Overlay(@, new), ![r].pending = NoStatement]
      /\ UNCHANGED <<table, job>>
  BY DEF Execute
<1>3. IsSession(session[r]) /\ session[r].state = "open"
  BY DEF StoreInv, Sessions, Execute, Waiting
<1>4. session' = [session EXCEPT ![r] =
        [session[r] EXCEPT !.writes = Overlay(W(r), new), !.pending = NoStatement]]
  BY <1>2 DEF StoreInv, Sessions, W
<1>5. session'[r] = Written(session[r], Overlay(W(r), new), NoStatement)
  BY <1>4 DEF StoreInv, Sessions, Written
<1>6. session'[r] = [state |-> "open", manager |-> session[r].manager,
                     writes |-> Overlay(W(r), new), pending |-> NoStatement,
                     answer |-> session[r].answer, error |-> session[r].error]
  BY <1>3, <1>5, Replaced
<1>7. /\ DOMAIN new = {session[r].pending.row}
      /\ new[session[r].pending.row] = Outgoing(r)
  OBVIOUS
<1> HIDE DEF new
<1>8. /\ DOMAIN session'[r].writes = DOMAIN W(r) \cup {session[r].pending.row}
      /\ session'[r].writes[session[r].pending.row] = Outgoing(r)
      /\ \A a \in DOMAIN W(r) \ {session[r].pending.row} :
           session'[r].writes[a] = W(r)[a]
  <2>1. session'[r].writes = Overlay(W(r), new)
    BY <1>6
  <2>2. /\ DOMAIN Overlay(W(r), new) = DOMAIN W(r) \cup DOMAIN new
        /\ \A x \in DOMAIN new : Overlay(W(r), new)[x] = new[x]
        /\ \A x \in DOMAIN W(r) \ DOMAIN new : Overlay(W(r), new)[x] = W(r)[x]
    BY OverlayFacts
  <2> QED BY <1>7, <2>1, <2>2
<1>9. /\ \A o \in Request \ {r} : session'[o] = session[o]
      /\ session' = [o \in Request |-> session'[o]]
  BY <1>4 DEF StoreInv, Sessions
<1>10. IsSession(session'[r])
  BY <1>6 DEF IsSession, NoStatement
<1> QED BY <1>2, <1>3, <1>6, <1>8, <1>9, <1>10

\* A statement that is executed writes a row and keys that are nobody else's.
LEMMA ExecuteKeeps ==
    ASSUME StoreInv, NEW r \in Request, Execute(r)
    PROVE  StoreInv'
<1> DEFINE row == session[r].pending.row
           v == Outgoing(r)
<1>1. CASE Duplicate(r)
  <2>1. Raise(r, "IntegrityError") /\ Live(r)
    BY <1>1 DEF Execute, Waiting, Live
  <2> QED BY <2>1, RaiseQuiet, QuietKeeps
<1>2. CASE ~Duplicate(r)
  <2>1. /\ table' = table
        /\ \A o \in Request \ {r} : session'[o] = session[o] /\ W(o)' = W(o)
        /\ session' = [o \in Request |-> session'[o]]
        /\ IsSession(session'[r])
        /\ session'[r].state = "open" /\ session[r].state = "open"
        /\ session'[r].pending = NoStatement
        /\ DOMAIN W(r)' = DOMAIN W(r) \cup {row}
        /\ W(r)'[row] = v
        /\ \A a \in DOMAIN W(r) \ {row} : W(r)'[a] = W(r)[a]
    BY <1>2, ExecuteWrites DEF W
  <2>2. /\ Live(r) /\ \A o \in Request : Live(o)' <=> Live(o)
        /\ Mine(r, row)
        /\ Blockers(r) = {}
    BY <2>1 DEF Live, Execute, Waiting, StoreInv, OwnWork
  <2> HIDE DEF row, v
  <2>3. Sessions'
    BY <2>1 DEF StoreInv, Sessions, W
  <2>4. ASSUME NEW o \in Request, o # r, Live(o)
        PROVE  /\ row \notin DOMAIN W(o)
               /\ \A b \in DOMAIN W(o) :
                    /\ Apart(row, v, b, W(o)[b])
                    /\ b \in DOMAIN table => Apart(row, v, b, table[b])
                    /\ row \in DOMAIN table => Apart(b, W(o)[b], row, table[row])
    <3>1. /\ row \notin DOMAIN W(o)
          /\ \A b \in DOMAIN W(o) :
               /\ Apart(row, v, b, W(o)[b])
               /\ b \in DOMAIN table => Apart(row, v, b, table[b])
      BY <2>2, <2>4, Unblocked DEF row, v
    <3>2. ASSUME NEW b \in DOMAIN W(o), row \in DOMAIN table
          PROVE  Apart(b, W(o)[b], row, table[row])
      <4>1. Distinct(View(o))
        BY <2>4 DEF StoreInv, ViewsDistinct
      <4>2. /\ b \in DOMAIN View(o) /\ View(o)[b] = W(o)[b]
            /\ row \in DOMAIN View(o) /\ View(o)[row] = table[row]
            /\ b # row
        BY <3>1, <3>2, ViewFacts
      <4> QED BY <4>1, <4>2 DEF Distinct, Apart
    <3> QED BY <3>1, <3>2
  <2>5. WritesApart'
    <3> SUFFICES ASSUME NEW p \in Request, NEW o \in Request, p # o, Live(p), Live(o)
                 PROVE  /\ DOMAIN W(p)' \cap DOMAIN W(o)' = {}
                        /\ \A a \in DOMAIN W(p)', b \in DOMAIN W(o)' :
                             /\ Apart(a, W(p)'[a], b, W(o)'[b])
                             /\ b \in DOMAIN table => Apart(a, W(p)'[a], b, table[b])
      BY <2>1, <2>2 DEF WritesApart, Apart
    <3>1. /\ DOMAIN W(p) \cap DOMAIN W(o) = {}
          /\ \A a \in DOMAIN W(p), b \in DOMAIN W(o) :
               /\ Apart(a, W(p)[a], b, W(o)[b])
               /\ b \in DOMAIN table => Apart(a, W(p)[a], b, table[b])
      BY DEF StoreInv, WritesApart
    <3>2. CASE p # r /\ o # r
      BY <2>1, <3>1, <3>2
    <3>3. CASE p = r
      BY <2>1, <2>4, <3>1, <3>3
    <3>4. CASE o = r
      <4>1. ASSUME NEW a \in DOMAIN W(p), NEW b \in DOMAIN W(o)'
            PROVE  /\ Apart(a, W(p)[a], b, W(o)'[b])
                   /\ b \in DOMAIN table => Apart(a, W(p)[a], b, table[b])
                   /\ a # b
        <5>1. CASE b = row
          BY <2>1, <2>4, <3>4, <5>1 DEF Apart
        <5>2. CASE b # row
          BY <2>1, <3>1, <3>4, <5>2
        <5> QED BY <5>1, <5>2
      <4> QED BY <2>1, <3>4, <4>1
    <3> QED BY <3>2, <3>3, <3>4
  <2>6. ViewsDistinct'
    <3> SUFFICES ASSUME NEW o \in Request, Live(o) PROVE Distinct(View(o)')
      BY <2>2 DEF ViewsDistinct, Distinct
    <3>1. Distinct(View(o))
      BY DEF StoreInv, ViewsDistinct
    <3>2. CASE o # r
      <4>1. View(o)' = View(o)
        BY <2>1, <3>2 DEF View
      <4> QED BY <3>1, <4>1
    <3>3. CASE o = r
      <4>1. /\ DOMAIN View(o)' = DOMAIN View(o) \cup {row}
            /\ View(o)'[row] = v
            /\ \A a \in DOMAIN View(o) \ {row} : View(o)'[a] = View(o)[a]
        <5>1. /\ DOMAIN View(o)' = DOMAIN table \cup DOMAIN W(o)'
              /\ \A x \in DOMAIN W(o)' : View(o)'[x] = W(o)'[x]
              /\ \A x \in DOMAIN table \ DOMAIN W(o)' : View(o)'[x] = table[x]
          <6>1. View(o)' = Overlay(table, W(o)')
            BY <2>1 DEF View, W
          <6>2. /\ DOMAIN Overlay(table, W(o)') = DOMAIN table \cup DOMAIN W(o)'
                /\ \A x \in DOMAIN W(o)' : Overlay(table, W(o)')[x] = W(o)'[x]
                /\ \A x \in DOMAIN table \ DOMAIN W(o)' :
                     Overlay(table, W(o)')[x] = table[x]
            BY OverlayFacts
          <6> QED BY <6>1, <6>2
        <5>2. /\ DOMAIN View(r) = DOMAIN table \cup DOMAIN W(r)
              /\ \A x \in DOMAIN W(r) : View(r)[x] = W(r)[x]
              /\ \A x \in DOMAIN table \ DOMAIN W(r) : View(r)[x] = table[x]
          BY ViewFacts
        <5> QED BY <2>1, <3>3, <5>1, <5>2
      <4>2. \A a \in DOMAIN View(o) \ {row} : KeysOf(row, v) \cap KeysOf(a, View(o)[a]) = {}
        BY <1>2, <3>3 DEF Duplicate, row, v
      <4> QED BY <3>1, <4>1, <4>2 DEF Distinct
    <3> QED BY <3>2, <3>3
  <2>7. OwnWork'
    BY <2>1, <2>2 DEF StoreInv, OwnWork, Mine
  <2>8. Distinct(table)'
    BY <2>1 DEF StoreInv, Distinct
  <2> QED BY <2>3, <2>5, <2>6, <2>7, <2>8 DEF StoreInv
<1> QED BY <1>1, <1>2

\* A commit moves writes into the table that clash with nobody else's.
LEMMA CommitKeeps ==
    ASSUME StoreInv, NEW r \in Request, Commit(r)
    PROVE  StoreInv'
<1>1. /\ table' = View(r)
      /\ Live(r)
      /\ session'[r] = [session[r] EXCEPT !.state = "committed"]
      /\ \A o \in Request \ {r} : session'[o] = session[o] /\ W(o)' = W(o)
      /\ session' = [o \in Request |-> session'[o]]
  BY DEF StoreInv, Sessions, Commit, Live, W
<1>2. /\ IsSession(session'[r]) /\ session'[r].state = "committed"
      /\ session'[r].writes = session[r].writes
      /\ session'[r].pending = session[r].pending
  BY <1>1 DEF StoreInv, Sessions, IsSession
<1>3. Sessions'
  BY <1>1, <1>2 DEF StoreInv, Sessions, W
<1>4. ~Live(r)' /\ \A o \in Request \ {r} : Live(o)' <=> Live(o)
  BY <1>1, <1>2 DEF Live
<1>5. Distinct(View(r))
  BY <1>1 DEF StoreInv, ViewsDistinct
<1>6. ASSUME NEW p \in Request \ {r}, Live(p), NEW b \in DOMAIN W(p)
      PROVE  b \notin DOMAIN W(r) /\ (b \in DOMAIN View(r) => b \in DOMAIN table)
               /\ (b \in DOMAIN table => View(r)[b] = table[b])
  BY <1>1, <1>6, ViewFacts DEF StoreInv, WritesApart
<1>7. WritesApart'
  <2> SUFFICES ASSUME NEW p \in Request \ {r}, NEW o \in Request \ {r}, p # o, Live(p), Live(o)
               PROVE  /\ DOMAIN W(p) \cap DOMAIN W(o) = {}
                      /\ \A a \in DOMAIN W(p), b \in DOMAIN W(o) :
                           /\ Apart(a, W(p)[a], b, W(o)[b])
                           /\ b \in DOMAIN View(r) => Apart(a, W(p)[a], b, View(r)[b])
    BY <1>1, <1>4 DEF WritesApart, Apart
  <2>1. /\ DOMAIN W(p) \cap DOMAIN W(o) = {}
        /\ \A a \in DOMAIN W(p), b \in DOMAIN W(o) :
             /\ Apart(a, W(p)[a], b, W(o)[b])
             /\ b \in DOMAIN table => Apart(a, W(p)[a], b, table[b])
    BY DEF StoreInv, WritesApart
  <2> QED BY <1>6, <2>1
<1>8. ViewsDistinct'
  <2> SUFFICES ASSUME NEW o \in Request \ {r}, Live(o) PROVE Distinct(View(o)')
    BY <1>4 DEF ViewsDistinct, Distinct
  <2>1. /\ DOMAIN View(o)' = DOMAIN View(r) \cup DOMAIN W(o)
        /\ \A x \in DOMAIN W(o) : View(o)'[x] = W(o)[x]
        /\ \A x \in DOMAIN View(r) \ DOMAIN W(o) : View(o)'[x] = View(r)[x]
    <3>1. View(o)' = Overlay(View(r), W(o))
      BY <1>1 DEF View, W
    <3>2. /\ DOMAIN Overlay(View(r), W(o)) = DOMAIN View(r) \cup DOMAIN W(o)
          /\ \A x \in DOMAIN W(o) : Overlay(View(r), W(o))[x] = W(o)[x]
          /\ \A x \in DOMAIN View(r) \ DOMAIN W(o) :
               Overlay(View(r), W(o))[x] = View(r)[x]
      BY OverlayFacts
    <3> QED BY <3>1, <3>2
  <2>2. /\ DOMAIN View(o) = DOMAIN table \cup DOMAIN W(o)
        /\ \A x \in DOMAIN W(o) : View(o)[x] = W(o)[x]
        /\ \A x \in DOMAIN table \ DOMAIN W(o) : View(o)[x] = table[x]
        /\ DOMAIN View(r) = DOMAIN table \cup DOMAIN W(r)
        /\ \A x \in DOMAIN W(r) : View(r)[x] = W(r)[x]
        /\ \A x \in DOMAIN table \ DOMAIN W(r) : View(r)[x] = table[x]
    BY ViewFacts
  <2>3. Distinct(View(o))
    BY DEF StoreInv, ViewsDistinct
  <2>4. ASSUME NEW x \in DOMAIN W(o), NEW y \in DOMAIN View(r) \ DOMAIN W(o)
        PROVE  KeysOf(x, W(o)[x]) \cap KeysOf(y, View(r)[y]) = {}
    <3>1. CASE y \in DOMAIN W(r)
      <4>1. Apart(x, W(o)[x], y, W(r)[y])
        BY <1>1, <3>1 DEF StoreInv, WritesApart
      <4> QED BY <2>2, <3>1, <4>1 DEF Apart
    <3>2. CASE y \notin DOMAIN W(r)
      <4>1. /\ y \in DOMAIN View(o) /\ View(o)[y] = View(r)[y]
            /\ x \in DOMAIN View(o) /\ View(o)[x] = W(o)[x]
            /\ x # y
        BY <2>2, <2>4, <3>2
      <4> QED BY <2>3, <4>1 DEF Distinct
    <3> QED BY <3>1, <3>2
  <2> SUFFICES ASSUME NEW x \in DOMAIN View(o)', NEW y \in DOMAIN View(o)', x # y
               PROVE  KeysOf(x, View(o)'[x]) \cap KeysOf(y, View(o)'[y]) = {}
    BY DEF Distinct
  <2>5. CASE x \in DOMAIN W(o) /\ y \in DOMAIN W(o)
    <3>1. /\ x \in DOMAIN View(o) /\ View(o)[x] = View(o)'[x]
          /\ y \in DOMAIN View(o) /\ View(o)[y] = View(o)'[y]
      BY <2>1, <2>2, <2>5
    <3> QED BY <2>3, <3>1 DEF Distinct
  <2>6. CASE x \in DOMAIN W(o) /\ y \notin DOMAIN W(o)
    BY <2>1, <2>4, <2>6
  <2>7. CASE x \notin DOMAIN W(o) /\ y \in DOMAIN W(o)
    <3>1. KeysOf(y, W(o)[y]) \cap KeysOf(x, View(r)[x]) = {}
      BY <2>1, <2>4, <2>7
    <3> QED BY <2>1, <2>7, <3>1
  <2>8. CASE x \notin DOMAIN W(o) /\ y \notin DOMAIN W(o)
    <3>1. /\ x \in DOMAIN View(r) /\ View(r)[x] = View(o)'[x]
          /\ y \in DOMAIN View(r) /\ View(r)[y] = View(o)'[y]
      BY <2>1, <2>8
    <3> QED BY <1>5, <3>1 DEF Distinct
  <2> QED BY <2>5, <2>6, <2>7, <2>8
<1>9. OwnWork'
  <2>1. \A row \in DOMAIN table : row \in DOMAIN View(r)
    BY ViewFacts
  <2>2. \A o \in Request : W(o)' = W(o) /\ session'[o].pending = session[o].pending
    BY <1>1, <1>2 DEF W
  <2> QED BY <1>1, <2>1, <2>2 DEF StoreInv, OwnWork, Mine
<1>10. Distinct(table)'
  BY <1>1, <1>5 DEF Distinct
<1> QED BY <1>3, <1>7, <1>8, <1>9, <1>10 DEF StoreInv

-----------------------------------------------------------------------------
(* The store implements units of work.                                     *)

\* How the abstract outcome of a request follows from the state of its session.
LEMMA OutcomeOf ==
    ASSUME NEW r \in Request
    PROVE  /\ session[r].state = "idle" => Outcome[r] = "none"
           /\ Live(r) => Outcome[r] = "pending"
           /\ session[r].state = "committed" => Outcome[r] = "applied"
           /\ session[r].state \notin {"idle", "open", "returned", "committed"} =>
                Outcome[r] = "abandoned"
BY DEF Outcome, Live

\* A store in which nothing has arrived, and whose rows are nobody's of the requests to come.
LEMMA InitMaps ==
    ASSUME NEW m, session = [r \in Request |-> FreshSession(m)],
           \A row \in DOMAIN table : row.id \notin Request
    PROVE  Abstract!Init
BY DEF Abstract!Init, Outcome, FreshSession

\* A step that changes the outcome of one request at most.
LEMMA OutcomeUpdate ==
    ASSUME NEW r \in Request, \A o \in Request \ {r} : session'[o] = session[o]
    PROVE  Outcome' = [Outcome EXCEPT ![r] = Outcome'[r]]
<1>1. \A o \in Request \ {r} : Outcome'[o] = Outcome[o]
  BY DEF Outcome
<1>2. /\ Outcome = [o \in Request |-> Outcome[o]]
      /\ Outcome' = [o \in Request |-> Outcome'[o]]
  BY DEF Outcome
<1> QED BY <1>1, <1>2

\* Steps that write nothing begin a unit of work, abandon it, or show nothing of it.
LEMMA QuietMaps ==
    ASSUME StoreInv, NEW r \in Request, Quiet(r)
    PROVE  [Abstract!Next]_Abstract!vars
<1>1. /\ table' = table
      /\ \A o \in Request \ {r} : session'[o] = session[o]
      /\ Outcome' = [Outcome EXCEPT ![r] = Outcome'[r]]
  BY OutcomeUpdate DEF Quiet, StoreInv, Sessions
<1>2. CASE session[r].state = "idle" /\ session'[r].state \in {"open", "returned"}
  <2>1. Outcome[r] = "none" /\ Outcome'[r] = "pending"
    BY <1>2 DEF Outcome
  <2> QED BY <1>1, <2>1 DEF Abstract!Next, Abstract!Begin
<1>3. CASE Live(r) /\ session'[r].state \in {"open", "returned"}
  <2>1. Outcome[r] = "pending" /\ Outcome'[r] = "pending"
    BY <1>3 DEF Outcome, Live
  <2>2. Outcome' = Outcome
    BY <1>1, <2>1 DEF Outcome
  <2> QED BY <1>1, <2>2 DEF Abstract!vars
<1>4. CASE Live(r) /\ session'[r].state \notin {"idle", "open", "returned", "committed"}
  <2>1. Outcome[r] = "pending" /\ Outcome'[r] = "abandoned"
    BY <1>4 DEF Outcome, Live
  <2> QED BY <1>1, <2>1 DEF Abstract!Next, Abstract!Abandon
<1> QED BY <1>2, <1>3, <1>4 DEF Quiet, Live

\* Nothing of a statement shows before the commit.
LEMMA ExecuteMaps ==
    ASSUME StoreInv, NEW r \in Request, Execute(r)
    PROVE  [Abstract!Next]_Abstract!vars
<1>1. CASE Duplicate(r)
  <2>1. Raise(r, "IntegrityError") /\ Live(r)
    BY <1>1 DEF Execute, Waiting, Live
  <2> QED BY <2>1, RaiseQuiet, QuietMaps
<1>2. CASE ~Duplicate(r)
  <2>1. /\ table' = table
        /\ session[r].state = "open" /\ session'[r].state = "open"
        /\ \A o \in Request \ {r} : session'[o] = session[o]
    BY <1>2, ExecuteWrites
  <2>2. Outcome' = [Outcome EXCEPT ![r] = Outcome'[r]] /\ Outcome'[r] = Outcome[r]
    BY <2>1, OutcomeUpdate DEF Outcome
  <2>3. Outcome' = Outcome
    BY <2>2 DEF Outcome
  <2> QED BY <2>1, <2>3 DEF Abstract!vars
<1> QED BY <1>1, <1>2

\* A commit applies all of a unit of work, and adds rows of its request only.
LEMMA CommitMaps ==
    ASSUME StoreInv, NEW r \in Request, Commit(r)
    PROVE  Abstract!Next
<1>1. /\ table' = View(r)
      /\ Live(r) /\ session'[r].state = "committed"
      /\ \A o \in Request \ {r} : session'[o] = session[o]
  BY DEF StoreInv, Sessions, IsSession, Commit, Live
<1>2. /\ Outcome' = [Outcome EXCEPT ![r] = Outcome'[r]]
      /\ Outcome[r] = "pending" /\ Outcome'[r] = "applied"
  BY <1>1, OutcomeUpdate DEF Outcome, Live
<1>3. /\ DOMAIN table \subseteq DOMAIN table'
      /\ \A row \in DOMAIN table' \ DOMAIN table : row.id = r
  BY <1>1, ViewFacts DEF StoreInv, OwnWork, Mine
<1>4. /\ Len(<<>>) <= Len(<<>>)
      /\ \A i \in 1 .. Len(<<>>) : <<>>[i] = <<>>[i]
      /\ \A i \in Len(<<>>) + 1 .. Len(<<>>) : <<>>[i].by = r
  OBVIOUS
<1> QED BY <1>2, <1>3, <1>4 DEF Abstract!Next, Abstract!Apply

\* Nothing of the store has changed.
LEMMA FrameMaps ==
    ASSUME UNCHANGED <<table, session>>
    PROVE  UNCHANGED Abstract!vars
BY DEF Abstract!vars, Outcome

-----------------------------------------------------------------------------
(* The steps a component on this store takes.                              *)

StoreStep ==
    \/ UNCHANGED <<table, session>>
    \/ \E r \in Request : Quiet(r) \/ Execute(r) \/ Commit(r)

\* They keep the invariant of the store, and refine the abstract specification.
LEMMA StoreStepKeeps ==
    ASSUME StoreInv, StoreStep
    PROVE  StoreInv' /\ [Abstract!Next]_Abstract!vars
<1>1. CASE UNCHANGED <<table, session>>
  BY <1>1, StoreFrame, FrameMaps
<1>2. ASSUME NEW r \in Request, Quiet(r) \/ Execute(r) \/ Commit(r)
      PROVE  StoreInv' /\ [Abstract!Next]_Abstract!vars
  <2>1. CASE Quiet(r)
    BY <2>1, QuietKeeps, QuietMaps
  <2>2. CASE Execute(r)
    BY <2>2, ExecuteKeeps, ExecuteMaps
  <2>3. CASE Commit(r)
    BY <2>3, CommitKeeps, CommitMaps
  <2> QED BY <1>2, <2>1, <2>2, <2>3
<1> QED BY <1>1, <1>2 DEF StoreStep

\* No session loses sight of a row.
LEMMA ViewsGrow ==
    ASSUME StoreInv, StoreStep, NEW o \in Request
    PROVE  DOMAIN View(o) \subseteq DOMAIN View(o)'
<1>1. DOMAIN View(o)' = DOMAIN table' \cup DOMAIN W(o)'
  <2>1. View(o)' = Overlay(table', W(o)')
    BY DEF View, W
  <2>2. DOMAIN Overlay(table', W(o)') = DOMAIN table' \cup DOMAIN W(o)'
    BY OverlayFacts
  <2> QED BY <2>1, <2>2
<1>2. CASE UNCHANGED <<table, session>>
  BY <1>1, <1>2, ViewFacts DEF W
<1>3. ASSUME NEW r \in Request, Quiet(r)
      PROVE  DOMAIN View(o) \subseteq DOMAIN View(o)'
  BY <1>1, <1>3, ViewFacts DEF W, Quiet, StoreInv, Sessions
<1>4. ASSUME NEW r \in Request, Execute(r), ~Duplicate(r)
      PROVE  DOMAIN View(o) \subseteq DOMAIN View(o)'
  <2>1. table' = table /\ DOMAIN W(o) \subseteq DOMAIN W(o)'
    <3>1. table' = table /\ \A q \in Request \ {r} : session'[q] = session[q]
      BY <1>4, ExecuteWrites
    <3>2. DOMAIN session'[r].writes = DOMAIN W(r) \cup {session[r].pending.row}
      BY <1>4, ExecuteWrites
    <3> QED BY <3>1, <3>2 DEF W
  <2>2. DOMAIN View(o) = DOMAIN table \cup DOMAIN W(o)
    BY ViewFacts
  <2> QED BY <1>1, <2>1, <2>2
<1>5. ASSUME NEW r \in Request, Execute(r), Duplicate(r)
      PROVE  Quiet(r)
  BY <1>5, RaiseQuiet DEF Execute, Waiting, Live
<1>6. ASSUME NEW r \in Request, Commit(r)
      PROVE  DOMAIN View(o) \subseteq DOMAIN View(o)'
  <2>1. table' = View(r) /\ W(o)' = W(o)
    BY <1>6 DEF Commit, W, StoreInv, Sessions, IsSession
  <2>2. DOMAIN View(r) = DOMAIN table \cup DOMAIN W(r)
    BY ViewFacts
  <2>3. DOMAIN View(o) = DOMAIN table \cup DOMAIN W(o)
    BY ViewFacts
  <2> QED BY <1>1, <2>1, <2>2, <2>3
<1> QED BY <1>2, <1>3, <1>4, <1>5, <1>6 DEF StoreStep

\* Replacing a field of a job other than its operation.
LEMMA Field ==
    ASSUME NEW j, IsJob(j), NEW f, NEW x, f # "op"
    PROVE  /\ IsJob([j EXCEPT ![f] = x])
           /\ [j EXCEPT ![f] = x].op = j.op
           /\ f # "row" => [j EXCEPT ![f] = x].row = j.row
BY DEF IsJob

=============================================================================
