------------------------------- MODULE Listing -------------------------------
(***************************************************************************)
(* GET /products and GET /suppliers, page after page: a client fetches the *)
(* first page and goes on while the answer says has_next.  Each page is a  *)
(* request of its own, which counts the rows in one statement and selects  *)
(* the page in a second; both see what is committed when they run.         *)
(***************************************************************************)
EXTENDS Items, Functions

CONSTANT Limit   \* the page size the client asks for

VARIABLE walk    \* the client's way through the pages

\* kind: the table listed; total: the count of the page under way; shown: the rows
\* on the pages so far.  History: first, the rows on file when the walk began; seen,
\* those the last count saw; disturbed, whether the walk met what paging by offset
\* does not survive.
NoWalk == [state |-> "off"]
NewWalk(t, rows) ==
    [state |-> "count", kind |-> t, page |-> 1, total |-> 0, shown |-> {},
     first |-> DOMAIN rows, seen |-> rows, disturbed |-> FALSE]

Listed(t) == [row \in {x \in DOMAIN table : x.table = t} |-> table[row]]

Renamed(before, after) == \E row \in DOMAIN before : after[row].name # before[row].name
Tied(rows) == \E a, b \in DOMAIN rows : a # b /\ rows[a].name = rows[b].name

StartWalk(t) ==
    /\ walk.state = "off"
    /\ walk' = NewWalk(t, Listed(t))
    /\ UNCHANGED storeVars

\* SELECT count(...); the rows are counted under the same condition as they are selected.
CountRows ==
    LET rows == Listed(walk.kind)
    IN  /\ walk.state = "count"
        /\ walk' = [walk EXCEPT !.state = "page", !.total = Cardinality(DOMAIN rows),
                        !.disturbed = @ \/ Renamed(walk.seen, rows), !.seen = rows]
        /\ UNCHANGED storeVars

\* ORDER BY name: rows of the same name come in any order, in each statement anew.
Sorted(rows) ==
    {s \in Bijection(1 .. Cardinality(DOMAIN rows), DOMAIN rows) :
        \A i, j \in DOMAIN s : i < j => rows[s[i]].name <= rows[s[j]].name}

\* Mutant: the page number is taken for the offset.
FromPage(s, page) == {s[i] : i \in {k \in DOMAIN s : page < k /\ k <= page + Limit}}

\* OFFSET and LIMIT.
OnPage(s, page) ==
    {s[i] : i \in {k \in DOMAIN s : /\ PageOffset(page, Limit) < k
                                    /\ k <= PageOffset(page, Limit) + Limit}}

\* The page is selected and answered: with an error if a row on it cannot be read.
SelectPage ==
    /\ walk.state = "page"
    /\ UNCHANGED storeVars
    /\ LET rows == Listed(walk.kind)
           more == PaginationMeta(walk.page, Limit, walk.total).has_next
       IN  \E s \in Sorted(rows) :
             IF \E row \in OnPage(s, walk.page) : Unreadable(row, rows[row])
             THEN walk' = [walk EXCEPT !.state = "failed"]
             ELSE walk' = [walk EXCEPT
                     !.state = IF more THEN "count" ELSE "done",
                     !.page = IF more THEN @ + 1 ELSE @,
                     !.shown = @ \cup OnPage(s, walk.page),
                     !.disturbed = @ \/ Tied(rows) \/ rows # walk.seen]

List == (\E t \in Kind : StartWalk(t)) \/ CountRows \/ SelectPage

=============================================================================
