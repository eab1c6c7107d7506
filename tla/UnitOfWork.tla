----------------------------- MODULE UnitOfWork -----------------------------
(***************************************************************************)
(* What the back end promises of a request, without saying how it works:   *)
(* it takes effect in one step or not at all.  The step adds rows and      *)
(* ledger entries of that request only, and removes none.                  *)
(***************************************************************************)
EXTENDS Integers, Sequences

CONSTANT Request

VARIABLES
    table,      \* the stored rows, by identity; a row names its request in "id"
    ledger,     \* the sequence of postings; each names its request in "by"
    outcome     \* what has become of each request

vars == <<table, ledger, outcome>>

Init ==
    /\ \A i \in DOMAIN ledger : ledger[i].by \notin Request
    /\ \A row \in DOMAIN table : row.id \notin Request
    /\ outcome = [r \in Request |-> "none"]

Begin(r) ==
    /\ outcome[r] = "none"
    /\ outcome' = [outcome EXCEPT ![r] = "pending"]
    /\ UNCHANGED <<table, ledger>>

\* The request fails, or its effect is given up.
Abandon(r) ==
    /\ outcome[r] = "pending"
    /\ outcome' = [outcome EXCEPT ![r] = "abandoned"]
    /\ UNCHANGED <<table, ledger>>

\* All of the request's effect at once.
Apply(r) ==
    /\ outcome[r] = "pending"
    /\ outcome' = [outcome EXCEPT ![r] = "applied"]
    /\ DOMAIN table \subseteq DOMAIN table'
    /\ \A row \in DOMAIN table' \ DOMAIN table : row.id = r
    /\ Len(ledger) <= Len(ledger')
    /\ \A i \in 1 .. Len(ledger) : ledger'[i] = ledger[i]
    /\ \A i \in Len(ledger) + 1 .. Len(ledger') : ledger'[i].by = r

Next == \E r \in Request : Begin(r) \/ Abandon(r) \/ Apply(r)

Spec == Init /\ [][Next]_vars

=============================================================================
