------------------------------ MODULE Promises ------------------------------
(***************************************************************************)
(* What the HTTP client promises its callers, without refreshes, queues or *)
(* retries: a call is made and then settled, once and for good.            *)
(***************************************************************************)
CONSTANT Call

VARIABLE promise        \* what each caller sees of its call

Init == promise = [c \in Call |-> "unmade"]

Make(c) ==
    /\ promise[c] = "unmade"
    /\ promise' = [promise EXCEPT ![c] = "pending"]

\* Several calls are settled together when they fail for the same reason.
Settle(S, result) ==
    /\ \A c \in S : promise[c] = "pending"
    /\ promise' = [c \in Call |-> IF c \in S THEN result ELSE promise[c]]

Fulfill(c) == Settle({c}, "fulfilled")
Reject(S) == Settle(S, "rejected")

\* The page is reloaded: whoever was waiting is gone.
Forget == Settle({c \in Call : promise[c] = "pending"}, "forgotten")

Next ==
    \/ \E c \in Call : Make(c) \/ Fulfill(c)
    \/ \E S \in SUBSET Call : Reject(S)
    \/ Forget

Spec == Init /\ [][Next]_promise

=============================================================================
