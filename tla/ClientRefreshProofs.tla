------------------------ MODULE ClientRefreshProofs ------------------------
(***************************************************************************)
(* Invariants of ClientRefresh and its refinement of Promises, for every   *)
(* set of calls and every behaviour of the refresh endpoint.               *)
(***************************************************************************)
EXTENDS ClientRefresh, TLAPS

\* The flag is up exactly while a call awaits its refresh.
FlagIsHeld == isRefreshing <=> \E c \in Call : call[c] = "refreshing"

\* The inductive invariant: that at most one call refreshes needs the flag to be up while
\* one does, and that the queue is served needs it to be down otherwise.
IInv == TypeOK /\ OneRefresh /\ QueueIsServed /\ FlagIsHeld
-----------------------------------------------------------------------------
\* Moving calls of S to a legal place keeps the type of call.
LEMMA MoveType ==
    ASSUME NEW S, NEW where \in {"unmade"} \cup Waiting \cup Settled,
           call \in [Call -> {"unmade"} \cup Waiting \cup Settled],
           Move(S, where)
    PROVE  call' \in [Call -> {"unmade"} \cup Waiting \cup Settled]
  BY DEF Move

\* Initially nothing is under way.
LEMMA InitIInv == Init => IInv
  BY DEF Init, IInv, TypeOK, OneRefresh, QueueIsServed, FlagIsHeld, Token, Waiting, Settled

\* Types are kept by every step.
LEMMA NextType == TypeOK /\ [Next]_vars => TypeOK'
<1> SUFFICES ASSUME TypeOK, [Next]_vars PROVE TypeOK'
    OBVIOUS
<1> USE DEF TypeOK
<1>1. CASE SubmitLogin
    BY <1>1 DEF SubmitLogin, store, calls, refresh
<1>2. ASSUME NEW token \in Token, LoginAnswered(token) PROVE TypeOK'
    BY <1>2 DEF LoginAnswered, calls, refresh
<1>3. CASE Logout
    BY <1>3 DEF Logout, calls, refresh, Token
<1>4. CASE Reload
    BY <1>4, MoveType DEF Reload, Token, Settled
<1>5. ASSUME NEW c \in Call, Make(c) PROVE TypeOK'
    BY <1>5, MoveType DEF Make, Send, store, refresh, Waiting
<1>6. ASSUME NEW c \in Call, Answer(c) PROVE TypeOK'
  <2>1. CASE Succeed(c)
      BY <2>1, MoveType DEF Succeed, store, refresh, Settled
  <2>2. CASE Fail(c)
      BY <2>2, MoveType DEF Fail, store, refresh, Settled
  <2>3. CASE Enqueue(c)
      BY <1>6, <2>3, MoveType DEF Enqueue, store, Waiting
  <2>4. CASE StartRefresh(c)
      BY <1>6, <2>4, MoveType DEF StartRefresh, store, Waiting
  <2>5. CASE Refreshed(c)
      BY <2>5, MoveType DEF Refreshed, Send, Waiting, Token
  <2>6. CASE RefreshFailed(c)
      BY <2>6, MoveType DEF RefreshFailed, Settled, Token
  <2> QED BY <1>6, <2>1, <2>2, <2>3, <2>4, <2>5, <2>6 DEF Answer
<1>7. CASE UNCHANGED vars
    BY <1>7 DEF vars, store, calls, refresh
<1> QED BY <1>1, <1>2, <1>3, <1>4, <1>5, <1>6, <1>7 DEF Next

\* A step that keeps the flag, the queue and the places of the calls that are queued or
\* refreshing keeps the rest of the invariant.
LEMMA ElsewhereKeepsIInv ==
    ASSUME IInv, TypeOK', UNCHANGED refresh,
           \A c \in Call : \A where \in {"queued", "refreshing"} :
               call'[c] = where <=> call[c] = where
    PROVE  IInv'
  BY DEF IInv, OneRefresh, QueueIsServed, FlagIsHeld, refresh

\* Every step keeps the inductive invariant.
LEMMA NextIInv == IInv /\ [Next]_vars => IInv'
<1> SUFFICES ASSUME IInv, [Next]_vars PROVE IInv'
    OBVIOUS
<1>0. TypeOK /\ TypeOK'
    BY NextType DEF IInv
<1>1. CASE SubmitLogin
    BY <1>0, <1>1, ElsewhereKeepsIInv DEF SubmitLogin, calls
<1>2. ASSUME NEW token \in Token, LoginAnswered(token) PROVE IInv'
    BY <1>0, <1>2, ElsewhereKeepsIInv DEF LoginAnswered, calls
<1>3. CASE Logout
    BY <1>0, <1>3, ElsewhereKeepsIInv DEF Logout, calls
<1>4. CASE Reload
    BY <1>0, <1>4 DEF Reload, Move, IInv, TypeOK, OneRefresh, QueueIsServed, FlagIsHeld,
                      Waiting
<1>5. ASSUME NEW c \in Call, Make(c) PROVE IInv'
    BY <1>0, <1>5, ElsewhereKeepsIInv DEF Make, Send, Move, TypeOK
<1>6. ASSUME NEW c \in Call, Answer(c) PROVE IInv'
  <2>1. CASE Succeed(c)
      BY <1>0, <2>1, ElsewhereKeepsIInv DEF Succeed, Move, TypeOK
  <2>2. CASE Fail(c)
      BY <1>0, <2>2, ElsewhereKeepsIInv DEF Fail, Move, TypeOK
  <2>3. CASE Enqueue(c)
    <3>1. \A d \in Call : call'[d] = "refreshing" <=> call[d] = "refreshing"
        BY <1>0, <2>3 DEF Enqueue, Refusable, Move, TypeOK
    <3>2. failedQueue' = {d \in Call : call'[d] = "queued"}
        BY <1>0, <1>6, <2>3 DEF Enqueue, Move, TypeOK, IInv, QueueIsServed
    <3> QED
        BY <1>0, <2>3, <3>1, <3>2 DEF Enqueue, IInv, OneRefresh, QueueIsServed, FlagIsHeld
  <2>4. CASE StartRefresh(c)
    <3>1. \A d \in Call : call'[d] = "refreshing" <=> d = c
        BY <1>0, <1>6, <2>4 DEF StartRefresh, Move, TypeOK, IInv, FlagIsHeld
    <3>2. \A d \in Call : call'[d] = "queued" <=> call[d] = "queued"
        BY <1>0, <1>6, <2>4 DEF StartRefresh, Refusable, Move, TypeOK
    <3> QED
        BY <1>0, <1>6, <2>4, <3>1, <3>2
        DEF StartRefresh, IInv, OneRefresh, QueueIsServed, FlagIsHeld
  <2>5. CASE Refreshed(c)
    <3>1. \A d \in Call : call'[d] \notin {"queued", "refreshing"}
        BY <1>0, <1>6, <2>5
        DEF Refreshed, Send, Move, TypeOK, IInv, OneRefresh, QueueIsServed
    <3> QED
        BY <1>0, <2>5, <3>1 DEF Refreshed, IInv, OneRefresh, QueueIsServed, FlagIsHeld
  <2>6. CASE RefreshFailed(c)
    <3>1. \A d \in Call : call'[d] \notin {"queued", "refreshing"}
        BY <1>0, <1>6, <2>6
        DEF RefreshFailed, Move, TypeOK, IInv, OneRefresh, QueueIsServed
    <3> QED
        BY <1>0, <2>6, <3>1 DEF RefreshFailed, IInv, OneRefresh, QueueIsServed, FlagIsHeld
  <2> QED BY <1>6, <2>1, <2>2, <2>3, <2>4, <2>5, <2>6 DEF Answer
<1>7. CASE UNCHANGED vars
    BY <1>0, <1>7, ElsewhereKeepsIInv DEF vars, calls
<1> QED BY <1>1, <1>2, <1>3, <1>4, <1>5, <1>6, <1>7 DEF Next

\* The inductive invariant holds throughout.
THEOREM Invariance == Spec => []IInv
  BY InitIInv, NextIInv, PTL DEF Spec

\* Every call is unmade, waiting or settled, and the token, the queue and the flag are what
\* client.ts declares them to be (client.ts, 16-26), whatever is answered.
THEOREM TypeCorrect == Spec => []TypeOK
<1>1. IInv => TypeOK
    BY DEF IInv
<1> QED BY Invariance, <1>1, PTL

\* At most one refresh is under way (client.ts, 21-26), however many calls are refused.
THEOREM RefreshesAreSingle == Spec => []OneRefresh
<1>1. IInv => OneRefresh
    BY DEF IInv
<1> QED BY Invariance, <1>1, PTL

\* Nobody waits in the queue without a refresh under way (client.ts, 106-113).
THEOREM TheQueueIsServed == Spec => []QueueIsServed
<1>1. IInv => QueueIsServed
    BY DEF IInv
<1> QED BY Invariance, <1>1, PTL
-----------------------------------------------------------------------------
\* A step that settles calls of S as the abstract specification does.
LEMMA MoveSettles ==
    ASSUME NEW S, NEW result \in Settled, TypeOK, TypeOK', Move(S, result),
           \A c \in S : c \in Call /\ call[c] \in Waiting
    PROVE  Callers!Settle(S, result)
  BY DEF Callers!Settle, Outcome, Move, TypeOK, Waiting, Settled

\* A step that moves calls of S from one place of waiting to another is invisible.
LEMMA MoveHidden ==
    ASSUME NEW S, NEW where \in Waiting, TypeOK, TypeOK', Move(S, where),
           \A c \in S : c \in Call /\ call[c] \in Waiting
    PROVE  UNCHANGED Outcome
  BY DEF Outcome, Move, TypeOK, Waiting

\* Every step of the client makes a call, settles calls or is invisible.
LEMMA StepRefines ==
    IInv /\ IInv' /\ [Next]_vars => [Callers!Next]_Outcome
<1> SUFFICES ASSUME IInv, IInv', Next \/ UNCHANGED vars
             PROVE  Callers!Next \/ UNCHANGED Outcome
    OBVIOUS
<1>0. TypeOK /\ TypeOK'
    BY DEF IInv
<1>1. ASSUME UNCHANGED call PROVE UNCHANGED Outcome
    BY <1>1 DEF Outcome
<1>2. CASE SubmitLogin \/ Logout \/ \E token \in Token : LoginAnswered(token)
    BY <1>1, <1>2 DEF SubmitLogin, Logout, LoginAnswered, calls
<1>3. CASE Reload
  <2>1. Callers!Settle({c \in Call : call[c] \in Waiting}, "forgotten")
      BY <1>0, <1>3, MoveSettles DEF Reload, Settled
  <2>2. {c \in Call : call[c] \in Waiting} = {c \in Call : Outcome[c] = "pending"}
      BY <1>0 DEF Outcome, TypeOK, Waiting, Settled
  <2> QED BY <2>1, <2>2 DEF Callers!Next, Callers!Forget
<1>4. ASSUME NEW c \in Call, Make(c) PROVE Callers!Make(c)
    BY <1>0, <1>4 DEF Make, Send, Move, Callers!Make, Outcome, TypeOK, Waiting, Settled
<1>5. ASSUME NEW c \in Call, Answer(c) PROVE Callers!Next \/ UNCHANGED Outcome
  <2> DEFINE W == failedQueue \cup {c}
  <2>0. call[c] = "refreshing" => \A d \in W : d \in Call /\ call[d] \in Waiting
      BY <1>5 DEF IInv, QueueIsServed, Waiting
  <2>1. CASE Succeed(c)
    <3>1. Callers!Settle({c}, "fulfilled")
        BY <1>0, <1>5, <2>1, MoveSettles DEF Succeed, Settled, Waiting
    <3> QED BY <1>5, <3>1 DEF Callers!Next, Callers!Fulfill
  <2>2. CASE Fail(c)
    <3>1. Callers!Settle({c}, "rejected")
        BY <1>0, <1>5, <2>2, MoveSettles DEF Fail, Settled, Waiting
    <3> QED BY <1>5, <3>1 DEF Callers!Next, Callers!Reject
  <2>3. CASE Enqueue(c)
      BY <1>0, <1>5, <2>3, MoveHidden DEF Enqueue, Refusable, Waiting
  <2>4. CASE StartRefresh(c)
      BY <1>0, <1>5, <2>4, MoveHidden DEF StartRefresh, Refusable, Waiting
  <2>5. CASE Refreshed(c)
    <3>1. Move(W, "sent") /\ "sent" \in Waiting
        BY <2>5 DEF Refreshed, Send, Waiting
    <3> QED BY <1>0, <2>0, <2>5, <3>1, MoveHidden DEF Refreshed
  <2>6. CASE RefreshFailed(c)
    <3>1. Move(W, "rejected") /\ "rejected" \in Settled
        BY <2>6 DEF RefreshFailed, Settled
    <3>2. Callers!Settle(W, "rejected")
        BY <1>0, <2>0, <2>6, <3>1, MoveSettles DEF RefreshFailed
    <3>3. W \in SUBSET Call
        BY <1>0, <1>5 DEF TypeOK
    <3> QED BY <3>2, <3>3 DEF Callers!Next, Callers!Reject
  <2> QED BY <1>5, <2>1, <2>2, <2>3, <2>4, <2>5, <2>6 DEF Answer
<1>6. CASE UNCHANGED vars
    BY <1>1, <1>6 DEF vars, calls
<1> QED BY <1>2, <1>3, <1>4, <1>5, <1>6 DEF Next, Callers!Next

\* To its callers the client is one that makes and settles calls (client.ts, 16-19).
THEOREM Refinement == Spec => ImplementsPromises
<1>1. Init => Callers!Init
    BY DEF Init, Callers!Init, Outcome, Waiting
<1> QED BY <1>1, Invariance, StepRefines, PTL DEF Spec, ImplementsPromises, Callers!Spec
-----------------------------------------------------------------------------
\* What is left after a step, compared with what was left before.
LessLeft ==
    \/ Less(Unmade', Unmade)
    \/ /\ Unmade' = Unmade
       /\ \/ Less(Unmarked', Unmarked)
          \/ /\ Unmarked' = Unmarked
             /\ \/ Less(Refreshing', Refreshing)
                \/ Refreshing' = Refreshing /\ Less(Sent', Sent)

\* It is enough that none of the first three grows, and that one of the four shrinks.
LEMMA LessLeftIf ==
    ASSUME Unmade' = Unmade, Unmarked' \subseteq Unmarked, Refreshing' \subseteq Refreshing,
           \/ Refreshing' # Refreshing
           \/ Sent' \subseteq Sent /\ Sent' # Sent
    PROVE  LessLeft
  BY DEF LessLeft, Less

\* Moving calls that wait, without touching the marks.
LEMMA MoveLeaves ==
    ASSUME NEW S, NEW where \in Waiting \cup Settled, TypeOK, Move(S, where),
           \A c \in S : c \in Call /\ call[c] \in Waiting,
           retry' = retry
    PROVE  /\ Unmade' = Unmade /\ Unmarked' \subseteq Unmarked
           /\ where # "refreshing" => Refreshing' = Refreshing \ S
           /\ where # "sent" => Sent' = Sent \ S
<1>1. \A c \in Call : call'[c] = IF c \in S THEN where ELSE call[c]
    BY DEF Move
<1>2. Unmade' = Unmade
    BY <1>1 DEF Unmade, Waiting, Settled
<1>3. Unmarked' \subseteq Unmarked
    BY <1>1 DEF Unmarked
<1>4. where # "refreshing" => Refreshing' = Refreshing \ S
    BY <1>1 DEF Refreshing
<1>5. where # "sent" => Sent' = Sent \ S
    BY <1>1 DEF Sent
<1> QED BY <1>2, <1>3, <1>4, <1>5

\* Every step that moves a call leaves less: the queue is part of the calls that the
\* invariant knows to wait, and somebody refreshes for it.
LEMMA StepLeavesLess == IInv /\ [Next]_vars /\ call' # call => LessLeft
<1> SUFFICES ASSUME IInv, [Next]_vars, call' # call PROVE LessLeft
    OBVIOUS
<1>0. TypeOK /\ QueueIsServed
    BY DEF IInv
<1>1. CASE SubmitLogin \/ Logout \/ \E token \in Token : LoginAnswered(token)
    BY <1>1 DEF SubmitLogin, Logout, LoginAnswered, calls
<1>2. CASE Reload
  <2>1. \A c \in Call : call'[c] = IF call[c] \in Waiting THEN "forgotten" ELSE call[c]
      BY <1>2 DEF Reload, Move
  <2>2. Unmade' = Unmade /\ Unmarked' = {} /\ Refreshing' = {} /\ Sent' = {}
      BY <2>1 DEF Unmade, Unmarked, Refreshing, Sent, Waiting
  <2>3. \E c \in Call : call[c] \in Waiting
    <3>1. call = [c \in Call |-> call[c]] /\ call' = [c \in Call |-> call'[c]]
        BY <1>0, <1>2 DEF TypeOK, Reload, Move
    <3>2. PICK c \in Call : call'[c] # call[c]
        BY <3>1
    <3> QED BY <2>1, <3>2
  <2>4. Refreshing # {} \/ Sent # {}
      BY <1>0, <2>3 DEF QueueIsServed, Refreshing, Sent, Waiting
  <2> QED BY <2>2, <2>4, LessLeftIf
<1>3. ASSUME NEW c \in Call, Make(c) PROVE LessLeft
  <2>1. /\ call[c] = "unmade"
        /\ \A d \in Call : call'[d] = IF d = c THEN "sent" ELSE call[d]
      BY <1>3 DEF Make, Send, Move
  <2>2. c \in Unmade /\ Unmade' = Unmade \ {c}
      BY <2>1 DEF Unmade
  <2> QED BY <2>2 DEF LessLeft, Less
<1>4. ASSUME NEW c \in Call, Succeed(c) \/ Fail(c) PROVE LessLeft
  <2>1. PICK where \in {"fulfilled", "rejected"} : Move({c}, where)
      BY <1>4 DEF Succeed, Fail
  <2>2. /\ Unmade' = Unmade /\ Unmarked' \subseteq Unmarked
        /\ Refreshing' = Refreshing \ {c} /\ Sent' = Sent \ {c}
      BY <1>0, <1>4, <2>1, MoveLeaves DEF Succeed, Fail, Waiting, Settled
  <2>3. c \in Sent /\ c \notin Refreshing
      BY <1>4 DEF Succeed, Fail, Sent, Refreshing
  <2> QED BY <2>2, <2>3, LessLeftIf
<1>5. ASSUME NEW c \in Call, Enqueue(c) PROVE LessLeft
  <2>1. /\ Unmade' = Unmade /\ Unmarked' \subseteq Unmarked
        /\ Refreshing' = Refreshing \ {c} /\ Sent' = Sent \ {c}
      BY <1>0, <1>5, MoveLeaves DEF Enqueue, Refusable, Waiting
  <2>2. c \in Sent /\ c \notin Refreshing
      BY <1>5 DEF Enqueue, Refusable, Sent, Refreshing
  <2> QED BY <2>1, <2>2, LessLeftIf
<1>6. ASSUME NEW c \in Call, StartRefresh(c) PROVE LessLeft
  <2>1. /\ call[c] = "sent" /\ c \notin retry /\ retry' = retry \cup {c}
        /\ \A d \in Call : call'[d] = IF d = c THEN "refreshing" ELSE call[d]
      BY <1>6 DEF StartRefresh, Refusable, Move
  <2>2. Unmade' = Unmade
      BY <2>1 DEF Unmade
  <2>3. c \in Unmarked /\ Unmarked' = Unmarked \ {c}
      BY <2>1 DEF Unmarked, Waiting
  <2> QED BY <2>2, <2>3 DEF LessLeft, Less
<1>7. ASSUME NEW c \in Call, Refreshed(c) \/ RefreshFailed(c) PROVE LessLeft
  <2> DEFINE W == failedQueue \cup {c}
  <2>1. PICK where \in {"sent", "rejected"} : Move(W, where)
      BY <1>7 DEF Refreshed, RefreshFailed, Send
  <2>2. call[c] = "refreshing" /\ retry' = retry
      BY <1>7 DEF Refreshed, RefreshFailed
  <2>3. \A d \in W : d \in Call /\ call[d] \in Waiting
      BY <1>0, <2>2 DEF QueueIsServed, Waiting
  <2>4. /\ Unmade' = Unmade /\ Unmarked' \subseteq Unmarked
        /\ Refreshing' = Refreshing \ W
      BY <1>0, <2>1, <2>2, <2>3, MoveLeaves DEF Waiting, Settled
  <2>5. c \in Refreshing \cap W
      BY <2>2 DEF Refreshing
  <2> QED BY <2>4, <2>5, LessLeftIf
<1>8. CASE UNCHANGED vars
    BY <1>8 DEF vars, calls
<1> QED BY <1>1, <1>2, <1>3, <1>4, <1>5, <1>6, <1>7, <1>8 DEF Next, Answer

\* No order of answers lets calls go round in circles (client.ts, 94-128: _retry allows a
\* call one refresh), however many calls wait for each other's refreshes.
THEOREM CallsRunOut == Spec => AnswersRunOut
<1>1. IInv /\ [Next]_vars => [call' # call => LessLeft]_vars
    BY StepLeavesLess
<1> QED BY <1>1, Invariance, PTL DEF Spec, AnswersRunOut, LessLeft
=============================================================================
