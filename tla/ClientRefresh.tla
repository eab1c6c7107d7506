--------------------------- MODULE ClientRefresh ---------------------------
(***************************************************************************)
(* The axios client of the front end (api/client.ts): its request and      *)
(* response interceptors, the refresh of the access token, the queue of    *)
(* the calls that wait for it, and the store, pages and guards around it.  *)
(* JavaScript runs one callback at a time and the microtasks it leaves     *)
(* before the next, so a step is one answer from the network, or one deed  *)
(* of the user, with all that follows from it.                             *)
(***************************************************************************)
CONSTANTS
    Call,               \* the calls that pages make, each made once
    RefreshAnswers      \* what POST /auth/refresh may come to

\* A refresh brings a token, or it fails: refused, invalid, or timed out.
ASSUME RefreshAssumption == RefreshAnswers \subseteq {"token", "error"}

VARIABLES
    accessToken,    \* in the store; a reload loses it
    signedIn,       \* the store has a user; sessionStorage keeps it over a reload
    login,          \* a POST /auth/login is under way
    call,           \* where each call is
    bearer,         \* the token each call was last sent with
    retry,          \* the calls marked _retry
    isRefreshing,
    failedQueue     \* the calls in the queue; their order cannot be observed

store == <<accessToken, signedIn>>
calls == <<call, bearer, retry>>
refresh == <<isRefreshing, failedQueue>>
vars == <<store, login, calls, refresh>>

\* No token, the demo token of the login page, a token that the back end issued.
Token == {"none", "demo", "issued"}

\* "refreshing" is a call whose interceptor awaits the answer to its refresh.
Waiting == {"sent", "queued", "refreshing"}
Settled == {"fulfilled", "rejected", "forgotten"}

TypeOK ==
    /\ accessToken \in Token
    /\ signedIn \in BOOLEAN
    /\ login \in BOOLEAN
    /\ call \in [Call -> {"unmade"} \cup Waiting \cup Settled]
    /\ bearer \in [Call -> Token]
    /\ retry \subseteq Call
    /\ isRefreshing \in BOOLEAN
    /\ failedQueue \subseteq Call

Init ==
    /\ accessToken = "none"
    /\ signedIn = FALSE
    /\ login = FALSE
    /\ call = [c \in Call |-> "unmade"]
    /\ bearer = [c \in Call |-> "none"]
    /\ retry = {}
    /\ isRefreshing = FALSE
    /\ failedQueue = {}

\* The calls of S move to where; the others stay.
Move(S, where) == call' = [c \in Call |-> IF c \in S THEN where ELSE call[c]]

\* The calls of S are sent; the request interceptor gives them the token of the store.
Send(S, token) ==
    /\ Move(S, "sent")
    /\ bearer' = [c \in Call |-> IF c \in S THEN token ELSE bearer[c]]

-----------------------------------------------------------------------------
(* The pages. *)

SubmitLogin ==
    /\ ~signedIn                 \* PublicOnlyRoute shows the form
    /\ ~login                    \* and the button is disabled while loading
    /\ login' = TRUE
    /\ UNCHANGED <<store, calls, refresh>>

\* Mutant: a login starts from a clean flag.
LoginAnsweredResetting(token) ==
    /\ login
    /\ token \in {"issued", "demo"}
    /\ login' = FALSE
    /\ accessToken' = token
    /\ signedIn' = TRUE
    /\ isRefreshing' = FALSE
    /\ UNCHANGED <<calls, failedQueue>>

\* setAuth() with the answer's token, or with the demo token if the call fails.
LoginAnswered(token) ==
    /\ login
    /\ token \in {"issued", "demo"}
    /\ login' = FALSE
    /\ accessToken' = token
    /\ signedIn' = TRUE
    /\ UNCHANGED <<calls, refresh>>

\* The back end is not told, and nothing under way is cancelled.
Logout ==
    /\ signedIn                  \* ProtectedRoute shows the layout
    /\ accessToken' = "none"
    /\ signedIn' = FALSE
    /\ UNCHANGED <<login, calls, refresh>>

\* A page behind ProtectedRoute calls the API.
Make(c) ==
    /\ signedIn
    /\ call[c] = "unmade"
    /\ Send({c}, accessToken)
    /\ UNCHANGED <<store, login, retry, refresh>>

\* By the user at any time, or for window.location.href: memory is cleared, and only the
\* user in sessionStorage is left.
Reload ==
    /\ accessToken' = "none"
    /\ login' = FALSE
    /\ Move({c \in Call : call[c] \in Waiting}, "forgotten")
    /\ isRefreshing' = FALSE
    /\ failedQueue' = {}
    /\ retry' = {}
    /\ UNCHANGED <<signedIn, bearer>>

-----------------------------------------------------------------------------
(* The answers to calls. *)

\* A 2xx answer; the back end serves no call without a token of its own.
Succeed(c) ==
    /\ call[c] = "sent"
    /\ bearer[c] = "issued"
    /\ Move({c}, "fulfilled")
    /\ UNCHANGED <<store, login, bearer, retry, refresh>>

\* Another status, a lost connection, the 30 s timeout, or a 401 to a marked call.
Fail(c) ==
    /\ call[c] = "sent"
    /\ Move({c}, "rejected")
    /\ UNCHANGED <<store, login, bearer, retry, refresh>>

\* A 401 to a call that is not marked. Any token may be refused: they expire.
Refusable(c) == call[c] = "sent" /\ c \notin retry

\* ... while another call refreshes: wait for it.
Enqueue(c) ==
    /\ Refusable(c)
    /\ isRefreshing
    /\ Move({c}, "queued")
    /\ failedQueue' = failedQueue \cup {c}
    /\ UNCHANGED <<store, login, bearer, retry, isRefreshing>>

\* Mutant: _retry is not set.
StartRefreshUnmarked(c) ==
    /\ Refusable(c)
    /\ ~isRefreshing
    /\ Move({c}, "refreshing")
    /\ isRefreshing' = TRUE
    /\ UNCHANGED <<store, login, bearer, retry, failedQueue>>

\* ... otherwise: mark the call and post the refresh.
StartRefresh(c) ==
    /\ Refusable(c)
    /\ ~isRefreshing
    /\ Move({c}, "refreshing")
    /\ retry' = retry \cup {c}
    /\ isRefreshing' = TRUE
    /\ UNCHANGED <<store, login, bearer, failedQueue>>

-----------------------------------------------------------------------------
(* The answers to refreshes. *)

\* Mutant: the token is looked for outside the envelope's data, and is undefined.
RefreshedUnwrapped(c) ==
    /\ call[c] = "refreshing"
    /\ "token" \in RefreshAnswers
    /\ accessToken' = "undefined"
    /\ Send({c}, "none")
    /\ failedQueue' = {}
    /\ isRefreshing' = FALSE
    /\ UNCHANGED <<signedIn, login, retry>>

\* Mutant: the call is sent again and the queue forgotten.
RefreshedAlone(c) ==
    /\ call[c] = "refreshing"
    /\ "token" \in RefreshAnswers
    /\ accessToken' = "issued"
    /\ Send({c}, "issued")
    /\ isRefreshing' = FALSE
    /\ UNCHANGED <<signedIn, login, retry, failedQueue>>

\* The new token is stored, whoever is signed in by now; processQueue(null, token) and the
\* end of the interceptor send every waiting call again, which the request interceptor
\* gives the token of the store.
Refreshed(c) ==
    /\ call[c] = "refreshing"
    /\ "token" \in RefreshAnswers
    /\ accessToken' = "issued"
    /\ Send(failedQueue \cup {c}, "issued")
    /\ failedQueue' = {}
    /\ isRefreshing' = FALSE
    /\ UNCHANGED <<signedIn, login, retry>>

\* Mutant: processQueue() leaves the queue as it was.
RefreshFailedQueueKept(c) ==
    /\ call[c] = "refreshing"
    /\ "error" \in RefreshAnswers
    /\ Move(failedQueue \cup {c}, "rejected")
    /\ isRefreshing' = FALSE
    /\ accessToken' = "none"
    /\ signedIn' = FALSE
    /\ UNCHANGED <<login, bearer, retry, failedQueue>>

\* processQueue(error) rejects every waiting call; the user is logged out. The page will be
\* reloaded (Reload); until then its callbacks still run.
RefreshFailed(c) ==
    /\ call[c] = "refreshing"
    /\ "error" \in RefreshAnswers
    /\ Move(failedQueue \cup {c}, "rejected")
    /\ failedQueue' = {}
    /\ isRefreshing' = FALSE
    /\ accessToken' = "none"
    /\ signedIn' = FALSE
    /\ UNCHANGED <<login, bearer, retry>>

\* An answer to the request of c, which is the refresh while c awaits one.
Answer(c) ==
    \/ Succeed(c) \/ Fail(c) \/ Enqueue(c) \/ StartRefresh(c)
    \/ Refreshed(c) \/ RefreshFailed(c)

Next ==
    \/ SubmitLogin
    \/ \E token \in Token : LoginAnswered(token)
    \/ Logout
    \/ Reload
    \/ \E c \in Call : Make(c) \/ Answer(c)

Spec == Init /\ [][Next]_vars

\* Every request is answered: axios gives up on it after 30 seconds.
FairSpec == Spec /\ \A c \in Call : WF_vars(Answer(c))
-----------------------------------------------------------------------------
(* Properties. *)

\* "5 concurrent refresh requests" are what the queue is for (client.ts, 21-26): of all
\* calls refused at about the same time, at most one is refreshing the token.
OneRefresh ==
    \A c, d \in Call : call[c] = "refreshing" /\ call[d] = "refreshing" => c = d

\* Whoever is queued is in the queue, and a refresh is under way that will empty it: no
\* order of answers, logouts and reloads leaves a call waiting for nobody.
QueueIsServed ==
    /\ failedQueue = {c \in Call : call[c] = "queued"}
    /\ failedQueue # {} => \E c \in Call : call[c] = "refreshing"

\* The interceptor is invisible to the pages: a call is settled once and keeps its result,
\* whatever refreshes and retries came between; answers never settle others' calls but for
\* a refresh that failed, which rejects all that wait for it.
Outcome == [c \in Call |-> IF call[c] \in Waiting THEN "pending" ELSE call[c]]
Callers == INSTANCE Promises WITH promise <- Outcome
ImplementsPromises == Callers!Spec

\* Every call is settled: queued calls are not marked and may wait for one refresh after
\* another, but each refresh marks its call, so that this ends.
EveryCallSettles == \A c \in Call : call[c] \in Waiting ~> call[c] \in Settled

\* What is left to happen: the calls to be made, those that may still cause a refresh,
\* the refreshes to be answered, and the calls to be answered.
Unmade == {c \in Call : call[c] = "unmade"}
Unmarked == {c \in Call : call[c] \in Waiting /\ c \notin retry}
Refreshing == {c \in Call : call[c] = "refreshing"}
Sent == {c \in Call : call[c] = "sent"}

Less(new, old) == new \subseteq old /\ new # old

\* No order of answers lets calls go round in circles: whatever moves a call leaves less of
\* what is left, in this order.  A refresh sends every call that waited for it again, but it
\* has marked one that was not; a reload takes the marks away, and the calls with them.
AnswersRunOut ==
    [][call' # call =>
         \/ Less(Unmade', Unmade)
         \/ /\ Unmade' = Unmade
            /\ \/ Less(Unmarked', Unmarked)
               \/ /\ Unmarked' = Unmarked
                  /\ \/ Less(Refreshing', Refreshing)
                     \/ Refreshing' = Refreshing /\ Less(Sent', Sent)
      ]_vars

\* "The user never sees an error or needs to re-login" (client.ts, 19): a user who has a
\* token of the back end when a refresh ends stays signed in.
RefreshKeepsUser ==
    [][isRefreshing /\ ~isRefreshing' /\ signedIn /\ accessToken = "issued" => signedIn']_vars

=============================================================================
