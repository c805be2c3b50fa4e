------------------------------ MODULE SdkClient ------------------------------
(***************************************************************************)
(* HttpClient of the SDK: requests that share one access token, each with  *)
(* its own loop of attempts and one time-out signal for all of them.       *)
(*                                                                         *)
(* An attempt that reached the network may be served long after the client *)
(* gave it up, and what the server answers may never arrive or not be      *)
(* readable.  What a login is granted is external: the SDK sends its API   *)
(* key and reads data.token, and the login route of src/src, which asks    *)
(* for an e-mail address and a password, never answers it so.              *)
(***************************************************************************)
EXTENDS Naturals

CONSTANTS Requests,     \* calls of request() and authenticate()
          Logins,       \* those of authenticate()
          Tokens,       \* access tokens; two grants may give the same string
          Kept,         \* those an application has kept from before
          MaxAttempts,  \* bound on config.retry.attempts
          NoToken

ASSUME ConstantsAssumption ==
    /\ MaxAttempts \in Nat \ {0}
    /\ NoToken \notin Tokens
    /\ Logins \subseteq Requests
    /\ Kept \subseteq Tokens

VARIABLES
    accessToken,
    attempts,  \* config.retry.attempts
    pc,        \* a request is idle, in flight, asleep, done or failed
    auth,      \* the token in its Authorization header
    attempt,   \* its current attempt
    fired,     \* its AbortSignal.timeout has fired
    lost,      \* history: its attempts whose answer was not read
    srv,       \* what became of an attempt on the server
    granted,   \* the token its answer carries
    refused    \* history: tokens answered 401 since they were last set

client == <<accessToken, attempts>>
call == <<auth, fired>>
server == <<srv, granted>>
vars == <<client, pc, call, attempt, lost, server, refused>>

Sent == Requests \X (1..MaxAttempts)
Now(r) == <<r, attempt[r]>>
\* What the server may make of an attempt: it performs the request and says
\* so, answers 401, another status that is not retried, or one that is (429,
\* 5xx, or a body without success), whether it performed the request or not.
Replies == {"ok", "unauthorized", "denied", "busy"}

Init ==
    /\ accessToken = NoToken
    /\ attempts \in 0..MaxAttempts
    /\ pc = [r \in Requests |-> "idle"]
    /\ auth = [r \in Requests |-> NoToken]
    /\ attempt = [r \in Requests |-> 0]
    /\ fired = [r \in Requests |-> FALSE]
    /\ lost = [r \in Requests |-> {}]
    /\ srv = [a \in Sent |-> "none"]
    /\ granted = [a \in Sent |-> NoToken]
    /\ refused = {}

Goto(r, label) == pc' = [pc EXCEPT ![r] = label]

-----------------------------------------------------------------------------
(* The client *)

Aborted_PerAttempt(r) == fired[r] /\ pc[r] = "flight"
\* fetch rejects at once, and a pending one is cut off.
Aborted(r) == fired[r]

\* The head of the loop: attempt n, or the end.  An aborted signal keeps
\* fetch from sending anything.
Attempt(r, n) ==
    IF n > attempts
    THEN Goto(r, "failed") /\ UNCHANGED <<attempt, srv>>
    ELSE /\ Goto(r, "flight")
         /\ attempt' = [attempt EXCEPT ![r] = n]
         /\ srv' = IF Aborted(r) THEN srv ELSE [srv EXCEPT ![<<r, n>>] = "sent"]

Request_FromZero(r) ==
    /\ pc[r] = "idle"
    /\ auth' = [auth EXCEPT ![r] = IF r \in Logins THEN NoToken ELSE accessToken]
    /\ Attempt(r, 0)
    /\ UNCHANGED <<client, fired, lost, granted, refused>>
\* The header is made once, from the token of this moment.
Request(r) ==
    /\ pc[r] = "idle"
    /\ auth' = [auth EXCEPT ![r] = IF r \in Logins THEN NoToken ELSE accessToken]
    /\ Attempt(r, 1)
    /\ UNCHANGED <<client, fired, lost, granted, refused>>

\* The catch clause, for an error that may be retried.
Retry(r) == Goto(r, IF attempt[r] < attempts THEN "sleep" ELSE "failed")

\* fetch or response.json rejects: no answer was read.
Unanswered(r) ==
    /\ pc[r] = "flight"
    /\ Retry(r)
    /\ lost' = [lost EXCEPT ![r] = @ \cup {attempt[r]}]
    /\ UNCHANGED <<client, call, attempt, server, refused>>

Abort(r) == Aborted(r) /\ Unanswered(r)

Usable_WithToken(r) == srv[Now(r)] = "ok" /\ granted[Now(r)] # NoToken
\* A readable answer with a status of 2xx whose body says success.
Usable(r) == srv[Now(r)] = "ok"
Clears_OnForbidden(reply) == reply = "denied"
\* handleResponse clears the token, whichever it is now, on 401 only.
Clears(reply) == reply = "unauthorized"

Answer(r) ==
    LET reply == srv[Now(r)] IN
    /\ pc[r] = "flight" /\ ~Aborted(r) /\ reply \in Replies
    /\ \/ /\ Usable(r)
          /\ Goto(r, IF r \in Logins /\ granted[Now(r)] = NoToken THEN "failed" ELSE "done")
       \/ reply \in {"unauthorized", "denied"} /\ Goto(r, "failed")
       \/ ~Usable(r) /\ reply \notin {"unauthorized", "denied"} /\ Retry(r)
    /\ accessToken' = IF Clears(reply) THEN NoToken
                      ELSE IF Usable(r) /\ r \in Logins /\ granted[Now(r)] # NoToken
                      THEN granted[Now(r)] ELSE accessToken
    /\ refused' = CASE reply = "unauthorized" -> refused \cup ({auth[r]} \ {NoToken})
                   [] accessToken' # accessToken -> refused \ {accessToken'}
                   [] OTHER -> refused
    /\ UNCHANGED <<attempts, call, attempt, lost, server>>

Wake_SameAttempt(r) ==
    /\ pc[r] = "sleep"
    /\ Attempt(r, attempt[r])
    /\ UNCHANGED <<client, call, lost, granted, refused>>
\* sleep() is over.
Wake(r) ==
    /\ pc[r] = "sleep"
    /\ Attempt(r, attempt[r] + 1)
    /\ UNCHANGED <<client, call, lost, granted, refused>>

Timeout(r) ==
    /\ pc[r] \in {"flight", "sleep"} /\ ~fired[r]
    /\ fired' = [fired EXCEPT ![r] = TRUE]
    /\ UNCHANGED <<client, pc, auth, attempt, lost, server, refused>>

\* An application knows what it kept and what a successful login returned.
Known(t) == t \in Kept \/ \E r \in Logins : pc[r] = "done" /\ granted[Now(r)] = t

\* clearAccessToken and destroy.
ClearAccessToken ==
    /\ accessToken' = NoToken
    /\ UNCHANGED <<attempts, pc, call, attempt, lost, server, refused>>

\* An application restores a token it knows, be it one that was refused.
SetAccessToken(t) ==
    /\ Known(t)
    /\ accessToken' = t
    /\ refused' = refused \ {t}
    /\ UNCHANGED <<attempts, pc, call, attempt, lost, server>>

UpdateConfig(n) ==
    /\ n # attempts
    /\ attempts' = n
    /\ UNCHANGED <<accessToken, pc, call, attempt, lost, server, refused>>

-----------------------------------------------------------------------------
(* The network and the server *)

\* 401 is not only the answer to a token that is not accepted: findUserById
\* swallows a failing query, and the user of a good token is then not found.
\* So whatever a request carried, any answer may come.
Serve(a, reply) ==
    /\ srv[a] = "sent"
    /\ srv' = [srv EXCEPT ![a] = reply]
    /\ UNCHANGED <<client, pc, call, attempt, lost, granted, refused>>

\* A login is answered with a token.
Grant(a, t) ==
    /\ srv[a] = "sent" /\ a[1] \in Logins
    /\ srv' = [srv EXCEPT ![a] = "ok"]
    /\ granted' = [granted EXCEPT ![a] = t]
    /\ UNCHANGED <<client, pc, call, attempt, lost, refused>>

Next ==
    \/ \E r \in Requests :
          Request(r) \/ Unanswered(r) \/ Answer(r) \/ Wake(r) \/ Timeout(r)
    \/ ClearAccessToken
    \/ \E t \in Tokens : SetAccessToken(t)
    \/ \E n \in 1..MaxAttempts : UpdateConfig(n)
    \/ \E a \in Sent, reply \in Replies : Serve(a, reply)
    \/ \E a \in Sent, t \in Tokens : Grant(a, t)

Spec == Init /\ [][Next]_vars
\* Timers fire, and the event loop delivers what has been decided.
FairSpec ==
    Spec /\ \A r \in Requests : WF_vars(Abort(r)) /\ WF_vars(Wake(r)) /\ WF_vars(Timeout(r))

-----------------------------------------------------------------------------
(* Properties *)

TypeOK ==
    /\ accessToken \in Tokens \cup {NoToken}
    /\ attempts \in 0..MaxAttempts
    /\ pc \in [Requests -> {"idle", "flight", "sleep", "done", "failed"}]
    /\ auth \in [Requests -> Tokens \cup {NoToken}]
    /\ attempt \in [Requests -> 0..MaxAttempts]
    /\ \A r \in Requests : pc[r] \in {"flight", "sleep", "done"} => attempt[r] # 0
    /\ fired \in [Requests -> BOOLEAN]
    /\ lost \in [Requests -> SUBSET (1..MaxAttempts)]
    /\ srv \in [Sent -> Replies \cup {"none", "sent"}]
    /\ granted \in [Sent -> Tokens \cup {NoToken}]
    /\ refused \subseteq Tokens

\* An attempt that the server performed and answered well, or refused for
\* good, is followed by another one only if the client could not read that
\* answer.
RepeatedOnlyIfUnsure ==
    \A r \in Requests, k \in 1..MaxAttempts :
        srv[<<r, k>>] \in {"ok", "unauthorized", "denied"} /\ k < attempt[r]
        => k \in lost[r]

\* The time-out bounds the request and not each attempt: once it has fired
\* nothing of that request goes out any more, whatever attempts remain.
NothingSentAfterTimeout ==
    [][\A a \in Sent : fired[a[1]] /\ srv[a] = "none" => srv'[a] = "none"]_vars

\* The token that new requests carry has not been answered 401 since it was
\* set, and the application knows it: no login that was given up, or reported
\* as failed, leaves its token behind, however late its answer comes.
TokenInUse == accessToken # NoToken => accessToken \notin refused /\ Known(accessToken)

\* Without any help of the network, every request comes to an end.
Settles == \A r \in Requests : pc[r] # "idle" ~> pc[r] \in {"done", "failed"}
=============================================================================
