--------------------------- MODULE SdkClientProofs ---------------------------
(***************************************************************************)
(* Proofs about SdkClient, for any number of requests, tokens and attempts *)
(***************************************************************************)
EXTENDS SdkClient, TLAPS

\* The initial state has the types.
LEMMA InitTypes == Init => TypeOK
BY ConstantsAssumption DEF Init, TypeOK, Sent

\* The loop never counts past the bound on the attempts.
LEMMA AttemptTypes ==
    ASSUME TypeOK, NEW r \in Requests, NEW n \in Nat \ {0}, Attempt(r, n)
    PROVE  /\ pc' \in [Requests -> {"idle", "flight", "sleep", "done", "failed"}]
           /\ attempt' \in [Requests -> 0..MaxAttempts]
           /\ \A q \in Requests : pc'[q] \in {"flight", "sleep", "done"} => attempt'[q] # 0
           /\ srv' \in [Sent -> Replies \cup {"none", "sent"}]
<1>1. CASE n > attempts
  BY <1>1 DEF Attempt, Goto, TypeOK
<1>2. CASE ~(n > attempts)
  <2>1. n \in 1..MaxAttempts
    BY <1>2, ConstantsAssumption DEF TypeOK
  <2>2. /\ pc' = [pc EXCEPT ![r] = "flight"]
        /\ attempt' = [attempt EXCEPT ![r] = n]
        /\ srv' = IF Aborted(r) THEN srv ELSE [srv EXCEPT ![<<r, n>>] = "sent"]
    BY <1>2 DEF Attempt, Goto
  <2>3. /\ pc' \in [Requests -> {"idle", "flight", "sleep", "done", "failed"}]
        /\ attempt' \in [Requests -> 0..MaxAttempts]
    BY <2>1, <2>2 DEF TypeOK
  <2>4. \A q \in Requests : pc'[q] \in {"flight", "sleep", "done"} => attempt'[q] # 0
    BY <2>1, <2>2 DEF TypeOK
  <2>5. srv' \in [Sent -> Replies \cup {"none", "sent"}]
    BY <2>2 DEF TypeOK
  <2>6. QED BY <2>3, <2>4, <2>5
<1>3. QED BY <1>1, <1>2

\* Every step keeps the types.
LEMMA NextTypes == TypeOK /\ [Next]_vars => TypeOK'
<1> SUFFICES ASSUME TypeOK, [Next]_vars PROVE TypeOK'
  OBVIOUS
<1> USE ConstantsAssumption
<1>1. CASE UNCHANGED vars
  BY <1>1 DEF vars, client, call, server, TypeOK
<1>2. ASSUME NEW r \in Requests, Request(r) PROVE TypeOK'
  <2>1. Attempt(r, 1)
    BY <1>2 DEF Request
  <2>2. QED BY <1>2, <2>1, AttemptTypes DEF Request, TypeOK, client
<1>3. ASSUME NEW r \in Requests, Unanswered(r) PROVE TypeOK'
  <2>1. pc' \in [Requests -> {"idle", "flight", "sleep", "done", "failed"}]
    BY <1>3 DEF Unanswered, Retry, Goto, TypeOK
  <2>2. \A q \in Requests : pc'[q] \in {"flight", "sleep", "done"} => attempt'[q] # 0
    BY <1>3 DEF Unanswered, Retry, Goto, TypeOK
  <2>3. lost' \in [Requests -> SUBSET (1..MaxAttempts)]
    <3>1. attempt[r] \in 1..MaxAttempts
      BY <1>3 DEF Unanswered, TypeOK
    <3>2. QED BY <1>3, <3>1 DEF Unanswered, TypeOK
  <2>4. QED BY <1>3, <2>1, <2>2, <2>3 DEF Unanswered, TypeOK, client, call, server
<1>4. ASSUME NEW r \in Requests, Answer(r) PROVE TypeOK'
  <2>1. \E label \in {"sleep", "done", "failed"} : pc' = [pc EXCEPT ![r] = label]
    BY <1>4 DEF Answer, Retry, Goto, Replies
  <2>2. /\ pc' \in [Requests -> {"idle", "flight", "sleep", "done", "failed"}]
        /\ \A q \in Requests : pc'[q] \in {"flight", "sleep", "done"} => attempt'[q] # 0
    BY <1>4, <2>1 DEF Answer, TypeOK
  <2>3. accessToken' \in Tokens \cup {NoToken}
    <3>1. Now(r) \in Sent
      BY <1>4 DEF Answer, TypeOK, Now, Sent
    <3>2. QED BY <1>4, <3>1 DEF Answer, TypeOK
  <2>4. refused' \subseteq Tokens
    BY <1>4 DEF Answer, TypeOK
  <2>5. QED BY <1>4, <2>2, <2>3, <2>4 DEF Answer, TypeOK, call, server
<1>5. ASSUME NEW r \in Requests, Wake(r) PROVE TypeOK'
  <2>1. attempt[r] + 1 \in Nat \ {0}
    BY DEF TypeOK
  <2>2. Attempt(r, attempt[r] + 1)
    BY <1>5 DEF Wake
  <2>3. QED BY <1>5, <2>1, <2>2, AttemptTypes DEF Wake, TypeOK, client, call
<1>6. ASSUME NEW r \in Requests, Timeout(r) PROVE TypeOK'
  BY <1>6 DEF Timeout, TypeOK, client, server
<1>7. CASE ClearAccessToken
  BY <1>7 DEF ClearAccessToken, TypeOK, call, server
<1>8. ASSUME NEW t \in Tokens, SetAccessToken(t) PROVE TypeOK'
  BY <1>8 DEF SetAccessToken, TypeOK, call, server
<1>9. ASSUME NEW n \in 1..MaxAttempts, UpdateConfig(n) PROVE TypeOK'
  BY <1>9 DEF UpdateConfig, TypeOK, call, server
<1>10. ASSUME NEW a \in Sent, NEW reply \in Replies, Serve(a, reply) PROVE TypeOK'
  BY <1>10 DEF Serve, TypeOK, client, call
<1>11. ASSUME NEW a \in Sent, NEW t \in Tokens, Grant(a, t) PROVE TypeOK'
  BY <1>11 DEF Grant, TypeOK, client, call, Replies
<1>12. QED
  BY <1>1, <1>2, <1>3, <1>4, <1>5, <1>6, <1>7, <1>8, <1>9, <1>10, <1>11 DEF Next

\* The state keeps its types in every behaviour.
THEOREM TypeCorrect == Spec => []TypeOK
BY InitTypes, NextTypes, PTL DEF Spec

-----------------------------------------------------------------------------
(* What the client repeats *)

\* Answers after which, once they are read, the loop makes no attempt.
Unrepeated == {"sent", "ok", "unauthorized", "denied"}

\* Attempts are made in order, and the loop goes past one only when its answer
\* was not read or was one that may be retried.
LoopInv ==
    \A r \in Requests :
        /\ pc[r] = "idle" => attempt[r] = 0
        /\ \A k \in 1..MaxAttempts :
            /\ srv[<<r, k>>] # "none" => k <= attempt[r]
            /\ srv[<<r, k>>] \in Unrepeated /\ k < attempt[r] => k \in lost[r]
            /\ srv[<<r, k>>] \in Unrepeated /\ k = attempt[r] /\ pc[r] = "sleep"
               => k \in lost[r]

\* LoopInv of one request.
LoopInvOf(r) ==
    /\ pc[r] = "idle" => attempt[r] = 0
    /\ \A k \in 1..MaxAttempts :
        /\ srv[<<r, k>>] # "none" => k <= attempt[r]
        /\ srv[<<r, k>>] \in Unrepeated /\ k < attempt[r] => k \in lost[r]
        /\ srv[<<r, k>>] \in Unrepeated /\ k = attempt[r] /\ pc[r] = "sleep"
           => k \in lost[r]

\* No call is being made at the start.
LEMMA InitLoopInv == Init => LoopInv
BY ConstantsAssumption DEF Init, LoopInv, Sent, Unrepeated

\* The next attempt starts when nothing of the one before is unread.
LEMMA AttemptLoop ==
    ASSUME TypeOK, LoopInv, NEW r \in Requests, pc[r] \in {"idle", "sleep"},
           Attempt(r, attempt[r] + 1), lost' = lost
    PROVE  LoopInv'
<1>1. \A q \in Requests : LoopInvOf(q)
  BY DEF LoopInv, LoopInvOf
<1>2. ASSUME NEW q \in Requests \ {r} PROVE LoopInvOf(q)'
  <2>1. /\ pc'[q] = pc[q] /\ attempt'[q] = attempt[q]
        /\ \A k \in 1..MaxAttempts : srv'[<<q, k>>] = srv[<<q, k>>]
    BY DEF Attempt, Goto, TypeOK, Sent
  <2>2. QED BY <1>1, <2>1 DEF LoopInvOf
<1>3. LoopInvOf(r)'
  <2>1. CASE attempt[r] + 1 > attempts
    BY <1>1, <2>1 DEF LoopInvOf, Attempt, Goto, TypeOK
  <2>2. CASE ~(attempt[r] + 1 > attempts)
    <3>1. /\ pc'[r] = "flight" /\ attempt'[r] = attempt[r] + 1
          /\ \A k \in 1..MaxAttempts :
                k # attempt[r] + 1 => srv'[<<r, k>>] = srv[<<r, k>>]
      BY <2>2 DEF Attempt, Goto, TypeOK, Sent
    <3>2. attempt[r] \in Nat
      BY DEF TypeOK
    <3>3. ASSUME NEW k \in 1..MaxAttempts
          PROVE  /\ srv'[<<r, k>>] # "none" => k <= attempt'[r]
                 /\ srv'[<<r, k>>] \in Unrepeated /\ k < attempt'[r] => k \in lost[r]
      <4>1. CASE k = attempt[r] + 1
        BY <3>1, <3>2, <4>1
      <4>2. CASE k # attempt[r] + 1
        <5>1. srv'[<<r, k>>] = srv[<<r, k>>]
          BY <3>1, <4>2
        <5>2. k < attempt'[r] => k < attempt[r] \/ k = attempt[r]
          BY <3>1, <3>2
        <5>3. pc[r] = "idle" => attempt[r] = 0
          BY <1>1 DEF LoopInvOf
        <5>4. QED BY <1>1, <3>1, <3>2, <5>1, <5>2, <5>3 DEF LoopInvOf
      <4>3. QED BY <4>1, <4>2
    <3>4. QED BY <3>1, <3>3 DEF LoopInvOf
  <2>3. QED BY <2>1, <2>2
<1>4. QED BY <1>2, <1>3 DEF LoopInv, LoopInvOf

\* Every step keeps what the retry loop knows of its calls.
LEMMA NextLoopInv == TypeOK /\ LoopInv /\ [Next]_vars => LoopInv'
<1> SUFFICES ASSUME TypeOK, LoopInv, [Next]_vars PROVE LoopInv'
  OBVIOUS
<1> USE ConstantsAssumption
<1>1. CASE UNCHANGED vars
  BY <1>1 DEF vars, client, call, server, LoopInv
<1>2. ASSUME NEW r \in Requests, Request(r) PROVE LoopInv'
  <2>1. attempt[r] + 1 = 1 /\ lost' = lost
    BY <1>2 DEF LoopInv, Request
  <2>2. QED BY <1>2, <2>1, AttemptLoop DEF Request
<1>3. ASSUME NEW r \in Requests, Unanswered(r) PROVE LoopInv'
  <2>1. /\ pc[r] = "flight" /\ pc' = [pc EXCEPT ![r] = IF attempt[r] < attempts THEN "sleep" ELSE "failed"]
        /\ lost' = [lost EXCEPT ![r] = @ \cup {attempt[r]}]
        /\ srv' = srv /\ attempt' = attempt
    BY <1>3 DEF Unanswered, Retry, Goto, server
  <2>2. QED BY <2>1 DEF LoopInv, TypeOK
<1>4. ASSUME NEW r \in Requests, Answer(r) PROVE LoopInv'
  <2>1. /\ pc' = [pc EXCEPT ![r] = pc'[r]] /\ pc'[r] \in {"sleep", "done", "failed"}
        /\ lost' = lost /\ srv' = srv /\ attempt' = attempt
    BY <1>4 DEF Answer, Retry, Goto, server, TypeOK
  <2>2. pc'[r] = "sleep" => srv[<<r, attempt[r]>>] \notin Unrepeated
    BY <1>4 DEF Answer, Goto, Usable, Now, Replies, TypeOK, Unrepeated
  <2>3. QED BY <2>1, <2>2 DEF LoopInv, TypeOK
<1>5. ASSUME NEW r \in Requests, Wake(r) PROVE LoopInv'
  BY <1>5, AttemptLoop DEF Wake
<1>6. CASE UNCHANGED <<pc, attempt, lost, srv>>
  BY <1>6 DEF LoopInv
<1>7. ASSUME NEW a \in Sent, srv[a] = "sent", UNCHANGED <<pc, attempt, lost>>,
             NEW reply \in Replies, srv' = [srv EXCEPT ![a] = reply]
      PROVE  LoopInv'
  BY <1>7 DEF LoopInv, TypeOK, Sent, Unrepeated
<1>8. QED
  BY <1>1, <1>2, <1>3, <1>4, <1>5, <1>6, <1>7
  DEF Next, Timeout, ClearAccessToken, SetAccessToken, UpdateConfig, Serve, Grant, Replies, server

\* No request is made again after a good or a final answer to it was read.
THEOREM RepeatsAreUnsure == Spec => []RepeatedOnlyIfUnsure
<1>1. LoopInv => RepeatedOnlyIfUnsure
  BY DEF LoopInv, RepeatedOnlyIfUnsure, Unrepeated
<1>2. QED BY <1>1, TypeCorrect, InitLoopInv, NextLoopInv, PTL DEF Spec

-----------------------------------------------------------------------------
(* What the time-out stops *)

\* No step sends for a call whose time is up.
LEMMA StepSendsNothingLate ==
    ASSUME TypeOK, [Next]_vars, NEW a \in Sent, fired[a[1]], srv[a] = "none"
    PROVE  srv'[a] = "none"
<1>1. ASSUME NEW r \in Requests, NEW n \in Nat, Attempt(r, n) PROVE srv'[a] = "none"
  <2>1. CASE a[1] = r
    BY <1>1, <2>1 DEF Attempt, Aborted
  <2>2. CASE a[1] # r
    <3>1. a # <<r, n>>
      BY <2>2
    <3>2. srv' = srv \/ srv' = [srv EXCEPT ![<<r, n>>] = "sent"]
      BY <1>1 DEF Attempt
    <3>3. QED BY <3>1, <3>2 DEF TypeOK
  <2>3. QED BY <2>1, <2>2
<1>2. CASE UNCHANGED srv
  BY <1>2
<1>3. ASSUME NEW r \in Requests, Request(r) \/ Wake(r) PROVE srv'[a] = "none"
  <2>1. \E n \in Nat : Attempt(r, n)
    BY <1>3 DEF Request, Wake, TypeOK
  <2>2. QED BY <1>1, <2>1
<1>4. ASSUME NEW b \in Sent, srv[b] = "sent", NEW reply \in Replies,
             srv' = [srv EXCEPT ![b] = reply]
      PROVE  srv'[a] = "none"
  BY <1>4 DEF TypeOK
<1>5. QED
  BY <1>2, <1>3, <1>4
  DEF Next, vars, server, Unanswered, Answer, Timeout, ClearAccessToken, SetAccessToken,
      UpdateConfig, Serve, Grant, Replies

\* After its time-out a request puts nothing on the network any more.
THEOREM TimeoutEndsSending == Spec => NothingSentAfterTimeout
<1>1. TypeOK /\ [Next]_vars =>
        \A a \in Sent : fired[a[1]] /\ srv[a] = "none" => srv'[a] = "none"
  BY StepSendsNothingLate
<1>2. QED BY <1>1, TypeCorrect, PTL DEF Spec, NothingSentAfterTimeout

-----------------------------------------------------------------------------
(* Which token is in use *)

\* A call that succeeded has read its answer, so no grant replaces its token.
DoneInv == \A r \in Requests : pc[r] = "done" => srv[Now(r)] = "ok"

\* A call that succeeded stays so, with the attempt and the token of its answer.
LEMMA DoneStays ==
    ASSUME TypeOK, DoneInv, [Next]_vars, NEW r \in Requests, pc[r] = "done"
    PROVE  /\ pc'[r] = "done" /\ attempt'[r] = attempt[r]
           /\ srv'[Now(r)] = "ok" /\ granted'[Now(r)] = granted[Now(r)]
<1> USE ConstantsAssumption
<1>1. srv[Now(r)] = "ok" /\ Now(r) \in Sent
  BY DEF DoneInv, TypeOK, Now, Sent
<1>2. CASE UNCHANGED <<pc, attempt, srv, granted>>
  BY <1>1, <1>2
<1>3. ASSUME NEW q \in Requests, q # r, NEW n \in Nat, Attempt(q, n), granted' = granted
      PROVE  /\ pc'[r] = "done" /\ attempt'[r] = attempt[r]
             /\ srv'[Now(r)] = "ok" /\ granted'[Now(r)] = granted[Now(r)]
  <2>1. Now(r) # <<q, n>>
    BY <1>3 DEF Now
  <2>2. srv' = srv \/ srv' = [srv EXCEPT ![<<q, n>>] = "sent"]
    BY <1>3 DEF Attempt
  <2>3. srv'[Now(r)] = "ok"
    BY <1>1, <2>1, <2>2 DEF TypeOK
  <2>4. pc'[r] = "done" /\ attempt'[r] = attempt[r]
    BY <1>3 DEF Attempt, Goto, TypeOK
  <2>5. QED BY <1>3, <2>3, <2>4
<1>4. ASSUME NEW q \in Requests, Request(q) \/ Wake(q)
      PROVE  /\ pc'[r] = "done" /\ attempt'[r] = attempt[r]
             /\ srv'[Now(r)] = "ok" /\ granted'[Now(r)] = granted[Now(r)]
  <2>1. q # r /\ granted' = granted
    BY <1>4 DEF Request, Wake
  <2>2. \E n \in Nat : Attempt(q, n)
    BY <1>4 DEF Request, Wake, TypeOK
  <2>3. QED BY <1>3, <2>1, <2>2
<1>5. ASSUME NEW q \in Requests, Unanswered(q) \/ Answer(q)
      PROVE  pc'[r] = "done" /\ UNCHANGED <<attempt, srv, granted>>
  BY <1>5 DEF Unanswered, Answer, Retry, Goto, TypeOK, server
<1>6. ASSUME NEW a \in Sent, NEW reply \in Replies, Serve(a, reply)
      PROVE  srv'[Now(r)] = "ok" /\ UNCHANGED <<pc, attempt, granted>>
  BY <1>1, <1>6 DEF Serve, TypeOK
<1>7. ASSUME NEW a \in Sent, NEW t \in Tokens, Grant(a, t)
      PROVE  /\ srv'[Now(r)] = "ok" /\ granted'[Now(r)] = granted[Now(r)]
             /\ UNCHANGED <<pc, attempt>>
  BY <1>1, <1>7 DEF Grant, TypeOK
<1>8. CASE UNCHANGED vars
  BY <1>2, <1>8 DEF vars, server
<1>9. ASSUME NEW q \in Requests, Timeout(q) PROVE UNCHANGED <<pc, attempt, srv, granted>>
  BY <1>9 DEF Timeout, server
<1>10. CASE ClearAccessToken \/ \E t \in Tokens : SetAccessToken(t)
  BY <1>2, <1>10 DEF ClearAccessToken, SetAccessToken, server
<1>11. CASE \E n \in 1..MaxAttempts : UpdateConfig(n)
  BY <1>2, <1>11 DEF UpdateConfig, server
<1>12. CASE \E q \in Requests :
               Request(q) \/ Unanswered(q) \/ Answer(q) \/ Wake(q) \/ Timeout(q)
  <2>1. ASSUME NEW q \in Requests, Unanswered(q) \/ Answer(q) \/ Timeout(q)
        PROVE  pc'[r] = "done" /\ UNCHANGED <<attempt, srv, granted>>
    BY <1>5, <1>9, <2>1
  <2>2. QED BY <1>1, <1>4, <1>12, <2>1
<1>13. QED
  BY <1>6, <1>7, <1>8, <1>10, <1>11, <1>12 DEF Next

\* The token that new calls carry is known and was not refused since it was set.
TokenInv == DoneInv /\ TokenInUse

\* No call has succeeded and no token is stored at the start.
LEMMA InitTokenInv == Init => TokenInv
BY DEF Init, TokenInv, DoneInv, TokenInUse

\* What an application knows it does not forget.
LEMMA KnownStays ==
    ASSUME TypeOK, DoneInv, [Next]_vars, NEW t, Known(t)
    PROVE  Known(t)'
<1>1. CASE t \in Kept
  BY <1>1 DEF Known
<1>2. CASE \E r \in Logins : pc[r] = "done" /\ granted[Now(r)] = t
  <2>1. PICK r \in Logins : pc[r] = "done" /\ granted[Now(r)] = t
    BY <1>2
  <2>2. r \in Requests
    BY ConstantsAssumption
  <2>3. pc'[r] = "done" /\ attempt'[r] = attempt[r] /\ granted'[Now(r)] = t
    BY <2>1, <2>2, DoneStays
  <2>4. granted'[Now(r)'] = t
    BY <2>3 DEF Now
  <2>5. QED BY <2>3, <2>4 DEF Known
<1>3. QED BY <1>1, <1>2 DEF Known

\* Every step keeps what is known of the stored token.
LEMMA NextTokenInv == TypeOK /\ TokenInv /\ [Next]_vars => TokenInv'
<1> SUFFICES ASSUME TypeOK, TokenInv, [Next]_vars PROVE TokenInv'
  OBVIOUS
<1> USE ConstantsAssumption
<1>1. DoneInv /\ TokenInUse
  BY DEF TokenInv
<1>2. ASSUME NEW r \in Requests, pc'[r] = "done", pc[r] # "done"
      PROVE  Answer(r) /\ srv[Now(r)] = "ok"
  <2>1. ASSUME NEW q \in Requests, NEW label, label # "done", Goto(q, label) PROVE FALSE
    BY <1>2, <2>1 DEF Goto, TypeOK
  <2>2. ASSUME NEW q \in Requests, Request(q) \/ Wake(q) \/ Unanswered(q) PROVE FALSE
    <3>1. Goto(q, "failed") \/ Goto(q, "flight") \/ Goto(q, "sleep")
      BY <2>2 DEF Request, Wake, Unanswered, Attempt, Retry
    <3>2. QED BY <2>1, <3>1
  <2>3. ASSUME NEW q \in Requests, Answer(q) PROVE q = r /\ srv[Now(q)] = "ok"
    <3>1. Usable(q) \/ Goto(q, "failed") \/ Goto(q, "sleep")
      BY <2>3 DEF Answer, Retry
    <3>2. Usable(q)
      BY <2>1, <3>1
    <3>3. \E label : pc' = [pc EXCEPT ![q] = label]
      BY <2>3 DEF Answer, Retry, Goto
    <3>4. q = r
      BY <1>2, <3>3 DEF TypeOK
    <3>5. QED BY <3>2, <3>4 DEF Usable
  <2>4. \E q \in Requests : Answer(q)
    BY <1>2, <2>2 DEF Next, vars, Timeout, ClearAccessToken, SetAccessToken, UpdateConfig,
       Serve, Grant
  <2>5. QED BY <2>3, <2>4
<1>3. DoneInv'
  <2>1. ASSUME NEW r \in Requests, pc'[r] = "done" PROVE srv'[Now(r)'] = "ok"
    <3>1. CASE pc[r] = "done"
      <4>1. attempt'[r] = attempt[r] /\ srv'[Now(r)] = "ok"
        BY <1>1, <3>1, DoneStays
      <4>2. QED BY <4>1 DEF Now
    <3>2. CASE pc[r] # "done"
      <4>1. Answer(r) /\ srv[Now(r)] = "ok"
        BY <1>2, <2>1, <3>2
      <4>2. UNCHANGED <<attempt, srv>>
        BY <4>1 DEF Answer, server
      <4>3. QED BY <4>1, <4>2 DEF Now
    <3>3. QED BY <3>1, <3>2
  <2>2. QED BY <2>1 DEF DoneInv
<1>4. CASE accessToken' = accessToken /\ (accessToken' = NoToken \/ refused' = refused)
  BY <1>1, <1>3, <1>4, KnownStays DEF TokenInv, TokenInUse
<1>5. ASSUME NEW t \in Tokens, SetAccessToken(t) PROVE TokenInv'
  <2>1. Known(t)' /\ accessToken' = t /\ t \notin refused'
    BY <1>1, <1>5, KnownStays DEF SetAccessToken
  <2>2. QED BY <1>3, <2>1 DEF TokenInv, TokenInUse
<1>6. CASE accessToken' = NoToken
  BY <1>3, <1>6 DEF TokenInv, TokenInUse
<1>7. ASSUME NEW r \in Requests, Answer(r), accessToken' # NoToken PROVE TokenInv'
  <2>1. srv[Now(r)] # "unauthorized"
    BY <1>7 DEF Answer, Clears
  <2>2. CASE accessToken' = accessToken
    <3>1. refused' = refused
      BY <1>7, <2>1, <2>2 DEF Answer
    <3>2. QED BY <1>4, <2>2, <3>1
  <2>3. CASE accessToken' # accessToken
    <3>1. accessToken' \notin refused'
      BY <1>7, <2>1, <2>3 DEF Answer
    <3>2. Usable(r) /\ r \in Logins /\ accessToken' = granted[Now(r)]
      BY <1>7, <2>3 DEF Answer
    <3>3. pc'[r] = "done"
      BY <1>7, <2>1, <3>2 DEF Answer, Usable, Goto, TypeOK
    <3>4. granted'[Now(r)'] = accessToken'
      BY <1>7, <3>2 DEF Answer, Now, server
    <3>5. Known(accessToken)'
      BY <3>2, <3>3, <3>4 DEF Known
    <3>6. QED BY <1>3, <3>1, <3>5 DEF TokenInv, TokenInUse
  <2>4. QED BY <2>2, <2>3
<1>8. QED
  BY <1>4, <1>5, <1>6, <1>7
  DEF Next, vars, client, Request, Unanswered, Wake, Timeout, ClearAccessToken,
      UpdateConfig, Serve, Grant

\* New calls never carry a token that was answered 401 since it was set, or the
\* token of a login that was not reported as successful.
THEOREM TokensAreInUse == Spec => []TokenInUse
<1>1. TokenInv => TokenInUse
  BY DEF TokenInv
<1>2. QED BY <1>1, TypeCorrect, InitTokenInv, NextTokenInv, PTL DEF Spec
=============================================================================
