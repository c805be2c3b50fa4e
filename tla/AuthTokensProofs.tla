-------------------------- MODULE AuthTokensProofs --------------------------
(***************************************************************************)
(* Proofs about AuthTokens, for every set of users, any number of calls    *)
(* and every token lifetime.                                               *)
(***************************************************************************)
EXTENDS AuthTokens, TLAPS

\* The initial state has the types.
LEMMA InitTypeOK == Init => TypeOK
  BY ConstantsAssumption DEF Init, TypeOK, Seconds, Tokens

\* Every step keeps the types.
LEMMA NextTypeOK == TypeOK /\ [Next]_vars => TypeOK'
<1> SUFFICES ASSUME TypeOK, [Next]_vars PROVE TypeOK'
  OBVIOUS
<1>1. CASE UNCHANGED vars
  BY <1>1 DEF TypeOK, vars, calls
<1>2. ASSUME NEW c \in Calls, NEW u \in Users, LoginRead(c, u) PROVE TypeOK'
  BY <1>2 DEF LoginRead, TypeOK
<1>3. ASSUME NEW c \in Calls, NEW t \in Tokens, RefreshVerify(c, t) PROVE TypeOK'
  <2>1. Owner(t) \in Users
    BY DEF Owner, Tokens
  <2>2. QED BY <1>3, <2>1 DEF RefreshVerify, TypeOK
<1>4. ASSUME NEW c \in Calls, RefreshRead(c) \/ CallFails(c) PROVE TypeOK'
  BY <1>4 DEF RefreshRead, CallFails, TypeOK
<1>5. ASSUME NEW c \in Calls, Issue(c) PROVE TypeOK'
  BY <1>5 DEF Issue, TypeOK
<1>6. ASSUME NEW t \in Tokens, Logout(t) PROVE TypeOK'
  BY <1>6 DEF Logout, TypeOK, calls
<1>7. ASSUME NEW u \in Users, LogoutAll(u) PROVE TypeOK'
  BY <1>7 DEF LogoutAll, Revoked, TypeOK, calls
<1>8. ASSUME NEW u \in Users, Deactivate(u) \/ Activate(u) PROVE TypeOK'
  BY <1>8 DEF Deactivate, Activate, TypeOK, calls
<1>9. CASE Tick
  BY <1>9, ConstantsAssumption DEF Tick, TypeOK, calls, Seconds
<1>10. CASE Restart
  BY <1>10 DEF Restart, TypeOK
<1>11. QED
  BY <1>1, <1>2, <1>3, <1>4, <1>5, <1>6, <1>7, <1>8, <1>9, <1>10 DEF Next

\* The state keeps its types in every behaviour.
THEOREM TypeCorrect == Spec => []TypeOK
<1>1. QED BY InitTypeOK, NextTypeOK, PTL DEF Spec

-----------------------------------------------------------------------------
(* A user who is logged out everywhere stays logged out *)

\* No user is logged out with a live token at the start.
LEMMA InitQuiet == Init => QuietInv
  BY DEF Init, QuietInv, Live, Busy

\* A token becomes usable only when a call of its user issues it.
LEMMA LiveStep ==
    ASSUME TypeOK, [Next]_vars, NEW u \in Users
    PROVE  \/ Live(u)' \subseteq Live(u)
           \/ \E c \in Calls : Issue(c) /\ user[c] = u
<1>1. ASSUME NEW c \in Calls, Issue(c), user[c] # u
      PROVE  Live(u)' \subseteq Live(u)
  BY <1>1 DEF Issue, Live, TypeOK, Tokens
<1>2. CASE UNCHANGED store
  BY <1>2 DEF Live
<1>3. ASSUME NEW t \in Tokens, Logout(t) PROVE Live(u)' \subseteq Live(u)
  BY <1>3 DEF Logout, Live, TypeOK
<1>4. ASSUME NEW v \in Users, LogoutAll(v) PROVE Live(u)' \subseteq Live(u)
  BY <1>4 DEF LogoutAll, Live
<1>5. CASE Restart
  BY <1>5 DEF Restart, Live
<1>6. QED
  BY <1>1, <1>2, <1>3, <1>4, <1>5
  DEF Next, vars, LoginRead, RefreshVerify, RefreshRead, CallFails, Deactivate, Activate, Tick

\* A call gets under way for a user only by a login or by one of the user's
\* usable tokens.
LEMMA BusyStep ==
    ASSUME TypeOK, [Next]_vars, NEW u \in Users,
           ~Busy(u, {"find", "issue"}), Live(u) = {},
           \A c \in Calls : ~LoginRead(c, u)
    PROVE  ~Busy(u, {"find", "issue"})'
<1>1. ASSUME NEW c \in Calls, user'[c] = u, pc'[c] \in {"find", "issue"} PROVE FALSE
  <2>1. pc[c] \in {"find", "issue"} => user[c] # u
    BY DEF Busy
  <2>2. CASE UNCHANGED calls
    BY <1>1, <2>1, <2>2 DEF calls
  <2>3. ASSUME NEW d \in Calls, NEW v \in Users, LoginRead(d, v) PROVE FALSE
    BY <1>1, <2>1, <2>3 DEF LoginRead, TypeOK
  <2>4. ASSUME NEW d \in Calls, NEW t \in Tokens, RefreshVerify(d, t) PROVE FALSE
    <3>1. t \in Live(t[1]) /\ Owner(t) = t[1]
      BY <2>4 DEF RefreshVerify, Accepted, Live, Owner
    <3>2. QED BY <1>1, <2>1, <2>4, <3>1 DEF RefreshVerify, TypeOK
  <2>5. ASSUME NEW d \in Calls, RefreshRead(d) \/ CallFails(d) \/ Issue(d) PROVE FALSE
    BY <1>1, <2>1, <2>5 DEF RefreshRead, CallFails, Issue, TypeOK
  <2>6. CASE Restart
    BY <1>1, <2>6 DEF Restart
  <2>7. QED
    BY <2>2, <2>3, <2>4, <2>5, <2>6
    DEF Next, vars, Logout, LogoutAll, Deactivate, Activate, Tick
<1>2. QED BY <1>1 DEF Busy

\* Every step keeps a user who logged out everywhere without live tokens.
LEMMA NextQuiet == TypeOK /\ QuietInv /\ [Next]_vars => QuietInv'
<1> SUFFICES ASSUME TypeOK, QuietInv, [Next]_vars, NEW u \in Users, u \in quiet'
             PROVE  Live(u)' = {} /\ ~Busy(u, {"find", "issue"})'
  BY NextTypeOK DEF QuietInv, TypeOK
<1>1. \A c \in Calls : ~LoginRead(c, u)
  BY DEF LoginRead
<1>2. CASE u \in quiet
  <2>1. Live(u) = {} /\ ~Busy(u, {"find", "issue"})
    BY <1>2 DEF QuietInv
  <2>2. ~ \E c \in Calls : Issue(c) /\ user[c] = u
    BY <2>1 DEF Issue, Busy
  <2>3. QED BY <1>1, <2>1, <2>2, LiveStep, BusyStep
<1>3. CASE u \notin quiet
  <2>1. LogoutAll(u) /\ ~Busy(u, {"find", "issue"})
    BY <1>3 DEF Next, vars, calls, LoginRead, RefreshVerify, RefreshRead, CallFails, Issue,
                Logout, LogoutAll, Deactivate, Activate, Tick, Restart
  <2>2. Live(u)' = {}
    BY <2>1 DEF LogoutAll, Live, Revoked, TypeOK, Tokens
  <2>3. ~Busy(u, {"find", "issue"})'
    BY <2>1 DEF LogoutAll, calls, Busy
  <2>4. QED BY <2>2, <2>3
<1>4. QED BY <1>2, <1>3

\* No chain of refreshes outlives a logout that met no call under way.
THEOREM LoggedOutStaysOut == Spec => []QuietMeansDead
<1>1. QuietInv => QuietMeansDead
  BY DEF QuietInv, QuietMeansDead
<1>2. QED BY <1>1, TypeCorrect, InitQuiet, NextQuiet, PTL DEF Spec

-----------------------------------------------------------------------------
(* A deactivated user gets no further token *)

\* No deactivated user holds a call at the start.
LEMMA InitFrozen == Init => FrozenInv
  BY DEF Init, FrozenInv

\* Every step keeps a deactivated user without new tokens.
LEMMA NextFrozen == TypeOK /\ FrozenInv /\ [Next]_vars => FrozenInv'
<1> SUFFICES ASSUME TypeOK, FrozenInv, [Next]_vars, NEW u \in frozen'
             PROVE  u \notin active' /\ ~Busy(u, {"issue"})'
  BY DEF FrozenInv
<1>1. CASE UNCHANGED calls
  <2>1. CASE u \in frozen
    BY <1>1, <2>1
    DEF FrozenInv, Busy, calls, Next, vars, LoginRead, RefreshVerify, RefreshRead, CallFails,
        Issue, Logout, LogoutAll, Deactivate, Activate, Tick, Restart
  <2>2. CASE u \notin frozen
    BY <1>1, <2>2
    DEF Busy, calls, Next, vars, LoginRead, RefreshVerify, RefreshRead, CallFails, Issue,
        Logout, LogoutAll, Deactivate, Activate, Tick, Restart
  <2>3. QED BY <2>1, <2>2
<1>2. ASSUME UNCHANGED <<active, frozen>>,
             \A c \in Calls : pc'[c] = "issue" /\ user'[c] = u => u \in active \/ Busy(u, {"issue"})
      PROVE  u \notin active' /\ ~Busy(u, {"issue"})'
  BY <1>2 DEF FrozenInv, Busy
<1>3. ASSUME NEW c \in Calls,
             \/ \E v \in Users : LoginRead(c, v)
             \/ \E t \in Tokens : RefreshVerify(c, t)
             \/ RefreshRead(c) \/ CallFails(c) \/ Issue(c)
      PROVE  /\ UNCHANGED <<active, frozen>>
             /\ \A d \in Calls : pc'[d] = "issue" /\ user'[d] = u
                                    => u \in active \/ Busy(u, {"issue"})
  BY <1>3 DEF LoginRead, RefreshVerify, RefreshRead, MayRefresh, CallFails, Issue, Busy, TypeOK
<1>4. CASE Restart
  BY <1>2, <1>4 DEF Restart
<1>5. QED
  BY <1>1, <1>2, <1>3, <1>4
  DEF Next, vars, Logout, LogoutAll, Deactivate, Activate, Tick

\* Between a deactivation that met no call past its read and the next
\* activation, the user's usable tokens only become fewer.
THEOREM DisabledStarve == Spec => DisabledGetsNothing
<1>1. ASSUME TypeOK, FrozenInv, [Next]_vars
      PROVE  \A u \in frozen : Live(u)' \subseteq Live(u)
  <2> SUFFICES ASSUME NEW u \in frozen PROVE Live(u)' \subseteq Live(u)
    OBVIOUS
  <2>1. u \in Users
    BY <1>1 DEF TypeOK
  <2>2. ~ \E c \in Calls : Issue(c) /\ user[c] = u
    BY <1>1 DEF FrozenInv, Issue, Busy
  <2>3. QED BY <1>1, <2>1, <2>2, LiveStep
<1>2. QED
  BY <1>1, TypeCorrect, InitFrozen, NextFrozen, PTL DEF Spec, DisabledGetsNothing

-----------------------------------------------------------------------------
(* A token that is gone stays gone *)

PastOnly == \A t \in Tokens : store[t] # "absent" => t[2] <= now

\* A step makes tokens valid, or known, only in the present second.
LEMMA IssuedNow ==
    ASSUME TypeOK, [Next]_vars, NEW t \in Tokens
    PROVE  /\ store[t] # "valid" /\ store'[t] = "valid" => t[2] = now
           /\ store[t] = "absent" /\ store'[t] # "absent" => t[2] = now
<1>1. CASE UNCHANGED store
  BY <1>1
<1>2. ASSUME NEW c \in Calls, Issue(c) PROVE \A s \in Tokens : store'[s] = store[s] \/ s[2] = now
  BY <1>2 DEF Issue, TypeOK, Tokens
<1>3. ASSUME NEW s \in Tokens, Logout(s)
      PROVE  store'[t] = store[t] \/ (store[t] # "absent" /\ store'[t] = "revoked")
  BY <1>3 DEF Logout, TypeOK
<1>4. ASSUME NEW u \in Users, LogoutAll(u)
      PROVE  store'[t] = store[t] \/ (store[t] # "absent" /\ store'[t] = "revoked")
  BY <1>4 DEF LogoutAll, Revoked
<1>5. CASE Restart
  BY <1>5 DEF Restart
<1>6. QED
  BY <1>1, <1>2, <1>3, <1>4, <1>5
  DEF Next, vars, LoginRead, RefreshVerify, RefreshRead, CallFails, Deactivate, Activate, Tick

\* The clock does not go back.
LEMMA NextPastOnly == TypeOK /\ PastOnly /\ [Next]_vars => PastOnly'
<1> SUFFICES ASSUME TypeOK, PastOnly, [Next]_vars, NEW t \in Tokens, store'[t] # "absent"
             PROVE  t[2] <= now'
  BY DEF PastOnly
<1>1. now \in Nat /\ now <= now'
  <2>1. now' = now \/ now' = now + 1
    BY DEF Next, vars, LoginRead, RefreshVerify, RefreshRead, CallFails, Issue, Logout, LogoutAll,
           Deactivate, Activate, Tick, Restart
  <2>2. QED BY <2>1, ConstantsAssumption DEF TypeOK, Seconds
<1>2. t[2] \in Nat /\ t[2] <= now
  BY IssuedNow, ConstantsAssumption DEF PastOnly, TypeOK, Tokens, Seconds
<1>3. now' \in Nat
  BY NextTypeOK, ConstantsAssumption DEF TypeOK, Seconds
<1>4. QED BY <1>1, <1>2, <1>3

\* JWTService: a logout is undone only by an issue in the token's own second.
THEOREM GoneStaysGone == Spec => GoneAfterItsSecond
<1>1. Init => PastOnly
  BY DEF Init, PastOnly
<1>2. ASSUME TypeOK, PastOnly, [Next]_vars
      PROVE  \A t \in Tokens : /\ t[2] < now /\ store[t] # "valid" => store'[t] # "valid"
                               /\ store[t] # "absent" => t[2] <= now
  <2> SUFFICES ASSUME NEW t \in Tokens, t[2] < now, store[t] # "valid" PROVE store'[t] # "valid"
    BY <1>2 DEF PastOnly
  <2>1. t[2] # now
    BY <1>2, ConstantsAssumption DEF TypeOK, Tokens, Seconds
  <2>2. QED BY <1>2, <2>1, IssuedNow
<1>3. QED
  BY <1>1, <1>2, TypeCorrect, NextPastOnly, PTL DEF Spec, GoneAfterItsSecond

-----------------------------------------------------------------------------
(* AuthTokens implements TokenService *)

\* At the start nobody is logged in and there is no token.
LEMMA InitService == Init => Service!Init
<1> SUFFICES ASSUME Init PROVE Service!Init
  OBVIOUS
<1>1. \A t \in Tokens : Standing(t) = "grantable"
  BY ConstantsAssumption DEF Init, Standing, Accepted, Tokens, Seconds
<1>2. QED BY <1>1 DEF Init, Service!Init, Service!Tokens, Tokens

\* A step that issues nothing makes no token usable and brings none back.
LEMMA Wanes ==
    ASSUME TypeOK, now' \in Nat, now <= now',
           \A t \in Tokens : store'[t] = "valid" => store[t] = "valid"
    PROVE  Service!Wane
<1>1. \A t \in Tokens : Accepted(t)' => Accepted(t)
  BY ConstantsAssumption DEF Accepted, TypeOK, Tokens, Seconds
<1>2. \A t \in Tokens : t[2] < now => t[2] < now'
  BY ConstantsAssumption DEF TypeOK, Tokens, Seconds
<1>3. \A t \in Tokens : /\ Standing(t)' = "usable" => Standing(t) = "usable"
                        /\ Standing(t) = "over" => Standing(t)' = "over"
  BY <1>1, <1>2 DEF Standing
<1>4. \A t \in Tokens : Standing(t)' \in {"grantable", "usable", "over"}
  BY DEF Standing
<1>5. QED BY <1>3, <1>4 DEF Service!Wane, Service!Tokens, Tokens

\* Tokens whose entry and whose clock stay as they were stand as they did.
LEMMA StandingKept ==
    ASSUME UNCHANGED <<now, store>> PROVE \A t \in Tokens : Standing(t)' = Standing(t)
BY DEF Standing, Accepted

\* A login that finds the user logs them in.
LEMMA LoginStep ==
    ASSUME TypeOK, FrozenInv, NEW c \in Calls, NEW u \in Users, LoginRead(c, u)
    PROVE  Service!Login(u) \/ UNCHANGED Service!vars
<1>1. UNCHANGED <<now, store, frozen>> /\ quiet' = quiet \ {u} /\ u \notin frozen
  BY DEF LoginRead, FrozenInv
<1>2. \A t \in Tokens : Standing(t)' = Standing(t)
  BY <1>1, StandingKept
<1>3. CASE u \in quiet
  BY <1>1, <1>2, <1>3 DEF Service!Login, TypeOK
<1>4. CASE u \notin quiet
  BY <1>1, <1>2, <1>4 DEF Service!vars, TypeOK
<1>5. QED BY <1>3, <1>4

\* An issue grants the token of its user and the present second.
LEMMA IssueStep ==
    ASSUME TypeOK, QuietInv, FrozenInv, NEW c \in Calls, Issue(c)
    PROVE  Service!Grant(<<user[c], now>>)
<1> PICK t : t = <<user[c], now>>
  OBVIOUS
<1>1. t \in Tokens /\ t[1] = user[c] /\ t[2] = now /\ now \in Nat
  BY ConstantsAssumption DEF TypeOK, Tokens, Seconds
<1>2. UNCHANGED <<now, quiet, frozen>> /\ store' = [store EXCEPT ![t] = "valid"] /\ pc[c] = "issue"
  BY DEF Issue
<1>3. user[c] \in (Users \ quiet) \ frozen
  BY <1>1, <1>2 DEF QuietInv, FrozenInv, Busy, TypeOK
<1>4. Standing(t) # "over"
  BY <1>1 DEF Standing
<1>5. \A s \in Tokens : Standing(s)' = IF s = t THEN "usable" ELSE Standing(s)
  <2>1. ASSUME NEW s \in Tokens, s # t PROVE Standing(s)' = Standing(s)
    BY <1>2, <2>1 DEF Standing, Accepted, TypeOK
  <2>2. Accepted(t)'
    BY <1>1, <1>2, ConstantsAssumption DEF Accepted, TypeOK
  <2>3. Standing(t)' = "usable"
    BY <2>2 DEF Standing
  <2>4. QED BY <2>1, <2>3
<1>6. QED BY <1>1, <1>2, <1>3, <1>4, <1>5 DEF Service!Grant, Service!Tokens, Tokens

\* A logout everywhere logs the user out or, when a call of theirs is further,
\* withdraws their tokens.
LEMMA LogoutAllStep ==
    ASSUME TypeOK, NEW u \in Users, LogoutAll(u)
    PROVE  Service!Logout(u) \/ Service!Withdraw
<1>1. /\ now' = now /\ now \in Nat /\ frozen' = frozen
      /\ quiet' = quiet \/ quiet' = quiet \cup {u}
  BY ConstantsAssumption DEF LogoutAll, TypeOK, Seconds
<1>2. \A t \in Tokens : /\ store'[t] = "valid" => store[t] = "valid"
                        /\ t[1] = u => store'[t] # "valid"
  BY DEF LogoutAll, Revoked, TypeOK
<1>3. Service!Wane
  BY <1>1, <1>2, Wanes
<1>4. \A t \in Tokens : t[1] = u => Standing(t)' # "usable"
  BY <1>2 DEF Standing, Accepted
<1>5. CASE quiet' = quiet
  BY <1>1, <1>3, <1>5 DEF Service!Withdraw
<1>6. CASE quiet' = quiet \cup {u}
  BY <1>1, <1>3, <1>4, <1>6 DEF Service!Logout, Service!Tokens, Tokens
<1>7. QED BY <1>1, <1>5, <1>6

\* The clock, a restart and the logout of one token withdraw tokens.
LEMMA WithdrawStep ==
    ASSUME TypeOK, Tick \/ Restart \/ \E t \in Tokens : Logout(t)
    PROVE  Service!Withdraw
<1>1. UNCHANGED <<quiet, frozen>> /\ now \in Nat /\ (now' = now \/ now' = now + 1)
  BY ConstantsAssumption DEF Tick, Restart, Logout, TypeOK, Seconds
<1>2. \A t \in Tokens : store'[t] = "valid" => store[t] = "valid"
  BY DEF Tick, Restart, Logout, TypeOK
<1>3. Service!Wane
  BY <1>1, <1>2, Wanes
<1>4. QED BY <1>1, <1>3 DEF Service!Withdraw

\* Deactivation and activation bar the user and lift it, or leave it as it is.
LEMMA BarStep ==
    ASSUME NEW u \in Users, Deactivate(u) \/ Activate(u)
    PROVE  Service!Bar(u) \/ Service!Unbar(u) \/ UNCHANGED Service!vars
<1>1. UNCHANGED <<now, store, quiet>>
  BY DEF Deactivate, Activate
<1>2. \A t \in Tokens : Standing(t)' = Standing(t)
  BY <1>1, StandingKept
<1>3. frozen' = frozen \/ frozen' = frozen \cup {u} \/ frozen' = frozen \ {u}
  BY DEF Deactivate, Activate
<1>4. QED BY <1>1, <1>2, <1>3 DEF Service!Bar, Service!Unbar, Service!vars

\* All other steps are within a call that the service does not show.
LEMMA HiddenStep ==
    ASSUME UNCHANGED <<now, store, quiet, frozen>> PROVE UNCHANGED Service!vars
BY StandingKept DEF Service!vars

\* JWTService and AuthService implement the abstract service: whatever calls are
\* under way, tokens come from logins of active users alone, and logging out,
\* deactivation and the end of a token last.
THEOREM ServiceImplemented == Spec => ImplementsService
<1>1. ASSUME TypeOK, QuietInv, FrozenInv, [Next]_vars
      PROVE  [Service!Next]_Service!vars
  <2>1. ASSUME NEW c \in Calls, NEW u \in Users, LoginRead(c, u)
        PROVE  [Service!Next]_Service!vars
    BY <1>1, <2>1, LoginStep DEF Service!Next
  <2>2. ASSUME NEW c \in Calls, Issue(c) PROVE [Service!Next]_Service!vars
    <3>1. <<user[c], now>> \in Service!Tokens
      BY <1>1 DEF TypeOK, Service!Tokens
    <3>2. QED BY <1>1, <2>2, <3>1, IssueStep DEF Service!Next
  <2>3. ASSUME NEW u \in Users, LogoutAll(u) PROVE [Service!Next]_Service!vars
    BY <1>1, <2>3, LogoutAllStep DEF Service!Next
  <2>4. CASE Tick \/ Restart \/ \E t \in Tokens : Logout(t)
    BY <1>1, <2>4, WithdrawStep DEF Service!Next
  <2>5. ASSUME NEW u \in Users, Deactivate(u) \/ Activate(u) PROVE [Service!Next]_Service!vars
    BY <2>5, BarStep DEF Service!Next
  <2>6. CASE UNCHANGED <<now, store, quiet, frozen>>
    BY <2>6, HiddenStep
  <2>7. ASSUME NEW c \in Calls,
               RefreshRead(c) \/ CallFails(c) \/ \E t \in Tokens : RefreshVerify(c, t)
        PROVE  UNCHANGED <<now, store, quiet, frozen>>
    BY <2>7 DEF RefreshRead, CallFails, RefreshVerify
  <2>8. CASE UNCHANGED vars
    BY <2>6, <2>8 DEF vars
  <2>9. QED BY <1>1, <2>1, <2>2, <2>3, <2>4, <2>5, <2>6, <2>7, <2>8 DEF Next
<1>2. QED
  BY <1>1, InitService, TypeCorrect, InitQuiet, NextQuiet, InitFrozen, NextFrozen, PTL
  DEF Spec, ImplementsService, Service!Spec
=============================================================================
