----------------------------- MODULE AuthTokens -----------------------------
(***************************************************************************)
(* Refresh tokens: JWTService's in-memory map, and the calls of            *)
(* AuthService (login, walletLogin, refreshToken) that issue them.         *)
(*                                                                         *)
(* A refresh token is a signature over the user and the second of issue    *)
(* and nothing else, so two tokens of one user issued in the same second   *)
(* are the same string: a token is <<user, second>>.  A call reads the     *)
(* users table, awaits its answer and issues; logouts, deactivations and   *)
(* restarts come in between.                                               *)
(***************************************************************************)
EXTENDS Naturals

CONSTANTS Users,        \* rows of the users table
          Calls,        \* concurrent login, walletLogin and refreshToken calls
          RefreshLife,  \* config.jwt.refreshExpiresIn, in seconds
          LastSecond    \* bound: the clock stops here

ASSUME ConstantsAssumption ==
    /\ RefreshLife \in Nat \ {0}
    /\ LastSecond \in Nat

Seconds == 0..LastSecond
Tokens == Users \X Seconds

VARIABLES
    now,      \* the clock, in seconds
    active,   \* users whose is_active is true
    store,    \* refreshTokens: absent, valid or revoked
    pc,       \* what a call awaits
    user,     \* the user a call is for
    quiet,    \* history: users logged out everywhere, with no call of theirs
              \* under way, and not logged in since
    frozen,   \* history: users deactivated with no call of theirs past its
              \* read of the row, and not reactivated since
    burnt     \* history: tokens a logout revoked

calls == <<pc, user>>
vars == <<now, active, store, calls, quiet, frozen, burnt>>

Init ==
    /\ now = 0
    /\ active = Users
    /\ store = [t \in Tokens |-> "absent"]
    /\ pc = [c \in Calls |-> "idle"]
    /\ user \in [Calls -> Users]
    /\ quiet = Users
    /\ frozen = {}
    /\ burnt = {}

Busy(u, places) == \E c \in Calls : user[c] = u /\ pc[c] \in places
Live(u) == {t \in Tokens : t[1] = u /\ store[t] = "valid"}

-----------------------------------------------------------------------------
(* Login and refresh *)

\* login, walletLogin: the user is found and is active; the password hash,
\* bcrypt and updateLastLogin are still awaited.  Any other user is refused.
LoginRead(c, u) ==
    /\ pc[c] = "idle"
    /\ u \in active
    /\ pc' = [pc EXCEPT ![c] = "issue"]
    /\ user' = [user EXCEPT ![c] = u]
    /\ quiet' = quiet \ {u}
    /\ UNCHANGED <<now, active, store, frozen, burnt>>

Accepted_EvenRevoked(t) == store[t] # "absent" /\ now < t[2] + RefreshLife
\* verifyRefreshToken: signed, not expired, in the map and not revoked.
Accepted(t) == store[t] = "valid" /\ now < t[2] + RefreshLife

Owner_Payload(t) == t
\* decoded.user_id
Owner(t) == t[1]

\* refreshToken up to its await of findUserById.
RefreshVerify(c, t) ==
    /\ pc[c] = "idle"
    /\ Accepted(t)
    /\ pc' = [pc EXCEPT ![c] = "find"]
    /\ user' = [user EXCEPT ![c] = Owner(t)]
    /\ UNCHANGED <<now, active, store, quiet, frozen, burnt>>

MayRefresh_AnyUser(u) == TRUE
MayRefresh(u) == u \in active

\* The database reads the row: the user must exist and be active.
RefreshRead(c) ==
    /\ pc[c] = "find"
    /\ MayRefresh(user[c])
    /\ pc' = [pc EXCEPT ![c] = "issue"]
    /\ UNCHANGED <<now, active, store, user, quiet, frozen, burnt>>

\* An inactive user, a wrong password, or a database error, which the
\* lookups turn into "no such user".
CallFails(c) ==
    /\ pc[c] # "idle"
    /\ pc' = [pc EXCEPT ![c] = "idle"]
    /\ UNCHANGED <<now, active, store, user, quiet, frozen, burnt>>

\* generateTokens: the token is signed and storeRefreshToken puts it into the
\* map as not revoked, over whatever entry it had.
Issue(c) ==
    /\ pc[c] = "issue"
    /\ store' = [store EXCEPT ![<<user[c], now>>] = "valid"]
    /\ pc' = [pc EXCEPT ![c] = "idle"]
    /\ UNCHANGED <<now, active, user, quiet, frozen, burnt>>

-----------------------------------------------------------------------------
(* Logout *)

\* revokeRefreshToken, of a token that is in the map.
Logout(t) ==
    /\ store[t] # "absent"
    /\ store' = [store EXCEPT ![t] = "revoked"]
    /\ burnt' = burnt \cup {t}
    /\ UNCHANGED <<now, active, calls, quiet, frozen>>

Revoked_OnlyLast(u) == {t \in Live(u) : \A s \in Live(u) : s[2] <= t[2]}
\* The tokens revokeAllUserTokens walks over.
Revoked(u) == {t \in Tokens : t[1] = u /\ store[t] # "absent"}

LogoutAll(u) ==
    /\ store' = [t \in Tokens |-> IF t \in Revoked(u) THEN "revoked" ELSE store[t]]
    /\ burnt' = burnt \cup Revoked(u)
    /\ quiet' = IF Busy(u, {"find", "issue"}) THEN quiet ELSE quiet \cup {u}
    /\ UNCHANGED <<now, active, calls, frozen>>

-----------------------------------------------------------------------------
(* The users table, the clock and the process *)

Deactivate(u) ==
    /\ u \in active
    /\ active' = active \ {u}
    /\ frozen' = IF Busy(u, {"issue"}) THEN frozen ELSE frozen \cup {u}
    /\ UNCHANGED <<now, store, calls, quiet, burnt>>

Activate(u) ==
    /\ u \notin active
    /\ active' = active \cup {u}
    /\ frozen' = frozen \ {u}
    /\ UNCHANGED <<now, store, calls, quiet, burnt>>

Tick ==
    /\ now < LastSecond
    /\ now' = now + 1
    /\ UNCHANGED <<active, store, calls, quiet, frozen, burnt>>

\* The map and the calls are memory of the process.
Restart ==
    /\ store' = [t \in Tokens |-> "absent"]
    /\ pc' = [c \in Calls |-> "idle"]
    /\ UNCHANGED <<now, active, user, quiet, frozen, burnt>>

Next ==
    \/ \E c \in Calls, u \in Users : LoginRead(c, u)
    \/ \E c \in Calls, t \in Tokens : RefreshVerify(c, t)
    \/ \E c \in Calls : RefreshRead(c) \/ CallFails(c) \/ Issue(c)
    \/ \E t \in Tokens : Logout(t)
    \/ \E u \in Users : LogoutAll(u) \/ Deactivate(u) \/ Activate(u)
    \/ Tick
    \/ Restart

Spec == Init /\ [][Next]_vars

-----------------------------------------------------------------------------
(* Properties *)

TypeOK ==
    /\ now \in Seconds
    /\ active \subseteq Users
    /\ store \in [Tokens -> {"absent", "valid", "revoked"}]
    /\ pc \in [Calls -> {"idle", "find", "issue"}]
    /\ user \in [Calls -> Users]
    /\ quiet \subseteq Users /\ frozen \subseteq Users
    /\ burnt \subseteq Tokens

\* A user logged out everywhere while no call of theirs was under way holds
\* no usable refresh token until the next login: no chain of refreshes can
\* outlive the logout.
QuietMeansDead == \A u \in quiet : Live(u) = {}

\* The inductive form: nor is any call about to make one.
QuietInv == \A u \in quiet : Live(u) = {} /\ ~Busy(u, {"find", "issue"})

\* A user deactivated while no call of theirs had passed its read of the row
\* gets no further refresh token until reactivated, although the tokens they
\* hold stay in the map.
DisabledGetsNothing == [][\A u \in frozen : Live(u)' \subseteq Live(u)]_vars

FrozenInv == \A u \in frozen : u \notin active /\ ~Busy(u, {"issue"})

\* A refresh token that is revoked, or that the map no longer has, can come back
\* in the second it was first issued in and never later; no token in the map is
\* of a second to come.
GoneAfterItsSecond ==
    [][\A t \in Tokens : /\ t[2] < now /\ store[t] # "valid" => store'[t] # "valid"
                         /\ store[t] # "absent" => t[2] <= now]_vars

\* Tokens as TokenService sees them: one that may yet be issued, one a refresh
\* accepts, and one whose second is past and that no refresh accepts.
Standing(t) ==
    IF Accepted(t) THEN "usable" ELSE IF t[2] < now THEN "over" ELSE "grantable"

\* A user counts as logged out by a logout everywhere that met no call past its
\* check, and as barred by a deactivation that met no call past its read: a call
\* that is further still issues.
Service == INSTANCE TokenService WITH
    Serials <- Seconds,
    in <- Users \ quiet,
    barred <- frozen,
    token <- [t \in Tokens |-> Standing(t)]

\* The service of refresh tokens keeps what TokenService promises: tokens come
\* from logins of active users alone, and a logout everywhere, a deactivation
\* and the end of a token are not undone by calls under way.
ImplementsService == Service!Spec

\* src/src/services/auth/jwtService.ts:167 ("Revoke a refresh token"): a
\* token a logout revoked is not accepted again.
RevokedIsFinal == \A t \in burnt : store[t] # "valid"
=============================================================================
