---------------------------- MODULE TokenService ----------------------------
(***************************************************************************)
(* What a service of refresh tokens promises: a token becomes usable only  *)
(* by a grant to a user who is logged in and not barred, logging out       *)
(* leaves the user no usable token, and a token that is over is over for   *)
(* good.  AuthTokens.tla implements it (AuthTokens!Service is the          *)
(* refinement mapping, and says when its users count as logged out and     *)
(* barred).                                                                *)
(***************************************************************************)

CONSTANTS Users, Serials

VARIABLES in,      \* the users who are logged in
          barred,  \* the users who are to get no tokens
          token    \* whether a token may be granted, is usable, or is over

vars == <<in, barred, token>>

Tokens == Users \X Serials

Init == /\ in = {} /\ barred = {}
        /\ token = [t \in Tokens |-> "grantable"]

\* Tokens are withdrawn or run out: none becomes usable, and none comes back.
Wane == /\ token' \in [Tokens -> {"grantable", "usable", "over"}]
        /\ \A t \in Tokens : /\ token'[t] = "usable" => token[t] = "usable"
                             /\ token[t] = "over" => token'[t] = "over"

Login(u) == /\ u \notin in \cup barred
            /\ in' = in \cup {u}
            /\ UNCHANGED <<barred, token>>

Logout(u) == /\ in' = in \ {u}
             /\ UNCHANGED barred
             /\ Wane
             /\ \A t \in Tokens : t[1] = u => token'[t] # "usable"

Withdraw == UNCHANGED <<in, barred>> /\ Wane

Grant(t) == /\ UNCHANGED <<in, barred>>
            /\ t[1] \in in \ barred /\ token[t] # "over"
            /\ token' = [token EXCEPT ![t] = "usable"]

Bar(u) == UNCHANGED <<in, token>> /\ barred' = barred \cup {u}
Unbar(u) == UNCHANGED <<in, token>> /\ barred' = barred \ {u}

Next == \/ Withdraw
        \/ \E t \in Tokens : Grant(t)
        \/ \E u \in Users : Login(u) \/ Logout(u) \/ Bar(u) \/ Unbar(u)

Spec == Init /\ [][Next]_vars
=============================================================================
