------------------------------ MODULE Limiter ------------------------------
(***************************************************************************)
(* What express-rate-limit 7 keeps: a counter for each key its requests    *)
(* have, which counts every request that reaches the limiter, the refused  *)
(* ones too, until the window of that key ends.                            *)
(***************************************************************************)
EXTENDS Naturals

CONSTANTS Ips,         \* addresses that requests come from
          MaxCounted   \* bound of the exploration: no counter is followed further

ASSUME LimiterAssumption == MaxCounted \in Nat

Unused(keys) == [k \in keys |-> 0]

Countable(counts, k) == counts[k] < MaxCounted
Counted(counts, k) == [counts EXCEPT ![k] = @ + 1]

\* A window opens with its first request.
Open(counts, k) == counts[k] > 0
Reset(counts, k) == [counts EXCEPT ![k] = 0]
=============================================================================
