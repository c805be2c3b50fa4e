---------------------------- MODULE MCAuthTokens ----------------------------
(* Instances of AuthTokens for TLC: users and calls are interchangeable. *)
EXTENDS AuthTokens, TLC

Symmetry == Permutations(Users) \cup Permutations(Calls)
=============================================================================
