-------------------------- MODULE MCAccessControl --------------------------
(* Instances of AccessControl for TLC: the calls are interchangeable. *)
EXTENDS AccessControl, TLC

Symmetry == Permutations(Calls)
=============================================================================
