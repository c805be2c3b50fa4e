------------------------------ MODULE MCVault ------------------------------
(* Instances of Vault for TLC: retrievals are interchangeable.             *)
EXTENDS Vault, TLC

Symmetry == Permutations(Reads)
=============================================================================
