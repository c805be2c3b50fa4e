---------------------------- MODULE MCSdkClient ----------------------------
(* Instances of SdkClient for TLC.                                          *)
EXTENDS SdkClient, TLC

Symmetry == Permutations(Requests) \cup Permutations(Tokens)
=============================================================================
