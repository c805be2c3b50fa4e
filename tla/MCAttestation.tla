--------------------------- MODULE MCAttestation ---------------------------
(* Instances of Attestation for TLC: the calls and the wallets of each set *)
(* are interchangeable.                                                     *)
EXTENDS Attestation, TLC

Symmetry == Permutations(Creates) \cup Permutations(Readers)
            \cup Permutations(Revokers) \cup Permutations(Recipients)
=============================================================================
