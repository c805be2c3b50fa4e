-------------------------- MODULE MCAuditLogQueue --------------------------
(* Instances of AuditLogQueue for TLC: entries and callbacks are            *)
(* interchangeable.                                                         *)
EXTENDS AuditLogQueue, TLC

Symmetry == Permutations(Entries) \cup Permutations(Callbacks)
=============================================================================
