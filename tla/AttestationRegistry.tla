------------------------ MODULE AttestationRegistry ------------------------
(***************************************************************************)
(* What the attestation service promises, whatever the network and its     *)
(* own restarts do: an attestation is issued once, revoked for good, and   *)
(* shown to clients only after it was issued.  Attestation.tla implements  *)
(* it (Attestation!Registry is the refinement mapping).                    *)
(***************************************************************************)

CONSTANT Uids          \* the attestations that could ever be issued

VARIABLES status,      \* status[u]: what the EAS contract says of u
          visible      \* the attestations the service serves from memory

vars == <<status, visible>>

Init == /\ status = [u \in Uids |-> "absent"]
        /\ visible = {}

Issue(u) == /\ status[u] = "absent"
            /\ status' = [status EXCEPT ![u] = "live"]
            /\ UNCHANGED visible

Revoke(u) == /\ status[u] = "live"
             /\ status' = [status EXCEPT ![u] = "revoked"]
             /\ UNCHANGED visible

\* The service starts to serve u from memory.
Show(u) == /\ status[u] # "absent"
           /\ visible' = visible \cup {u}
           /\ UNCHANGED status

\* It stops serving some of them: one that was revoked, or all at a restart.
Hide(S) == /\ visible' = visible \ S
           /\ UNCHANGED status

Next == \/ \E u \in Uids : Issue(u) \/ Revoke(u) \/ Show(u)
        \/ \E S \in SUBSET Uids : Hide(S)

Spec == Init /\ [][Next]_vars
=============================================================================
