-------------------------------- MODULE Outbox --------------------------------
(***************************************************************************)
(* What the audit log queue promises: once the enqueue of an entry has     *)
(* returned, the entry is kept until it is delivered or given up, and      *)
(* either is for good.  Before that it may be kept, delivered and given up *)
(* in secret, by a call that does not know.  AuditLogQueue.tla implements  *)
(* it (AuditLogQueue!Box is the refinement mapping).                       *)
(***************************************************************************)

CONSTANT Entries

VARIABLES fate,    \* what has become of an entry
          acked    \* the entries whose enqueue returned

vars == <<fate, acked>>

Fates == {"unknown", "kept", "delivered", "given up"}

Init == /\ fate = [e \in Entries |-> "unknown"]
        /\ acked = {}

\* The enqueue of e returns.  Nothing that was delivered is taken back, and
\* what was given up comes back only if this very call delivers it.
Accept(e) == /\ e \notin acked
             /\ acked' = acked \cup {e}
             /\ \E f \in Fates \ {"unknown"} :
                   /\ fate[e] = "delivered" => f = "delivered"
                   /\ fate[e] = "given up" => f # "kept"
                   /\ fate' = [fate EXCEPT ![e] = f]

\* An entry is kept, but its enqueue was told otherwise.
Keep(e) == /\ e \notin acked /\ fate[e] = "unknown"
           /\ fate' = [fate EXCEPT ![e] = "kept"]
           /\ UNCHANGED acked

\* Entries that were kept are delivered, or given up, together.
Settle(S, f) == /\ UNCHANGED acked
                /\ \A e \in S : fate[e] = "kept"
                /\ fate' = [e \in Entries |-> IF e \in S THEN f ELSE fate[e]]

Next == \/ \E e \in Entries : Accept(e) \/ Keep(e)
        \/ \E S \in SUBSET Entries, f \in {"delivered", "given up"} : Settle(S, f)

Spec == Init /\ [][Next]_vars
=============================================================================
