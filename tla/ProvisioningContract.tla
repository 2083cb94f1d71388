------------------------- MODULE ProvisioningContract -------------------------
(***************************************************************************)
(* What a resource agent promises about the external resource it manages, *)
(* stated over the resource and one durable bit, seen by every later       *)
(* process: whether provisioning has been recorded as started.  The        *)
(* resource is absent ("None"), one that existed before and belongs to     *)
(* someone else ("Foreign"), or one the agent created ("Ours").            *)
(*                                                                         *)
(*   - the record is made before the resource is created, and never undone;*)
(*   - the agent creates a resource only where there is none;              *)
(*   - it removes only a resource it created;                              *)
(*   - a foreign resource is used, never changed.                          *)
(***************************************************************************)
VARIABLES
    cluster,    \* the external resource
    tracked     \* the durable record that provisioning started

Init ==
    /\ cluster \in {"None", "Foreign"}
    /\ tracked = FALSE

\* Provisioning is recorded as started, before anything is created.
Track ==
    /\ ~tracked
    /\ tracked' = TRUE
    /\ UNCHANGED cluster

\* The resource is created, once its creation is on record.
Provision ==
    /\ tracked
    /\ cluster = "None"
    /\ cluster' = "Ours"
    /\ UNCHANGED tracked

\* A resource the agent created is removed.
Remove ==
    /\ cluster = "Ours"
    /\ cluster' = "None"
    /\ UNCHANGED tracked

Next == Track \/ Provision \/ Remove

Spec == Init /\ [][Next]_<<cluster, tracked>>

=============================================================================
