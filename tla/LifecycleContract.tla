-------------------------- MODULE LifecycleContract --------------------------
(***************************************************************************)
(* What an agent's lifecycle promises the control plane, stated over what  *)
(* the control plane and the cluster can see: the notifications received,  *)
(* the operation the agent runs, whether the executor was released, and    *)
(* what the process returned.                                              *)
(*                                                                         *)
(*   - "starting" is the first notification; a bootstrap or start failure  *)
(*     ends the process before anything else happens;                      *)
(*   - the operation is launched and completes only while the agent runs   *)
(*     it, after "starting" and before the executor is released;           *)
(*   - results are sent once, right after "starting", and only for a       *)
(*     completed operation;                                                *)
(*   - only failures after the start are reported, and only after "starting";*)
(*   - success is returned only after the results were sent and the        *)
(*     executor released; a later failure is returned with it released.    *)
(***************************************************************************)
EXTENDS Sequences

CONSTANTS
    EarlyFailures,  \* failures before the control plane knows of the run
    LateFailures    \* failures after it

VARIABLES
    notified,   \* notifications the control plane received, in order
    operation,  \* "absent", "running" or "finished"
    released,   \* the executor was terminated
    outcome     \* "none" while running, else "ok" or the failure returned

Init ==
    /\ notified = <<>>
    /\ operation = "absent"
    /\ released = FALSE
    /\ outcome = "none"

\* The start notification reaches the control plane.
Start ==
    /\ outcome = "none" /\ notified = <<>>
    /\ notified' = <<"starting">>
    /\ UNCHANGED <<operation, released, outcome>>

\* Bootstrap or the start notification fails: the process ends at once.
Abort ==
    /\ outcome = "none" /\ notified = <<>>
    /\ notified' \in {<<>>, <<"starting">>}
    /\ outcome' \in EarlyFailures
    /\ UNCHANGED <<operation, released>>

\* The operation is launched, and later completes, while the agent runs it.
Launch ==
    /\ outcome = "none" /\ notified = <<"starting">> /\ ~released
    /\ operation = "absent" /\ operation' = "running"
    /\ UNCHANGED <<notified, released, outcome>>

Complete ==
    /\ outcome = "none" /\ notified = <<"starting">> /\ ~released
    /\ operation = "running" /\ operation' = "finished"
    /\ UNCHANGED <<notified, released, outcome>>

\* The results of the completed operation are sent.
ReportResults ==
    /\ outcome = "none" /\ notified = <<"starting">>
    /\ operation = "finished"
    /\ notified' = Append(notified, "done")
    /\ UNCHANGED <<operation, released, outcome>>

\* A failure after the start is reported.
ReportFailure ==
    /\ outcome = "none" /\ notified # <<>>
    /\ \E f \in LateFailures : notified' = Append(notified, f)
    /\ UNCHANGED <<operation, released, outcome>>

\* The executor is released.
Release ==
    /\ outcome = "none" /\ notified # <<>> /\ ~released
    /\ released' = TRUE
    /\ UNCHANGED <<notified, operation, outcome>>

\* The executor is released after the results were sent: success.
Succeed ==
    /\ outcome = "none" /\ notified = <<"starting", "done">> /\ ~released
    /\ released' = TRUE /\ outcome' = "ok"
    /\ UNCHANGED <<notified, operation>>

(* A failure after the start is returned, the executor released, its       *)
(* report (or that of a failed release) sent in the same step or not.      *)
Fail ==
    /\ outcome = "none" /\ notified # <<>>
    /\ outcome' \in LateFailures
    /\ released' = TRUE
    /\ \/ notified' = notified
       \/ \E f \in LateFailures : notified' = Append(notified, f)
    /\ UNCHANGED operation

Next ==
    \/ Start \/ Abort \/ Launch \/ Complete \/ ReportResults
    \/ ReportFailure \/ Release \/ Succeed \/ Fail

Spec == Init /\ [][Next]_<<notified, operation, released, outcome>>

=============================================================================
