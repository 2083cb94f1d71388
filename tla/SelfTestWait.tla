---------------------------- MODULE SelfTestWait ----------------------------
(***************************************************************************)
(* The self-test harness's waits, cluster.rs: wait_for_controller and      *)
(* wait_for_test_pod wrap a poll loop in tokio::time::timeout.  Each       *)
(* iteration lists the pods by label through a fresh k8s client; an error  *)
(* of the client or of the list ends the wait at once (`?`), a false       *)
(* answer sleeps 750 ms and retries, a true one returns Ok.  The timeout   *)
(* drops the loop wherever it is awaiting, a list request in flight        *)
(* included.                                                               *)
(*                                                                         *)
(* Time is counted in 750 ms ticks; the pods are those of one component    *)
(* (the controller's Deployment, or the test's Job), created one at a time *)
(* as the previous one fails, as a one-replica Deployment or a Job with    *)
(* parallelism 1 does.                                                     *)
(***************************************************************************)
EXTENDS Naturals, Sequences

CONSTANTS
    Pods,       \* the pods the component may get over the wait
    ListOrder,  \* the order the API server lists them in (by name)
    Deadline,   \* the `duration` given to the wait, in 750 ms ticks
    Target      \* "controller": wait_for_controller; "test": wait_for_test_pod

ASSUME WaitAssumption ==
    /\ Deadline \in Nat
    /\ Target \in {"controller", "test"}
    /\ ListOrder \in Seq(Pods)
    /\ \A p \in Pods : \E i \in DOMAIN ListOrder : ListOrder[i] = p

VARIABLES
    phase,      \* pod -> "absent" or its status.phase
    clock,      \* ticks elapsed since the wait started
    wpc,        \* where the loop is: "check", "listing", "sleep", "done"
    result,     \* "none" while waiting, else "ok", "error" or "timeout"
    sawRunning  \* ghost: an answered check saw the component running

vars == <<phase, clock, wpc, result, sawRunning>>

Phases == {"absent", "Pending", "Running", "Failed"}

WaitTypeOK ==
    /\ phase \in [Pods -> Phases]
    /\ clock \in 0..Deadline
    /\ wpc \in {"check", "listing", "sleep", "done"}
    /\ result \in {"none", "ok", "error", "timeout"}
    /\ sawRunning \in BOOLEAN

WaitInit ==
    /\ phase = [p \in Pods |-> "absent"]
    /\ clock = 0
    /\ wpc = "check"
    /\ result = "none"
    /\ sawRunning = FALSE

(***************************************************************************)
(* The cluster.  A new pod is created once every earlier one has failed;   *)
(* a pod goes from Pending to Running and may fail from either (a crash,   *)
(* an eviction).  A failed pod stays listed until it is garbage collected, *)
(* which is beyond the few seconds of a wait.                              *)
(***************************************************************************)
PodCreated(p) ==
    /\ phase[p] = "absent"
    /\ \A q \in Pods : phase[q] \in {"absent", "Failed"}
    /\ phase' = [phase EXCEPT ![p] = "Pending"]

PodStarted(p) ==
    /\ phase[p] = "Pending"
    /\ phase' = [phase EXCEPT ![p] = "Running"]

PodFailed(p) ==
    /\ phase[p] \in {"Pending", "Running"}
    /\ phase' = [phase EXCEPT ![p] = "Failed"]

ClusterStep ==
    /\ \E p \in Pods : PodCreated(p) \/ PodStarted(p) \/ PodFailed(p)
    /\ UNCHANGED <<clock, wpc, result, sawRunning>>

(***************************************************************************)
(* The predicates.                                                         *)
(***************************************************************************)
\* find_by_label: the component's pods, in the order the API lists them.
Listed == SelectSeq(ListOrder, LAMBDA p : phase[p] # "absent")

\* is_pod_running: status.phase == "Running".
IsPodRunning(p) == phase[p] = "Running"

\* Mutant: the empty-list check is dropped; the loop over no pods is true.
IsControllerRunningNoEmptyCheck ==
    \A i \in DOMAIN Listed : IsPodRunning(Listed[i])

\* is_controller_running: no pods is false, any pod not running is false.
IsControllerRunning ==
    /\ Listed # <<>>
    /\ \A i \in DOMAIN Listed : IsPodRunning(Listed[i])

\* is_test_running: only the first pod listed is looked at.
IsTestRunning == Listed # <<>> /\ IsPodRunning(Head(Listed))

Predicate == IF Target = "controller" THEN IsControllerRunning
                                      ELSE IsTestRunning

\* What the waits are for: a pod of the component is running.
ComponentRunning == \E p \in Pods : IsPodRunning(p)

(***************************************************************************)
(* The loop.                                                               *)
(***************************************************************************)
\* An iteration starts: k8s_client() and the list request are issued.
IssueCheck ==
    /\ wpc = "check"
    /\ wpc' = "listing"
    /\ UNCHANGED <<phase, clock, result, sawRunning>>

(* The answer: the client or the list failed and the error is returned     *)
(* (`?`), or the predicate decides between returning Ok and sleeping.      *)
Answer ==
    /\ wpc = "listing"
    /\ \/ result' = "error" /\ wpc' = "done" /\ UNCHANGED sawRunning
       \/ /\ sawRunning' = (sawRunning \/ ComponentRunning)
          /\ IF Predicate THEN result' = "ok" /\ wpc' = "done"
                          ELSE wpc' = "sleep" /\ UNCHANGED result
    /\ UNCHANGED <<phase, clock>>

\* Mutant: the timer is not checked, time runs past the deadline.
TickNoBound ==
    /\ result = "none"
    /\ clock' = clock + 1
    /\ wpc' = IF wpc = "sleep" THEN "check" ELSE wpc
    /\ UNCHANGED <<phase, result, sawRunning>>

(* 750 ms pass: a sleeping loop wakes up, a list request stays in flight.  *)
(* The timer of the timeout fires at the deadline, so time is not counted  *)
(* past it.                                                                *)
Tick ==
    /\ result = "none"
    /\ clock < Deadline
    /\ clock' = clock + 1
    /\ wpc' = IF wpc = "sleep" THEN "check" ELSE wpc
    /\ UNCHANGED <<phase, result, sawRunning>>

\* Mutant: no deadline around the loop.
TimeoutNever == FALSE /\ UNCHANGED vars

(* tokio::time::timeout: at the deadline the loop is dropped wherever it   *)
(* awaits, and the wait fails with the timeout context.                    *)
Timeout ==
    /\ result = "none"
    /\ clock = Deadline
    /\ result' = "timeout" /\ wpc' = "done"
    /\ UNCHANGED <<phase, clock, sawRunning>>

WaitNext == IssueCheck \/ Answer \/ Tick \/ Timeout

Next == WaitNext \/ ClusterStep

(* One tokio task runs the wait and the runtime's timer wheel advances:    *)
(* the task is polled whenever it is ready and time keeps passing.  The    *)
(* cluster owes the wait nothing.                                          *)
Spec == WaitInit /\ [][Next]_vars /\ WF_vars(WaitNext)

-----------------------------------------------------------------------------
(* Every wait ends, with Ok, an error or the timeout, whatever the pods    *)
(* do: the loop retries a false answer forever, so only the deadline       *)
(* around it bounds it.                                                    *)
WaitEnds == <>(result # "none")

(* The wait returns Ok only after a check that saw a pod of the component  *)
(* running: no answer given while no pod exists, or none runs, ends the    *)
(* wait with Ok (is_controller_running's empty-list check, cluster.rs      *)
(* 116-118, and the for loop after it).                                    *)
OkMeansSawRunning == result = "ok" => sawRunning

(* cluster.rs 127 and 134: the wait times out only "if not running": no    *)
(* timeout after a check answered while a pod of the component ran.        *)
TimeoutMeansNeverRunning == result = "timeout" => ~sawRunning

=============================================================================
