-------------------------- MODULE SelfTestWaitProofs --------------------------
(***************************************************************************)
(* Proofs about the self-test waits of cluster.rs (SelfTestWait), for      *)
(* every set of pods, listing order, deadline and target.                  *)
(***************************************************************************)
EXTENDS SelfTestWait, TLAPS

\* The wait's loop is at "done" exactly when the wait has an outcome.
WaitInv ==
    /\ WaitTypeOK
    /\ result # "none" <=> wpc = "done"

LEMMA WaitInitInv == WaitInit => WaitInv
<1> SUFFICES ASSUME WaitInit PROVE WaitInv
  OBVIOUS
<1>1. Deadline \in Nat
  BY WaitAssumption
<1>2. phase \in [Pods -> Phases]
  BY DEF WaitInit, Phases
<1>3. clock \in 0..Deadline
  BY <1>1 DEF WaitInit
<1>4. WaitTypeOK
  BY <1>2, <1>3, Zenon DEF WaitInit, WaitTypeOK
<1>5. result # "none" <=> wpc = "done"
  BY DEF WaitInit
<1>6. QED
  BY <1>4, <1>5 DEF WaitInv

(* A pod changes phase; the loop's variables are untouched.                *)
LEMMA ClusterStepInv == WaitInv /\ ClusterStep => WaitInv'
<1> SUFFICES ASSUME WaitInv, ClusterStep PROVE WaitInv'
  OBVIOUS
<1>1. PICK p \in Pods : PodCreated(p) \/ PodStarted(p) \/ PodFailed(p)
  BY DEF ClusterStep
<1>2. phase' \in [Pods -> Phases]
  BY <1>1 DEF PodCreated, PodStarted, PodFailed, WaitInv, WaitTypeOK, Phases
<1>3. QED
  BY <1>2 DEF ClusterStep, WaitInv, WaitTypeOK

(* One step of the loop or of the timeout around it.                       *)
LEMMA WaitStepInv == WaitInv /\ WaitNext => WaitInv'
<1> SUFFICES ASSUME WaitInv, WaitNext PROVE WaitInv'
  OBVIOUS
<1>1. CASE IssueCheck
  BY <1>1 DEF IssueCheck, WaitInv, WaitTypeOK
<1>2. CASE Answer
  BY <1>2 DEF Answer, WaitInv, WaitTypeOK
<1>3. CASE Tick
  BY <1>3, WaitAssumption DEF Tick, WaitInv, WaitTypeOK
<1>4. CASE Timeout
  BY <1>4 DEF Timeout, WaitInv, WaitTypeOK
<1>5. QED
  BY <1>1, <1>2, <1>3, <1>4 DEF WaitNext

LEMMA WaitStep == WaitInv /\ [Next]_vars => WaitInv'
BY ClusterStepInv, WaitStepInv DEF Next, vars, WaitInv, WaitTypeOK

(* Every state of the wait is well typed; in particular the clock never    *)
(* runs past the deadline: the timeout fires at it.                        *)
THEOREM WaitTypeCorrect == Spec => []WaitTypeOK
<1>1. WaitInv => WaitTypeOK
  BY DEF WaitInv
<1>2. QED
  BY <1>1, WaitInitInv, WaitStep, PTL DEF Spec

=============================================================================
