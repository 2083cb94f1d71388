------------------------ MODULE AgentRefinementProofs ------------------------
(***************************************************************************)
(* Proof that the workload test agent (WorkloadAgent: agent.rs around      *)
(* run_workload) implements LifecycleContract under the mapping            *)
(*   notified <- delivered, operation <- workload,                         *)
(*   released <- (terminations = 1), outcome <- result.                    *)
(* Every step of the agent is a contract step or leaves the four mapped    *)
(* values alone; AgentInv, proved inductive in WorkloadAgentProofs, says   *)
(* where the agent is when each step happens.                              *)
(***************************************************************************)
EXTENDS WorkloadAgentProofs

\* The contract's variables, as the mapping gives them.
lvars == <<delivered, workload, terminations = 1, result>>

\* What a step of the agent must be: a contract step or a stutter of lvars.
Refines == [Lifecycle!Next]_lvars

(* A step that leaves the messages, the sonobuoy run, the terminations    *)
(* and the result alone is a stutter of the contract.                      *)
LEMMA StutterRefines ==
    UNCHANGED <<delivered, workload, terminations, result>> => Refines
BY Zenon DEF Refines, lvars

(***************************************************************************)
(* TestAgent::new and send_test_starting: the contract's Start or Abort.  *)
(***************************************************************************)
LEMMA NewRefines == AgentInv /\ New /\ UNCHANGED wvars => Refines
<1> SUFFICES ASSUME AgentInv, New, UNCHANGED wvars PROVE Refines
  OBVIOUS
<1>1. delivered = <<>> /\ result = "none"
  BY DEF New, AgentInv, DeliveredAt, Returned
<1>2. CASE pc' = "starting" /\ UNCHANGED result
  BY <1>2, StutterRefines DEF New, wvars
<1>3. CASE \E e \in {"client_new", "client_info", "runner_new"} : Exit(e)
  <2>1. Lifecycle!Abort
    BY <1>1, <1>3 DEF New, Exit, wvars, EarlyErrors, Lifecycle!Abort
  <2>2. QED
    BY <2>1 DEF Refines, Lifecycle!Next
<1>4. QED
  BY <1>2, <1>3 DEF New

LEMMA StartingRefines ==
    AgentInv /\ SendTestStarting /\ UNCHANGED wvars => Refines
<1> SUFFICES ASSUME AgentInv, SendTestStarting, UNCHANGED wvars
             PROVE  Refines
  OBVIOUS
<1>1. delivered = <<>> /\ result = "none"
  BY DEF SendTestStarting, AgentInv, DeliveredAt, Returned
<1>2. CASE delivered' = Append(delivered, "starting") /\ pc' = "run"
           /\ UNCHANGED result
  <2>1. Lifecycle!Start
    BY <1>1, <1>2, AppendStarting DEF SendTestStarting, wvars,
       Lifecycle!Start
  <2>2. QED
    BY <2>1 DEF Refines, Lifecycle!Next
<1>3. CASE FailedSend("starting") /\ Exit("client_starting")
  <2>1. Lifecycle!Abort
    BY <1>1, <1>3, AppendStarting DEF SendTestStarting, FailedSend, Exit,
       wvars, EarlyErrors, Lifecycle!Abort
  <2>2. QED
    BY <2>1 DEF Refines, Lifecycle!Next
<1>4. QED
  BY <1>2, <1>3 DEF SendTestStarting

(***************************************************************************)
(* send_test_done: the contract's ReportResults, or nothing it sees.       *)
(***************************************************************************)
LEMMA DoneRefines == AgentInv /\ SendTestDone /\ UNCHANGED wvars => Refines
<1> SUFFICES ASSUME AgentInv, SendTestDone, UNCHANGED wvars PROVE Refines
  OBVIOUS
<1>1. /\ delivered = <<"starting">> /\ result = "none"
      /\ workload = "finished" /\ terminations = 0
  BY DEF SendTestDone, AgentInv, DeliveredAt, Returned, WorkloadAt,
     TerminationsAt
<1>2. delivered' \in {delivered, Append(delivered, "done")}
  BY DEF SendTestDone, FailedSend
<1>3. CASE delivered' = Append(delivered, "done")
  <2>1. Lifecycle!ReportResults
    BY <1>1, <1>3 DEF SendTestDone, wvars, Lifecycle!ReportResults
  <2>2. QED
    BY <2>1 DEF Refines, Lifecycle!Next
<1>4. CASE delivered' = delivered
  BY <1>4, StutterRefines DEF SendTestDone, wvars
<1>5. QED
  BY <1>2, <1>3, <1>4

(***************************************************************************)
(* runner.terminate in run: Succeed when it returns Ok, else Release.      *)
(***************************************************************************)
LEMMA TerminateRefines ==
    AgentInv /\ Terminate /\ UNCHANGED wvars => Refines
<1> SUFFICES ASSUME AgentInv, Terminate, UNCHANGED wvars PROVE Refines
  OBVIOUS
<1>1. /\ delivered = <<"starting", "done">> /\ result = "none"
      /\ terminations = 0 /\ terminations' = 1
  BY DEF Terminate, AgentInv, DeliveredAt, Returned, TerminationsAt
<1>2. CASE Exit("ok") /\ UNCHANGED err
  <2>1. Lifecycle!Succeed
    BY <1>1, <1>2 DEF Terminate, Exit, wvars, Lifecycle!Succeed
  <2>2. QED
    BY <2>1 DEF Refines, Lifecycle!Next
<1>3. CASE err' = "runner_terminate" /\ pc' = "report_then_return"
           /\ UNCHANGED result
  <2>1. delivered # <<>>
    BY <1>1, EarlyShapes
  <2>2. Lifecycle!Release
    BY <1>1, <1>3, <2>1 DEF Terminate, wvars, Lifecycle!Release
  <2>3. QED
    BY <2>2 DEF Refines, Lifecycle!Next
<1>4. QED
  BY <1>2, <1>3 DEF Terminate

(***************************************************************************)
(* terminate_best_effort: Fail when it returns the error, else Release.    *)
(***************************************************************************)
LEMMA BestEffortRefines ==
    AgentInv /\ TerminateBestEffort /\ UNCHANGED wvars => Refines
<1> SUFFICES ASSUME AgentInv, TerminateBestEffort, UNCHANGED wvars
             PROVE  Refines
  OBVIOUS
<1>1. /\ delivered # <<>> /\ result = "none" /\ err \in LateErrors
      /\ terminations = 0 /\ terminations' = 1
  BY DEF TerminateBestEffort, AgentInv, DeliveredAt, Returned,
     TerminationsAt, ErrorsAttempted
<1>2. CASE Exit(err)
  <2>1. Lifecycle!Fail
    BY <1>1, <1>2 DEF TerminateBestEffort, Exit, wvars, Lifecycle!Fail
  <2>2. QED
    BY <2>1 DEF Refines, Lifecycle!Next
<1>3. CASE pc' = "report_terminate_error" /\ UNCHANGED result
  <2>1. Lifecycle!Release
    BY <1>1, <1>3 DEF TerminateBestEffort, wvars, Lifecycle!Release
  <2>2. QED
    BY <2>1 DEF Refines, Lifecycle!Next
<1>4. QED
  BY <1>2, <1>3 DEF TerminateBestEffort

(***************************************************************************)
(* send_error_best_effort: the report of a late failure.  Before           *)
(* terminate_best_effort it is a ReportFailure (or nothing the control     *)
(* plane sees); before run returns, it comes with the return: Fail.        *)
(***************************************************************************)
LEMMA ReportThenTerminateRefines ==
    AgentInv /\ ReportThenTerminate /\ UNCHANGED wvars => Refines
<1> SUFFICES ASSUME AgentInv, ReportThenTerminate, UNCHANGED wvars
             PROVE  Refines
  OBVIOUS
<1>1. /\ delivered # <<>> /\ result = "none" /\ err \in LateErrors
      /\ delivered' \in {delivered, Append(delivered, err)}
  BY DEF ReportThenTerminate, SendErrorBestEffort, FailedSend, AgentInv,
     DeliveredAt, Returned, ErrorsAttempted
<1>2. CASE delivered' = Append(delivered, err)
  <2>1. Lifecycle!ReportFailure
    BY <1>1, <1>2 DEF ReportThenTerminate, wvars, Lifecycle!ReportFailure
  <2>2. QED
    BY <2>1 DEF Refines, Lifecycle!Next
<1>3. CASE delivered' = delivered
  BY <1>3, StutterRefines DEF ReportThenTerminate, wvars
<1>4. QED
  BY <1>1, <1>2, <1>3

LEMMA ReportReturnRefines ==
    AgentInv /\ (ReportThenReturn \/ ReportTerminateError) /\ UNCHANGED wvars
    => Refines
<1> SUFFICES ASSUME AgentInv, UNCHANGED wvars,
                    ReportThenReturn \/ ReportTerminateError
             PROVE  Refines
  OBVIOUS
<1>1. PICK f \in LateErrors :
         delivered' \in {delivered, Append(delivered, f)}
  BY DEF ReportThenReturn, ReportTerminateError, SendErrorBestEffort,
     FailedSend, AgentInv, ErrorsAttempted, LateErrors, Errors, EarlyErrors
<1>2. /\ delivered # <<>> /\ result = "none" /\ result' \in LateErrors
      /\ terminations = 1 /\ terminations' = 1
      /\ UNCHANGED workload
  BY DEF ReportThenReturn, ReportTerminateError, Exit, AgentInv, DeliveredAt,
     Returned, ErrorsAttempted, TerminationsAt, wvars
<1>3. Lifecycle!Fail
  BY <1>1, <1>2 DEF Lifecycle!Fail
<1>4. QED
  BY <1>3 DEF Refines, Lifecycle!Next

(***************************************************************************)
(* run_workload's steps: `sonobuoy run` launches the operation and         *)
(* wait_for_sonobuoy_results sees it complete; the other steps change      *)
(* nothing the contract sees.  Both happen while the agent is at           *)
(* runner.run(), after "starting" and before any terminate.                *)
(***************************************************************************)
LEMMA WorkloadRefines == AgentInv /\ WorkloadStep => Refines
<1> SUFFICES ASSUME AgentInv, WorkloadStep PROVE Refines
  OBVIOUS
<1>1. /\ delivered = <<"starting">> /\ result = "none" /\ terminations = 0
      /\ UNCHANGED <<delivered, terminations, result>>
  BY DEF WorkloadStep, vars, AgentInv, DeliveredAt, Returned, TerminationsAt
<1>2. CASE SonobuoyRun
  <2>1. workload = "absent" /\ workload' \in {workload, "running"}
    BY <1>2 DEF SonobuoyRun, AgentInv, WorkloadAt
  <2>2. CASE workload' = "running"
    <3>1. Lifecycle!Launch
      BY <1>1, <2>1, <2>2 DEF Lifecycle!Launch
    <3>2. QED
      BY <3>1 DEF Refines, Lifecycle!Next
  <2>3. CASE workload' = workload
    BY <1>1, <2>3, StutterRefines
  <2>4. QED
    BY <2>1, <2>2, <2>3
<1>3. CASE WaitForResults
  <2>1. CASE workload = "running" /\ workload' = "finished"
    <3>1. Lifecycle!Complete
      BY <1>1, <2>1 DEF Lifecycle!Complete
    <3>2. QED
      BY <3>1 DEF Refines, Lifecycle!Next
  <2>2. CASE UNCHANGED workload
    BY <1>1, <2>2, StutterRefines
  <2>3. QED
    BY <1>3, <2>1, <2>2 DEF WaitForResults, WReturn
<1>4. CASE StartRunWorkload \/ GenPlugin \/ WaitForStatus \/ RetrieveResults
           \/ ParseResults
  BY <1>1, <1>4, StutterRefines
  DEF StartRunWorkload, GenPlugin, WaitForStatus, RetrieveResults, ParseResults
<1>5. QED
  BY <1>2, <1>3, <1>4 DEF WorkloadStep, WNext

(***************************************************************************)
(* Every step of the agent refines the contract.                          *)
(***************************************************************************)
LEMMA StepRefines == AgentInv /\ [AgentNext]_allVars => Refines
<1> SUFFICES ASSUME AgentInv, [AgentNext]_allVars PROVE Refines
  OBVIOUS
<1>1. CASE LifecycleStep
  BY <1>1, NewRefines, StartingRefines, DoneRefines, TerminateRefines,
     BestEffortRefines, ReportThenTerminateRefines, ReportReturnRefines
  DEF LifecycleStep
<1>2. CASE WorkloadStep
  BY <1>2, WorkloadRefines
<1>3. CASE RunnerReturns
  BY <1>3, StutterRefines DEF RunnerReturns, RunnerRun, wvars
<1>4. CASE UNCHANGED allVars
  BY <1>4, StutterRefines DEF allVars, vars, wvars
<1>5. QED
  BY <1>1, <1>2, <1>3, <1>4 DEF AgentNext

LEMMA InitRefines == AgentInit => Lifecycle!Init
BY DEF AgentInit, Init, WInit, Lifecycle!Init

(* The workload agent keeps LifecycleContract: agent.rs with run_workload  *)
(* sends "starting" first, runs sonobuoy only between "starting" and       *)
(* runner.terminate, sends results once and only for a finished run, sends *)
(* only late errors, and returns Ok only with results sent and the runner  *)
(* terminated, and a late error only with the runner terminated.           *)
THEOREM LifecycleRefinement == AgentSpec => LifecycleSpec
<1>1. AgentSpec => []AgentInv
  BY AgentInvariant
<1>2. QED
  BY <1>1, InitRefines, StepRefines, PTL
  DEF AgentSpec, LifecycleSpec, Lifecycle!Spec, Refines, lvars

=============================================================================
