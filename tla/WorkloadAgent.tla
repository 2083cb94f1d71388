--------------------------- MODULE WorkloadAgent ---------------------------
(***************************************************************************)
(* The workload test agent: TestAgent's lifecycle (agent.rs) with          *)
(* run_workload (workload.rs) as its Runner::run.  While the agent is at   *)
(* runner.run().await, only the workload moves; the agent's step past the  *)
(* await takes run_workload's result.                                      *)
(***************************************************************************)
EXTENDS TestAgent, Workload

allVars == <<vars, wvars>>

AgentInit == Init /\ WInit

\* TestAgent's steps other than the runner's, which leave the workload alone.
LifecycleStep ==
    /\ \/ New \/ SendTestStarting \/ SendTestDone \/ Terminate
       \/ ReportThenTerminate \/ ReportThenReturn \/ TerminateBestEffort
       \/ ReportTerminateError
    /\ UNCHANGED wvars

\* runner.run() is being awaited: run_workload takes a step.
WorkloadStep == pc = "run" /\ WNext /\ UNCHANGED vars

\* runner.run() returns run_workload's result to the agent.
RunnerReturns ==
    /\ wpc = "returned"
    /\ RunnerRun
    /\ pc' = "done" <=> wresult = "ok"
    /\ UNCHANGED wvars

AgentNext == LifecycleStep \/ WorkloadStep \/ RunnerReturns

(* One task; its steps happen one at a time in the order of the code.      *)
(* No fairness is assumed: wait_for_sonobuoy_results has no deadline and   *)
(* its body is not in this repository, so nothing says run_workload ends.  *)
AgentSpec == AgentInit /\ [][AgentNext]_allVars

-----------------------------------------------------------------------------
(* sonobuoy is started only with a plugin file for every configured test:  *)
(* the generation loop neither stops early nor lets a failure through.     *)
RunHasAllPlugins == workload # "absent" => plugins = NumTests

(* The control plane receives test results only after the sonobuoy run in  *)
(* the cluster finished: results are never retrieved from a run still in   *)
(* progress.                                                               *)
DoneOnlyAfterFinished == IsDelivered("done") => workload = "finished"

\* Errors raised after the control plane was told the test started.
LateErrors == Errors \ EarlyErrors

(***************************************************************************)
(* The invariant the agent's safety rests on, in parts: for each point of  *)
(* new/run, what was delivered, attempted and terminated so far, and where *)
(* the workload is.  It strengthens the properties above to an inductive   *)
(* one.                                                                    *)
(***************************************************************************)
\* new/run has returned exactly when the agent is at its exit.
Returned == result = "none" <=> pc # "exit"

\* What the control plane has received at each point of run.
DeliveredAt ==
    /\ pc \in {"new", "starting"} => delivered = <<>> /\ attempted = {}
    /\ pc \in {"run", "done"} => delivered = <<"starting">>
    /\ pc = "terminate" \/ result = "ok" => delivered = <<"starting", "done">>
    /\ pc \notin {"new", "starting", "exit"} => delivered # <<>>

\* "starting" is the first message delivered and no later one.
StartingOnlyFirst ==
    /\ delivered # <<>> => delivered[1] = "starting"
    /\ \A i \in 2..Len(delivered) : delivered[i] # "starting"

\* runner.terminate has been called once at the points after it, else never.
TerminationsAt ==
    /\ pc \in {"new", "starting", "run", "done", "terminate",
              "report_then_terminate", "terminate_best_effort"}
           => terminations = 0
    /\ pc \in {"report_terminate_error", "report_then_return"}
           => terminations = 1
    /\ result \notin {"none"} \cup EarlyErrors => terminations = 1

\* On the error paths the pending error is a late one, sent once past send.
ErrorsAttempted ==
    /\ pc \in {"report_then_terminate", "terminate_best_effort",
              "report_terminate_error", "report_then_return"}
           => err \in LateErrors
    /\ pc \in {"terminate_best_effort", "report_terminate_error"}
           => err \in attempted
    /\ result \in LateErrors => result \in attempted

\* Where run_workload and the sonobuoy run are, and what the agent knows.
WorkloadAt ==
    /\ wresult = "none" <=> wpc # "returned"
    /\ wpc \in {"idle", "gen", "run"} => workload = "absent"
    /\ wpc \in {"run", "status", "results", "retrieve", "parse"}
           => plugins = NumTests
    /\ workload # "absent" => plugins = NumTests
    /\ wpc \in {"retrieve", "parse"} \/ wresult = "ok" => workload = "finished"
    /\ pc = "done" \/ IsDelivered("done") => workload = "finished"

AgentInv ==
    /\ TypeOK /\ WorkloadTypeOK
    /\ Returned /\ DeliveredAt /\ StartingOnlyFirst /\ TerminationsAt
    /\ ErrorsAttempted /\ WorkloadAt

(***************************************************************************)
(* The agent as the control plane sees it: LifecycleContract with the      *)
(* messages delivered, the sonobuoy run, whether runner.terminate was      *)
(* called, and the result of new/run.                                      *)
(***************************************************************************)
Lifecycle == INSTANCE LifecycleContract
    WITH notified <- delivered, operation <- workload,
         released <- (terminations = 1), outcome <- result,
         EarlyFailures <- EarlyErrors, LateFailures <- LateErrors

(* The agent keeps the lifecycle contract: every step of agent.rs and      *)
(* run_workload is a step of the contract or leaves what it sees alone.    *)
LifecycleSpec == Lifecycle!Spec

=============================================================================
