----------------------------- MODULE TestAgent -----------------------------
(***************************************************************************)
(* The test agent's lifecycle, agent.rs: TestAgent::new, TestAgent::run    *)
(* and the best-effort helpers send_error_best_effort and                  *)
(* terminate_best_effort.  Every Client and Runner call may fail; a send   *)
(* to k8s that fails may still have reached the control plane (the status  *)
(* patch was applied, the answer lost), so a failed send is delivered or   *)
(* not.  The process is one async task: the steps below happen one at a   *)
(* time, in the order of the code.                                         *)
(***************************************************************************)
EXTENDS Naturals, Sequences

VARIABLES
    pc,          \* the point of new/run the agent is at
    err,         \* the error run will return, once one occurred
    delivered,   \* messages the control plane received, in order
    attempted,   \* errors send_error was called with
    terminations,\* calls of runner.terminate
    result       \* what new/run returned; "none" while running

vars == <<pc, err, delivered, attempted, terminations, result>>

\* Errors, named by the call that raised them (Error::Client / Error::Runner).
Errors == {"client_new", "client_info", "runner_new", "client_starting",
           "runner_run", "client_done", "runner_terminate"}
NoError == "none"

\* A message to k8s: the two status updates, or an error sent with send_error.
Messages == {"starting", "done"} \cup Errors

PCs == {"new", "starting", "run", "done", "terminate",
        "report_then_terminate", "terminate_best_effort",
        "report_terminate_error", "report_then_return", "exit"}

TypeOK ==
    /\ pc \in PCs
    /\ err \in Errors \cup {NoError}
    /\ delivered \in Seq(Messages)
    /\ attempted \subseteq Errors
    /\ terminations \in 0..1
    /\ result \in {"none", "ok"} \cup Errors

Init ==
    /\ pc = "new"
    /\ err = NoError
    /\ delivered = <<>>
    /\ attempted = {}
    /\ terminations = 0
    /\ result = "none"

\* A send that failed reached the control plane or did not.
FailedSend(msg) == delivered' \in {delivered, Append(delivered, msg)}

Exit(r) == pc' = "exit" /\ result' = r

(***************************************************************************)
(* TestAgent::new: Client::new, get_test_info, Runner::new.  Any error is  *)
(* returned; there is no client to report it through.                      *)
(***************************************************************************)
New ==
    /\ pc = "new"
    /\ \/ pc' = "starting" /\ UNCHANGED result
       \/ \E e \in {"client_new", "client_info", "runner_new"} : Exit(e)
    /\ UNCHANGED <<err, delivered, attempted, terminations>>

(***************************************************************************)
(* TestAgent::run                                                          *)
(***************************************************************************)
\* Mutant: a failed send_test_starting is ignored.
SendTestStartingIgnoreError ==
    /\ pc = "starting"
    /\ \/ /\ delivered' = Append(delivered, "starting")
          /\ pc' = "run" /\ UNCHANGED result
       \/ FailedSend("starting") /\ pc' = "run" /\ UNCHANGED result
    /\ UNCHANGED <<err, attempted, terminations>>

SendTestStarting ==
    /\ pc = "starting"
    /\ \/ /\ delivered' = Append(delivered, "starting")
          /\ pc' = "run" /\ UNCHANGED result
       \/ FailedSend("starting") /\ Exit("client_starting")
    /\ UNCHANGED <<err, attempted, terminations>>

RunnerRun ==
    /\ pc = "run"
    /\ \/ pc' = "done" /\ UNCHANGED err
       \/ err' = "runner_run" /\ pc' = "report_then_terminate"
    /\ UNCHANGED <<delivered, attempted, terminations, result>>

\* Mutant: a failed send_test_done is taken as delivered.
SendTestDoneIgnoreError ==
    /\ pc = "done"
    /\ \/ delivered' = Append(delivered, "done")
       \/ FailedSend("done")
    /\ pc' = "terminate"
    /\ UNCHANGED <<err, attempted, terminations, result>>

\* Mutant: after a failed send_test_done the runner is not terminated.
SendTestDoneSkipTerminate ==
    /\ pc = "done"
    /\ \/ /\ delivered' = Append(delivered, "done")
          /\ pc' = "terminate" /\ UNCHANGED err
       \/ /\ FailedSend("done")
          /\ err' = "client_done" /\ pc' = "report_then_return"
    /\ UNCHANGED <<attempted, terminations, result>>

SendTestDone ==
    /\ pc = "done"
    /\ \/ /\ delivered' = Append(delivered, "done")
          /\ pc' = "terminate" /\ UNCHANGED err
       \/ /\ FailedSend("done")
          /\ err' = "client_done" /\ pc' = "report_then_terminate"
    /\ UNCHANGED <<attempted, terminations, result>>

\* Mutant: a failed terminate takes run's common error path.
TerminateCommonErrorPath ==
    /\ pc = "terminate"
    /\ terminations' = terminations + 1
    /\ \/ Exit("ok") /\ UNCHANGED err
       \/ /\ err' = "runner_terminate" /\ pc' = "report_then_terminate"
          /\ UNCHANGED result
    /\ UNCHANGED <<delivered, attempted>>

\* The test finished and was reported: terminate the runner.
Terminate ==
    /\ pc = "terminate"
    /\ terminations' = terminations + 1
    /\ \/ Exit("ok") /\ UNCHANGED err
       \/ /\ err' = "runner_terminate" /\ pc' = "report_then_return"
          /\ UNCHANGED result
    /\ UNCHANGED <<delivered, attempted>>

(***************************************************************************)
(* send_error_best_effort(err): the error is sent; a failure is logged.    *)
(* It is called before terminate_best_effort on the error paths of run,    *)
(* inside terminate_best_effort, and before the final return when         *)
(* terminate fails.                                                        *)
(***************************************************************************)
SendErrorBestEffort(e) ==
    /\ attempted' = attempted \cup {e}
    /\ \/ delivered' = Append(delivered, e)
       \/ FailedSend(e)

\* Mutant: the error is not sent before terminate_best_effort.
ReportThenTerminateNoSend ==
    /\ pc = "report_then_terminate"
    /\ pc' = "terminate_best_effort"
    /\ UNCHANGED <<err, delivered, attempted, terminations, result>>

ReportThenTerminate ==
    /\ pc = "report_then_terminate"
    /\ SendErrorBestEffort(err)
    /\ pc' = "terminate_best_effort"
    /\ UNCHANGED <<err, terminations, result>>

ReportThenReturn ==
    /\ pc = "report_then_return"
    /\ SendErrorBestEffort(err)
    /\ Exit(err)
    /\ UNCHANGED <<err, terminations>>

\* terminate_best_effort, then return the original error.
TerminateBestEffort ==
    /\ pc = "terminate_best_effort"
    /\ terminations' = terminations + 1
    /\ \/ Exit(err)
       \/ pc' = "report_terminate_error" /\ UNCHANGED result
    /\ UNCHANGED <<err, delivered, attempted>>

ReportTerminateError ==
    /\ pc = "report_terminate_error"
    /\ SendErrorBestEffort("runner_terminate")
    /\ Exit(err)
    /\ UNCHANGED <<err, terminations>>

Next ==
    \/ New \/ SendTestStarting \/ RunnerRun \/ SendTestDone \/ Terminate
    \/ ReportThenTerminate \/ ReportThenReturn \/ TerminateBestEffort
    \/ ReportTerminateError

(* One task runs new and run, one step at a time in the order of the code. *)
(* Only safety is asked of it, so no fairness is assumed.                  *)
Spec == Init /\ [][Next]_vars

-----------------------------------------------------------------------------
(***************************************************************************)
(* Properties.                                                             *)
(***************************************************************************)

\* Errors raised before the control plane knows the test started.
EarlyErrors == {"client_new", "client_info", "runner_new", "client_starting"}

IsDelivered(msg) == \E i \in DOMAIN delivered : delivered[i] = msg

(* Every error run returns once the test has started is one whose report   *)
(* to k8s was attempted: no exit path after send_test_starting drops the   *)
(* error without trying to send it.                                        *)
ReturnedErrorReported ==
    result \in Errors \ EarlyErrors => result \in attempted

(* Once the test has started, every exit path of run calls                 *)
(* runner.terminate exactly once: the runner is always released, and never *)
(* twice.                                                                  *)
TerminatedOnce ==
    result \notin {"none"} \cup EarlyErrors => terminations = 1

(* run returns Ok only when the test results reached the control plane     *)
(* and no error was reported for this run.                                 *)
OkMeansDoneDelivered ==
    result = "ok" =>
        /\ IsDelivered("done")
        /\ \A e \in Errors : ~IsDelivered(e)

(* The control plane hears "starting" first and only once: no outcome or   *)
(* error of a test it was not told had started.                            *)
StartingFirst ==
    /\ delivered # <<>> => delivered[1] = "starting"
    /\ \A i \in DOMAIN delivered : delivered[i] = "starting" => i = 1

(* Spec, section 8: the controller never sends two conflicting outcome     *)
(* notifications: the test results and an error are not both delivered.    *)
NoConflictingOutcomes ==
    ~(IsDelivered("done") /\ \E e \in Errors : IsDelivered(e))

(* Spec, section 8: beyond the failure itself, at most one best-effort     *)
(* error notification is attempted.                                        *)
AtMostOneBestEffort == \A e1, e2 \in attempted : e1 = e2

=============================================================================
