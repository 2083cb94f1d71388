------------------------- MODULE WorkloadAgentProofs -------------------------
(***************************************************************************)
(* Proofs about the workload test agent (WorkloadAgent): agent.rs's        *)
(* lifecycle around run_workload.  Every safety invariant the              *)
(* workload_agent run checks follows from AgentInv, which is inductive.    *)
(* They hold for every number of configured tests.                         *)
(***************************************************************************)
EXTENDS WorkloadAgent, SequenceTheorems, TLAPS

(***************************************************************************)
(* Lemmas about the delivered sequence.                                    *)
(***************************************************************************)
\* A sequence of messages whose first element, and only that, is "starting".
StartsRight(s) ==
    /\ s # <<>> => s[1] = "starting"
    /\ \A i \in 2..Len(s) : s[i] # "starting"

\* Message x is an element of s.
Has(s, x) == \E i \in DOMAIN s : s[i] = x

(* Appending a message other than "starting" to a nonempty sequence that   *)
(* starts right keeps it starting right.                                   *)
LEMMA AppendLater ==
    ASSUME NEW s \in Seq(Messages), NEW m \in Messages, m # "starting",
           s # <<>>, StartsRight(s)
    PROVE  StartsRight(Append(s, m))
BY AppendProperties DEF StartsRight

(* The elements of Append(s, m) are those of s and m.                      *)
LEMMA AppendHas ==
    ASSUME NEW s \in Seq(Messages), NEW m \in Messages, NEW x
    PROVE  Has(Append(s, m), x) <=> Has(s, x) \/ m = x
BY AppendProperties DEF Has

LEMMA StartsRightDef == StartingOnlyFirst <=> StartsRight(delivered)
BY DEF StartingOnlyFirst, StartsRight

LEMMA HasDef == ASSUME NEW x PROVE IsDelivered(x) <=> Has(delivered, x)
BY DEF IsDelivered, Has

LEMMA StartsRightDefPrimed == StartingOnlyFirst' <=> StartsRight(delivered')
BY DEF StartingOnlyFirst, StartsRight

LEMMA HasDefPrimed ==
    ASSUME NEW x PROVE IsDelivered(x)' <=> Has(delivered', x)
BY DEF IsDelivered, Has

(***************************************************************************)
(* The three values delivered takes before any error is sent.             *)
(***************************************************************************)
LEMMA EarlySeqs ==
    /\ <<>> \in Seq(Messages) /\ <<"starting">> \in Seq(Messages)
    /\ <<"starting", "done">> \in Seq(Messages)
BY DEF Messages

LEMMA AppendStarting == Append(<<>>, "starting") = <<"starting">>
BY AppendIsConcat, EarlySeqs DEF Messages

LEMMA AppendDone == Append(<<"starting">>, "done") = <<"starting", "done">>
<1> DEFINE a == Append(<<"starting">>, "done")
           b == <<"starting", "done">>
<1>1. a \in Seq(Messages) /\ Len(a) = 2 /\ a[1] = "starting" /\ a[2] = "done"
  BY EarlySeqs, AppendProperties DEF Messages
<1>2. Len(b) = 2 /\ b[1] = "starting" /\ b[2] = "done"
  OBVIOUS
<1>3. b \in Seq(Messages) /\ \A i \in 1..Len(a) : a[i] = b[i]
  BY <1>1, <1>2, EarlySeqs
<1>4. QED
  BY <1>1, <1>2, <1>3, SeqEqual, Zenon

LEMMA EarlyShapes ==
    /\ StartsRight(<<>>) /\ StartsRight(<<"starting">>)
    /\ StartsRight(<<"starting", "done">>)
    /\ ~Has(<<>>, "done") /\ ~Has(<<"starting">>, "done")
    /\ Has(<<"starting", "done">>, "done")
    /\ <<"starting">> # <<>> /\ <<"starting", "done">> # <<>>
<1>1. <<"starting">> # <<>> /\ <<"starting", "done">> # <<>>
  BY EarlySeqs, AppendStarting, AppendDone, AppendProperties DEF Messages
<1>2. QED
  BY <1>1 DEF StartsRight, Has

(***************************************************************************)
(* A failed or successful send of m after the start notification.          *)
(***************************************************************************)
LEMMA SendLater ==
    ASSUME TypeOK, StartingOnlyFirst, delivered # <<>>,
           NEW m \in Messages, m # "starting",
           delivered' \in {delivered, Append(delivered, m)}
    PROVE  /\ delivered' \in Seq(Messages)
           /\ delivered' # <<>>
           /\ StartingOnlyFirst'
           /\ \A x : IsDelivered(x)' <=> IsDelivered(x) \/ (x = m /\ delivered' # delivered)
<1>1. CASE delivered' = delivered
  BY <1>1 DEF TypeOK, StartingOnlyFirst, IsDelivered
<1>2. CASE delivered' = Append(delivered, m)
  <2>1. delivered \in Seq(Messages)
    BY DEF TypeOK
  <2>2. StartsRight(delivered')
    BY <1>2, <2>1, AppendLater, StartsRightDef
  <2>3. \A x : Has(delivered', x) <=> Has(delivered, x) \/ m = x
    BY <1>2, <2>1, AppendHas
  <2>4. delivered' # delivered
    BY <1>2, <2>1, AppendProperties
  <2>5. QED
    BY <1>2, <2>1, <2>2, <2>3, <2>4, AppendProperties
    DEF StartsRight, StartingOnlyFirst, Has, IsDelivered
<1>3. QED
  BY <1>1, <1>2

(***************************************************************************)
(* Initial state and the steps of the agent.                               *)
(***************************************************************************)
LEMMA AgentInitInv == AgentInit => AgentInv
BY NumTestsAssumption
DEF AgentInit, Init, WInit, AgentInv, TypeOK, WorkloadTypeOK, PCs, WPCs,
    NoError, Returned, DeliveredAt, StartingOnlyFirst, TerminationsAt,
    ErrorsAttempted, LateErrors, Errors, EarlyErrors, WorkloadAt, IsDelivered

LEMMA NewInv == AgentInv /\ New /\ UNCHANGED wvars => AgentInv'
BY DEF AgentInv, New, Exit, wvars, TypeOK, WorkloadTypeOK, PCs, Errors,
    NoError, Returned, DeliveredAt, StartingOnlyFirst, TerminationsAt,
    ErrorsAttempted, LateErrors, EarlyErrors, WorkloadAt, IsDelivered

LEMMA StartingInv ==
    AgentInv /\ SendTestStarting /\ UNCHANGED wvars => AgentInv'
<1> SUFFICES ASSUME AgentInv, SendTestStarting, UNCHANGED wvars
             PROVE  AgentInv'
  OBVIOUS
<1>1. delivered = <<>> /\ attempted = {} /\ terminations = 0
  BY DEF SendTestStarting, AgentInv, DeliveredAt, TerminationsAt
<1>2. CASE delivered' = Append(delivered, "starting") /\ pc' = "run"
           /\ UNCHANGED result
  <2>1. /\ delivered' = <<"starting">> /\ delivered' \in Seq(Messages)
        /\ StartingOnlyFirst' /\ ~IsDelivered("done")'
    BY <1>1, <1>2, AppendStarting, EarlySeqs, EarlyShapes, StartsRightDefPrimed,
       HasDefPrimed
  <2>2. QED
    BY <1>1, <1>2, <2>1
    DEF SendTestStarting, AgentInv, wvars, TypeOK, WorkloadTypeOK, PCs,
        Returned, DeliveredAt, TerminationsAt, ErrorsAttempted, LateErrors,
        Errors, EarlyErrors, WorkloadAt
<1>3. CASE FailedSend("starting") /\ Exit("client_starting")
  <2>1. delivered' \in {<<>>, <<"starting">>}
    BY <1>1, <1>3, AppendStarting DEF FailedSend
  <2>2. /\ StartingOnlyFirst' /\ ~IsDelivered("done")'
        /\ delivered' \in Seq(Messages)
    BY <2>1, EarlySeqs, EarlyShapes, StartsRightDefPrimed,
       HasDefPrimed
  <2>3. QED
    BY <1>1, <1>3, <2>2
    DEF SendTestStarting, Exit, AgentInv, wvars, TypeOK, WorkloadTypeOK,
        PCs, Returned, DeliveredAt, TerminationsAt, ErrorsAttempted,
        LateErrors, Errors, EarlyErrors, WorkloadAt
<1>4. QED
  BY <1>2, <1>3 DEF SendTestStarting

LEMMA DoneInv == AgentInv /\ SendTestDone /\ UNCHANGED wvars => AgentInv'
<1> SUFFICES ASSUME AgentInv, SendTestDone, UNCHANGED wvars
             PROVE  AgentInv'
  OBVIOUS
<1>1. delivered = <<"starting">> /\ terminations = 0 /\ result = "none"
      /\ workload = "finished"
  BY DEF SendTestDone, AgentInv, DeliveredAt, TerminationsAt, Returned,
     WorkloadAt
<1>2. CASE delivered' = Append(delivered, "done") /\ pc' = "terminate"
           /\ UNCHANGED err
  <2>1. /\ delivered' = <<"starting", "done">> /\ delivered' \in Seq(Messages)
        /\ StartingOnlyFirst' /\ IsDelivered("done")' /\ delivered' # <<>>
    BY <1>1, <1>2, AppendDone, EarlySeqs, EarlyShapes, StartsRightDefPrimed,
       HasDefPrimed
  <2>2. QED
    BY <1>1, <1>2, <2>1
    DEF SendTestDone, AgentInv, wvars, TypeOK, WorkloadTypeOK, PCs,
        Returned, DeliveredAt, TerminationsAt, ErrorsAttempted, LateErrors,
        Errors, EarlyErrors, WorkloadAt
<1>3. CASE FailedSend("done") /\ err' = "client_done"
           /\ pc' = "report_then_terminate"
  <2>1. delivered' \in {<<"starting">>, <<"starting", "done">>}
    BY <1>1, <1>3, AppendDone DEF FailedSend
  <2>2. /\ StartingOnlyFirst' /\ delivered' \in Seq(Messages)
        /\ delivered' # <<>>
    BY <2>1, EarlySeqs, EarlyShapes, StartsRightDefPrimed
  <2>3. QED
    BY <1>1, <1>3, <2>2
    DEF SendTestDone, AgentInv, wvars, TypeOK, WorkloadTypeOK, PCs,
        Returned, DeliveredAt, TerminationsAt, ErrorsAttempted, LateErrors,
        Errors, EarlyErrors, WorkloadAt, IsDelivered
<1>4. QED
  BY <1>2, <1>3 DEF SendTestDone

LEMMA TerminateInv == AgentInv /\ Terminate /\ UNCHANGED wvars => AgentInv'
BY DEF AgentInv, Terminate, Exit, wvars, TypeOK, WorkloadTypeOK, PCs, Errors,
    NoError, Returned, DeliveredAt, StartingOnlyFirst, TerminationsAt,
    ErrorsAttempted, LateErrors, EarlyErrors, WorkloadAt, IsDelivered

LEMMA BestEffortInv ==
    AgentInv /\ TerminateBestEffort /\ UNCHANGED wvars => AgentInv'
BY DEF AgentInv, TerminateBestEffort, Exit, wvars, TypeOK, WorkloadTypeOK,
    PCs, Errors, NoError, Returned, DeliveredAt, StartingOnlyFirst,
    TerminationsAt, ErrorsAttempted, LateErrors, EarlyErrors, WorkloadAt,
    IsDelivered

(* The three sends of send_error_best_effort: each sends a late error and  *)
(* moves on; the delivered sequence keeps its shape.                       *)
LEMMA ReportInv ==
    AgentInv /\ (ReportThenTerminate \/ ReportThenReturn \/ ReportTerminateError)
             /\ UNCHANGED wvars
    => AgentInv'
<1> SUFFICES ASSUME AgentInv, UNCHANGED wvars,
                    ReportThenTerminate \/ ReportThenReturn \/ ReportTerminateError
             PROVE  AgentInv'
  OBVIOUS
<1>1. PICK e \in LateErrors :
         /\ attempted' = attempted \cup {e}
         /\ delivered' \in {delivered, Append(delivered, e)}
  BY DEF ReportThenTerminate, ReportThenReturn, ReportTerminateError,
     SendErrorBestEffort, FailedSend, AgentInv, ErrorsAttempted, LateErrors,
     Errors, EarlyErrors
<1>2. /\ delivered' \in Seq(Messages)
      /\ delivered' # <<>>
      /\ StartingOnlyFirst'
      /\ IsDelivered("done")' <=> IsDelivered("done")
  <2>1. delivered # <<>> /\ e \in Messages /\ e # "starting"
    BY <1>1 DEF ReportThenTerminate, ReportThenReturn, ReportTerminateError,
       AgentInv, DeliveredAt, LateErrors, Errors, Messages
  <2>2. QED
    BY <1>1, <2>1, SendLater DEF AgentInv, LateErrors, Errors
<1>3. QED
  BY <1>1, <1>2
  DEF ReportThenTerminate, ReportThenReturn, ReportTerminateError, Exit,
      SendErrorBestEffort, AgentInv, wvars, TypeOK, WorkloadTypeOK, PCs,
      Returned, DeliveredAt, TerminationsAt, ErrorsAttempted, LateErrors,
      Errors, EarlyErrors, WorkloadAt

(* A step of run_workload while the agent awaits runner.run(): the agent's *)
(* variables are untouched and delivered is <<"starting">>.                *)
LEMMA WorkloadInv == AgentInv /\ WorkloadStep => AgentInv'
<1> SUFFICES ASSUME AgentInv, WorkloadStep PROVE AgentInv'
  OBVIOUS
<1>1. /\ pc = "run" /\ pc' = "run"
      /\ TypeOK' /\ Returned' /\ DeliveredAt' /\ StartingOnlyFirst'
      /\ TerminationsAt' /\ ErrorsAttempted' /\ ~IsDelivered("done")'
  BY DEF WorkloadStep, vars, AgentInv, TypeOK, Returned, DeliveredAt,
     StartingOnlyFirst, TerminationsAt, ErrorsAttempted, IsDelivered
<1>2. CASE StartRunWorkload
  BY <1>1, <1>2 DEF StartRunWorkload, AgentInv, WorkloadTypeOK, WPCs,
     WorkloadAt
<1>3. CASE GenPlugin
  <2>1. wpc = "gen" /\ workload = "absent" /\ workload' = "absent"
        /\ plugins \in 0..NumTests
    BY <1>3 DEF GenPlugin, AgentInv, WorkloadTypeOK, WorkloadAt
  <2>2. CASE plugins < NumTests /\ plugins' = plugins + 1
             /\ UNCHANGED <<wpc, wresult>>
    BY <1>1, <2>1, <2>2, NumTestsAssumption
    DEF AgentInv, WorkloadTypeOK, WPCs, WorkloadAt
  <2>3. CASE WReturn("error") /\ UNCHANGED plugins
    BY <1>1, <2>1, <2>3 DEF WReturn, AgentInv, WorkloadTypeOK, WPCs,
       WorkloadAt
  <2>4. CASE plugins = NumTests /\ wpc' = "run"
             /\ UNCHANGED <<plugins, wresult>>
    BY <1>1, <2>1, <2>4 DEF AgentInv, WorkloadTypeOK, WPCs, WorkloadAt
  <2>5. QED
    BY <1>3, <2>2, <2>3, <2>4 DEF GenPlugin
<1>4. CASE SonobuoyRun
  <2>1. wpc = "run" /\ plugins = NumTests /\ plugins' = plugins
        /\ workload' \in {workload, "running"}
        /\ \/ wpc' = "status" /\ wresult' = wresult
           \/ wpc' = "returned" /\ wresult' = "error"
    BY <1>4 DEF SonobuoyRun, WReturn, AgentInv, WorkloadAt
  <2>2. QED
    BY <1>1, <2>1 DEF AgentInv, WorkloadTypeOK, WPCs, WorkloadAt
<1>5. CASE WaitForStatus \/ RetrieveResults
  BY <1>1, <1>5 DEF WaitForStatus, RetrieveResults, WReturn, AgentInv,
     WorkloadTypeOK, WPCs, WorkloadAt
<1>6. CASE WaitForResults
  BY <1>1, <1>6 DEF WaitForResults, WReturn, AgentInv, WorkloadTypeOK, WPCs,
     WorkloadAt
<1>7. CASE ParseResults
  BY <1>1, <1>7 DEF ParseResults, WReturn, AgentInv, WorkloadTypeOK, WPCs,
     WorkloadAt
<1>8. QED
  BY <1>1, <1>2, <1>3, <1>4, <1>5, <1>6, <1>7 DEF WorkloadStep, WNext,
     AgentInv

LEMMA ReturnsInv == AgentInv /\ RunnerReturns => AgentInv'
BY DEF AgentInv, RunnerReturns, RunnerRun, wvars, TypeOK, WorkloadTypeOK,
    PCs, Errors, EarlyErrors, LateErrors, NoError, Returned, DeliveredAt,
    StartingOnlyFirst, TerminationsAt, ErrorsAttempted, WorkloadAt,
    IsDelivered

LEMMA AgentStep == AgentInv /\ [AgentNext]_allVars => AgentInv'
<1> SUFFICES ASSUME AgentInv, [AgentNext]_allVars PROVE AgentInv'
  OBVIOUS
<1>1. CASE LifecycleStep
  BY <1>1, NewInv, StartingInv, DoneInv, TerminateInv, ReportInv,
     BestEffortInv DEF LifecycleStep
<1>2. CASE WorkloadStep
  BY <1>2, WorkloadInv
<1>3. CASE RunnerReturns
  BY <1>3, ReturnsInv
<1>4. CASE UNCHANGED allVars
  BY <1>4 DEF AgentInv, allVars, vars, wvars, TypeOK, WorkloadTypeOK,
     Returned, DeliveredAt, StartingOnlyFirst, TerminationsAt,
     ErrorsAttempted, WorkloadAt, IsDelivered
<1>5. QED
  BY <1>1, <1>2, <1>3, <1>4 DEF AgentNext

(* AgentInv holds in every state the agent reaches.                        *)
THEOREM AgentInvariant == AgentSpec => []AgentInv
BY AgentInitInv, AgentStep, PTL DEF AgentSpec

(***************************************************************************)
(* The properties the workload_agent run checks, for every NumTests.       *)
(***************************************************************************)
LEMMA InvProperties ==
    AgentInv =>
        /\ TypeOK /\ WorkloadTypeOK
        /\ ReturnedErrorReported /\ TerminatedOnce /\ OkMeansDoneDelivered
        /\ StartingFirst /\ RunHasAllPlugins /\ DoneOnlyAfterFinished
<1> SUFFICES ASSUME AgentInv
             PROVE  /\ TypeOK /\ WorkloadTypeOK
                    /\ ReturnedErrorReported /\ TerminatedOnce
                    /\ OkMeansDoneDelivered /\ StartingFirst
                    /\ RunHasAllPlugins /\ DoneOnlyAfterFinished
  OBVIOUS
<1>1. ReturnedErrorReported /\ TerminatedOnce
  BY DEF AgentInv, ErrorsAttempted, TerminationsAt, LateErrors,
     ReturnedErrorReported, TerminatedOnce
<1>2. OkMeansDoneDelivered
  <2> SUFFICES ASSUME result = "ok"
               PROVE  IsDelivered("done") /\ \A e \in Errors : ~IsDelivered(e)
    BY DEF OkMeansDoneDelivered
  <2>1. delivered = <<"starting", "done">>
    BY DEF AgentInv, DeliveredAt
  <2>2. /\ Has(<<"starting", "done">>, "done")
        /\ \A e \in Errors : ~Has(<<"starting", "done">>, e)
    BY EarlyShapes DEF Has, Errors
  <2>3. QED
    BY <2>1, <2>2, HasDef
<1>3. StartingFirst
  <2>1. delivered \in Seq(Messages) /\ StartsRight(delivered)
    BY StartsRightDef DEF AgentInv, TypeOK
  <2>2. QED
    BY <2>1 DEF StartsRight, StartingFirst
<1>4. QED
  BY <1>1, <1>2, <1>3
  DEF AgentInv, WorkloadAt, RunHasAllPlugins, DoneOnlyAfterFinished

(* agent.rs's lifecycle is well typed in every state: in particular        *)
(* runner.terminate is never called twice, and every result is Ok or one   *)
(* of the errors of error::Error.                                          *)
THEOREM LifecycleTypeCorrect == AgentSpec => []TypeOK
BY AgentInvariant, InvProperties, PTL

(* run_workload is well typed in every state: the plugin loop writes no    *)
(* more files than there are configured tests.                             *)
THEOREM WorkloadTypeCorrect == AgentSpec => []WorkloadTypeOK
BY AgentInvariant, InvProperties, PTL

(* Every error run returns after the start notification was sent to k8s    *)
(* with send_error (agent.rs run and its best-effort helpers).             *)
THEOREM ReturnedErrorReportedHolds == AgentSpec => []ReturnedErrorReported
BY AgentInvariant, InvProperties, PTL

(* Every exit path of run after the start calls runner.terminate once.     *)
THEOREM TerminatedOnceHolds == AgentSpec => []TerminatedOnce
BY AgentInvariant, InvProperties, PTL

(* run returns Ok only with the results delivered and no error delivered.  *)
THEOREM OkMeansDoneDeliveredHolds == AgentSpec => []OkMeansDoneDelivered
BY AgentInvariant, InvProperties, PTL

(* The control plane hears send_test_starting first and only once.         *)
THEOREM StartingFirstHolds == AgentSpec => []StartingFirst
BY AgentInvariant, InvProperties, PTL

(* sonobuoy run starts only with a plugin file for every configured test   *)
(* (the plugin loop of run_workload).                                      *)
THEOREM RunHasAllPluginsHolds == AgentSpec => []RunHasAllPlugins
BY AgentInvariant, InvProperties, PTL

(* send_test_done reports results only once the sonobuoy run finished.     *)
THEOREM DoneOnlyAfterFinishedHolds == AgentSpec => []DoneOnlyAfterFinished
BY AgentInvariant, InvProperties, PTL

=============================================================================
