------------------------------ MODULE Workload ------------------------------
(***************************************************************************)
(* run_workload of workload.rs: the Runner::run of the workload test       *)
(* agent.  It generates one sonobuoy plugin file per configured test,      *)
(* starts sonobuoy with all of them, waits (under a 900 s timeout) for its *)
(* status, waits for its results, and retrieves and parses them            *)
(* (results_workload).  Each `sonobuoy` command may fail to spawn or exit  *)
(* non-zero, and each failure ends run_workload with an error.  The        *)
(* cluster side is the sonobuoy workload in namespace testsys-workload.    *)
(***************************************************************************)
EXTENDS Naturals

CONSTANT NumTests   \* workload_config.tests.len()

ASSUME NumTestsAssumption == NumTests \in Nat

VARIABLES
    wpc,        \* where run_workload is
    plugins,    \* plugin yaml files written so far (tests 1..plugins)
    workload,   \* the sonobuoy run in the cluster
    wresult     \* what run_workload returned

wvars == <<wpc, plugins, workload, wresult>>

WPCs == {"idle", "gen", "run", "status", "results", "retrieve", "parse",
         "returned"}

WorkloadTypeOK ==
    /\ wpc \in WPCs
    /\ plugins \in 0..NumTests
    /\ workload \in {"absent", "running", "finished"}
    /\ wresult \in {"none", "ok", "error"}

WInit ==
    /\ wpc = "idle"
    /\ plugins = 0
    /\ workload = "absent"
    /\ wresult = "none"

WReturn(r) == wpc' = "returned" /\ wresult' = r

\* Runner::run is called.
StartRunWorkload ==
    /\ wpc = "idle"
    /\ wpc' = "gen"
    /\ UNCHANGED <<plugins, workload, wresult>>

\* Mutant: the loop does not stop after the last configured test.
GenPluginNoBound ==
    /\ wpc = "gen"
    /\ \/ /\ \/ plugins' = plugins + 1 /\ UNCHANGED <<wpc, wresult>>
             \/ WReturn("error") /\ UNCHANGED plugins
       \/ /\ plugins = NumTests
          /\ wpc' = "run" /\ UNCHANGED <<plugins, wresult>>
    /\ UNCHANGED workload

\* Mutant: the loop stops one test early.
GenPluginOffByOne ==
    /\ wpc = "gen"
    /\ \/ /\ plugins + 1 < NumTests
          /\ \/ plugins' = plugins + 1 /\ UNCHANGED <<wpc, wresult>>
             \/ WReturn("error") /\ UNCHANGED plugins
       \/ /\ plugins + 1 >= NumTests
          /\ wpc' = "run" /\ UNCHANGED <<plugins, wresult>>
    /\ UNCHANGED workload

(* One iteration of the plugin loop: `sonobuoy gen plugin`, its status     *)
(* checked, its stdout written to <name>-plugin.yaml.  The loop ends after *)
(* the last configured test.                                               *)
GenPlugin ==
    /\ wpc = "gen"
    /\ \/ /\ plugins < NumTests
          /\ \/ plugins' = plugins + 1 /\ UNCHANGED <<wpc, wresult>>
             \/ WReturn("error") /\ UNCHANGED plugins
       \/ /\ plugins = NumTests
          /\ wpc' = "run" /\ UNCHANGED <<plugins, wresult>>
    /\ UNCHANGED workload

(* `sonobuoy run` with every generated plugin.  Exiting non-zero may still *)
(* have created the sonobuoy resources.                                    *)
SonobuoyRun ==
    /\ wpc = "run"
    /\ \/ workload' = "running" /\ wpc' = "status" /\ UNCHANGED wresult
       \/ workload' \in {workload, "running"} /\ WReturn("error")
    /\ UNCHANGED plugins

(* tokio::time::timeout around wait_for_sonobuoy_status: the status turns  *)
(* up, the wait fails, or the 900 s elapse; the workload keeps running in  *)
(* the cluster after a timeout.                                            *)
WaitForStatus ==
    /\ wpc = "status"
    /\ \/ wpc' = "results" /\ UNCHANGED wresult
       \/ WReturn("error")
    /\ UNCHANGED <<plugins, workload>>

\* Mutant: the results are retrieved without waiting for sonobuoy.
WaitForResultsNoWait ==
    /\ wpc = "results"
    /\ \/ wpc' = "retrieve" /\ UNCHANGED wresult
       \/ WReturn("error")
    /\ UNCHANGED <<plugins, workload>>

\* wait_for_sonobuoy_results: returns once sonobuoy finished, or fails.
WaitForResults ==
    /\ wpc = "results"
    /\ \/ /\ workload = "running"
          /\ workload' = "finished" /\ wpc' = "retrieve"
          /\ UNCHANGED wresult
       \/ WReturn("error") /\ UNCHANGED workload
    /\ UNCHANGED plugins

\* results_workload: `sonobuoy retrieve`, its status checked.
RetrieveResults ==
    /\ wpc = "retrieve"
    /\ \/ wpc' = "parse" /\ UNCHANGED wresult
       \/ WReturn("error")
    /\ UNCHANGED <<plugins, workload>>

(* results_workload: `sonobuoy status --json`, parsed as JSON, then        *)
(* process_sonobuoy_test_results.                                          *)
ParseResults ==
    /\ wpc = "parse"
    /\ \/ WReturn("ok")
       \/ WReturn("error")
    /\ UNCHANGED <<plugins, workload>>

WNext ==
    \/ StartRunWorkload \/ GenPlugin \/ SonobuoyRun \/ WaitForStatus
    \/ WaitForResults \/ RetrieveResults \/ ParseResults

=============================================================================
