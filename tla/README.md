# Formal models of bottlerocket-test-system

TLA+ models of the parts of this repository under `src/` that have state and
ordering to get wrong. TLC checks them on small instances. TLAPS proves their
key invariants for every value of the constants.

## 1. The system and its parts

| Part | Source | State | Operations |
|---|---|---|---|
| Test agent lifecycle | `src/agent/test-agent/src/agent.rs` | the agent's position in `new`/`run`, the status messages k8s has received, the runner | `TestAgent::new`, `run`, `send_error_best_effort`, `terminate_best_effort` |
| Workload runner | `src/bottlerocket/agents/src/workload.rs` | plugin files, the sonobuoy run in the cluster | `run_workload`, `results_workload` (also `rerun_failed_workload` and `delete_workload`, not modelled yet) |
| EKS resource provider | `src/bottlerocket/agents/src/bin/eks-resource-agent/eks_provider.rs` | the EKS cluster, the durable memo (`ProductionMemo`), the process's own memo copy | `EksCreator::create`, `EksDestroyer::destroy`, `is_eks_cluster_creation_required`, `does_cluster_exist`, `created_cluster`, `write_kubeconfig` |
| Self-test kind harness | `src/selftest/src/cluster.rs` | the kind cluster, the pods of the controller and of a test, poll loops | `Cluster::new`, `wait_for_controller`, `wait_for_test_pod`, `is_controller_running`, `is_test_running`, `Drop` |

**How the parts interact.** The control plane (not in `src/`) starts agent
pods:

- **Test agents.** A test agent reports through `Client`:
  - `send_test_starting`, then `send_test_done` or `send_error`.
  - It drives a `Runner`. The workload runner is one such runner.
- **Resource agents.** The EKS agent persists its progress as a memo in the
  resource's status via `send_info`. It reads the memo back with `get_info`,
  both when a pod restarts and when it destroys the cluster.
- **Failed sends.** A `send_*` that returns an error may still have reached
  the control plane: the patch was applied and only the answer was lost.

**The hard behaviours.**

- A pod can be killed at any await and restarted, and it then re-reads the
  memo.
- A failed send may or may not have been applied.
- `eksctl` can fail after doing part of its work.
- A restarted create meets a cluster it created itself.
- The control plane acts on the Resources classification of each error:
  - Clear: nothing to clean up.
  - Remaining: destroy will clean up.
  - Orphaned: something is left that destroy cannot remove.
  - Unknown: the state cannot be told.
- The agent may send several outcome notifications for one run.
- The results wait has no deadline.

## 2. Modules

| Module | Models | Notes |
|---|---|---|
| `EksProvider` | `EksCreator::create` and `EksDestroyer::destroy` as one step per code segment between two awaits | Create and destroy processes are run one after the other by an environment that can kill them at any step (`Crash`). |
| `EksProviderProofs` | TLAPS proofs about `EksProvider` | |
| `MCEksProvider` | all three creation policies, at most 4 processes | |
| `TestAgent` | `agent.rs`, one action per awaited call and outcome | |
| `Workload` | `run_workload` and `results_workload` | |
| `WorkloadAgent` | composes `TestAgent` and `Workload` | `Runner::run` of the test agent is the whole of `Workload`. `RunnerReturns` passes its result back: run returns Ok exactly when `run_workload` did. |
| `MCWorkloadAgent` | two configured tests | |
| `WorkloadAgentProofs` | TLAPS proofs about `WorkloadAgent` | |
| `LifecycleContract` | what the agent lifecycle promises the control plane (spec §4.1), abstractly | Variables `notified`, `operation`, `released`, `outcome`. `Start` and `Abort` begin or end the run; `Launch` and `Complete` move the operation, only after "starting" and before the release; `ReportResults` sends results once, right after "starting", for a finished operation; `ReportFailure` sends a late failure; `Release`, `Succeed` and `Fail` release the executor and return. |
| `AgentRefinementProofs` | TLAPS proof that `WorkloadAgent` implements `LifecycleContract` | |
| `ProvisioningContract` | what the EKS provider promises, abstractly | Variables `cluster` and `tracked`. `Track` records that provisioning may start, `Provision` creates a cluster only when tracked and none exists, `Remove` deletes only the agent's own cluster. |
| `EksRefinementProofs` | TLAPS proof that `EksProvider` implements `ProvisioningContract`, and of `ForeignClusterKept` and `MemoMonotonic` | |
| `ClusterDnsIp` | `cluster_dns_ip` and `service_ip_cidr_to_cluster_dns_ip` on text | Text is a sequence of characters (hex digit values, `Dot`, `Colon`, `Slash`); `str::split` and `join` are `StrSplit` and `StrJoin`. One action applies the function to a chosen `DescribeCluster` network config. |
| `MCClusterDnsIp` | 4 IPv4 addresses x 5 prefixes (and the same with three components); 128 IPv6 addresses x 2 prefixes | The IPv6 addresses zero every subset of seven groups, so RFC 5952 text with `::` at the start, middle and end occurs. |
| `SelfTestWait` | `wait_for_controller` and `wait_for_test_pod` with their loops and predicates | `wpc` is the loop's position (`check`, `listing`, `sleep`, `done`); `clock` counts 750 ms sleeps; `phase` is each pod's status. `Answer` is the awaited list: an error ends the wait (`?`), else the predicate returns Ok or sleeps. `Timeout` drops the loop at the deadline. The cluster creates a pod once the earlier ones failed, starts it and may fail it. |
| `MCSelfTestWait` | two pods listed as `<<p2, p1>>`, deadline 4 ticks | |
| `SelfTestWaitProofs` | TLAPS proofs about `SelfTestWait` | |

### EksProvider: state and actions

**Variables**

| Variable | Meaning |
|---|---|
| `cluster` | `"None"`, `"Foreign"` (existed before any agent ran: `IfNotExists`/`Never` reuse it), or `"Ours"` (created by eksctl here) |
| `stored` | the durable memo, abstracted to `started` (`provisioning_started`) and `named` (`cluster_name` and `region` set) |
| `memo` | the running process's copy of the memo |
| `pc` | the current step |
| `doCreate` | the creation decision |
| `policy` | the creation policy from the config |
| `last` | the last process's outcome: operation, ok, classification |
| `runs` | processes started so far, bounded by `MaxRuns` |

**Building blocks**

- **`Checkpoint(from, to, m, cls)`** is every `client.send_info(memo.clone())`:
  - On success the whole copy `m` becomes durable.
  - On failure it may or may not have been applied, and create returns the
    error with the line's classification.
- **`Attempt`** is a fallible call with no durable effect:
  - `ClusterConfig::new`
  - `aws_config`
  - `write_kubeconfig`
- **`CreationRequired`** is the decision table of `is_cluster_creation_required`.
  That function is in the bottlerocket_agents library, which is not under
  `src/`, so it is modelled from the spec.
- **`ClusterExists`** is `does_cluster_exist`.

**Crashes and eksctl failures**

- `CreateEksctl` can fail after creating the cluster.
- `DestroyEksctlDelete` can fail after deleting it.
- `Crash` kills the process at any step. Inside eksctl, the cluster may
  already have been created or deleted (`ClusterAfterCrash`).

### TestAgent

Each action is one awaited call, either succeeding or failing with the error
of that call:

- `New`
- `SendTestStarting`
- `RunnerRun`
- `SendTestDone`
- `Terminate`

The error paths are separate actions:

- `ReportThenTerminate`: `send_error_best_effort` followed by `terminate_best_effort`.
- `TerminateBestEffort` and `ReportTerminateError`: the inside of `terminate_best_effort`.
- `ReportThenReturn`: a failed terminate after a successful test.

`delivered` is the sequence of messages k8s received. A failed send is
appended or not (`FailedSend`).

### Workload

`wpc` follows `run_workload`:

1. The plugin loop (`GenPlugin`, one iteration per step).
2. `sonobuoy run`. If it exits non-zero it may still have started the
   workload.
3. The status wait under the 900 s timeout. On a timeout the workload is left
   running.
4. The results wait.
5. `sonobuoy retrieve`, then status parsing.

## 3. Runs

| Run | Config | Expect | Shows |
|---|---|---|---|
| eks_safety | `MCEksProvider.cfg` | pass | See "eks_safety" below. |
| eks_clear_leak | `EksClearLeak.cfg` | violation | Finding 1. |
| eks_remaining_unfindable | `EksRemainingUnfindable.cfg` | violation | Finding 2. |
| workload_agent | `MCWorkloadAgent.cfg` | pass | See "workload_agent" below. |
| agent_conflicting_outcomes | `AgentConflictingOutcomes.cfg` | violation | Finding 3. |
| agent_two_best_effort | `AgentTwoBestEffort.cfg` | violation | Finding 4. |
| selftest_wait | `MCSelfTestWait.cfg` | pass | See "selftest_wait" below. |
| controller_wait_misses_running | `ControllerWaitMissesRunning.cfg` | violation | Finding 5. |
| test_wait_misses_running | `TestWaitMissesRunning.cfg` | violation | Finding 6. |
| dns_ip_reference | `MCClusterDnsIp.cfg` | pass | See "dns_ip_reference" below. |

### eks_safety

The run covers crashes, failed and half-applied memo writes, and restarts,
under every policy. It checks:

- `FlagBeforeCreate`: an agent-created cluster always has
  `provisioning_started` durably stored.
- `FlagInv`: the inductive invariant behind `FlagBeforeCreate`.
- `ForeignClusterKept`: a pre-existing cluster is never deleted.
- `DestroyOkMeansGone`: a destroy that returned Ok leaves none of our cluster.
- `CreateOkIsDestroyable`: a create that returned Ok has a named memo and a
  cluster.
- `MemoMonotonic`: the durable memo never loses `started` or `named`, even
  though processes write back whole copies.
- `RefInv`: the invariant the refinement rests on (see section 5).
- `ContractSpec`: the provider implements `ProvisioningContract` under the
  mapping `cluster <- cluster`, `tracked <- stored.started`. Every step of
  the provider is a `Track` (a checkpoint makes `provisioning_started`
  durable), a `Provision` (eksctl create), a `Remove` (eksctl delete) or
  leaves both unchanged.

### selftest_wait

With `Target = "controller"`, it checks:

- `WaitEnds`: every wait ends, with Ok, an error or the timeout, whatever
  the pods do. The loop retries a false answer forever; only the timeout
  bounds it.
- `OkMeansSawRunning`: the wait returns Ok only after a check that saw a
  controller pod running. Before the Deployment creates a pod the list is
  empty. Without the `is_empty` check (`cluster.rs:116`), the `for` loop over
  no pods would return true and the wait would succeed with nothing running.
- `WaitTypeOK`: the clock never passes the deadline.

### dns_ip_reference

`DnsIpMatchesReference` compares the derived text with a reference that
parses it back into an address. For every service CIDR an EKS cluster can
have (an IPv4 network of /12 to /24, an IPv6 /108 network), the derived
address is the network address plus 10. A missing family, a missing CIDR
and an IPv4 CIDR with other than four components give an error. Other
inputs (a /28 whose network does not end in a zero byte, an IPv6 /64) are
only required not to crash: the code gives a wrong address there, which EKS
never hands out.

### workload_agent

The run checks:

- `ReturnedErrorReported`: every error returned after the start is sent.
- `TerminatedOnce`: the runner is terminated exactly once.
- `OkMeansDoneDelivered`: Ok means the results were delivered and no error was.
- `StartingFirst`: "starting" is delivered first.
- `RunHasAllPlugins`: sonobuoy runs with every plugin.
- `DoneOnlyAfterFinished`: results are reported only after sonobuoy finished.
- `AgentInv`: the inductive invariant behind the properties above (see
  section 5).
- `LifecycleSpec`: the agent implements `LifecycleContract` under the
  mapping `notified <- delivered`, `operation <- workload`,
  `released <- (terminations = 1)`, `outcome <- result`, with the early and
  late errors as the contract's two sets of failures. Every step of
  `agent.rs` and `run_workload` is one of the contract's steps or leaves the
  four mapped values unchanged.

### Bounds

**EKS.** `MaxRuns = 4` allows, for example:

- a create that crashes inside eksctl;
- a restarted create that finds its own cluster;
- a destroy;
- a second destroy.

Every finding's trace needs at most 3 runs. Every policy and both initial
clusters are enumerated.

**Self-test wait.** Two pods are enough for a failed pod and its
replacement to be listed together, in both list orders relative to
creation. Four ticks let the replacement be created and start before the
deadline, with checks before and after.

**DNS IP.** The inputs cover both families, the fallback of an unknown
family to IPv4, missing CIDRs, three-component CIDRs, and IPv6 text with and
without `::` in every position.

**Workload.** `NumTests = 2` exercises the first, a middle and the last
iteration of the plugin loop.

Every action and disjunct fires in the pass runs. The mutants in
`PROJECT.json` each break one property, so no property holds only by the
shape of the model.

### Fairness

- `AgentSpec` and `TestAgent`'s `Spec` assume no fairness, and the agent
  runs check safety only. Whether the agent always returns depends on
  `wait_for_sonobuoy_results` (`workload.rs:106`). That wait has no
  deadline, and its body is not in this repository. A liveness property
  would hold only because the model lets the wait return, so none is
  stated. The hazard list records this.
- The EKS run checks safety only, so `Spec` has no fairness.
- `SelfTestWait` assumes weak fairness of the wait (`WaitNext`): the wait
  is one tokio task polled whenever it is ready, and tokio's timer wheel
  keeps advancing, so a sleep ends and the timeout fires. The pods
  (`ClusterStep`) get no fairness: the wait must end whatever they do.
  `CHECK_DEADLOCK FALSE` is set because a wait that returned stops.

`CHECK_DEADLOCK FALSE` holds in both pass runs. The EKS run stops because the
control plane starts no further process after `MaxRuns`. The agent run stops
because the agent's process exits.

## 4. Findings (violation runs)

1. **eksctl failures classified Clear** (`eks_provider.rs:407`). Every eksctl
   failure is Clear, yet it happens after `provisioning_started` and can leave
   our cluster behind. Two other paths give the same result:
   - `destroy`'s `aws_config` failure (line 1072);
   - a restarted create under policy Create that meets its own cluster.
2. **The cluster name is recorded last** (`eks_provider.rs:597`).
   `cluster_name` is recorded only in the final checkpoint. A failure
   classified Remaining, or a crash, between eksctl and that checkpoint leaves
   a memo with `provisioning_started` set and no name. `destroy` then returns
   Unknown without trying to delete (lines 1053-1061).
3. **Conflicting outcomes** (`agent.rs:69` and `agent.rs:83`). The control
   plane can receive both the results and an error, on two paths:
   - `send_test_done` returns an error after its status patch was applied,
     and `run` then calls `send_error` (lines 63-69). TLC's trace takes this
     path.
   - terminate fails after `send_test_done` succeeded, and the agent sends
     that error (line 83). The spec's §4.1 asks for this.

   The spec's §8 forbids conflicting outcome notifications.
4. **Two best-effort notifications** (`agent.rs:57` and `agent.rs:110`). A
   runner failure followed by a terminate failure sends two best-effort error
   notifications.
5. **A failed controller pod blocks the controller wait** (`cluster.rs:119`).
   `is_controller_running` is false as soon as any listed pod is not Running.
   A failed or evicted pod stays listed after the Deployment replaced it, so
   the wait times out with the controller running. In TLC's trace p1 fails
   and its replacement p2 runs; both are listed, and every check is false. The doc comment (line 127)
   says it times out only if the controller is not running.
6. **Only the first test pod is looked at** (`cluster.rs:162`).
   `is_test_running` inspects the first pod of the list. When the Job's first
   listed pod failed and its retry runs, the wait times out.

## 5. What is proved

Five modules hold proofs; `tlapm` checks every step. Each safety theorem
has the form `Spec => []P` and rests on an inductive invariant `I`: `Init`
implies `I`, `I /\ [Next]_vars` implies `I'`, and `I` implies `P`. Each `I`
was checked by TLC as an invariant of the module's run before it was proved.
The step lemma has one case per action, and under it one step per conjunct
the action can change.

**`EksProviderProofs`**, for any `Policies \subseteq {"Create","IfNotExists","Never"}`
and any `MaxRuns \in Nat`:

- **`TypeCorrect`: `Spec => []TypeOK`.** No plausible bug in
  `eks_provider.rs` breaks this type invariant, so the `eks_safety` run does
  not check it; the theorem covers every constant. `TypeStep` proves one
  case per action. Lemmas for the building blocks `Return`, `Attempt` and
  `Checkpoint` cover the shared parts.
- **`FlagInvHolds` and `FlagBeforeCreateHolds`.** `FlagBeforeCreate` is not
  inductive. Two things could break it:
  - The step at `c_eksctl` creates the cluster. It is only safe if the flag
    is already durable at that location: conjunct 4 of `FlagInv`.
  - Every checkpoint writes the whole process copy back. It must not erase a
    durable flag, so the process copy may not be behind the durable one
    during create: conjunct 3.
- **`DestroyOkMeansGoneHolds` and `CreateOkIsDestroyableHolds`**, from the
  inductive invariant `OutcomeInv` (`OutcomeStep`), defined in the proof
  module. `OutcomeInv` adds to `FlagInv` that a create
  at `c_ready` has a cluster. Two steps carry the argument:
  - Destroy's `DestroyGetInfo` returns Ok without deleting when the memo
    copy is unstarted. This is safe only because no cluster of ours exists
    then, which is `FlagBeforeCreate`.
  - Create's `CreateSendClusterReady` returns Ok only after the name was
    stored, and the cluster exists since `c_ready`.

**`EksRefinementProofs`**, for the same constants:

- **`RefInvHolds` and `Refinement`: `Spec => ContractSpec`.** The argument:
  - `RefInit`: an initial state maps to an initial state of the contract.
  - `RefInv` is inductive (`RefStep`). It strengthens `FlagInv` with three
    facts the mapping needs: a foreign cluster means no process ever
    started provisioning; at `c_creating` and `c_eksctl` the process decided
    to create; at `d_awscfg` and `d_eksctl` its memo copy says started.
  - `StepRefines`: under `RefInv`, every step maps to `Track`, `Provision`,
    `Remove` or a stutter. Eksctl create is a `Provision` because the flag is
    durable then (`FlagInv`), and the cluster was `None` because create
    decided to create. Eksctl delete is a `Remove` because the cluster is
    never foreign after a process started.
- **`ForeignKept`: `Spec => ForeignClusterKept`**, from `StepRefines`: no
  action of the contract changes a foreign cluster.
- **`MemoMonotonicHolds`: `Spec => MemoMonotonic`.** It needs `CopyCurrent`
  with `FlagInv`: after `c_get`, a create's memo copy has the name whenever
  the durable memo has it. So a checkpoint that writes the copy back cannot
  erase it.

**`WorkloadAgentProofs`**, for any `NumTests \in Nat`:

- **`AgentInvariant`: `AgentSpec => []AgentInv`**, and from it
  `LifecycleTypeCorrect` (`TypeOK`), `WorkloadTypeCorrect`,
  `ReturnedErrorReportedHolds`, `TerminatedOnceHolds`,
  `OkMeansDoneDeliveredHolds`, `StartingFirstHolds`, `RunHasAllPluginsHolds`
  and `DoneOnlyAfterFinishedHolds`. The properties speak only of the final
  state, so `AgentInv` records where the agent is along `run` for every
  location. Its parts:
  - `Returned`: the agent has a result exactly when it is at `exit`.
  - `DeliveredAt`: the sequence delivered to the control plane at each
    location: empty before the start, `<<"starting">>` during the run,
    `<<"starting","done">>` after the results were sent.
  - `StartingOnlyFirst`: "starting" is only ever the first delivery.
  - `TerminationsAt`: `runner.terminate` was called 0 times before the
    terminate locations and once after them.
  - `ErrorsAttempted`: on the error path after the start, the error is a late
    one and has been passed to `send_error` before the agent returns it.
  - `WorkloadAt`: where `run_workload` is. No sonobuoy run exists before
    `sonobuoy run`; a plugin file exists for every test once sonobuoy runs; the workload is finished when its results are
    read; its result is set exactly when it returned.

  Sequence facts (`Append(<<"starting">>, "done")` and the like) are proved
  once, as lemmas from `SequenceTheorems`, and cited by name.

**`AgentRefinementProofs`**, for any `NumTests \in Nat`:

- **`LifecycleRefinement`: `AgentSpec => LifecycleSpec`.** The argument:
  - `InitRefines`: the initial state maps to the contract's initial state.
  - `StepRefines`: under `AgentInv`, every step maps to a contract step or
    a stutter. There is one lemma per group of steps. `AgentInv` supplies
    the guards: at `run`, delivered is `<<"starting">>` and terminate was
    not called; at `done` the sonobuoy run is finished; at `terminate`
    delivered is `<<"starting","done">>`; on every error path the error is
    a late one and delivered is not empty. A failed send that did not
    arrive is a stutter, and one that did arrive is the contract's send.
  - `AgentInvariant` makes `AgentInv` hold in every state.
  - PTL combines these.

  `WorkloadAt` was widened to say that no sonobuoy run exists while
  `run_workload` is at `run`. Without that conjunct the proof could not show
  that `sonobuoy run` is a `Launch`. TLC checked the widened invariant first.

**`SelfTestWaitProofs`**, for any pods, list order, target and
`Deadline \in Nat`:

- **`WaitTypeCorrect`: `Spec => []WaitTypeOK`**: among others, the clock
  never passes the deadline.

**Only model-checked, and why.**

- `WaitEnds` is a liveness property under weak fairness. TLAPS here cannot
  prove liveness or reason about `ENABLED`.
- `OkMeansSawRunning` needs to know that the pods `Listed` returns are pods
  of the component that exist. `Listed` is a `SelectSeq`, and the library
  has no theorems about `SelectSeq`. Proving facts about it needs induction
  over the sequence, which the installed provers cannot do.
- `DnsIpMatchesReference` states what recursive functions over text compute
  for every input. That needs induction over data, which the installed
  provers cannot do (the induction theorems take an operator parameter).
  TLC checks it on the bounded inputs of section 3.
- Every other invariant of a pass run is stated by a theorem above.

## 6. Not modelled, and the plan

**Not modelled**

- **The rest of `cluster.rs`**: `Cluster::new`, `Drop`, `load_image`,
  `get_internal_kubeconfig` and the resource-provider checks shell out to
  `kind` or only read kubeconfigs. They are pure I/O.
- **`create_yaml`**, which formats a config file.
- **`nodegroup_iam_role`**, which pages through the API. It is abstracted
  into the fallible `CreateCollectInfo`.
- **The rest of `workload.rs`:** `rerun_failed_workload` and
  `delete_workload`. Their callers are not under `src/`.
- **Code outside `src/`:**
  - the control plane and resource-agent framework (only the environment
    actions `StartCreate` and `StartDestroy` stand for them);
  - the Info client (modelled by its effect on `stored`);
  - Kubernetes itself, which creates, starts and fails the pods in
    `SelfTestWait`.

**Plan for later sittings, in order**

1. `rerun_failed_workload` and `delete_workload`, added to `Workload`.
2. The waits of `SelfTestWait` composed with a model of the self-tests that
   call them.
