---------------------------- MODULE EksProvider ----------------------------
(***************************************************************************)
(* The EKS resource provider of eks_provider.rs: EksCreator::create and    *)
(* EksDestroyer::destroy, run by successive agent processes against one    *)
(* durable memo (the ProductionMemo kept by the control plane and reached  *)
(* through InfoClient::get_info / send_info) and one EKS cluster.          *)
(*                                                                         *)
(* create and destroy are async handlers that await on every send_info and *)
(* on every external call; a pod can die at any of these points.  Each     *)
(* action is therefore one stretch of a handler between two such points,   *)
(* and Crash ends the running process anywhere.  A failing step returns    *)
(* the ProviderError with the Resources classification the code attaches   *)
(* at that line.  The memo is abstracted to the two fields destroy reads   *)
(* to decide what to do: provisioning_started and whether cluster_name     *)
(* (with region, written in the same step) is recorded.                    *)
(***************************************************************************)
EXTENDS Naturals

CONSTANTS
    Policies,   \* creation policies the spec may carry (CreationPolicy)
    MaxRuns     \* bound on agent processes the control plane starts

ASSUME PoliciesAssumption == Policies \subseteq {"Create", "IfNotExists", "Never"}
ASSUME MaxRunsAssumption == MaxRuns \in Nat

VARIABLES
    cluster,    \* the EKS cluster: "None", "Foreign" (existed before) or "Ours"
    stored,     \* the durable memo held by the control plane
    memo,       \* the running process's copy of the memo
    pc,         \* where the running process is; "Idle" when none runs
    doCreate,   \* create's local do_create, from is_eks_cluster_creation_required
    policy,     \* spec.configuration.creation_policy of this resource
    last,       \* the outcome the last finished process returned
    runs        \* agent processes started so far

vars == <<cluster, stored, memo, pc, doCreate, policy, last, runs>>

Classifications == {"Clear", "Remaining", "Orphaned", "Unknown"}

\* ProductionMemo, abstracted to the fields destroy decides on.
Memos == [started : BOOLEAN, named : BOOLEAN]
DefaultMemo == [started |-> FALSE, named |-> FALSE]

\* The outcome of a finished create or destroy call.
Outcomes == [op : {"create", "destroy"}, ok : BOOLEAN,
             cls : Classifications \cup {"none"}]
NoOutcome == [op |-> "none", ok |-> FALSE, cls |-> "none"]

CreateSteps == {"c_get", "c_init", "c_config", "c_secret", "c_awsmemo",
                "c_awscfg", "c_state", "c_determine", "c_decision",
                "c_creating", "c_eksctl", "c_created", "c_kcsend",
                "c_kubeconfig", "c_collectsend", "c_collect", "c_ready"}
DestroySteps == {"d_get", "d_awscfg", "d_eksctl"}

TypeOK ==
    /\ cluster \in {"None", "Foreign", "Ours"}
    /\ stored \in Memos
    /\ memo \in Memos
    /\ pc \in {"Idle"} \cup CreateSteps \cup DestroySteps
    /\ doCreate \in BOOLEAN
    /\ policy \in Policies
    /\ last \in Outcomes \cup {NoOutcome}
    /\ runs \in 0..MaxRuns

Init ==
    /\ cluster \in {"None", "Foreign"}
    /\ stored = DefaultMemo
    /\ memo = DefaultMemo
    /\ pc = "Idle"
    /\ doCreate = FALSE
    /\ policy \in Policies
    /\ last = NoOutcome
    /\ runs = 0

(***************************************************************************)
(* Building blocks.  Return ends the handler with its result; the process  *)
(* then exits, so its local state is gone.                                 *)
(***************************************************************************)
Return(op, ok, cls) ==
    /\ pc' = "Idle"
    /\ memo' = DefaultMemo
    /\ doCreate' = FALSE
    /\ last' = [op |-> op, ok |-> ok, cls |-> cls]

\* A fallible step with no durable effect: `?` with .context(cls, ..).
Attempt(from, to, op, cls) ==
    /\ pc = from
    /\ \/ /\ pc' = to
          /\ UNCHANGED <<memo, doCreate, last>>
       \/ Return(op, FALSE, cls)
    /\ UNCHANGED <<cluster, stored, policy, runs>>

(* memo is set to m and client.send_info(memo.clone()) is awaited.  The    *)
(* write may fail before or after the control plane applied it; either way *)
(* the error is returned with classification cls.                          *)
Checkpoint(from, to, m, cls) ==
    /\ pc = from
    /\ \/ /\ stored' = m
          /\ memo' = m
          /\ pc' = to
          /\ UNCHANGED <<doCreate, last>>
       \/ /\ stored' \in {stored, m}
          /\ Return("create", FALSE, cls)
    /\ UNCHANGED <<cluster, policy, runs>>

(***************************************************************************)
(* The control plane starts an agent process for create or destroy.        *)
(***************************************************************************)
\* Mutant: the bound on agent processes is not checked.
StartCreate ==
    /\ pc = "Idle" /\ runs < MaxRuns
    /\ pc' = "c_get" /\ runs' = runs + 1
    /\ UNCHANGED <<cluster, stored, memo, doCreate, policy, last>>

StartDestroy ==
    /\ pc = "Idle" /\ runs < MaxRuns
    /\ pc' = "d_get" /\ runs' = runs + 1
    /\ UNCHANGED <<cluster, stored, memo, doCreate, policy, last>>

(***************************************************************************)
(* EksCreator::create                                                      *)
(***************************************************************************)
\* Mutant: a failed get_info is taken as a fresh default memo.
CreateGetInfoDefaultOnError ==
    /\ pc = "c_get"
    /\ \/ /\ memo' \in {stored, DefaultMemo} /\ pc' = "c_init"
          /\ UNCHANGED <<doCreate, last>>
       \/ Return("create", FALSE, "Clear")
    /\ UNCHANGED <<cluster, stored, policy, runs>>

CreateGetInfo ==
    /\ pc = "c_get"
    /\ \/ /\ memo' = stored /\ pc' = "c_init"
          /\ UNCHANGED <<doCreate, last>>
       \/ Return("create", FALSE, "Clear")
    /\ UNCHANGED <<cluster, stored, policy, runs>>

CreateSendInitializing == Checkpoint("c_init", "c_config", memo, "Clear")
CreateClusterConfig == Attempt("c_config", "c_secret", "create", "Clear")
CreateSendGettingSecret == Checkpoint("c_secret", "c_awsmemo", memo, "Clear")
CreateSendCreatingAwsConfig == Checkpoint("c_awsmemo", "c_awscfg", memo, "Clear")
CreateAwsConfig == Attempt("c_awscfg", "c_state", "create", "Clear")
CreateSendDeterminingState == Checkpoint("c_state", "c_determine", memo, "Clear")

(* is_cluster_creation_required: whether the policy asks for a cluster to  *)
(* be created, and whether the combination is an error.                    *)
CreationRequired(exists) ==
    CASE policy = "Create"      -> IF exists THEN "error" ELSE "create"
      [] policy = "IfNotExists" -> IF exists THEN "use" ELSE "create"
      [] policy = "Never"       -> IF exists THEN "use" ELSE "error"

(* does_cluster_exist: describe_cluster succeeds (TRUE) or fails with      *)
(* ResourceNotFoundException (FALSE); any other error is returned, Clear.  *)
ClusterExists == cluster # "None"

\* is_eks_cluster_creation_required: does_cluster_exist, then the policy.
CreateDetermineState ==
    /\ pc = "c_determine"
    /\ LET decision == CreationRequired(ClusterExists) IN
       \/ /\ decision # "error"
          /\ doCreate' = (decision = "create")
          /\ pc' = "c_decision"
          /\ UNCHANGED <<memo, last>>
       \/ Return("create", FALSE, "Clear")
    /\ UNCHANGED <<cluster, stored, policy, runs>>

CreateSendDecision ==
    Checkpoint("c_decision", IF doCreate THEN "c_creating" ELSE "c_kcsend",
               memo, "Clear")

\* Mutant: provisioning_started is not set before eksctl runs.
CreateSendCreatingClusterNoFlag ==
    Checkpoint("c_creating", "c_eksctl", memo, "Clear")

\* provisioning_started is checkpointed before eksctl is run.
CreateSendCreatingCluster ==
    Checkpoint("c_creating", "c_eksctl",
               [memo EXCEPT !.started = TRUE], "Clear")

(* ClusterConfig::create_cluster: create_yaml, then `eksctl create         *)
(* cluster`.  A failing eksctl may leave a partly created cluster behind;  *)
(* every error is classified Clear.                                        *)
CreateEksctl ==
    /\ pc = "c_eksctl"
    /\ \/ /\ cluster' = "Ours"
          /\ pc' = "c_created"
          /\ UNCHANGED <<memo, doCreate, last>>
       \/ /\ cluster' \in {cluster, "Ours"}
          /\ Return("create", FALSE, "Clear")
    /\ UNCHANGED <<stored, policy, runs>>

CreateSendCreationComplete == Checkpoint("c_created", "c_kcsend", memo, "Remaining")
CreateSendWritingKubeconfig == Checkpoint("c_kcsend", "c_kubeconfig", memo, "Remaining")
CreateWriteKubeconfig == Attempt("c_kubeconfig", "c_collectsend", "create", "Remaining")
CreateSendCollectingInfo == Checkpoint("c_collectsend", "c_collect", memo, "Remaining")

\* created_cluster: describe_cluster and the lookups it feeds need a cluster.
CreateCollectInfo ==
    /\ pc = "c_collect"
    /\ \/ /\ cluster # "None"
          /\ pc' = "c_ready"
          /\ UNCHANGED <<memo, doCreate, last>>
       \/ Return("create", FALSE, "Remaining")
    /\ UNCHANGED <<cluster, stored, policy, runs>>

\* Mutant: the error of the last send_info is ignored.
CreateSendClusterReadyIgnoreError ==
    /\ pc = "c_ready"
    /\ LET m == [memo EXCEPT !.named = TRUE] IN
       /\ stored' \in {stored, m}
       /\ Return("create", TRUE, "none")
    /\ UNCHANGED <<cluster, policy, runs>>

\* cluster_name and region enter the memo only in this last checkpoint.
CreateSendClusterReady ==
    /\ pc = "c_ready"
    /\ LET m == [memo EXCEPT !.named = TRUE] IN
       \/ /\ stored' = m
          /\ Return("create", TRUE, "none")
       \/ /\ stored' \in {stored, m}
          /\ Return("create", FALSE, "Remaining")
    /\ UNCHANGED <<cluster, policy, runs>>

(***************************************************************************)
(* EksDestroyer::destroy                                                   *)
(***************************************************************************)
\* Mutant: destroy does not check provisioning_started.
DestroyGetInfoNoStartedGuard ==
    /\ pc = "d_get"
    /\ \/ Return("destroy", FALSE, "Remaining")
       \/ /\ ~stored.named
          /\ Return("destroy", FALSE, "Unknown")
       \/ /\ stored.named
          /\ memo' = stored /\ pc' = "d_awscfg"
          /\ UNCHANGED <<doCreate, last>>
    /\ UNCHANGED <<cluster, stored, policy, runs>>

DestroyGetInfo ==
    /\ pc = "d_get"
    /\ \/ Return("destroy", FALSE, "Remaining")
       \/ /\ ~stored.started
          /\ Return("destroy", TRUE, "none")
       \/ /\ stored.started /\ ~stored.named
          /\ Return("destroy", FALSE, "Unknown")
       \/ /\ stored.started /\ stored.named
          /\ memo' = stored /\ pc' = "d_awscfg"
          /\ UNCHANGED <<doCreate, last>>
    /\ UNCHANGED <<cluster, stored, policy, runs>>

DestroyAwsConfig == Attempt("d_awscfg", "d_eksctl", "destroy", "Clear")

\* Mutant: the exit status of eksctl delete is not checked.
DestroyEksctlDeleteIgnoreStatus ==
    /\ pc = "d_eksctl"
    /\ \/ /\ cluster' \in {cluster, "None"}
          /\ Return("destroy", TRUE, "none")
       \/ /\ UNCHANGED cluster
          /\ Return("destroy", FALSE, "Remaining")
    /\ UNCHANGED <<stored, policy, runs>>

(* `eksctl delete cluster`: a spawn failure is Remaining, a failed status  *)
(* Orphaned.  On success the "Cluster deleted" memo is sent best effort;   *)
(* it changes no field the model keeps, and its error is only logged.      *)
DestroyEksctlDelete ==
    /\ pc = "d_eksctl"
    /\ \/ /\ cluster' = "None"
          /\ Return("destroy", TRUE, "none")
       \/ /\ UNCHANGED cluster
          /\ Return("destroy", FALSE, "Remaining")
       \/ /\ cluster' \in {cluster, "None"}
          /\ Return("destroy", FALSE, "Orphaned")
    /\ UNCHANGED <<stored, policy, runs>>

(***************************************************************************)
(* The pod dies.  An eksctl child dies with it, having done some or none   *)
(* of its work.                                                            *)
(***************************************************************************)
ClusterAfterCrash ==
    CASE pc = "c_eksctl" -> {cluster, "Ours"}
      [] pc = "d_eksctl" -> {cluster, "None"}
      [] OTHER           -> {cluster}

Crash ==
    /\ pc # "Idle"
    /\ cluster' \in ClusterAfterCrash
    /\ pc' = "Idle" /\ memo' = DefaultMemo /\ doCreate' = FALSE
    /\ last' = NoOutcome
    /\ UNCHANGED <<stored, policy, runs>>

CreateStep ==
    \/ CreateGetInfo \/ CreateSendInitializing \/ CreateClusterConfig
    \/ CreateSendGettingSecret \/ CreateSendCreatingAwsConfig
    \/ CreateAwsConfig \/ CreateSendDeterminingState \/ CreateDetermineState
    \/ CreateSendDecision \/ CreateSendCreatingCluster \/ CreateEksctl
    \/ CreateSendCreationComplete \/ CreateSendWritingKubeconfig
    \/ CreateWriteKubeconfig \/ CreateSendCollectingInfo
    \/ CreateCollectInfo \/ CreateSendClusterReady

DestroyStep == DestroyGetInfo \/ DestroyAwsConfig \/ DestroyEksctlDelete

Next == StartCreate \/ StartDestroy \/ CreateStep \/ DestroyStep \/ Crash

Spec == Init /\ [][Next]_vars

-----------------------------------------------------------------------------
(***************************************************************************)
(* Properties.                                                             *)
(***************************************************************************)

(* The durability marker precedes the cluster: whenever a cluster created  *)
(* by this agent exists, the durable memo says provisioning_started, so    *)
(* any later destroy (a new process, after a crash) knows to clean up.     *)
(* This is the ordering of lines 549-554 of create across crashes.         *)
FlagBeforeCreate == cluster = "Ours" => stored.started

(* Inductive strengthening of FlagBeforeCreate, used by the proof: a       *)
(* running create's memo is never behind the durable one on                *)
(* provisioning_started, and eksctl only runs once it is durable.          *)
FlagInv ==
    /\ TypeOK
    /\ FlagBeforeCreate
    /\ pc \in CreateSteps \ {"c_get"} => (stored.started => memo.started)
    /\ pc = "c_eksctl" => stored.started

(* destroy never deletes a cluster this agent did not create: a cluster    *)
(* that existed before, used under IfNotExists or Never, survives every    *)
(* step (the provisioning_started guard of destroy, line 1049).            *)
ForeignClusterKept == [][cluster = "Foreign" => cluster' = "Foreign"]_vars

(* When destroy reported success and no process runs, no cluster of ours   *)
(* exists: neither the no-op path for an unstarted memo nor the eksctl     *)
(* path reports success while a created cluster is left behind.            *)
DestroyOkMeansGone ==
    (pc = "Idle" /\ last.op = "destroy" /\ last.ok) => cluster # "Ours"

(* The durable memo only gains information: provisioning_started and the   *)
(* recorded cluster name are never lost by a later create or destroy that  *)
(* overwrites the memo with its own copy.                                  *)
MemoMonotonic ==
    [][/\ stored.started => stored'.started
       /\ stored.named => stored'.named]_vars

(* A create that reported success has durably recorded the cluster name,   *)
(* so a later destroy can find the cluster, and the cluster exists.        *)
CreateOkIsDestroyable ==
    (pc = "Idle" /\ last.op = "create" /\ last.ok)
        => stored.named /\ cluster # "None"

(* Spec, section 3: Clear means no external resource was created and       *)
(* nothing is left to clean up.  A finished call classified Clear leaves   *)
(* no cluster of ours behind.                                              *)
ClearMeansNothingToClean ==
    (pc = "Idle" /\ last.cls = "Clear") => cluster # "Ours"

(* Spec, section 3: Remaining means a destroy pass will find the resource  *)
(* and remove it.  After a create that failed with Remaining while our     *)
(* cluster exists, the memo lets destroy find it.                          *)
RemainingIsDestroyable ==
    (pc = "Idle" /\ last.op = "create" /\ last.cls = "Remaining"
        /\ cluster = "Ours") => stored.named

(***************************************************************************)
(* Refinement: the provider implements the provisioning contract, with     *)
(* provisioning_started of the durable memo as the contract's record.      *)
(***************************************************************************)
Contract == INSTANCE ProvisioningContract WITH tracked <- stored.started

(* Across crashes, half-applied memo writes and restarts, every step of    *)
(* create and destroy is a step of the contract or leaves the cluster and  *)
(* provisioning_started alone: the flag is written before eksctl creates,  *)
(* never cleared by a later copy of the memo, and destroy deletes only a   *)
(* cluster whose creation the memo records.                                *)
ContractSpec == Contract!Spec

(* Inductive invariant for the refinement: besides FlagInv, a cluster that *)
(* existed before the agent is never in a memo as started nor chosen for   *)
(* creation, eksctl create runs only after the decision to create, and     *)
(* eksctl delete only with a memo that says started.                       *)
RefInv ==
    /\ FlagInv
    /\ cluster = "Foreign" => ~stored.started /\ ~memo.started /\ ~doCreate
    /\ pc \in {"c_creating", "c_eksctl"} => doCreate
    /\ pc \in {"d_awscfg", "d_eksctl"} => memo.started

=============================================================================
