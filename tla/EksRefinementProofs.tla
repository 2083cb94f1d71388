------------------------ MODULE EksRefinementProofs ------------------------
(***************************************************************************)
(* The EKS provider implements the provisioning contract: Spec =>          *)
(* Contract!Spec, with the durable provisioning_started as the contract's *)
(* record.  The argument: RefInv is inductive, and under it every step of  *)
(* the provider either keeps the cluster and only sets the flag (Track or  *)
(* a stutter), or is eksctl create from c_eksctl (Provision or a stutter), *)
(* or eksctl delete from d_eksctl (Remove or a stutter), including the     *)
(* crashes that kill eksctl halfway.                                       *)
(***************************************************************************)
EXTENDS EksProviderProofs

\* The conjuncts RefInv adds to FlagInv.
ForeignUntouched == cluster = "Foreign" => ~stored.started /\ ~memo.started /\ ~doCreate
CreatingDecided == pc \in {"c_creating", "c_eksctl"} => doCreate
DeletingStarted == pc \in {"d_awscfg", "d_eksctl"} => memo.started

LEMMA RefInvDef == RefInv <=> FlagInv /\ ForeignUntouched /\ CreatingDecided /\ DeletingStarted
BY DEF RefInv, ForeignUntouched, CreatingDecided, DeletingStarted

(***************************************************************************)
(* The three shapes a step of the provider has in the contract.            *)
(***************************************************************************)
LEMMA TrackOrStutter ==
    ASSUME cluster' = cluster, stored.started => stored'.started,
           stored \in Memos, stored' \in Memos
    PROVE  [Contract!Next]_<<cluster, stored.started>>
<1>1. CASE stored'.started = stored.started
  BY <1>1
<1>2. CASE stored'.started # stored.started
  <2>1. ~stored.started /\ stored'.started
    BY <1>2 DEF Memos
  <2>2. QED
    BY <2>1 DEF Contract!Next, Contract!Track
<1>3. QED
  BY <1>1, <1>2

LEMMA CreateOrStutter ==
    ASSUME stored' = stored, stored.started,
           cluster \in {"None", "Ours"}, cluster' \in {cluster, "Ours"}
    PROVE  [Contract!Next]_<<cluster, stored.started>>
<1>1. CASE cluster' = cluster
  BY <1>1
<1>2. CASE cluster' # cluster
  BY <1>2 DEF Contract!Next, Contract!Provision
<1>3. QED
  BY <1>1, <1>2

LEMMA DeleteOrStutter ==
    ASSUME stored' = stored,
           cluster \in {"None", "Ours"}, cluster' \in {cluster, "None"}
    PROVE  [Contract!Next]_<<cluster, stored.started>>
<1>1. CASE cluster' = cluster
  BY <1>1
<1>2. CASE cluster' # cluster
  BY <1>2 DEF Contract!Next, Contract!Remove
<1>3. QED
  BY <1>1, <1>2

(***************************************************************************)
(* RefInv is inductive.                                                    *)
(***************************************************************************)
LEMMA RefInit == Init => RefInv
<1> SUFFICES ASSUME Init PROVE RefInv
  OBVIOUS
<1>1. FlagInv
  BY TypeInit DEF Init, FlagInv, FlagBeforeCreate, DefaultMemo
<1>2. QED
  BY <1>1 DEF Init, RefInv, DefaultMemo

(* No step makes a cluster "Foreign": every assignment to cluster is       *)
(* "Ours", "None" or its old value.                                        *)
LEMMA NeverForeign ==
    ASSUME TypeOK, [Next]_vars, cluster' = "Foreign"
    PROVE  cluster = "Foreign"
<1>1. CASE Crash
  BY <1>1 DEF Crash, ClusterAfterCrash
<1>2. CASE ~Crash
  BY <1>2 DEF Next, CreateStep, DestroyStep, vars, StartCreate, StartDestroy,
     CreateGetInfo, CreateSendInitializing, CreateClusterConfig,
     CreateSendGettingSecret, CreateSendCreatingAwsConfig, CreateAwsConfig,
     CreateSendDeterminingState, CreateDetermineState, CreateSendDecision,
     CreateSendCreatingCluster, CreateEksctl, CreateSendCreationComplete,
     CreateSendWritingKubeconfig, CreateWriteKubeconfig,
     CreateSendCollectingInfo, CreateCollectInfo, CreateSendClusterReady,
     DestroyGetInfo, DestroyAwsConfig, DestroyEksctlDelete, Attempt, Checkpoint
<1>3. QED
  BY <1>1, <1>2

LEMMA RefStep == RefInv /\ [Next]_vars => RefInv'
<1> SUFFICES ASSUME RefInv, [Next]_vars PROVE RefInv'
  OBVIOUS
<1>1. FlagInv /\ TypeOK
  BY DEF RefInv, FlagInv
<1>2. FlagInv'
  BY <1>1, FlagStep
<1>3. cluster' = "Foreign" => cluster = "Foreign"
  BY <1>1, NeverForeign
<1> USE DEF ForeignUntouched, CreatingDecided, DeletingStarted, CreateSteps
<1>4. ForeignUntouched /\ CreatingDecided /\ DeletingStarted
  BY RefInvDef
<1> HIDE DEF ForeignUntouched, CreatingDecided, DeletingStarted
<1>5. ForeignUntouched' /\ CreatingDecided' /\ DeletingStarted'
  <2> USE <1>1, <1>3, <1>4
  <2> USE DEF ForeignUntouched, CreatingDecided, DeletingStarted
  <2>1. CASE StartCreate \/ StartDestroy
    BY <2>1 DEF StartCreate, StartDestroy
  <2>2. CASE CreateGetInfo
    BY <2>2 DEF CreateGetInfo, Return, DefaultMemo
  <2>3. CASE \/ CreateSendInitializing \/ CreateSendGettingSecret
             \/ CreateSendCreatingAwsConfig \/ CreateSendDeterminingState
             \/ CreateSendDecision \/ CreateSendCreationComplete
             \/ CreateSendWritingKubeconfig \/ CreateSendCollectingInfo
    BY <2>3 DEF Checkpoint, Return, DefaultMemo,
       CreateSendInitializing, CreateSendGettingSecret,
       CreateSendCreatingAwsConfig, CreateSendDeterminingState,
       CreateSendDecision, CreateSendCreationComplete,
       CreateSendWritingKubeconfig, CreateSendCollectingInfo
  <2>4. CASE CreateSendCreatingCluster
    <3>1. cluster # "Foreign"
      BY <2>4 DEF CreateSendCreatingCluster, Checkpoint
    <3>2. QED
      BY <2>4, <3>1 DEF CreateSendCreatingCluster, Checkpoint, Return,
         DefaultMemo
  <2>5. CASE \/ CreateClusterConfig \/ CreateAwsConfig
             \/ CreateWriteKubeconfig \/ DestroyAwsConfig
    BY <2>5 DEF CreateClusterConfig, CreateAwsConfig, CreateWriteKubeconfig,
       DestroyAwsConfig, Attempt, Return, DefaultMemo
  <2>6. CASE CreateDetermineState
    <3>1. cluster = "Foreign" => CreationRequired(ClusterExists) # "create"
      BY PoliciesAssumption DEF TypeOK, CreationRequired, ClusterExists
    <3>2. CASE Return("create", FALSE, "Clear")
      BY <2>6, <3>2 DEF CreateDetermineState, Return, DefaultMemo
    <3>3. CASE /\ doCreate' = (CreationRequired(ClusterExists) = "create")
               /\ pc' = "c_decision" /\ UNCHANGED <<memo, last>>
      BY <2>6, <3>1, <3>3 DEF CreateDetermineState
    <3>4. QED
      BY <2>6, <3>2, <3>3 DEF CreateDetermineState
  <2>7. CASE CreateEksctl
    BY <2>7 DEF CreateEksctl, Return, DefaultMemo
  <2>8. CASE CreateCollectInfo
    BY <2>8 DEF CreateCollectInfo, Return, DefaultMemo
  <2>9. CASE CreateSendClusterReady
    <3>1. [memo EXCEPT !.named = TRUE].started = memo.started
      BY DEF TypeOK, Memos
    <3>2. stored'.started = stored.started \/ stored'.started = memo.started
      BY <2>9, <3>1 DEF CreateSendClusterReady
    <3>3. pc' = "Idle" /\ memo' = DefaultMemo /\ doCreate' = FALSE
          /\ cluster' = cluster
      BY <2>9 DEF CreateSendClusterReady, Return
    <3>4. QED
      BY <3>2, <3>3 DEF DefaultMemo
  <2>10. CASE DestroyGetInfo
    BY <2>10 DEF DestroyGetInfo, Return, DefaultMemo
  <2>11. CASE DestroyEksctlDelete
    BY <2>11 DEF DestroyEksctlDelete, Return, DefaultMemo
  <2>12. CASE Crash
    BY <2>12 DEF Crash, DefaultMemo
  <2>13. CASE UNCHANGED vars
    BY <2>13 DEF vars
  <2>14. QED
    BY <2>1, <2>2, <2>3, <2>4, <2>5, <2>6, <2>7, <2>8, <2>9, <2>10,
       <2>11, <2>12, <2>13 DEF Next, CreateStep, DestroyStep
<1>6. QED
  BY <1>2, <1>5 DEF RefInv, ForeignUntouched, CreatingDecided, DeletingStarted

(* No step clears provisioning_started in the durable memo: every write    *)
(* of the memo is the running create's copy, which is not behind it.       *)
LEMMA StartedKept ==
    ASSUME FlagInv, [Next]_vars
    PROVE  stored.started => stored'.started
<1> USE DEF FlagInv, CreateSteps
<1>1. CASE \/ CreateSendInitializing \/ CreateSendGettingSecret
           \/ CreateSendCreatingAwsConfig \/ CreateSendDeterminingState
           \/ CreateSendDecision \/ CreateSendCreationComplete
           \/ CreateSendWritingKubeconfig \/ CreateSendCollectingInfo
  BY <1>1 DEF Checkpoint, CreateSendInitializing, CreateSendGettingSecret,
     CreateSendCreatingAwsConfig, CreateSendDeterminingState,
     CreateSendDecision, CreateSendCreationComplete,
     CreateSendWritingKubeconfig, CreateSendCollectingInfo
<1>2. CASE CreateSendCreatingCluster
  <2>1. [memo EXCEPT !.started = TRUE].started
    BY DEF TypeOK, Memos
  <2>2. QED
    BY <1>2, <2>1 DEF CreateSendCreatingCluster, Checkpoint
<1>3. CASE CreateSendClusterReady
  <2>1. [memo EXCEPT !.named = TRUE].started = memo.started
    BY DEF TypeOK, Memos
  <2>2. QED
    BY <1>3, <2>1 DEF CreateSendClusterReady
<1>4. CASE ~(\/ CreateSendInitializing \/ CreateSendGettingSecret
             \/ CreateSendCreatingAwsConfig \/ CreateSendDeterminingState
             \/ CreateSendDecision \/ CreateSendCreationComplete
             \/ CreateSendWritingKubeconfig \/ CreateSendCollectingInfo
             \/ CreateSendCreatingCluster \/ CreateSendClusterReady)
  BY <1>4 DEF Next, CreateStep, DestroyStep, vars, StartCreate, StartDestroy,
     CreateGetInfo, CreateClusterConfig, CreateAwsConfig,
     CreateDetermineState, CreateEksctl, CreateWriteKubeconfig,
     CreateCollectInfo, DestroyGetInfo, DestroyAwsConfig,
     DestroyEksctlDelete, Attempt, Crash
<1>5. QED
  BY <1>1, <1>2, <1>3, <1>4

(***************************************************************************)
(* Every step of the provider is a step of the contract or a stutter.      *)
(***************************************************************************)
LEMMA StepRefines ==
    RefInv /\ [Next]_vars => [Contract!Next]_<<cluster, stored.started>>
<1> SUFFICES ASSUME RefInv, [Next]_vars
             PROVE  [Contract!Next]_<<cluster, stored.started>>
  OBVIOUS
<1>1. TypeOK /\ TypeOK'
  BY TypeStep DEF RefInv, FlagInv
<1>2. stored.started => stored'.started
  BY StartedKept DEF RefInv
<1>3. CASE cluster' = cluster
  BY <1>1, <1>2, <1>3, TrackOrStutter DEF TypeOK
<1>4. CASE cluster' # cluster
  <2>1. CASE pc = "c_eksctl"
    <3>1. stored' = stored /\ cluster' \in {cluster, "Ours"}
      BY <1>4, <2>1 DEF Next, CreateStep, DestroyStep, vars, StartCreate,
         StartDestroy, CreateGetInfo, CreateSendInitializing,
         CreateClusterConfig, CreateSendGettingSecret,
         CreateSendCreatingAwsConfig, CreateAwsConfig,
         CreateSendDeterminingState, CreateDetermineState,
         CreateSendDecision, CreateSendCreatingCluster, CreateEksctl,
         CreateSendCreationComplete, CreateSendWritingKubeconfig,
         CreateWriteKubeconfig, CreateSendCollectingInfo, CreateCollectInfo,
         CreateSendClusterReady, DestroyGetInfo, DestroyAwsConfig,
         DestroyEksctlDelete, Attempt, Checkpoint, Crash, ClusterAfterCrash
    <3>2. stored.started /\ cluster \in {"None", "Ours"}
      BY <2>1, <1>1 DEF RefInv, FlagInv, TypeOK
    <3>3. QED
      BY <3>1, <3>2, CreateOrStutter
  <2>2. CASE pc = "d_eksctl"
    <3>1. stored' = stored /\ cluster' \in {cluster, "None"}
      BY <1>4, <2>2 DEF Next, CreateStep, DestroyStep, vars, StartCreate,
         StartDestroy, CreateGetInfo, CreateSendInitializing,
         CreateClusterConfig, CreateSendGettingSecret,
         CreateSendCreatingAwsConfig, CreateAwsConfig,
         CreateSendDeterminingState, CreateDetermineState,
         CreateSendDecision, CreateSendCreatingCluster, CreateEksctl,
         CreateSendCreationComplete, CreateSendWritingKubeconfig,
         CreateWriteKubeconfig, CreateSendCollectingInfo, CreateCollectInfo,
         CreateSendClusterReady, DestroyGetInfo, DestroyAwsConfig,
         DestroyEksctlDelete, Attempt, Checkpoint, Crash, ClusterAfterCrash
    <3>2. cluster \in {"None", "Ours"}
      BY <2>2, <1>1 DEF RefInv, TypeOK
    <3>3. QED
      BY <3>1, <3>2, DeleteOrStutter
  <2>3. CASE pc \notin {"c_eksctl", "d_eksctl"}
    BY <1>4, <2>3 DEF Next, CreateStep, DestroyStep, vars, StartCreate,
       StartDestroy, CreateGetInfo, CreateSendInitializing,
       CreateClusterConfig, CreateSendGettingSecret,
       CreateSendCreatingAwsConfig, CreateAwsConfig,
       CreateSendDeterminingState, CreateDetermineState,
       CreateSendDecision, CreateSendCreatingCluster, CreateEksctl,
       CreateSendCreationComplete, CreateSendWritingKubeconfig,
       CreateWriteKubeconfig, CreateSendCollectingInfo, CreateCollectInfo,
       CreateSendClusterReady, DestroyGetInfo, DestroyAwsConfig,
       DestroyEksctlDelete, Attempt, Checkpoint, Crash, ClusterAfterCrash
  <2>4. QED
    BY <2>1, <2>2, <2>3
<1>5. QED
  BY <1>3, <1>4

(* The invariant behind the refinement holds in every reachable state:     *)
(* FlagInv, and no process touches a foreign cluster, decides to create    *)
(* without being at the create path, or deletes without a started memo.    *)
THEOREM RefInvHolds == Spec => []RefInv
BY RefInit, RefStep, PTL DEF Spec

(* The EKS provider implements the provisioning contract, for every set of *)
(* policies and every bound on agent processes: whatever crashes, failed   *)
(* or half-applied memo writes and restarts occur, create records          *)
(* provisioning_started before eksctl creates the cluster and never loses  *)
(* it, and destroy's eksctl delete only removes a cluster it created.      *)
THEOREM Refinement == Spec => ContractSpec
<1>1. Init => RefInv
  BY RefInit
<1>2. Init => Contract!Init
  BY DEF Init, Contract!Init, DefaultMemo
<1>3. RefInv /\ [Next]_vars => RefInv'
  BY RefStep
<1>4. RefInv /\ [Next]_vars => [Contract!Next]_<<cluster, stored.started>>
  BY StepRefines
<1>5. QED
  BY <1>1, <1>2, <1>3, <1>4, PTL DEF Spec, ContractSpec, Contract!Spec

(***************************************************************************)
(* Consequences: a foreign cluster is kept, and the memo only gains        *)
(* information.                                                            *)
(***************************************************************************)
(* Destroy never deletes, and create never replaces, a cluster that        *)
(* existed before the agent (used under IfNotExists or Never): the         *)
(* contract never changes a foreign resource, and the provider refines it. *)
THEOREM ForeignKept == Spec => ForeignClusterKept
<1>1. RefInv /\ [Next]_vars => [cluster = "Foreign" => cluster' = "Foreign"]_vars
  <2> SUFFICES ASSUME RefInv, [Next]_vars
               PROVE  cluster = "Foreign" => cluster' = "Foreign"
    OBVIOUS
  <2>1. [Contract!Next]_<<cluster, stored.started>>
    BY StepRefines
  <2>2. QED
    BY <2>1 DEF Contract!Next, Contract!Track, Contract!Provision,
       Contract!Remove
<1>2. QED
  BY <1>1, RefInit, RefStep, PTL DEF Spec, ForeignClusterKept

\* While a create runs, its copy of the memo has every name the durable one has.
CopyCurrent == pc \in CreateSteps \ {"c_get"} => (stored.named => memo.named)

LEMMA CopyStep == TypeOK /\ CopyCurrent /\ [Next]_vars => CopyCurrent'
<1> SUFFICES ASSUME TypeOK, CopyCurrent, [Next]_vars PROVE CopyCurrent'
  OBVIOUS
<1> USE DEF CopyCurrent, CreateSteps, DestroySteps
<1>1. CASE \/ CreateSendInitializing \/ CreateSendGettingSecret
           \/ CreateSendCreatingAwsConfig \/ CreateSendDeterminingState
           \/ CreateSendDecision \/ CreateSendCreationComplete
           \/ CreateSendWritingKubeconfig \/ CreateSendCollectingInfo
           \/ CreateSendCreatingCluster
  BY <1>1 DEF Checkpoint, Return, CreateSendInitializing,
     CreateSendGettingSecret, CreateSendCreatingAwsConfig,
     CreateSendDeterminingState, CreateSendDecision,
     CreateSendCreationComplete, CreateSendWritingKubeconfig,
     CreateSendCollectingInfo, CreateSendCreatingCluster
<1>2. CASE \/ CreateClusterConfig \/ CreateAwsConfig
           \/ CreateWriteKubeconfig \/ DestroyAwsConfig
  BY <1>2 DEF CreateClusterConfig, CreateAwsConfig, CreateWriteKubeconfig,
     DestroyAwsConfig, Attempt, Return
<1>3. CASE \/ StartCreate \/ StartDestroy \/ CreateGetInfo
           \/ CreateDetermineState \/ CreateEksctl \/ CreateCollectInfo
  BY <1>3 DEF StartCreate, StartDestroy, CreateGetInfo, CreateDetermineState,
     CreateEksctl, CreateCollectInfo, Return
<1>4. CASE \/ CreateSendClusterReady \/ DestroyGetInfo
           \/ DestroyEksctlDelete \/ Crash
  BY <1>4 DEF CreateSendClusterReady, DestroyGetInfo, DestroyEksctlDelete,
     Crash, Return
<1>5. CASE UNCHANGED vars
  BY <1>5 DEF vars
<1>6. QED
  BY <1>1, <1>2, <1>3, <1>4, <1>5 DEF Next, CreateStep, DestroyStep

(* No step drops the recorded cluster name from the durable memo.          *)
LEMMA NamedKept ==
    ASSUME TypeOK, CopyCurrent, [Next]_vars
    PROVE  stored.named => stored'.named
<1> USE DEF CopyCurrent, CreateSteps
<1>1. CASE \/ CreateSendInitializing \/ CreateSendGettingSecret
           \/ CreateSendCreatingAwsConfig \/ CreateSendDeterminingState
           \/ CreateSendDecision \/ CreateSendCreationComplete
           \/ CreateSendWritingKubeconfig \/ CreateSendCollectingInfo
  BY <1>1 DEF Checkpoint, CreateSendInitializing, CreateSendGettingSecret,
     CreateSendCreatingAwsConfig, CreateSendDeterminingState,
     CreateSendDecision, CreateSendCreationComplete,
     CreateSendWritingKubeconfig, CreateSendCollectingInfo
<1>2. CASE CreateSendCreatingCluster
  <2>1. [memo EXCEPT !.started = TRUE].named = memo.named
    BY DEF TypeOK, Memos
  <2>2. QED
    BY <1>2, <2>1 DEF CreateSendCreatingCluster, Checkpoint
<1>3. CASE CreateSendClusterReady
  <2>1. [memo EXCEPT !.named = TRUE].named
    BY DEF TypeOK, Memos
  <2>2. QED
    BY <1>3, <2>1 DEF CreateSendClusterReady
<1>4. CASE ~(\/ CreateSendInitializing \/ CreateSendGettingSecret
             \/ CreateSendCreatingAwsConfig \/ CreateSendDeterminingState
             \/ CreateSendDecision \/ CreateSendCreationComplete
             \/ CreateSendWritingKubeconfig \/ CreateSendCollectingInfo
             \/ CreateSendCreatingCluster \/ CreateSendClusterReady)
  BY <1>4 DEF Next, CreateStep, DestroyStep, vars, StartCreate, StartDestroy,
     CreateGetInfo, CreateClusterConfig, CreateAwsConfig,
     CreateDetermineState, CreateEksctl, CreateWriteKubeconfig,
     CreateCollectInfo, DestroyGetInfo, DestroyAwsConfig,
     DestroyEksctlDelete, Attempt, Crash
<1>5. QED
  BY <1>1, <1>2, <1>3, <1>4

(* The durable memo only gains information: no later create, restarted or  *)
(* not, overwrites provisioning_started or the cluster name with an older  *)
(* copy, and destroy never writes them.                                    *)
THEOREM MemoMonotonicHolds == Spec => MemoMonotonic
<1>1. Init => FlagInv /\ CopyCurrent
  BY TypeInit DEF Init, FlagInv, FlagBeforeCreate, CopyCurrent, DefaultMemo
<1>2. FlagInv /\ CopyCurrent /\ [Next]_vars => FlagInv' /\ CopyCurrent'
  BY FlagStep, CopyStep DEF FlagInv
<1>3. FlagInv /\ CopyCurrent /\ [Next]_vars
        => [/\ stored.started => stored'.started
            /\ stored.named => stored'.named]_vars
  BY StartedKept, NamedKept DEF FlagInv
<1>4. QED
  BY <1>1, <1>2, <1>3, PTL DEF Spec, MemoMonotonic

=============================================================================
