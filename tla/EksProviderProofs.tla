------------------------- MODULE EksProviderProofs -------------------------
(***************************************************************************)
(* Proofs about EksProvider for every set of policies and every bound on   *)
(* agent processes: the type invariant, and that a cluster created by the  *)
(* agent always has provisioning_started durably recorded                  *)
(* (FlagBeforeCreate), through the inductive invariant FlagInv.            *)
(***************************************************************************)
EXTENDS EksProvider, TLAPS

PCs == {"Idle"} \cup CreateSteps \cup DestroySteps

(***************************************************************************)
(* The building blocks preserve the type.                                  *)
(***************************************************************************)
LEMMA ReturnTypeOK ==
    ASSUME NEW op \in {"create", "destroy"}, NEW ok \in BOOLEAN,
           NEW cls \in Classifications \cup {"none"},
           Return(op, ok, cls)
    PROVE  /\ pc' \in PCs /\ memo' \in Memos /\ doCreate' \in BOOLEAN
           /\ last' \in Outcomes \cup {NoOutcome}
BY DEF Return, PCs, Memos, DefaultMemo, Outcomes

LEMMA AttemptTypeOK ==
    ASSUME TypeOK, NEW from, NEW to \in PCs,
           NEW op \in {"create", "destroy"}, NEW cls \in Classifications,
           Attempt(from, to, op, cls)
    PROVE  TypeOK'
<1>1. CASE pc' = to /\ UNCHANGED <<memo, doCreate, last>>
  BY <1>1 DEF Attempt, TypeOK, PCs
<1>2. CASE Return(op, FALSE, cls)
  BY <1>2, ReturnTypeOK DEF Attempt, TypeOK, PCs
<1>3. QED
  BY <1>1, <1>2 DEF Attempt

LEMMA CheckpointTypeOK ==
    ASSUME TypeOK, NEW from, NEW to \in PCs, NEW m \in Memos,
           NEW cls \in Classifications,
           Checkpoint(from, to, m, cls)
    PROVE  TypeOK'
<1>1. CASE stored' = m /\ memo' = m /\ pc' = to /\ UNCHANGED <<doCreate, last>>
  BY <1>1 DEF Checkpoint, TypeOK, PCs
<1>2. CASE stored' \in {stored, m} /\ Return("create", FALSE, cls)
  BY <1>2, ReturnTypeOK DEF Checkpoint, TypeOK, PCs
<1>3. QED
  BY <1>1, <1>2 DEF Checkpoint

(* Every step of the provider preserves the type invariant. *)
LEMMA TypeStep == TypeOK /\ [Next]_vars => TypeOK'
<1> SUFFICES ASSUME TypeOK, [Next]_vars PROVE TypeOK'
  OBVIOUS
<1> USE DEF PCs, CreateSteps, DestroySteps, Classifications
<1>1. CASE StartCreate \/ StartDestroy
  BY <1>1, MaxRunsAssumption DEF StartCreate, StartDestroy, TypeOK
<1>2. CASE CreateGetInfo
  BY <1>2, ReturnTypeOK DEF CreateGetInfo, TypeOK
<1>3. CASE \/ CreateSendInitializing \/ CreateSendGettingSecret
           \/ CreateSendCreatingAwsConfig \/ CreateSendDeterminingState
           \/ CreateSendDecision \/ CreateSendCreationComplete
           \/ CreateSendWritingKubeconfig \/ CreateSendCollectingInfo
  BY <1>3, CheckpointTypeOK DEF TypeOK, CreateSendInitializing,
     CreateSendGettingSecret, CreateSendCreatingAwsConfig,
     CreateSendDeterminingState, CreateSendDecision,
     CreateSendCreationComplete, CreateSendWritingKubeconfig,
     CreateSendCollectingInfo
<1>4. CASE CreateSendCreatingCluster
  <2>1. [memo EXCEPT !.started = TRUE] \in Memos
    BY DEF TypeOK, Memos
  <2>2. QED
    BY <1>4, <2>1, CheckpointTypeOK DEF CreateSendCreatingCluster
<1>5. CASE \/ CreateClusterConfig \/ CreateAwsConfig
           \/ CreateWriteKubeconfig \/ DestroyAwsConfig
  BY <1>5, AttemptTypeOK DEF CreateClusterConfig, CreateAwsConfig,
     CreateWriteKubeconfig, DestroyAwsConfig
<1>6. CASE CreateDetermineState
  BY <1>6, ReturnTypeOK DEF CreateDetermineState, TypeOK
<1>7. CASE CreateEksctl
  BY <1>7, ReturnTypeOK DEF CreateEksctl, TypeOK
<1>8. CASE CreateCollectInfo
  BY <1>8, ReturnTypeOK DEF CreateCollectInfo, TypeOK
<1>9. CASE CreateSendClusterReady
  <2>1. [memo EXCEPT !.named = TRUE] \in Memos
    BY DEF TypeOK, Memos
  <2>2. QED
    BY <1>9, <2>1, ReturnTypeOK DEF CreateSendClusterReady, TypeOK
<1>10. CASE DestroyGetInfo
  BY <1>10, ReturnTypeOK DEF DestroyGetInfo, TypeOK
<1>11. CASE DestroyEksctlDelete
  BY <1>11, ReturnTypeOK DEF DestroyEksctlDelete, TypeOK
<1>12. CASE Crash
  <2>1. ClusterAfterCrash \subseteq {"None", "Foreign", "Ours"}
    BY DEF ClusterAfterCrash, TypeOK
  <2>2. QED
    BY <1>12, <2>1 DEF Crash, TypeOK, Memos, DefaultMemo, NoOutcome
<1>13. CASE UNCHANGED vars
  BY <1>13 DEF vars, TypeOK
<1>14. QED
  BY <1>1, <1>2, <1>3, <1>4, <1>5, <1>6, <1>7, <1>8, <1>9, <1>10,
     <1>11, <1>12, <1>13 DEF Next, CreateStep, DestroyStep

(* The initial states are well typed. *)
LEMMA TypeInit == Init => TypeOK
<1> SUFFICES ASSUME Init PROVE TypeOK
  OBVIOUS
<1>1. stored \in Memos /\ memo \in Memos /\ last \in Outcomes \cup {NoOutcome}
  BY DEF Init, Memos, DefaultMemo, NoOutcome, Outcomes
<1>2. runs \in 0..MaxRuns
  BY MaxRunsAssumption DEF Init
<1>3. QED
  BY <1>1, <1>2 DEF Init, TypeOK

(* Type correctness of the provider: every reachable state gives each      *)
(* variable a value of its type.                                           *)
THEOREM TypeCorrect == Spec => []TypeOK
<1>1. Init => TypeOK
  BY TypeInit
<1>2. TypeOK /\ [Next]_vars => TypeOK'
  BY TypeStep
<1>3. QED
  BY <1>1, <1>2, PTL DEF Spec

(***************************************************************************)
(* FlagBeforeCreate.  It is not inductive by itself: eksctl runs from      *)
(* c_eksctl, so that location must already have the flag durably stored    *)
(* (FlagInv's last conjunct), and the checkpoints after it write the       *)
(* process's memo back, so that memo must not be behind the durable one    *)
(* (FlagInv's third conjunct).                                             *)
(***************************************************************************)
LEMMA FlagStep == FlagInv /\ [Next]_vars => FlagInv'
<1> SUFFICES ASSUME FlagInv, [Next]_vars PROVE FlagInv'
  OBVIOUS
<1>0. TypeOK'
  BY TypeStep DEF FlagInv
<1> USE <1>0
<1>1. CASE StartCreate \/ StartDestroy
  BY <1>1 DEF StartCreate, StartDestroy, FlagInv, FlagBeforeCreate, CreateSteps
<1>2. CASE CreateGetInfo
  BY <1>2 DEF CreateGetInfo, Return, FlagInv, FlagBeforeCreate, CreateSteps
<1>3. CASE \/ CreateSendInitializing \/ CreateSendGettingSecret
           \/ CreateSendCreatingAwsConfig \/ CreateSendDeterminingState
           \/ CreateSendDecision \/ CreateSendCreationComplete
           \/ CreateSendWritingKubeconfig \/ CreateSendCollectingInfo
  BY <1>3 DEF Checkpoint, Return, FlagInv, FlagBeforeCreate, CreateSteps,
     CreateSendInitializing, CreateSendGettingSecret,
     CreateSendCreatingAwsConfig, CreateSendDeterminingState,
     CreateSendDecision, CreateSendCreationComplete,
     CreateSendWritingKubeconfig, CreateSendCollectingInfo
<1>4. CASE CreateSendCreatingCluster
  <2>1. [memo EXCEPT !.started = TRUE] \in Memos
        /\ [memo EXCEPT !.started = TRUE].started
    BY DEF FlagInv, TypeOK, Memos
  <2>2. QED
    BY <1>4, <2>1 DEF CreateSendCreatingCluster, Checkpoint, Return,
       FlagInv, FlagBeforeCreate, CreateSteps
<1>5. CASE \/ CreateClusterConfig \/ CreateAwsConfig
           \/ CreateWriteKubeconfig \/ DestroyAwsConfig
  BY <1>5 DEF CreateClusterConfig, CreateAwsConfig, CreateWriteKubeconfig,
     DestroyAwsConfig, Attempt, Return, FlagInv, FlagBeforeCreate,
     CreateSteps
<1>6. CASE CreateDetermineState
  BY <1>6 DEF CreateDetermineState, Return, FlagInv, FlagBeforeCreate,
     CreateSteps
<1>7. CASE CreateEksctl
  BY <1>7 DEF CreateEksctl, Return, FlagInv, FlagBeforeCreate, CreateSteps
<1>8. CASE CreateCollectInfo
  BY <1>8 DEF CreateCollectInfo, Return, FlagInv, FlagBeforeCreate,
     CreateSteps
<1>9. CASE CreateSendClusterReady
  <2>1. [memo EXCEPT !.named = TRUE].started = memo.started
    BY DEF FlagInv, TypeOK, Memos
  <2>2. QED
    BY <1>9, <2>1 DEF CreateSendClusterReady, Return, FlagInv,
       FlagBeforeCreate, CreateSteps
<1>10. CASE DestroyGetInfo
  BY <1>10 DEF DestroyGetInfo, Return, FlagInv, FlagBeforeCreate,
     CreateSteps
<1>11. CASE DestroyEksctlDelete
  BY <1>11 DEF DestroyEksctlDelete, Return, FlagInv, FlagBeforeCreate,
     CreateSteps
<1>12. CASE Crash
  <2>1. cluster' = "Ours" => cluster = "Ours" \/ pc = "c_eksctl"
    BY <1>12 DEF Crash, ClusterAfterCrash
  <2>2. QED
    BY <1>12, <2>1 DEF Crash, FlagInv, FlagBeforeCreate, CreateSteps
<1>13. CASE UNCHANGED vars
  BY <1>13 DEF vars, FlagInv, FlagBeforeCreate
<1>14. QED
  BY <1>1, <1>2, <1>3, <1>4, <1>5, <1>6, <1>7, <1>8, <1>9, <1>10,
     <1>11, <1>12, <1>13 DEF Next, CreateStep, DestroyStep

(* FlagInv holds in every reachable state, whatever the crashes, lost      *)
(* writes and restarts: create checkpoints the flag before it runs eksctl  *)
(* (lines 546-554) and never writes back a copy that lacks it.             *)
THEOREM FlagInvHolds == Spec => []FlagInv
<1>1. Init => FlagInv
  BY TypeInit DEF Init, FlagInv, FlagBeforeCreate, DefaultMemo
<1>2. QED
  BY <1>1, FlagStep, PTL DEF Spec

(* A cluster this agent created never exists without provisioning_started  *)
(* in the durable memo (lines 546-554), derived from FlagInv.              *)
THEOREM FlagBeforeCreateHolds == Spec => []FlagBeforeCreate
<1>1. ASSUME Init PROVE FlagInv
  BY <1>1, TypeInit DEF Init, FlagInv, FlagBeforeCreate, DefaultMemo
<1>2. FlagInv /\ [Next]_vars => FlagInv'
  BY FlagStep
<1>3. FlagInv => FlagBeforeCreate
  BY DEF FlagInv
<1>4. QED
  BY <1>1, <1>2, <1>3, PTL DEF Spec

(* The invariant the outcome properties rest on: FlagInv, the reported     *)
(* outcomes themselves, and that create reaches its last checkpoint only   *)
(* with a cluster in place (created_cluster's describe_cluster succeeded). *)
OutcomeInv ==
    /\ FlagInv
    /\ pc = "c_ready" => cluster # "None"
    /\ DestroyOkMeansGone
    /\ CreateOkIsDestroyable

(***************************************************************************)
(* Reported outcomes.  OutcomeInv adds to FlagInv the two outcome          *)
(* properties and the fact that create reaches c_ready only with a         *)
(* cluster.  An outcome is only written by Return, and while no process    *)
(* runs nothing changes the cluster or the memo.                           *)
(***************************************************************************)
LEMMA OutcomeStep == OutcomeInv /\ [Next]_vars => OutcomeInv'
<1> SUFFICES ASSUME OutcomeInv, [Next]_vars PROVE OutcomeInv'
  OBVIOUS
<1>0. FlagInv' /\ TypeOK
  BY FlagStep DEF OutcomeInv, FlagInv
<1> USE <1>0
<1>1. CASE StartCreate \/ StartDestroy
  BY <1>1 DEF StartCreate, StartDestroy, OutcomeInv, DestroyOkMeansGone,
     CreateOkIsDestroyable
<1>2. CASE \/ CreateSendInitializing \/ CreateSendGettingSecret
           \/ CreateSendCreatingAwsConfig \/ CreateSendDeterminingState
           \/ CreateSendDecision \/ CreateSendCreationComplete
           \/ CreateSendWritingKubeconfig \/ CreateSendCollectingInfo
           \/ CreateSendCreatingCluster
  BY <1>2 DEF CreateSendInitializing, CreateSendGettingSecret,
     CreateSendCreatingAwsConfig, CreateSendDeterminingState,
     CreateSendDecision, CreateSendCreationComplete,
     CreateSendWritingKubeconfig, CreateSendCollectingInfo,
     CreateSendCreatingCluster, Checkpoint, OutcomeInv, DestroyOkMeansGone, CreateOkIsDestroyable, Return
<1>3. CASE \/ CreateClusterConfig \/ CreateAwsConfig
           \/ CreateWriteKubeconfig \/ DestroyAwsConfig
  BY <1>3 DEF CreateClusterConfig, CreateAwsConfig, CreateWriteKubeconfig,
     DestroyAwsConfig, Attempt, OutcomeInv, DestroyOkMeansGone, CreateOkIsDestroyable, Return
<1>4. CASE CreateGetInfo \/ CreateDetermineState \/ CreateEksctl
  BY <1>4 DEF CreateGetInfo, CreateDetermineState, CreateEksctl, OutcomeInv, DestroyOkMeansGone, CreateOkIsDestroyable, Return
<1>5. CASE CreateCollectInfo
  BY <1>5 DEF CreateCollectInfo, OutcomeInv, DestroyOkMeansGone, CreateOkIsDestroyable, Return
<1>6. CASE CreateSendClusterReady
  <2>1. pc = "c_ready" /\ cluster # "None" /\ UNCHANGED cluster
    BY <1>6 DEF CreateSendClusterReady, OutcomeInv
  <2>2. [memo EXCEPT !.named = TRUE].named
    BY DEF TypeOK, Memos
  <2>3. \/ stored'.named /\ Return("create", TRUE, "none")
        \/ Return("create", FALSE, "Remaining")
    BY <1>6, <2>2 DEF CreateSendClusterReady
  <2>4. QED
    BY <2>1, <2>2, <2>3 DEF OutcomeInv, DestroyOkMeansGone,
       CreateOkIsDestroyable, Return
<1>7. CASE DestroyGetInfo
  <2>1. ~stored.started => cluster # "Ours"
    BY DEF OutcomeInv, FlagInv, FlagBeforeCreate
  <2>2. QED
    BY <1>7, <2>1 DEF DestroyGetInfo, OutcomeInv, DestroyOkMeansGone, CreateOkIsDestroyable, Return
<1>8. CASE DestroyEksctlDelete
  BY <1>8 DEF DestroyEksctlDelete, OutcomeInv, DestroyOkMeansGone, CreateOkIsDestroyable, Return
<1>9. CASE Crash
  BY <1>9 DEF Crash, NoOutcome, OutcomeInv, DestroyOkMeansGone, CreateOkIsDestroyable, Return
<1>10. CASE UNCHANGED vars
  BY <1>10 DEF vars, OutcomeInv, DestroyOkMeansGone, CreateOkIsDestroyable, Return
<1>11. QED
  BY <1>1, <1>2, <1>3, <1>4, <1>5, <1>6, <1>7, <1>8, <1>9, <1>10
  DEF Next, CreateStep, DestroyStep

LEMMA OutcomeInit == Init => OutcomeInv
BY TypeInit DEF Init, OutcomeInv, FlagInv, FlagBeforeCreate, DefaultMemo,
   DestroyOkMeansGone, CreateOkIsDestroyable, NoOutcome

(* A destroy that returned Ok leaves no cluster of ours: either it deleted *)
(* it (eksctl delete succeeded) or provisioning_started was unset, and     *)
(* then, by FlagBeforeCreate, no cluster of ours existed (line 1049).      *)
THEOREM DestroyOkMeansGoneHolds == Spec => []DestroyOkMeansGone
<1>1. OutcomeInv => DestroyOkMeansGone
  BY DEF OutcomeInv
<1>2. QED
  BY <1>1, OutcomeInit, OutcomeStep, PTL DEF Spec

(* A create that returned Ok leaves a cluster and a memo naming it, which  *)
(* destroy can act on, however earlier runs crashed or failed.             *)
THEOREM CreateOkIsDestroyableHolds == Spec => []CreateOkIsDestroyable
<1>1. OutcomeInv => CreateOkIsDestroyable
  BY DEF OutcomeInv
<1>2. QED
  BY <1>1, OutcomeInit, OutcomeStep, PTL DEF Spec

=============================================================================
