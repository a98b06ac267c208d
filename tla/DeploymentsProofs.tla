--------------------------- MODULE DeploymentsProofs ---------------------------
(***************************************************************************)
(* Proofs about Deployments, for any number of concurrent calls, any set   *)
(* of stacks and any budget of faults and crashes; and about               *)
(* Infrastructure, the contracts that the calls' Nitro workers share, for  *)
(* any signers, prices, number of parts and bounds.                        *)
(***************************************************************************)
EXTENDS Deployments, ParentChain, FiniteSetTheorems, TLAPS

-----------------------------------------------------------------------------
(* The data the model is built from.                                       *)

\* Whatever the stack, its pipeline is a non-empty list of known stage names.
LEMMA PipelineType ==
  /\ Len(Pipeline) \in Nat \ {0}
  /\ DOMAIN Pipeline = 1..Len(Pipeline)
  /\ \A i \in 1..Len(Pipeline) : Pipeline[i] \in Stages
<1>1. CASE stack = "opstack"
  <2>1. Pipeline = OpStackPipeline
    BY <1>1 DEF Pipeline
  <2>2. Len(OpStackPipeline) = 5 /\ DOMAIN OpStackPipeline = 1..5
    BY DEF OpStackPipeline
  <2>3. \A i \in 1..5 : OpStackPipeline[i] \in Stages
    BY <2>2 DEF Stages
  <2>. QED  BY <2>1, <2>2, <2>3
<1>2. CASE stack = "nitro"
  <2>1. Pipeline = NitroPipeline
    BY <1>2 DEF Pipeline
  <2>2. Len(NitroPipeline) = 5 /\ DOMAIN NitroPipeline = 1..5
    BY DEF NitroPipeline
  <2>3. \A i \in 1..5 : NitroPipeline[i] \in Stages
    BY <2>2 DEF Stages
  <2>. QED  BY <2>1, <2>2, <2>3
<1>3. CASE stack = "pop-opstack"
  <2>1. Pipeline = PopOpStackPipeline
    BY <1>3 DEF Pipeline
  <2>2. Len(PopOpStackPipeline) = 3 /\ DOMAIN PopOpStackPipeline = 1..3
    BY DEF PopOpStackPipeline
  <2>3. \A i \in 1..3 : PopOpStackPipeline[i] \in Stages
    BY <2>2 DEF Stages
  <2>. QED  BY <2>1, <2>2, <2>3
<1>4. CASE stack \notin {"opstack", "nitro", "pop-opstack"}
  <2>1. Pipeline = PopNitroPipeline
    BY <1>4 DEF Pipeline
  <2>2. Len(PopNitroPipeline) = 6 /\ DOMAIN PopNitroPipeline = 1..6
    BY DEF PopNitroPipeline
  <2>3. \A i \in 1..6 : PopNitroPipeline[i] \in Stages
    BY <2>2 DEF Stages
  <2>. QED  BY <2>1, <2>2, <2>3
<1>. QED  BY <1>1, <1>2, <1>3, <1>4

\* Whatever the stack, the artifacts it saves form a non-empty list.
LEMMA ArtifactsType ==
  /\ Len(ArtifactsOf) \in Nat \ {0}
  /\ DOMAIN ArtifactsOf = 1..Len(ArtifactsOf)
<1>1. CASE stack = "opstack"
  BY <1>1 DEF ArtifactsOf
<1>2. CASE stack = "nitro"
  BY <1>2 DEF ArtifactsOf
<1>3. CASE stack \notin {"opstack", "nitro"}
  <2>1. ArtifactsOf = <<"configs", "anvil_state">>
    BY <1>3 DEF ArtifactsOf
  <2>. QED  BY <2>1
<1>. QED  BY <1>1, <1>2, <1>3

\* No step changes the stack of a deployment, nor what depends on it.
LEMMA StackIsFixed ==
  ASSUME [Next]_vars
  PROVE  /\ stack' = stack
         /\ Pipeline' = Pipeline
         /\ ArtifactsOf' = ArtifactsOf
         /\ RequiredArtifacts' = RequiredArtifacts
<1>1. stack' = stack
  BY DEF Next, vars, rowVars, ApiCreate, FormCreate, ApiStart, DeploymentResume,
         ProcessPendingDeployments, Proceed, ApiMarkRunning, ResumeReset, ResumeClear,
         Enrich, SaveConfig, MarkRunning, Register, CallerError, Worker, WorkerFrame,
         Load, RunStage, PipelineDone, SaveArtifacts, NitroSaveArtifacts, MarkComplete,
         MarkFailedError, MarkFailedStatus, WorkerError, Cleanup, StopDeployment,
         StopMarkPaused, MarkStaleDeploymentsFailed, Age, Crash
<1>. QED  BY <1>1 DEF Pipeline, ArtifactsOf, RequiredArtifacts

-----------------------------------------------------------------------------
(* Type correctness.                                                       *)

\* Every name the actions write is one the types know.
LEMMA Names ==
  /\ {"none", "completed", "complete", "artifacts", "generating_configs", "init"} \subseteq Stages
  /\ DoneStage \in Stages /\ FinalStage \in Stages
  /\ {"absent", "pending", "running", "paused", "completed", "failed"} \subseteq Statuses
  /\ {"idle", "api_running", "reset", "clear", "enrich", "config", "running", "register",
       "caller_error", "load", "pipe", "save", "complete", "mark_error", "mark_failed",
       "worker_error", "cleanup"} \subseteq PCs
<1>1. "init" \in Stages
  <2>1. 1 \in DOMAIN OpStackPipeline /\ OpStackPipeline[1] = "init"
    BY DEF OpStackPipeline
  <2>. QED  BY <2>1 DEF Stages
<1>. QED  BY <1>1 DEF Stages, DoneStage, FinalStage, Statuses, PCs, WorkerPCs

\* A statement leaves the row and the bounds well typed.
LEMMA StatementTypes ==
  ASSUME RowTypeOK, BoundsOK
  PROVE  /\ CreateDeployment => RowTypeOK' /\ BoundsOK'
         /\ \A st \in Statuses, sg \in Stages :
              UpdateDeploymentStatus(st, sg) => RowTypeOK' /\ BoundsOK'
         /\ UpdateDeploymentConfig => RowTypeOK' /\ BoundsOK'
         /\ SetDeploymentError => RowTypeOK' /\ BoundsOK'
         /\ ClearDeploymentError => RowTypeOK' /\ BoundsOK'
         /\ Fails => RowTypeOK' /\ BoundsOK'
         /\ UNCHANGED <<row, faults, crashes, excused>> => RowTypeOK' /\ BoundsOK'
<1>. USE Names, DeploymentsAssumption DEF RowTypeOK, BoundsOK, Succeeds
<1>1. CreateDeployment => RowTypeOK' /\ BoundsOK'
  BY DEF CreateDeployment
<1>2. ASSUME NEW st \in Statuses, NEW sg \in Stages, UpdateDeploymentStatus(st, sg)
      PROVE  RowTypeOK' /\ BoundsOK'
  BY <1>2 DEF UpdateDeploymentStatus
<1>3. UpdateDeploymentConfig => RowTypeOK' /\ BoundsOK'
  BY DEF UpdateDeploymentConfig
<1>4. SetDeploymentError => RowTypeOK' /\ BoundsOK'
  BY DEF SetDeploymentError
<1>5. ClearDeploymentError => RowTypeOK' /\ BoundsOK'
  BY DEF ClearDeploymentError
<1>6. Fails => RowTypeOK' /\ BoundsOK'
  BY DEF Fails
<1>7. UNCHANGED <<row, faults, crashes, excused>> => RowTypeOK' /\ BoundsOK'
  OBVIOUS
<1>. QED  BY <1>1, <1>2, <1>3, <1>4, <1>5, <1>6, <1>7

\* A jump of a call leaves the program counters well typed.
LEMMA GotoType ==
  ASSUME pc \in [Calls -> PCs], NEW p \in Calls, NEW l \in PCs, Goto(p, l)
  PROVE  pc' \in [Calls -> PCs]
  BY DEF Goto

\* The types hold initially.
LEMMA InitType == Init => TypeOK
<1>. SUFFICES ASSUME Init PROVE TypeOK
  OBVIOUS
<1>. USE Names DEF Init
<1>1. RowTypeOK
  BY DEF RowTypeOK
<1>2. WorkTypeOK
  <2>1. 0 \in 0..Len(Pipeline)
    BY PipelineType
  <2>. QED  BY <2>1 DEF WorkTypeOK
<1>3. CallsTypeOK /\ ProcTypeOK
  BY DEF CallsTypeOK, ProcTypeOK
<1>4. BoundsOK
  <2>1. faults \in 0..MaxFaults /\ crashes \in 0..MaxCrashes
    BY DeploymentsAssumption
  <2>2. excused \in BOOLEAN
    BY Zenon
  <2>. QED  BY <2>1, <2>2 DEF BoundsOK
<1>. QED  BY <1>1, <1>2, <1>3, <1>4 DEF TypeOK

\* No step breaks them, action by action.
LEMMA StepType == TypeOK /\ [Next]_vars => TypeOK'
<1>. SUFFICES ASSUME TypeOK, [Next]_vars PROVE TypeOK'
  OBVIOUS
<1>. USE StackIsFixed, Names, StatementTypes, GotoType
<1>. USE DEF TypeOK, CallsTypeOK, WorkTypeOK, ProcTypeOK
<1>1. ASSUME NEW p \in Calls, FormCreate(p) PROVE TypeOK'
  BY <1>1 DEF FormCreate, Admit, procVars
<1>2. ASSUME NEW p \in Calls, ApiStart(p) PROVE TypeOK'
  BY <1>2 DEF ApiStart, Admit, rowVars, procVars, boundVars
<1>3. ASSUME NEW p \in Calls, DeploymentResume(p) PROVE TypeOK'
  BY <1>3 DEF DeploymentResume, Admit, rowVars, procVars, boundVars
<1>4. ASSUME NEW p \in Calls, ProcessPendingDeployments(p) PROVE TypeOK'
  BY <1>4 DEF ProcessPendingDeployments, Admit, rowVars, callVars, boundVars
<1>5. ASSUME NEW p \in Calls, ApiMarkRunning(p) PROVE TypeOK'
  BY <1>5 DEF ApiMarkRunning, Leave, procVars
<1>6. ASSUME NEW p \in Calls, ResumeReset(p) PROVE TypeOK'
  BY <1>6 DEF ResumeReset, Leave, procVars
<1>7. ASSUME NEW p \in Calls, ResumeClear(p) PROVE TypeOK'
  BY <1>7 DEF ResumeClear, procVars
<1>8. ASSUME NEW p \in Calls, Enrich(p) PROVE TypeOK'
  BY <1>8 DEF Enrich, procVars, boundVars
<1>9. ASSUME NEW p \in Calls, SaveConfig(p) PROVE TypeOK'
  BY <1>9 DEF SaveConfig, procVars
<1>10. ASSUME NEW p \in Calls, MarkRunning(p) PROVE TypeOK'
  BY <1>10 DEF MarkRunning, procVars
<1>11. ASSUME NEW p \in Calls, Register(p) PROVE TypeOK'
  BY <1>11 DEF Register, rowVars, boundVars
<1>12. ASSUME NEW p \in Calls, CallerError(p) PROVE TypeOK'
  BY <1>12 DEF CallerError, Leave, procVars, boundVars
<1>13. ASSUME NEW p \in Calls, Load(p) PROVE TypeOK'
  BY <1>13 DEF Load, OpStackLoad, NitroLoad, PopLoad, WorkerFrame, CtxFails,
         CtxUpdateStatus, boundVars, procVars
<1>14. ASSUME NEW p \in Calls, RunStage(p) PROVE TypeOK'
  <2>. DEFINE i == at[p] + 1
  <2>1. i \in 1..Len(Pipeline) /\ i \in DOMAIN Pipeline
    BY <1>14, PipelineType DEF RunStage
  <2>2. Pipeline[i] \in Stages
    BY <2>1, PipelineType
  <2>3. RowTypeOK' /\ BoundsOK'
    BY <1>14, <2>2 DEF RunStage, CtxUpdateStatus, CtxFails, boundVars
  <2>4. CallsTypeOK' /\ ProcTypeOK'
    BY <1>14 DEF RunStage, FailurePC, WorkerFrame, procVars
  <2>5. WorkTypeOK'
    <3>1. onchain' \subseteq {Pipeline[k] : k \in DOMAIN Pipeline}
      BY <1>14, <2>1 DEF RunStage
    <3>2. at' \in [Calls -> 0..Len(Pipeline)]
      BY <1>14, <2>1, PipelineType DEF RunStage
    <3>. QED  BY <1>14, <3>1, <3>2 DEF RunStage
  <2>. QED  BY <2>3, <2>4, <2>5
<1>15. ASSUME NEW p \in Calls, PipelineDone(p) PROVE TypeOK'
  BY <1>15 DEF PipelineDone, CtxFails, CtxUpdateStatus, WorkerFrame, boundVars, procVars
<1>16. ASSUME NEW p \in Calls, SaveArtifacts(p) PROVE TypeOK'
  BY <1>16 DEF SaveArtifacts, CtxFails, FailurePC, SavedUpTo, WorkerFrame, boundVars,
         procVars
<1>17. ASSUME NEW p \in Calls, NitroSaveArtifacts(p) PROVE TypeOK'
  BY <1>17 DEF NitroSaveArtifacts, CtxFails, CtxUpdateStatus, SavedUpTo, WorkerFrame,
         boundVars, procVars
<1>18. ASSUME NEW p \in Calls, MarkComplete(p) PROVE TypeOK'
  BY <1>18 DEF MarkComplete, CtxFails, CtxUpdateStatus, WorkerFrame, boundVars, procVars
<1>19. ASSUME NEW p \in Calls, MarkFailedError(p) PROVE TypeOK'
  BY <1>19 DEF MarkFailedError, CtxFails, CtxSetError, WorkerFrame, boundVars, procVars
<1>20. ASSUME NEW p \in Calls, MarkFailedStatus(p) PROVE TypeOK'
  BY <1>20 DEF MarkFailedStatus, CtxFails, CtxUpdateStatus, WorkerFrame, boundVars,
         procVars
<1>21. ASSUME NEW p \in Calls, WorkerError(p) PROVE TypeOK'
  BY <1>21 DEF WorkerError, WorkerFrame, procVars
<1>22. ASSUME NEW p \in Calls, Cleanup(p) PROVE TypeOK'
  BY <1>22 DEF Cleanup, rowVars, boundVars
<1>23. CASE ApiCreate
  BY <1>23 DEF ApiCreate, callVars, procVars
<1>24. CASE StopDeployment
  BY <1>24 DEF StopDeployment, rowVars, boundVars
<1>25. CASE StopMarkPaused
  BY <1>25 DEF StopMarkPaused, callVars
<1>26. CASE MarkStaleDeploymentsFailed
  BY <1>26 DEF MarkStaleDeploymentsFailed, callVars, procVars
<1>27. CASE Age
  <2>1. RowTypeOK' /\ BoundsOK'
    BY <1>27 DEF Age, boundVars, RowTypeOK, BoundsOK
  <2>. QED  BY <1>27, <2>1 DEF Age, callVars, procVars
<1>28. CASE Crash
  <2>1. RowTypeOK' /\ BoundsOK'
    BY <1>28, DeploymentsAssumption DEF Crash, rowVars, RowTypeOK, BoundsOK
  <2>2. at' \in [Calls -> 0..Len(Pipeline)]
    BY <1>28, PipelineType DEF Crash
  <2>. QED  BY <1>28, <2>1, <2>2 DEF Crash, rowVars
<1>29. CASE UNCHANGED vars
  BY <1>29 DEF vars, rowVars, callVars, procVars, boundVars
<1>. QED  BY <1>1, <1>2, <1>3, <1>4, <1>5, <1>6, <1>7, <1>8, <1>9, <1>10, <1>11, <1>12,
          <1>13, <1>14, <1>15, <1>16, <1>17, <1>18, <1>19, <1>20, <1>21, <1>22, <1>23,
          <1>24, <1>25, <1>26, <1>27, <1>28, <1>29 DEF Next, Proceed, Worker

\* Every variable keeps its type, whatever the number of calls and the budgets.
THEOREM TypeCorrect == Spec => []TypeOK
<1>1. Init => TypeOK
  BY InitType
<1>2. TypeOK /\ [Next]_vars => TypeOK'
  BY StepType
<1>. QED  BY <1>1, <1>2, PTL DEF Spec

-----------------------------------------------------------------------------
(* The runningJobs map.                                                    *)

\* Only workers are ever cancelled, and the entry of runningJobs is a worker.
JobInv ==
  /\ JobIsLive
  /\ \A p \in Calls : cancelled[p] => pc[p] \in WorkerPCs

\* No step breaks that: an entry is replaced or deleted, never left behind.
LEMMA JobStep == TypeOK /\ JobInv /\ [Next]_vars => JobInv'
<1>. SUFFICES ASSUME TypeOK, JobInv, [Next]_vars PROVE JobInv'
  OBVIOUS
<1>. USE DeploymentsAssumption
<1>. USE DEF TypeOK, CallsTypeOK, ProcTypeOK, JobInv, JobIsLive, WorkerPCs
<1>1. ASSUME NEW p \in Calls, FormCreate(p) PROVE JobInv'
  BY <1>1 DEF FormCreate, Admit, procVars, Goto
<1>2. ASSUME NEW p \in Calls, ApiStart(p) PROVE JobInv'
  BY <1>2 DEF ApiStart, Admit, rowVars, procVars, boundVars, Goto
<1>3. ASSUME NEW p \in Calls, DeploymentResume(p) PROVE JobInv'
  BY <1>3 DEF DeploymentResume, Admit, rowVars, procVars, boundVars, Goto
<1>4. ASSUME NEW p \in Calls, ProcessPendingDeployments(p) PROVE JobInv'
  BY <1>4 DEF ProcessPendingDeployments, Admit, rowVars, callVars, boundVars, Goto
<1>5. ASSUME NEW p \in Calls, ApiMarkRunning(p) PROVE JobInv'
  BY <1>5 DEF ApiMarkRunning, Goto, Leave, procVars
<1>6. ASSUME NEW p \in Calls, ResumeReset(p) PROVE JobInv'
  BY <1>6 DEF ResumeReset, Goto, Leave, procVars
<1>7. ASSUME NEW p \in Calls, ResumeClear(p) PROVE JobInv'
  BY <1>7 DEF ResumeClear, Goto, procVars
<1>8. ASSUME NEW p \in Calls, Enrich(p) PROVE JobInv'
  BY <1>8 DEF Enrich, Goto, procVars, boundVars
<1>9. ASSUME NEW p \in Calls, SaveConfig(p) PROVE JobInv'
  BY <1>9 DEF SaveConfig, Goto, procVars
<1>10. ASSUME NEW p \in Calls, MarkRunning(p) PROVE JobInv'
  BY <1>10 DEF MarkRunning, Goto, procVars
<1>11. ASSUME NEW p \in Calls, Register(p) PROVE JobInv'
  BY <1>11 DEF Register, Goto, rowVars, boundVars
<1>12. ASSUME NEW p \in Calls, CallerError(p) PROVE JobInv'
  BY <1>12 DEF CallerError, Leave, procVars, boundVars, Goto
<1>13. ASSUME NEW p \in Calls, Load(p) PROVE JobInv'
  BY <1>13 DEF Load, OpStackLoad, NitroLoad, PopLoad, WorkerFrame, Goto, boundVars,
         procVars
<1>14. ASSUME NEW p \in Calls, RunStage(p) PROVE JobInv'
  BY <1>14 DEF RunStage, Goto, FailurePC, WorkerFrame, procVars
<1>15. ASSUME NEW p \in Calls, PipelineDone(p) PROVE JobInv'
  BY <1>15 DEF PipelineDone, Goto, WorkerFrame, procVars
<1>16. ASSUME NEW p \in Calls, SaveArtifacts(p) PROVE JobInv'
  BY <1>16 DEF SaveArtifacts, Goto, FailurePC, WorkerFrame, boundVars, procVars
<1>17. ASSUME NEW p \in Calls, NitroSaveArtifacts(p) PROVE JobInv'
  BY <1>17 DEF NitroSaveArtifacts, Goto, WorkerFrame, procVars
<1>18. ASSUME NEW p \in Calls, MarkComplete(p) PROVE JobInv'
  BY <1>18 DEF MarkComplete, Goto, WorkerFrame, procVars
<1>19. ASSUME NEW p \in Calls, MarkFailedError(p) PROVE JobInv'
  BY <1>19 DEF MarkFailedError, Goto, WorkerFrame, procVars
<1>20. ASSUME NEW p \in Calls, MarkFailedStatus(p) PROVE JobInv'
  BY <1>20 DEF MarkFailedStatus, Goto, WorkerFrame, procVars
<1>21. ASSUME NEW p \in Calls, WorkerError(p) PROVE JobInv'
  BY <1>21 DEF WorkerError, Goto, WorkerFrame, procVars
<1>22. ASSUME NEW p \in Calls, Cleanup(p) PROVE JobInv'
  BY <1>22 DEF Cleanup, Goto, rowVars, boundVars
<1>23. CASE ApiCreate
  BY <1>23 DEF ApiCreate, callVars, procVars
<1>24. CASE StopDeployment
  BY <1>24 DEF StopDeployment, rowVars, boundVars
<1>25. CASE StopMarkPaused
  BY <1>25 DEF StopMarkPaused, callVars
<1>26. CASE MarkStaleDeploymentsFailed
  BY <1>26 DEF MarkStaleDeploymentsFailed, callVars, procVars
<1>27. CASE Age
  BY <1>27 DEF Age, callVars, procVars, boundVars
<1>28. CASE Crash
  BY <1>28 DEF Crash, rowVars
<1>29. CASE UNCHANGED vars
  BY <1>29 DEF vars, rowVars, callVars, procVars, boundVars
<1>. QED  BY <1>1, <1>2, <1>3, <1>4, <1>5, <1>6, <1>7, <1>8, <1>9, <1>10, <1>11, <1>12,
          <1>13, <1>14, <1>15, <1>16, <1>17, <1>18, <1>19, <1>20, <1>21, <1>22, <1>23,
          <1>24, <1>25, <1>26, <1>27, <1>28, <1>29 DEF Next, Proceed, Worker

\* StopDeployment only ever cancels a worker that has not finished.
THEOREM JobIsLiveAlways == Spec => []JobIsLive
<1>1. Init => JobInv
  BY DEF Init, JobInv, JobIsLive
<1>2. TypeOK /\ JobInv /\ [Next]_vars => JobInv'
  BY JobStep
<1>3. JobInv => JobIsLive
  BY DEF JobInv
<1>. QED  BY <1>1, <1>2, <1>3, TypeCorrect, PTL DEF Spec

-----------------------------------------------------------------------------
(* Who is responsible for a running deployment.                            *)

\* A step that ends a call's responsibility leaves the row out of "running", is a
\* fault, or leaves it to somebody else.
LEMMA OwnerStep == TypeOK /\ JobInv /\ RunningIsOwned /\ [Next]_vars => RunningIsOwned'
<1>. SUFFICES ASSUME TypeOK, JobInv, RunningIsOwned, [Next]_vars PROVE RunningIsOwned'
  OBVIOUS
<1>. USE DEF TypeOK, RowTypeOK, CallsTypeOK, JobInv, RunningIsOwned, Responsible, WorkerPCs
<1>1. ASSUME NEW p \in Calls, FormCreate(p) PROVE RunningIsOwned'
  BY <1>1 DEF FormCreate, CreateDeployment, Admit, procVars, Succeeds, Goto
<1>2. ASSUME NEW p \in Calls, ApiStart(p) PROVE RunningIsOwned'
  BY <1>2 DEF ApiStart, Admit, rowVars, procVars, boundVars, Goto
<1>3. ASSUME NEW p \in Calls, DeploymentResume(p) PROVE RunningIsOwned'
  BY <1>3 DEF DeploymentResume, Admit, rowVars, procVars, boundVars, Goto
<1>4. ASSUME NEW p \in Calls, ProcessPendingDeployments(p) PROVE RunningIsOwned'
  BY <1>4 DEF ProcessPendingDeployments, Fails, Admit, rowVars, callVars, boundVars,
         Goto
<1>5. ASSUME NEW p \in Calls, ApiMarkRunning(p) PROVE RunningIsOwned'
  BY <1>5 DEF ApiMarkRunning, UpdateDeploymentStatus, Fails, Goto, Leave, procVars,
         Succeeds
<1>6. ASSUME NEW p \in Calls, ResumeReset(p) PROVE RunningIsOwned'
  BY <1>6 DEF ResumeReset, UpdateDeploymentStatus, Fails, Goto, Leave, procVars,
         Succeeds
<1>7. ASSUME NEW p \in Calls, ResumeClear(p) PROVE RunningIsOwned'
  BY <1>7 DEF ResumeClear, ClearDeploymentError, Fails, Goto, procVars, Succeeds
<1>8. ASSUME NEW p \in Calls, Enrich(p) PROVE RunningIsOwned'
  BY <1>8 DEF Enrich, SetDeploymentError, Fails, Goto, procVars, boundVars, Succeeds
<1>9. ASSUME NEW p \in Calls, SaveConfig(p) PROVE RunningIsOwned'
  BY <1>9 DEF SaveConfig, UpdateDeploymentConfig, Fails, Goto, procVars, Succeeds
<1>10. ASSUME NEW p \in Calls, MarkRunning(p) PROVE RunningIsOwned'
  BY <1>10 DEF MarkRunning, UpdateDeploymentStatus, Fails, Goto, procVars, Succeeds
<1>11. ASSUME NEW p \in Calls, Register(p) PROVE RunningIsOwned'
  BY <1>11 DEF Register, Goto, rowVars, boundVars
<1>12. ASSUME NEW p \in Calls, CallerError(p) PROVE RunningIsOwned'
  BY <1>12 DEF CallerError, SetDeploymentError, Fails, Leave, procVars, boundVars,
         Succeeds, Goto
<1>13. ASSUME NEW p \in Calls, Load(p) PROVE RunningIsOwned'
  BY <1>13 DEF Load, OpStackLoad, NitroLoad, PopLoad, WorkerFrame, CtxFails,
         CtxUpdateStatus, Goto, boundVars, Fails, procVars, UpdateDeploymentStatus,
         Succeeds
<1>14. ASSUME NEW p \in Calls, RunStage(p) PROVE RunningIsOwned'
  BY <1>14 DEF RunStage, CtxFails, CtxUpdateStatus, Goto, FailurePC, WorkerFrame, Fails,
         boundVars, UpdateDeploymentStatus, procVars, Succeeds
<1>15. ASSUME NEW p \in Calls, PipelineDone(p) PROVE RunningIsOwned'
  BY <1>15 DEF PipelineDone, CtxFails, CtxUpdateStatus, Goto, WorkerFrame, Fails,
         boundVars, UpdateDeploymentStatus, procVars, Succeeds
<1>16. ASSUME NEW p \in Calls, SaveArtifacts(p) PROVE RunningIsOwned'
  BY <1>16 DEF SaveArtifacts, CtxFails, Goto, FailurePC, WorkerFrame, boundVars, Fails,
         procVars
<1>17. ASSUME NEW p \in Calls, NitroSaveArtifacts(p) PROVE RunningIsOwned'
  BY <1>17 DEF NitroSaveArtifacts, CtxFails, CtxUpdateStatus, Goto, WorkerFrame, Fails,
         boundVars, UpdateDeploymentStatus, procVars, Succeeds
<1>18. ASSUME NEW p \in Calls, MarkComplete(p) PROVE RunningIsOwned'
  BY <1>18 DEF MarkComplete, CtxFails, CtxUpdateStatus, Goto, WorkerFrame, Fails,
         boundVars, UpdateDeploymentStatus, procVars, Succeeds
<1>19. ASSUME NEW p \in Calls, MarkFailedError(p) PROVE RunningIsOwned'
  BY <1>19 DEF MarkFailedError, CtxFails, CtxSetError, Goto, WorkerFrame, Fails,
         boundVars, SetDeploymentError, procVars, Succeeds
<1>20. ASSUME NEW p \in Calls, MarkFailedStatus(p) PROVE RunningIsOwned'
  BY <1>20 DEF MarkFailedStatus, CtxFails, CtxUpdateStatus, Goto, WorkerFrame, Fails,
         boundVars, UpdateDeploymentStatus, procVars, Succeeds
<1>21. ASSUME NEW p \in Calls, WorkerError(p) PROVE RunningIsOwned'
  BY <1>21 DEF WorkerError, SetDeploymentError, Fails, Goto, WorkerFrame, Succeeds,
         procVars
<1>22. ASSUME NEW p \in Calls, Cleanup(p) PROVE RunningIsOwned'
  BY <1>22 DEF Cleanup, Goto, rowVars, boundVars
<1>23. CASE ApiCreate
  BY <1>23 DEF ApiCreate, CreateDeployment, callVars, procVars, Succeeds
<1>24. CASE StopDeployment
  BY <1>24 DEF StopDeployment, rowVars, boundVars
<1>25. CASE StopMarkPaused
  BY <1>25 DEF StopMarkPaused, UpdateDeploymentStatus, Fails, callVars, Succeeds
<1>26. CASE MarkStaleDeploymentsFailed
  BY <1>26 DEF MarkStaleDeploymentsFailed, SetDeploymentError, callVars, procVars,
         Succeeds
<1>27. CASE Age
  BY <1>27 DEF Age, callVars, procVars, boundVars
<1>28. CASE Crash
  BY <1>28 DEF Crash, rowVars
<1>29. CASE UNCHANGED vars
  BY <1>29 DEF vars, rowVars, callVars, procVars, boundVars
<1>. QED  BY <1>1, <1>2, <1>3, <1>4, <1>5, <1>6, <1>7, <1>8, <1>9, <1>10, <1>11, <1>12,
          <1>13, <1>14, <1>15, <1>16, <1>17, <1>18, <1>19, <1>20, <1>21, <1>22, <1>23,
          <1>24, <1>25, <1>26, <1>27, <1>28, <1>29 DEF Next, Proceed, Worker

\* No goroutine walks away from a running deployment, however many calls,
\* retries and stops there are, unless a statement failed or the process died.
THEOREM RunningIsAlwaysOwned == Spec => []RunningIsOwned
<1>1. Init => JobInv /\ RunningIsOwned
  BY DEF Init, JobInv, JobIsLive, RunningIsOwned
<1>2. TypeOK /\ JobInv /\ [Next]_vars => JobInv'
  BY JobStep
<1>3. TypeOK /\ JobInv /\ RunningIsOwned /\ [Next]_vars => RunningIsOwned'
  BY OwnerStep
<1>. QED  BY <1>1, <1>2, <1>3, TypeCorrect, PTL DEF Spec

-----------------------------------------------------------------------------
(* Why a deployment failed.                                                *)

\* A call that will give the row an error, or another status, before it ends.
WillSettle(p) == pc[p] \in {"enrich", "config", "running", "worker_error"}

\* A failure without a message, which the status update of MarkFailed and the
\* clearing of a resume can both bring about, has a call that will settle it.
ExplainedInv ==
  row.status = "failed" /\ ~row.error /\ ~excused => \E p \in Calls : WillSettle(p)

\* A statement that succeeds settles the row, or its call will; one that fails excuses it.
LEMMA ExplainedStep == TypeOK /\ ExplainedInv /\ [Next]_vars => ExplainedInv'
<1>. SUFFICES ASSUME TypeOK, ExplainedInv, [Next]_vars PROVE ExplainedInv'
  OBVIOUS
<1>. USE DEF TypeOK, RowTypeOK, CallsTypeOK, BoundsOK, ExplainedInv, WillSettle
<1>1. ASSUME NEW p \in Calls, FormCreate(p) PROVE ExplainedInv'
  BY <1>1 DEF FormCreate, CreateDeployment, Admit, procVars, Succeeds, Goto
<1>2. ASSUME NEW p \in Calls, ApiStart(p) PROVE ExplainedInv'
  BY <1>2 DEF ApiStart, Admit, rowVars, procVars, boundVars, Goto
<1>3. ASSUME NEW p \in Calls, DeploymentResume(p) PROVE ExplainedInv'
  BY <1>3 DEF DeploymentResume, Admit, rowVars, procVars, boundVars, Goto
<1>4. ASSUME NEW p \in Calls, ProcessPendingDeployments(p) PROVE ExplainedInv'
  BY <1>4 DEF ProcessPendingDeployments, Fails, Admit, rowVars, callVars, boundVars,
         Goto
<1>5. ASSUME NEW p \in Calls, ApiMarkRunning(p) PROVE ExplainedInv'
  BY <1>5 DEF ApiMarkRunning, UpdateDeploymentStatus, Fails, Goto, Leave, procVars,
         Succeeds
<1>6. ASSUME NEW p \in Calls, ResumeReset(p) PROVE ExplainedInv'
  BY <1>6 DEF ResumeReset, UpdateDeploymentStatus, Fails, Goto, Leave, procVars,
         Succeeds
<1>7. ASSUME NEW p \in Calls, ResumeClear(p) PROVE ExplainedInv'
  BY <1>7 DEF ResumeClear, ClearDeploymentError, Fails, Goto, procVars, Succeeds
<1>8. ASSUME NEW p \in Calls, Enrich(p) PROVE ExplainedInv'
  BY <1>8 DEF Enrich, SetDeploymentError, Fails, Goto, procVars, boundVars, Succeeds
<1>9. ASSUME NEW p \in Calls, SaveConfig(p) PROVE ExplainedInv'
  BY <1>9 DEF SaveConfig, UpdateDeploymentConfig, Fails, Goto, procVars, Succeeds
<1>10. ASSUME NEW p \in Calls, MarkRunning(p) PROVE ExplainedInv'
  BY <1>10 DEF MarkRunning, UpdateDeploymentStatus, Fails, Goto, procVars, Succeeds
<1>11. ASSUME NEW p \in Calls, Register(p) PROVE ExplainedInv'
  BY <1>11 DEF Register, Goto, rowVars, boundVars
<1>12. ASSUME NEW p \in Calls, CallerError(p) PROVE ExplainedInv'
  BY <1>12 DEF CallerError, SetDeploymentError, Fails, Leave, procVars, boundVars,
         Succeeds, Goto
<1>13. ASSUME NEW p \in Calls, Load(p) PROVE ExplainedInv'
  BY <1>13 DEF Load, OpStackLoad, NitroLoad, PopLoad, WorkerFrame, CtxFails,
         CtxUpdateStatus, Goto, boundVars, Fails, procVars, UpdateDeploymentStatus,
         Succeeds
<1>14. ASSUME NEW p \in Calls, RunStage(p) PROVE ExplainedInv'
  BY <1>14 DEF RunStage, CtxFails, CtxUpdateStatus, Goto, FailurePC, WorkerFrame, Fails,
         boundVars, UpdateDeploymentStatus, procVars, Succeeds
<1>15. ASSUME NEW p \in Calls, PipelineDone(p) PROVE ExplainedInv'
  BY <1>15 DEF PipelineDone, CtxFails, CtxUpdateStatus, Goto, WorkerFrame, Fails,
         boundVars, UpdateDeploymentStatus, procVars, Succeeds
<1>16. ASSUME NEW p \in Calls, SaveArtifacts(p) PROVE ExplainedInv'
  BY <1>16 DEF SaveArtifacts, CtxFails, Goto, FailurePC, WorkerFrame, boundVars, Fails,
         procVars
<1>17. ASSUME NEW p \in Calls, NitroSaveArtifacts(p) PROVE ExplainedInv'
  BY <1>17 DEF NitroSaveArtifacts, CtxFails, CtxUpdateStatus, Goto, WorkerFrame, Fails,
         boundVars, UpdateDeploymentStatus, procVars, Succeeds
<1>18. ASSUME NEW p \in Calls, MarkComplete(p) PROVE ExplainedInv'
  BY <1>18 DEF MarkComplete, CtxFails, CtxUpdateStatus, Goto, WorkerFrame, Fails,
         boundVars, UpdateDeploymentStatus, procVars, Succeeds
<1>19. ASSUME NEW p \in Calls, MarkFailedError(p) PROVE ExplainedInv'
  BY <1>19 DEF MarkFailedError, CtxFails, CtxSetError, Goto, WorkerFrame, Fails,
         boundVars, SetDeploymentError, procVars, Succeeds
<1>20. ASSUME NEW p \in Calls, MarkFailedStatus(p) PROVE ExplainedInv'
  BY <1>20 DEF MarkFailedStatus, CtxFails, CtxUpdateStatus, Goto, WorkerFrame, Fails,
         boundVars, UpdateDeploymentStatus, procVars, Succeeds
<1>21. ASSUME NEW p \in Calls, WorkerError(p) PROVE ExplainedInv'
  BY <1>21 DEF WorkerError, SetDeploymentError, Fails, Goto, WorkerFrame, Succeeds,
         procVars
<1>22. ASSUME NEW p \in Calls, Cleanup(p) PROVE ExplainedInv'
  BY <1>22 DEF Cleanup, Goto, rowVars, boundVars
<1>23. CASE ApiCreate
  BY <1>23 DEF ApiCreate, CreateDeployment, callVars, procVars, Succeeds
<1>24. CASE StopDeployment
  BY <1>24 DEF StopDeployment, rowVars, boundVars
<1>25. CASE StopMarkPaused
  BY <1>25 DEF StopMarkPaused, UpdateDeploymentStatus, Fails, callVars, Succeeds
<1>26. CASE MarkStaleDeploymentsFailed
  BY <1>26 DEF MarkStaleDeploymentsFailed, SetDeploymentError, callVars, procVars,
         Succeeds
<1>27. CASE Age
  BY <1>27 DEF Age, callVars, procVars, boundVars
<1>28. CASE Crash
  BY <1>28 DEF Crash, rowVars
<1>29. CASE UNCHANGED vars
  BY <1>29 DEF vars, rowVars, callVars, procVars, boundVars
<1>. QED  BY <1>1, <1>2, <1>3, <1>4, <1>5, <1>6, <1>7, <1>8, <1>9, <1>10, <1>11, <1>12,
          <1>13, <1>14, <1>15, <1>16, <1>17, <1>18, <1>19, <1>20, <1>21, <1>22, <1>23,
          <1>24, <1>25, <1>26, <1>27, <1>28, <1>29 DEF Next, Proceed, Worker

\* Once everybody who touched it has left, a failed deployment says why.
THEOREM FailedIsAlwaysExplained == Spec => []FailedIsExplained
<1>1. Init => ExplainedInv
  BY DEF Init, ExplainedInv
<1>2. TypeOK /\ ExplainedInv /\ [Next]_vars => ExplainedInv'
  BY ExplainedStep
<1>3. ExplainedInv => FailedIsExplained
  BY DEF ExplainedInv, WillSettle, FailedIsExplained, Quiet
<1>. QED  BY <1>1, <1>2, <1>3, TypeCorrect, PTL DEF Spec

-----------------------------------------------------------------------------
(* What a completed deployment rests on.                                   *)

\* The stages a worker has been through have been carried out; one that saves
\* artifacts has been through all of them; one about to mark the row completed
\* has saved every artifact it must.
StagesDone == \A p \in Calls : \A i \in 1..at[p] : Pipeline[i] \in onchain
PipelinesDone == \A p \in Calls : pc[p] \in {"save", "complete"} =>
                    \A i \in 1..Len(Pipeline) : Pipeline[i] \in onchain
ArtifactsSaved == \A p \in Calls : pc[p] = "complete" => RequiredArtifacts \subseteq artifacts

WorkInv == StagesDone /\ PipelinesDone /\ ArtifactsSaved

\* No step breaks it: stages and artifacts only accumulate.
LEMMA WorkStep == TypeOK /\ WorkInv /\ CompletedIsBacked /\ [Next]_vars
                    => WorkInv' /\ CompletedIsBacked'
<1>. DEFINE Inv == WorkInv /\ CompletedIsBacked
<1>. SUFFICES ASSUME TypeOK, Inv, [Next]_vars PROVE Inv'
  OBVIOUS
<1>. USE StackIsFixed, PipelineType
<1>. USE DEF TypeOK, RowTypeOK, WorkTypeOK, CallsTypeOK,
          WorkInv, StagesDone, PipelinesDone, ArtifactsSaved, CompletedIsBacked, Backed
<1>1. ASSUME NEW p \in Calls, FormCreate(p) PROVE Inv'
  BY <1>1 DEF FormCreate, CreateDeployment, Admit, procVars, Goto
<1>2. ASSUME NEW p \in Calls, ApiStart(p) PROVE Inv'
  BY <1>2 DEF ApiStart, Admit, rowVars, procVars, boundVars, Goto
<1>3. ASSUME NEW p \in Calls, DeploymentResume(p) PROVE Inv'
  BY <1>3 DEF DeploymentResume, Admit, rowVars, procVars, boundVars, Goto
<1>4. ASSUME NEW p \in Calls, ProcessPendingDeployments(p) PROVE Inv'
  BY <1>4 DEF ProcessPendingDeployments, Fails, Admit, rowVars, callVars, boundVars,
         Goto
<1>5. ASSUME NEW p \in Calls, ApiMarkRunning(p) PROVE Inv'
  BY <1>5 DEF ApiMarkRunning, UpdateDeploymentStatus, Fails, Goto, Leave, procVars
<1>6. ASSUME NEW p \in Calls, ResumeReset(p) PROVE Inv'
  BY <1>6 DEF ResumeReset, UpdateDeploymentStatus, Fails, Goto, Leave, procVars
<1>7. ASSUME NEW p \in Calls, ResumeClear(p) PROVE Inv'
  BY <1>7 DEF ResumeClear, ClearDeploymentError, Fails, Goto, procVars
<1>8. ASSUME NEW p \in Calls, Enrich(p) PROVE Inv'
  BY <1>8 DEF Enrich, SetDeploymentError, Fails, Goto, procVars, boundVars
<1>9. ASSUME NEW p \in Calls, SaveConfig(p) PROVE Inv'
  BY <1>9 DEF SaveConfig, UpdateDeploymentConfig, Fails, Goto, procVars
<1>10. ASSUME NEW p \in Calls, MarkRunning(p) PROVE Inv'
  BY <1>10 DEF MarkRunning, UpdateDeploymentStatus, Fails, Goto, procVars
<1>11. ASSUME NEW p \in Calls, Register(p) PROVE Inv'
  BY <1>11 DEF Register, Goto, rowVars, boundVars
<1>12. ASSUME NEW p \in Calls, CallerError(p) PROVE Inv'
  BY <1>12 DEF CallerError, SetDeploymentError, Fails, Leave, procVars, boundVars, Goto
<1>13. ASSUME NEW p \in Calls, Load(p) PROVE Inv'
  BY <1>13 DEF Load, OpStackLoad, NitroLoad, PopLoad, WorkerFrame, CtxFails,
         CtxUpdateStatus, Goto, boundVars, Fails, procVars, UpdateDeploymentStatus
<1>14. ASSUME NEW p \in Calls, RunStage(p) PROVE Inv'
  <2>1. /\ onchain \subseteq onchain' /\ artifacts' = artifacts
        /\ row'.status \in {row.status, "running"}
    BY <1>14 DEF RunStage, CtxUpdateStatus, CtxFails, UpdateDeploymentStatus, Fails, boundVars
  <2>2. \A q \in Calls : pc'[q] \in {"save", "complete"} => pc'[q] = pc[q]
    BY <1>14 DEF RunStage, Goto, FailurePC
  <2>3. StagesDone'
    <3>1. SUFFICES ASSUME NEW q \in Calls, NEW i \in 1..at'[q] PROVE Pipeline[i] \in onchain'
      OBVIOUS
    <3>2. CASE q = p
      <4>1. CASE at' = [at EXCEPT ![p] = @ + 1] /\ onchain' = onchain \cup {Pipeline[at[p] + 1]}
        <5>1. i \in 1..at[p] \/ i = at[p] + 1
          BY <3>2, <4>1
        <5>. QED  BY <4>1, <5>1
      <4>2. CASE at' = [at EXCEPT ![p] = 0]
        <5>1. at'[q] = 0
          BY <3>2, <4>2
        <5>. QED  BY <5>1
      <4>. QED  BY <1>14, <4>1, <4>2 DEF RunStage
    <3>3. CASE q # p
      <4>1. at'[q] = at[q]
        BY <1>14, <3>3 DEF RunStage
      <4>. QED  BY <2>1, <4>1
    <3>. QED  BY <3>2, <3>3
  <2>. QED  BY <2>1, <2>2, <2>3
<1>15. ASSUME NEW p \in Calls, PipelineDone(p) PROVE Inv'
  <2>1. /\ onchain' = onchain /\ artifacts' = artifacts
        /\ row'.status \in {row.status, "running"}
    BY <1>15 DEF PipelineDone, CtxUpdateStatus, CtxFails, UpdateDeploymentStatus, Fails,
                 boundVars
  <2>2. \A i \in 1..Len(Pipeline) : Pipeline[i] \in onchain
    BY <1>15 DEF PipelineDone
  <2>3. \A q \in Calls : q # p => at'[q] = at[q] /\ pc'[q] = pc[q]
    BY <1>15 DEF PipelineDone, Goto
  <2>4. at'[p] = 0 /\ pc'[p] = "save"
    BY <1>15 DEF PipelineDone, Goto
  <2>5. StagesDone'
    <3>1. SUFFICES ASSUME NEW q \in Calls, NEW i \in 1..at'[q] PROVE Pipeline[i] \in onchain
      BY <2>1
    <3>2. q # p
      BY <2>4
    <3>. QED  BY <2>3, <3>2
  <2>6. PipelinesDone'
    BY <2>1, <2>2
  <2>7. ArtifactsSaved'
    BY <2>1, <2>3, <2>4
  <2>. QED  BY <2>1, <2>5, <2>6, <2>7
<1>16. ASSUME NEW p \in Calls, SaveArtifacts(p) PROVE Inv'
  <2>1. row'.status = row.status /\ at' = at /\ onchain' = onchain
    BY <1>16 DEF SaveArtifacts, CtxFails, Fails, boundVars
  <2>2. artifacts \subseteq artifacts'
    BY <1>16 DEF SaveArtifacts, SavedUpTo
  <2>3. pc[p] = "save" /\ (pc'[p] = "complete" => RequiredArtifacts \subseteq artifacts')
    BY <1>16, ArtifactsType DEF SaveArtifacts, SavedUpTo, RequiredArtifacts, Goto, FailurePC
  <2>4. \A q \in Calls : q # p => pc'[q] = pc[q]
    BY <1>16 DEF SaveArtifacts, Goto
  <2>5. PipelinesDone'
    BY <2>1, <2>3, <2>4
  <2>6. ArtifactsSaved'
    BY <2>2, <2>3, <2>4
  <2>. QED  BY <2>1, <2>2, <2>5, <2>6
<1>17. ASSUME NEW p \in Calls, NitroSaveArtifacts(p) PROVE Inv'
  <2>1. row'.status \in {row.status, "running"} /\ at' = at /\ onchain' = onchain
    BY <1>17 DEF NitroSaveArtifacts, CtxUpdateStatus, CtxFails, UpdateDeploymentStatus, Fails,
                 boundVars
  <2>2. artifacts \subseteq artifacts' /\ RequiredArtifacts = {} /\ pc[p] = "save"
    BY <1>17 DEF NitroSaveArtifacts, SavedUpTo, RequiredArtifacts
  <2>3. \A q \in Calls : q # p => pc'[q] = pc[q]
    BY <1>17 DEF NitroSaveArtifacts, Goto
  <2>4. PipelinesDone'
    BY <2>1, <2>2, <2>3
  <2>. QED  BY <2>1, <2>2, <2>4
<1>18. ASSUME NEW p \in Calls, MarkComplete(p) PROVE Inv'
  BY <1>18 DEF MarkComplete, CtxFails, CtxUpdateStatus, Goto, WorkerFrame, Fails,
         boundVars, UpdateDeploymentStatus, procVars
<1>19. ASSUME NEW p \in Calls, MarkFailedError(p) PROVE Inv'
  BY <1>19 DEF MarkFailedError, CtxFails, CtxSetError, Goto, WorkerFrame, Fails,
         boundVars, SetDeploymentError, procVars
<1>20. ASSUME NEW p \in Calls, MarkFailedStatus(p) PROVE Inv'
  BY <1>20 DEF MarkFailedStatus, CtxFails, CtxUpdateStatus, Goto, WorkerFrame, Fails,
         boundVars, UpdateDeploymentStatus, procVars
<1>21. ASSUME NEW p \in Calls, WorkerError(p) PROVE Inv'
  BY <1>21 DEF WorkerError, SetDeploymentError, Fails, Goto, WorkerFrame, procVars
<1>22. ASSUME NEW p \in Calls, Cleanup(p) PROVE Inv'
  BY <1>22 DEF Cleanup, Goto, rowVars, boundVars
<1>23. CASE ApiCreate
  BY <1>23 DEF ApiCreate, CreateDeployment, callVars, procVars
<1>24. CASE StopDeployment
  BY <1>24 DEF StopDeployment, rowVars, boundVars
<1>25. CASE StopMarkPaused
  BY <1>25 DEF StopMarkPaused, UpdateDeploymentStatus, Fails, callVars
<1>26. CASE MarkStaleDeploymentsFailed
  BY <1>26 DEF MarkStaleDeploymentsFailed, SetDeploymentError, callVars, procVars
<1>27. CASE Age
  BY <1>27 DEF Age, callVars, procVars, boundVars
<1>28. CASE Crash
  <2>1. row' = row /\ onchain' = onchain /\ artifacts' = artifacts
    BY <1>28 DEF Crash, rowVars
  <2>2. \A q \in Calls : at'[q] = 0 /\ pc'[q] = "idle"
    BY <1>28 DEF Crash
  <2>3. StagesDone'
    BY <2>2
  <2>. QED  BY <2>1, <2>2, <2>3
<1>29. CASE UNCHANGED vars
  BY <1>29 DEF vars, rowVars, callVars, procVars, boundVars
<1>. QED  BY <1>1, <1>2, <1>3, <1>4, <1>5, <1>6, <1>7, <1>8, <1>9, <1>10, <1>11, <1>12,
          <1>13, <1>14, <1>15, <1>16, <1>17, <1>18, <1>19, <1>20, <1>21, <1>22, <1>23,
          <1>24, <1>25, <1>26, <1>27, <1>28, <1>29 DEF Next, Proceed, Worker

\* A completed deployment has had every stage carried out and has every artifact
\* it must have, whoever marked it so.
THEOREM CompletedIsAlwaysBacked == Spec => []CompletedIsBacked
<1>1. Init => WorkInv /\ CompletedIsBacked
  <2>1. SUFFICES ASSUME Init PROVE WorkInv /\ CompletedIsBacked
    OBVIOUS
  <2>2. \A p \in Calls : at[p] = 0 /\ pc[p] = "idle"
    BY <2>1 DEF Init
  <2>. QED  BY <2>1, <2>2
        DEF Init, WorkInv, StagesDone, PipelinesDone, ArtifactsSaved, CompletedIsBacked, Backed
<1>2. TypeOK /\ WorkInv /\ CompletedIsBacked /\ [Next]_vars => WorkInv' /\ CompletedIsBacked'
  BY WorkStep
<1>. QED  BY <1>1, <1>2, TypeCorrect, PTL DEF Spec

-----------------------------------------------------------------------------
(* What a stopped worker can still do.                                     *)

\* Each step of a cancelled worker leaves the row alone or fails it.
LEMMA CancelledStep ==
  TypeOK /\ JobInv /\ [Next]_vars => \A c \in Calls : NoProgressBy(c)
<1>. SUFFICES ASSUME TypeOK, JobInv, [Next]_vars, NEW c \in Calls PROVE NoProgressBy(c)
  OBVIOUS
<1>. USE DEF TypeOK, RowTypeOK, CallsTypeOK, WorkTypeOK, BoundsOK, JobInv, NoProgressBy, WorkerPCs
<1>1. ASSUME NEW p \in Calls, FormCreate(p) PROVE NoProgressBy(c)
  BY <1>1 DEF FormCreate, CreateDeployment, Admit, procVars, Goto
<1>2. ASSUME NEW p \in Calls, ApiStart(p) PROVE NoProgressBy(c)
  BY <1>2 DEF ApiStart, Admit, rowVars, procVars, boundVars, Goto
<1>3. ASSUME NEW p \in Calls, DeploymentResume(p) PROVE NoProgressBy(c)
  BY <1>3 DEF DeploymentResume, Admit, rowVars, procVars, boundVars, Goto
<1>4. ASSUME NEW p \in Calls, ProcessPendingDeployments(p) PROVE NoProgressBy(c)
  BY <1>4 DEF ProcessPendingDeployments, Fails, Admit, rowVars, callVars, boundVars,
         Goto
<1>5. ASSUME NEW p \in Calls, ApiMarkRunning(p) PROVE NoProgressBy(c)
  BY <1>5 DEF ApiMarkRunning, UpdateDeploymentStatus, Fails, Goto, Leave, procVars
<1>6. ASSUME NEW p \in Calls, ResumeReset(p) PROVE NoProgressBy(c)
  BY <1>6 DEF ResumeReset, UpdateDeploymentStatus, Fails, Goto, Leave, procVars
<1>7. ASSUME NEW p \in Calls, ResumeClear(p) PROVE NoProgressBy(c)
  BY <1>7 DEF ResumeClear, ClearDeploymentError, Fails, Goto, procVars
<1>8. ASSUME NEW p \in Calls, Enrich(p) PROVE NoProgressBy(c)
  BY <1>8 DEF Enrich, SetDeploymentError, Fails, Goto, procVars, boundVars
<1>9. ASSUME NEW p \in Calls, SaveConfig(p) PROVE NoProgressBy(c)
  BY <1>9 DEF SaveConfig, UpdateDeploymentConfig, Fails, Goto, procVars
<1>10. ASSUME NEW p \in Calls, MarkRunning(p) PROVE NoProgressBy(c)
  BY <1>10 DEF MarkRunning, UpdateDeploymentStatus, Fails, Goto, procVars
<1>11. ASSUME NEW p \in Calls, Register(p) PROVE NoProgressBy(c)
  BY <1>11 DEF Register, Goto, rowVars, boundVars
<1>12. ASSUME NEW p \in Calls, CallerError(p) PROVE NoProgressBy(c)
  BY <1>12 DEF CallerError, SetDeploymentError, Fails, Leave, procVars, boundVars, Goto
<1>13. ASSUME NEW p \in Calls, Load(p) PROVE NoProgressBy(c)
  BY <1>13 DEF Load, OpStackLoad, NitroLoad, PopLoad, WorkerFrame, CtxFails,
         CtxUpdateStatus, Goto, boundVars, Fails, procVars, UpdateDeploymentStatus
<1>14. ASSUME NEW p \in Calls, RunStage(p) PROVE NoProgressBy(c)
  BY <1>14 DEF RunStage, CtxFails, CtxUpdateStatus, Goto, FailurePC, WorkerFrame, Fails,
         boundVars, UpdateDeploymentStatus, procVars
<1>15. ASSUME NEW p \in Calls, PipelineDone(p) PROVE NoProgressBy(c)
  BY <1>15 DEF PipelineDone, CtxFails, CtxUpdateStatus, Goto, WorkerFrame, Fails,
         boundVars, UpdateDeploymentStatus, procVars
<1>16. ASSUME NEW p \in Calls, SaveArtifacts(p) PROVE NoProgressBy(c)
  BY <1>16 DEF SaveArtifacts, CtxFails, Goto, FailurePC, WorkerFrame, boundVars, Fails,
         procVars
<1>17. ASSUME NEW p \in Calls, NitroSaveArtifacts(p) PROVE NoProgressBy(c)
  BY <1>17 DEF NitroSaveArtifacts, CtxFails, CtxUpdateStatus, Goto, WorkerFrame, Fails,
         boundVars, UpdateDeploymentStatus, procVars
<1>18. ASSUME NEW p \in Calls, MarkComplete(p) PROVE NoProgressBy(c)
  BY <1>18 DEF MarkComplete, CtxFails, CtxUpdateStatus, Goto, WorkerFrame, Fails,
         boundVars, UpdateDeploymentStatus, procVars
<1>19. ASSUME NEW p \in Calls, MarkFailedError(p) PROVE NoProgressBy(c)
  BY <1>19 DEF MarkFailedError, CtxFails, CtxSetError, Goto, WorkerFrame, Fails,
         boundVars, SetDeploymentError, procVars
<1>20. ASSUME NEW p \in Calls, MarkFailedStatus(p) PROVE NoProgressBy(c)
  BY <1>20 DEF MarkFailedStatus, CtxFails, CtxUpdateStatus, Goto, WorkerFrame, Fails,
         boundVars, UpdateDeploymentStatus, procVars
<1>21. ASSUME NEW p \in Calls, WorkerError(p) PROVE NoProgressBy(c)
  BY <1>21 DEF WorkerError, SetDeploymentError, Fails, Goto, WorkerFrame, procVars
<1>22. ASSUME NEW p \in Calls, Cleanup(p) PROVE NoProgressBy(c)
  BY <1>22 DEF Cleanup, Goto, rowVars, boundVars
<1>23. CASE ApiCreate
  BY <1>23 DEF ApiCreate, CreateDeployment, callVars, procVars
<1>24. CASE StopDeployment
  BY <1>24 DEF StopDeployment, rowVars, boundVars
<1>25. CASE StopMarkPaused
  BY <1>25 DEF StopMarkPaused, UpdateDeploymentStatus, Fails, callVars
<1>26. CASE MarkStaleDeploymentsFailed
  BY <1>26 DEF MarkStaleDeploymentsFailed, SetDeploymentError, callVars, procVars
<1>27. CASE Age
  BY <1>27 DEF Age, callVars, procVars, boundVars
<1>28. CASE Crash
  BY <1>28 DEF Crash, rowVars
<1>29. CASE UNCHANGED vars
  BY <1>29 DEF vars, rowVars, callVars, procVars, boundVars
<1>. QED  BY <1>1, <1>2, <1>3, <1>4, <1>5, <1>6, <1>7, <1>8, <1>9, <1>10, <1>11, <1>12,
          <1>13, <1>14, <1>15, <1>16, <1>17, <1>18, <1>19, <1>20, <1>21, <1>22, <1>23,
          <1>24, <1>25, <1>26, <1>27, <1>28, <1>29 DEF Next, Proceed, Worker

\* A worker that StopDeployment cancelled reports no progress any more, whatever
\* else runs.
THEOREM CancelledNeverProgresses == Spec => CancelledMakesNoProgress
<1>1. Init => JobInv
  BY DEF Init, JobInv, JobIsLive
<1>2. TypeOK /\ JobInv /\ [Next]_vars => JobInv'
  BY JobStep
<1>3. TypeOK /\ JobInv /\ [Next]_vars => [\A p \in Calls : NoProgressBy(p)]_vars
  BY CancelledStep
<1>. QED  BY <1>1, <1>2, <1>3, TypeCorrect, PTL DEF Spec, CancelledMakesNoProgress

-----------------------------------------------------------------------------
(* What nothing reopens.                                                   *)

\* While nobody is at work, no call goes on, and there is nothing to stop.
LEMMA QuietStep ==
  ASSUME TypeOK, JobInv, Quiet, [Next]_vars
  PROVE  \/ ApiCreate \/ MarkStaleDeploymentsFailed \/ Age \/ Crash \/ UNCHANGED vars
         \/ \E p \in Calls : \/ FormCreate(p) \/ ApiStart(p) \/ DeploymentResume(p)
                             \/ ProcessPendingDeployments(p)
<1>. USE DEF TypeOK, ProcTypeOK, Quiet
<1>1. jobs = NoJob
  BY DEF JobInv, JobIsLive, WorkerPCs
<1>2. ASSUME NEW p \in Calls PROVE ~Proceed(p)
  BY DEF Proceed, ApiMarkRunning, ResumeReset, ResumeClear, Enrich, SaveConfig, MarkRunning,
         Register, CallerError, Worker, Load, RunStage, PipelineDone, SaveArtifacts,
         NitroSaveArtifacts, MarkComplete, MarkFailedError, MarkFailedStatus, WorkerError,
         Cleanup
<1>3. ~StopDeployment /\ ~StopMarkPaused
  BY <1>1 DEF StopDeployment, StopMarkPaused
<1>. QED  BY <1>2, <1>3 DEF Next

\* A completed deployment that nobody is working on.
Settled == row.status = "completed" /\ Quiet

\* Whoever comes next reads "completed" and is turned away; no worker is left to
\* be cancelled, so nothing is left to be paused; and a crash keeps the row.
LEMMA SettledStep == TypeOK /\ JobInv /\ Settled /\ [Next]_vars => Settled'
<1>. SUFFICES ASSUME TypeOK, JobInv, Settled, [Next]_vars PROVE Settled'
  OBVIOUS
<1>. USE DEF Settled, Quiet
<1>1. ASSUME NEW p \in Calls PROVE ~FormCreate(p) /\ ~ApiStart(p) /\ ~DeploymentResume(p)
  BY DEF FormCreate, CreateDeployment, ApiStart, DeploymentResume
<1>2. ASSUME NEW p \in Calls, ProcessPendingDeployments(p) PROVE Settled'
  BY <1>2 DEF ProcessPendingDeployments, Fails, rowVars, callVars
<1>3. ~ApiCreate /\ ~MarkStaleDeploymentsFailed /\ ~Age
  BY DEF ApiCreate, CreateDeployment, MarkStaleDeploymentsFailed, Age
<1>4. CASE Crash
  BY <1>4 DEF Crash, rowVars
<1>5. CASE UNCHANGED vars
  BY <1>5 DEF vars, rowVars, callVars, procVars
<1>. QED  BY <1>1, <1>2, <1>3, <1>4, <1>5, QuietStep

\* A completed deployment nobody is working on is never started, resumed, swept
\* or reopened by a restart.
THEOREM CompletedIsAlwaysFinal == Spec => CompletedIsFinal
<1>1. Init => JobInv
  BY DEF Init, JobInv, JobIsLive
<1>2. TypeOK /\ JobInv /\ [Next]_vars => JobInv'
  BY JobStep
<1>3. TypeOK /\ JobInv /\ Settled /\ [Next]_vars => Settled'
  BY SettledStep
<1>4. Settled <=> row.status = "completed" /\ Quiet
  BY DEF Settled
<1>. QED  BY <1>1, <1>2, <1>3, <1>4, TypeCorrect, PTL DEF Spec, CompletedIsFinal

-----------------------------------------------------------------------------
(* Deployments implements Lifecycle.                                       *)

\* What has been carried out and saved stays so, and a row that is there stays there.
LEMMA Accumulates ==
  TypeOK /\ [Next]_vars => /\ Backed => Backed'
                           /\ row.status # "absent" => row'.status # "absent"
<1>. SUFFICES ASSUME TypeOK, [Next]_vars
              PROVE  /\ Backed => Backed'
                     /\ row.status # "absent" => row'.status # "absent"
  OBVIOUS
<1>. USE DEF TypeOK, RowTypeOK
<1>1. onchain \subseteq onchain' /\ artifacts \subseteq artifacts'
  BY DEF Next, vars, rowVars, ApiCreate, FormCreate, ApiStart, DeploymentResume,
         ProcessPendingDeployments, Proceed, ApiMarkRunning, ResumeReset, ResumeClear,
         Enrich, SaveConfig, MarkRunning, Register, CallerError, Worker, WorkerFrame,
         Load, RunStage, PipelineDone, SaveArtifacts, SavedUpTo, NitroSaveArtifacts,
         MarkComplete, MarkFailedError, MarkFailedStatus, WorkerError, Cleanup,
         StopDeployment, StopMarkPaused, MarkStaleDeploymentsFailed, Age, Crash
<1>2. row.status # "absent" => row'.status # "absent"
  BY DEF Next, vars, rowVars, boundVars, ApiCreate, FormCreate, ApiStart, DeploymentResume,
         ProcessPendingDeployments, Proceed, ApiMarkRunning, ResumeReset, ResumeClear,
         Enrich, SaveConfig, MarkRunning, Register, CallerError, Worker, WorkerFrame,
         Load, OpStackLoad, NitroLoad, PopLoad, RunStage, PipelineDone, SaveArtifacts,
         NitroSaveArtifacts, MarkComplete, MarkFailedError, MarkFailedStatus, WorkerError,
         Cleanup, StopDeployment, StopMarkPaused, MarkStaleDeploymentsFailed, Age, Crash,
         CreateDeployment, UpdateDeploymentStatus, UpdateDeploymentConfig,
         SetDeploymentError, ClearDeploymentError, CtxUpdateStatus, CtxSetError, CtxFails,
         Fails
<1>. QED  BY <1>1, <1>2, StackIsFixed DEF Backed

\* Nobody works on a deployment that has not been created.
AbsentInv == row.status = "absent" => Quiet

\* No handler lets it in.
LEMMA AbsentStep == TypeOK /\ JobInv /\ AbsentInv /\ [Next]_vars => AbsentInv'
<1>. SUFFICES ASSUME TypeOK, JobInv, AbsentInv, [Next]_vars, row'.status = "absent"
              PROVE  Quiet'
  BY DEF AbsentInv
<1>1. row.status = "absent" /\ Quiet
  BY Accumulates DEF AbsentInv
<1>2. ~ApiCreate /\ ~MarkStaleDeploymentsFailed /\ ~Age
  BY <1>1 DEF ApiCreate, CreateDeployment, MarkStaleDeploymentsFailed, Age, TypeOK, RowTypeOK
<1>3. ASSUME NEW p \in Calls PROVE ~FormCreate(p) /\ ~ApiStart(p) /\ ~DeploymentResume(p)
  BY <1>1 DEF FormCreate, CreateDeployment, ApiStart, DeploymentResume, TypeOK, RowTypeOK
<1>4. ASSUME NEW p \in Calls, ProcessPendingDeployments(p) PROVE Quiet'
  BY <1>1, <1>4 DEF ProcessPendingDeployments, callVars, Quiet
<1>5. CASE Crash
  BY <1>5 DEF Crash, Quiet
<1>6. CASE UNCHANGED vars
  BY <1>1, <1>6 DEF vars, callVars, procVars, Quiet
<1>. QED  BY <1>1, <1>2, <1>3, <1>4, <1>5, <1>6, QuietStep

\* A step while somebody is at work is one of Work, by the invariants after it; the
\* others are a creation, a start, the sweep, or a failure.
LEMMA LifeStep ==
  /\ TypeOK /\ JobInv /\ AbsentInv /\ [Next]_vars
  /\ TypeOK' /\ RunningIsOwned' /\ CompletedIsBacked' /\ FailedIsExplained'
  => [Life!Next]_(Life!vars)
<1>. SUFFICES ASSUME TypeOK, JobInv, AbsentInv, [Next]_vars, TypeOK', RunningIsOwned',
                     CompletedIsBacked', FailedIsExplained'
              PROVE  [Life!Next]_(Life!vars)
  OBVIOUS
<1>. USE DEF TypeOK, RowTypeOK, BoundsOK
<1>1. CASE ~Quiet
  <2>1. row'.status \in {"pending", "running", "paused", "completed", "failed"}
    BY <1>1, Accumulates DEF AbsentInv, Statuses
  <2>2. /\ Backed' \in {Backed, TRUE} 
        /\ row'.status = "completed" => Backed'
    BY Accumulates DEF CompletedIsBacked, Backed
  <2>3. Quiet' => excused' \/ (row'.status # "running" /\ (row'.status = "failed" => row'.error))
    BY DEF RunningIsOwned, Responsible, WorkerPCs, FailedIsExplained, Quiet
  <2>4. row'.error \in BOOLEAN /\ (~Quiet)' \in BOOLEAN /\ excused' \in BOOLEAN
    OBVIOUS
  <2>5. Life!Work
    BY <1>1, <2>1, <2>2, <2>3, <2>4 DEF Life!Work, Life!InOrder
  <2>. QED  BY <2>5 DEF Life!Next
<1>2. CASE Quiet
  <2>. USE <1>2
  <2>1. ASSUME UNCHANGED <<artifacts, onchain>> PROVE Backed' = Backed
    BY <2>1, StackIsFixed DEF Backed
  <2>2. ASSUME UNCHANGED <<pc, stopper>> PROVE Quiet'
    BY <2>2 DEF Quiet
  <2>3. CASE ApiCreate
    <3>1. Life!Create
      BY <2>1, <2>3 DEF ApiCreate, CreateDeployment, Succeeds, Life!Create
    <3>. QED  BY <3>1 DEF Life!Next
  <2>4. ASSUME NEW p \in Calls, FormCreate(p) PROVE [Life!Next]_(Life!vars)
    <3>1. Life!Create
      BY <2>1, <2>4 DEF FormCreate, CreateDeployment, Succeeds, Life!Create
    <3>. QED  BY <3>1 DEF Life!Next
  <2>5. ASSUME NEW p \in Calls, NEW l \in PCs \ {"idle"}, Admit(p, l),
               row.status \in {"pending", "paused", "failed"},
               UNCHANGED <<rowVars, excused>>
        PROVE  [Life!Next]_(Life!vars)
    <3>1. ~Quiet'
      BY <2>5 DEF Admit, Goto, Quiet, CallsTypeOK
    <3>2. Life!Begin
      BY <2>1, <2>5, <3>1 DEF rowVars, Life!Begin
    <3>. QED  BY <3>2 DEF Life!Next
  <2>6. ASSUME NEW p \in Calls, ApiStart(p) \/ DeploymentResume(p)
        PROVE  [Life!Next]_(Life!vars)
    <3>1. {"api_running", "clear", "reset"} \subseteq PCs \ {"idle"}
      BY Names
    <3>. QED  BY <2>5, <2>6, <3>1 DEF ApiStart, DeploymentResume, boundVars
  <2>7. ASSUME NEW p \in Calls, ProcessPendingDeployments(p) PROVE [Life!Next]_(Life!vars)
    <3>1. CASE row.status = "pending" /\ Admit(p, "enrich") /\ UNCHANGED <<reporting, boundVars>>
      <4>1. "enrich" \in PCs \ {"idle"}
        BY Names
      <4>. QED  BY <2>5, <2>7, <3>1, <4>1 DEF ProcessPendingDeployments, boundVars
    <3>2. CASE UNCHANGED <<callVars, boundVars>>
      BY <2>1, <2>2, <2>7, <3>2
         DEF ProcessPendingDeployments, rowVars, callVars, boundVars, Life!vars
    <3>3. CASE Fails /\ UNCHANGED callVars
      <4>1. Life!Upset
        BY <2>1, <2>2, <2>7, <3>3
           DEF ProcessPendingDeployments, Fails, rowVars, callVars, Life!Upset
      <4>. QED  BY <4>1 DEF Life!Next
    <3>. QED  BY <2>7, <3>1, <3>2, <3>3 DEF ProcessPendingDeployments
  <2>8. CASE MarkStaleDeploymentsFailed
    <3>1. Life!Sweep
      BY <2>1, <2>2, <2>8 DEF MarkStaleDeploymentsFailed, SetDeploymentError, Succeeds,
                              callVars, procVars, Life!Sweep
    <3>. QED  BY <3>1 DEF Life!Next
  <2>9. CASE Age
    BY <2>1, <2>2, <2>9 DEF Age, callVars, procVars, boundVars, Life!vars
  <2>10. CASE Crash
    <3>1. Life!Upset
      BY <2>1, <2>10 DEF Crash, rowVars, Quiet, Life!Upset
    <3>. QED  BY <3>1 DEF Life!Next
  <2>11. CASE UNCHANGED vars
    BY <2>1, <2>2, <2>11 DEF vars, rowVars, callVars, procVars, boundVars, Life!vars
  <2>. QED  BY <2>3, <2>4, <2>6, <2>7, <2>8, <2>9, <2>10, <2>11, QuietStep
<1>. QED  BY <1>1, <1>2

\* Whatever handlers, workers, stops, sweeps, failures and crashes do to it, a
\* deployment is what Lifecycle says: nobody leaves it running, or failed without a
\* word, without an excuse; it is completed when all its work is done; and only a
\* start or the sweep moves what nobody works on.
THEOREM DeploymentIsALifecycle == Spec => IsALifecycle
<1>1. Init => JobInv /\ AbsentInv /\ Life!Init
  <2>1. Init => ~Backed
    BY PipelineType DEF Init, Backed
  <2>. QED  BY <2>1 DEF Init, JobInv, JobIsLive, AbsentInv, Quiet, Life!Init
<1>2. TypeOK /\ JobInv /\ [Next]_vars => JobInv'
  BY JobStep
<1>3. TypeOK /\ JobInv /\ AbsentInv /\ [Next]_vars => AbsentInv'
  BY AbsentStep
<1>4. /\ TypeOK /\ JobInv /\ AbsentInv /\ [Next]_vars
      /\ TypeOK' /\ RunningIsOwned' /\ CompletedIsBacked' /\ FailedIsExplained'
      => [Life!Next]_(Life!vars)
  BY LifeStep
<1>. QED  BY <1>1, <1>2, <1>3, <1>4, TypeCorrect, RunningIsAlwaysOwned,
             CompletedIsAlwaysBacked, FailedIsAlwaysExplained, PTL
          DEF Spec, Life!Spec, IsALifecycle

-----------------------------------------------------------------------------
(* The contracts the workers share.  Infrastructure looks closer at one    *)
(* stage of their pipeline, so its deployments are the calls; what it      *)
(* keeps of them, and of the chain, is apart from the row.                 *)

VARIABLES place, step, from, nonce, price, got, lost, upsets

Infra == INSTANCE Infrastructure WITH Workers <- Calls, pc <- place, faults <- upsets

\* The instance names on the chain what ParentChain does.
LEMMA SameChain ==
  /\ Infra!Creator = Creator /\ Infra!Rollup = Rollup /\ Infra!Extra = Extra
  /\ Infra!Addresses = Addresses /\ Infra!Known = Known /\ Infra!Tx = Tx
  /\ \A t : Infra!Address(t) = Address(t)
BY DEF Infra!Creator, Creator, Infra!Rollup, Rollup, Infra!Extra, Extra, Infra!Addresses,
       Addresses, Infra!Known, Known, Infra!Tx, Tx, Infra!Address, Address

\* The rollup is there, and the deployment goes on to what it can do without.
Ends(w, m) ==
  m.ok /\ step[w] = Rollup /\ Infra!Continue(w, Extra) /\ UNCHANGED <<got, lost>>

\* What Receive does with the receipt m of the transaction it waits for.
Received(w, m) ==
  /\ m.tx = Infra!TxOf(w)
  /\ IF m.ok /\ step[w] <= Creator
     THEN /\ got' = [got EXCEPT ![w] = Infra!Keep(@, step[w], Address(m.tx))]
          /\ IF step[w] = Creator
             THEN Infra!Goto(w, "save") /\ UNCHANGED <<step, from, nonce, price>>
             ELSE Infra!Continue(w, step[w] + 1)
          /\ UNCHANGED lost
     ELSE Ends(w, m) \/ Infra!Return(w)

\* A deployment goes on by the receipt of its own transaction.
LEMMA ReceiveTakesOne ==
  ASSUME NEW w \in Calls, Infra!Receive(w)
  PROVE  \E m \in mined : Received(w, m)
BY SameChain DEF Infra!Receive, Received, Ends

-----------------------------------------------------------------------------
(* Type correctness of Infrastructure.                                     *)

\* Every variable keeps its type.
LEMMA InfraStepType ==
  ASSUME Infra!TypeOK, [Infra!Next]_(Infra!vars)
  PROVE  Infra!TypeOK'
<1>. USE ParentChainAssumption, DeploymentsAssumption, SameChain
       DEF ParentChainAssumption, DeploymentsAssumption, Infra!TypeOK, Creator,
           Rollup, Extra
<1>1. Infra!SomeSigner \in Signers /\ Infra!SomePrice \in Prices /\ Infra!Nothing \in Known
  BY DEF Infra!SomeSigner, Infra!SomePrice, Infra!Nothing, Known
<1>2. ASSUME NEW w \in Calls PROVE Infra!TxOf(w) \in Tx
  BY DEF Infra!TxOf, Tx, Known
<1>3. ASSUME NEW w \in Calls, Infra!Return(w)
      PROVE  /\ place' \in [Calls -> {"idle", "ensure", "nonce", "send", "wait", "save"}]
             /\ step' \in [Calls -> 1..Extra] /\ from' \in [Calls -> Signers]
             /\ nonce' \in [Calls -> 0..MaxNonce] /\ price' \in [Calls -> Prices]
             /\ got' \in [Calls -> Known] /\ lost' \subseteq Calls
  BY <1>1, <1>3 DEF Infra!Return, Infra!Goto
<1>4. ASSUME NEW w \in Calls, NEW what \in 1..Extra, Infra!Continue(w, what)
      PROVE  /\ place' \in [Calls -> {"idle", "ensure", "nonce", "send", "wait", "save"}]
             /\ step' \in [Calls -> 1..Extra] /\ from' \in [Calls -> Signers]
             /\ nonce' \in [Calls -> 0..MaxNonce] /\ price' \in [Calls -> Prices]
  BY <1>1, <1>4 DEF Infra!Continue, Infra!Goto
<1>5. ASSUME NEW w \in Calls, Infra!UseRegistered(w)
      PROVE  got' \in [Calls -> Known]
  BY <1>5 DEF Infra!UseRegistered, Known
<1>6. ASSUME NEW w \in Calls, Infra!Look(w) PROVE Infra!TypeOK'
  BY <1>5, <1>6 DEF Infra!Look, Infra!Goto, Infra!chain
<1>7. ASSUME NEW w \in Calls, Infra!Ensure(w) PROVE Infra!TypeOK'
  <2>1. CASE Infra!UseRegistered(w) /\ Infra!Continue(w, Rollup)
    BY <1>4, <1>5, <1>7, <2>1 DEF Infra!Ensure, Infra!chain
  <2>2. CASE Infra!Goto(w, "nonce") /\ (\E p \in Prices : price' = [price EXCEPT ![w] = p])
             /\ UNCHANGED <<step, from, nonce, got>>
    BY <1>7, <2>2 DEF Infra!Ensure, Infra!Goto, Infra!chain
  <2>. QED  BY <1>7, <2>1, <2>2 DEF Infra!Ensure
<1>8. ASSUME NEW w \in Calls, Infra!ReadNonce(w) PROVE Infra!TypeOK'
  BY <1>8 DEF Infra!ReadNonce, Infra!Goto, Infra!chain
<1>9. ASSUME NEW w \in Calls, Infra!Send(w) PROVE Infra!TypeOK'
  BY <1>2, <1>9 DEF Infra!Send, Infra!Goto, Infra!Displace
<1>10. ASSUME NEW w \in Calls, Infra!Receive(w) PROVE Infra!TypeOK'
  <2>1. PICK m \in mined : Received(w, m)
    BY <1>10, ReceiveTakesOne
  <2>. USE DEF Received, Ends
  <2>2. CASE m.ok /\ step[w] <= Creator
    <3>1. Address(m.tx) \in Addresses
      BY <1>2, <2>1 DEF Address, Addresses, Tx
    <3>2. Infra!Keep(got[w], step[w], Address(m.tx)) \in Known
      BY <1>1, <2>2, <3>1 DEF Infra!Keep, Known
    <3>3. got' \in [Calls -> Known]
      BY <2>1, <2>2, <3>2
    <3>4. CASE step[w] = Creator
      BY <1>10, <2>1, <2>2, <3>3, <3>4 DEF Infra!Receive, Infra!Goto, Infra!chain
    <3>5. CASE step[w] # Creator
      BY <1>4, <1>10, <2>1, <2>2, <3>3, <3>5 DEF Infra!Receive, Infra!chain
    <3>. QED  BY <3>4, <3>5
  <2>3. CASE Ends(w, m)
    BY <1>4, <1>10, <2>3 DEF Infra!Receive, Infra!chain
  <2>4. CASE Infra!Return(w)
    BY <1>3, <1>10, <2>4 DEF Infra!Receive, Infra!chain
  <2>. QED  BY <2>1, <2>2, <2>3, <2>4
<1>11. ASSUME NEW w \in Calls, Infra!Save(w) PROVE Infra!TypeOK'
  <2>1. registry' \in Addresses \cup {NoAddress}
    BY <1>11 DEF Infra!Save, Known
  <2>. QED  BY <1>4, <1>11, <2>1 DEF Infra!Save, Infra!chain
<1>12. ASSUME NEW w \in Calls, Infra!GiveUp(w) PROVE Infra!TypeOK'
  BY <1>3, <1>12 DEF Infra!GiveUp, Infra!chain
<1>13. ASSUME NEW s \in Signers, Infra!Mine(s) PROVE Infra!TypeOK'
  <2>1. PICK t \in pool :
       /\ pool' = pool \ {t}
       /\ \/ mined' = mined \cup {[tx |-> t, ok |-> TRUE]} /\ UNCHANGED upsets
          \/ mined' = mined \cup {[tx |-> t, ok |-> FALSE]} /\ Infra!Fault
       /\ UNCHANGED <<registry, Infra!workVars, lost>>
    BY <1>13 DEF Infra!Mine
  <2>2. PICK b \in BOOLEAN : mined' = mined \cup {[tx |-> t, ok |-> b]}
    BY <2>1
  <2>5. mined' \subseteq [tx : Tx, ok : BOOLEAN]
    BY <2>2
  <2>3. upsets' \in 0..MaxFaults
    BY <2>1 DEF Infra!Fault
  <2>4. pool' \subseteq Tx /\ UNCHANGED <<registry, Infra!workVars, lost>>
    BY <2>1
  <2>. QED  BY <2>3, <2>4, <2>5 DEF Infra!workVars
<1>14. ASSUME NEW t \in pool, Infra!Forget(t) PROVE Infra!TypeOK'
  BY <1>14 DEF Infra!Forget, Infra!Fault, Infra!Displace, Infra!workVars
<1>15. CASE UNCHANGED Infra!vars
  BY <1>15 DEF Infra!vars, Infra!chain, Infra!workVars
<1>. QED  BY <1>6, <1>7, <1>8, <1>9, <1>10, <1>11, <1>12, <1>13, <1>14, <1>15
          DEF Infra!Next, Infra!Work

\* The type invariant of Infrastructure holds: the nonce of a transaction, the
\* addresses in receipts and what is registered stay within their sets.
THEOREM InfraTypeCorrect ==
  Infra!Spec => []Infra!TypeOK
<1>1. Infra!Init => Infra!TypeOK
  <2>. SUFFICES ASSUME Infra!Init PROVE Infra!TypeOK
    OBVIOUS
  <2>1. Infra!SomeSigner \in Signers /\ Infra!SomePrice \in Prices /\ Infra!Nothing \in Known
    BY ParentChainAssumption, SameChain DEF ParentChainAssumption,
       Infra!SomeSigner, Infra!SomePrice, Infra!Nothing, Known
  <2>. QED  BY <2>1, ParentChainAssumption, DeploymentsAssumption, SameChain
            DEF ParentChainAssumption, DeploymentsAssumption, Infra!Init, Infra!TypeOK, Creator,
              Rollup, Extra
<1>2. Infra!TypeOK /\ [Infra!Next]_(Infra!vars) => Infra!TypeOK'
  BY InfraStepType
<1>. QED  BY <1>1, <1>2, PTL DEF Infra!Spec

-----------------------------------------------------------------------------
(* The registered creator, and the one a rollup is created with, is whole. *)

\* A deployment has what the chain has: of the parts the addresses of contracts
\* that are there, one after the other, and of the creator that of a whole one.
Supplied(w) ==
  /\ \A n \in 1..Parts : got[w][n] # NoAddress => Deployed(got[w][n], n)
  /\ got[w][Creator] # NoAddress => Whole(got[w][Creator])
  /\ place[w] # "save" /\ step[w] <= Creator =>
       \A n \in 1..(step[w] - 1) : got[w][n] # NoAddress
  /\ step[w] >= Rollup \/ place[w] = "save" => got[w][Creator] # NoAddress

\* A transaction refers to what the chain has.
Sound(t) ==
  /\ t.what = Rollup => Whole(t.uses[Creator])
  /\ t.what = Creator => \A n \in 1..Parts : Deployed(t.uses[n], n)

\* Everything that is known of the chain outside of it is so.
ReuseInv ==
  /\ registry # NoAddress => Whole(registry)
  /\ \A w \in Calls : Supplied(w)
  /\ \A t \in pool : Sound(t)
  /\ \A m \in mined : Sound(m.tx)

\* The step is not one of w.
Rests(w) == got'[w] = got[w] /\ place'[w] = place[w] /\ step'[w] = step[w]

\* A block is never taken back.
LEMMA OnlyGrows == [Infra!Next]_(Infra!vars) => mined \subseteq mined'
BY DEF Infra!Next, Infra!Work, Infra!vars, Infra!chain, Infra!Look, Infra!Ensure,
   Infra!ReadNonce, Infra!Send, Infra!Receive, Infra!Save, Infra!GiveUp, Infra!Mine,
   Infra!Forget

\* So what is deployed stays deployed.
LEMMA StaysWhole ==
  ASSUME mined \subseteq mined'
  PROVE  /\ \A a, n : Deployed(a, n) => Deployed(a, n)'
         /\ \A a : Whole(a) => Whole(a)'
         /\ \A t : Sound(t) => Sound(t)'
         /\ \A w \in Calls : Supplied(w) /\ Rests(w) => Supplied(w)'
<1>1. ASSUME NEW a, NEW n, Deployed(a, n) PROVE Deployed(a, n)'
  BY <1>1 DEF Deployed, Address
<1>2. ASSUME NEW a, Whole(a) PROVE Whole(a)'
  BY <1>1, <1>2 DEF Whole, Address
<1>. QED  BY <1>1, <1>2 DEF Sound, Supplied, Rests

\* What a deployment learns it learns from a receipt that says ok, from its parts on
\* to the creator, or from the registry; what it sends it takes from what it has.
LEMMA ReuseStep ==
  ASSUME Infra!TypeOK, ReuseInv, [Infra!Next]_(Infra!vars)
  PROVE  ReuseInv'
<1>. USE ParentChainAssumption, DeploymentsAssumption, SameChain
       DEF ParentChainAssumption, DeploymentsAssumption, Infra!TypeOK, Creator,
           Rollup, Extra, Rests
<1>1. mined \subseteq mined'
  BY OnlyGrows
<1>2. /\ \A a, n : Deployed(a, n) => Deployed(a, n)'
      /\ \A a : Whole(a) => Whole(a)'
      /\ \A t : Sound(t) => Sound(t)'
      /\ \A w \in Calls : Supplied(w) /\ Rests(w) => Supplied(w)'
  BY <1>1, StaysWhole
<1>3. ASSUME UNCHANGED registry PROVE (registry # NoAddress => Whole(registry))'
  BY <1>2, <1>3 DEF ReuseInv
<1>4. ASSUME UNCHANGED <<pool, mined>> 
      PROVE (\A t \in pool : Sound(t))' /\ (\A m \in mined : Sound(m.tx))'
  BY <1>2, <1>4 DEF ReuseInv
<1>5. ASSUME UNCHANGED <<place, step, got>> PROVE (\A w \in Calls : Supplied(w))'
  BY <1>2, <1>5 DEF ReuseInv
<1>6. ASSUME NEW w \in Calls, Supplied(w)',
             \A v \in Calls \ {w} : Rests(v)
      PROVE (\A v \in Calls : Supplied(v))'
  <2>. SUFFICES ASSUME NEW v \in Calls PROVE Supplied(v)'
    OBVIOUS
  <2>1. CASE v = w
    BY <1>6, <2>1
  <2>2. CASE v # w
    BY <1>2, <1>6, <2>2 DEF ReuseInv
  <2>. QED  BY <2>1, <2>2
<1>7. ASSUME NEW w \in Calls, Infra!Return(w) PROVE (\A v \in Calls : Supplied(v))'
  <2>1. Supplied(w)'
    BY <1>7 DEF Infra!Return, Infra!Goto, Infra!Nothing, Supplied
  <2>. QED  BY <1>6, <1>7, <2>1 DEF Infra!Return, Infra!Goto
<1>8. ASSUME NEW w \in Calls, Infra!Look(w) PROVE ReuseInv'
  <2>1. Supplied(w)'
    <3>1. CASE /\ Infra!UseRegistered(w) /\ Infra!Goto(w, "nonce")
               /\ step' = [step EXCEPT ![w] = Rollup]
      <4>1. /\ got'[w] = [got[w] EXCEPT ![Creator] = registry]
            /\ step'[w] = Rollup /\ place'[w] = "nonce"
        BY <3>1 DEF Infra!UseRegistered, Infra!Goto
      <4>2. Whole(registry)' /\ registry # NoAddress
        BY <1>2, <1>3, <1>8, <3>1 DEF Infra!UseRegistered, ReuseInv, Infra!Look
      <4>3. got'[w][Creator] = registry /\ \A n \in 1..Parts : got'[w][n] = got[w][n]
        BY <4>1 DEF Known
      <4>. QED  BY <1>2, <4>1, <4>2, <4>3 DEF Supplied, ReuseInv
    <3>2. CASE Infra!Goto(w, "ensure") /\ UNCHANGED <<step, got>>
      BY <1>2, <1>8, <3>2 DEF Infra!Look, Infra!Goto, Supplied, ReuseInv
    <3>. QED  BY <1>8, <3>1, <3>2 DEF Infra!Look
  <2>2. (\A v \in Calls : Supplied(v))'
    BY <1>6, <1>8, <2>1 DEF Infra!Look, Infra!UseRegistered, Infra!Goto
  <2>. QED  BY <1>3, <1>4, <1>8, <2>2 DEF Infra!Look, Infra!chain, ReuseInv
<1>9. ASSUME NEW w \in Calls, Infra!Ensure(w) PROVE ReuseInv'
  <2>1. Supplied(w)'
    <3>1. CASE Infra!UseRegistered(w) /\ Infra!Continue(w, Rollup)
      <4>1. /\ got'[w] = [got[w] EXCEPT ![Creator] = registry]
            /\ step'[w] = Rollup /\ place'[w] = "nonce"
        BY <3>1 DEF Infra!UseRegistered, Infra!Continue, Infra!Goto
      <4>2. Whole(registry)' /\ registry # NoAddress
        BY <1>2, <1>3, <1>9, <3>1 DEF Infra!UseRegistered, ReuseInv, Infra!Ensure
      <4>3. got'[w][Creator] = registry /\ \A n \in 1..Parts : got'[w][n] = got[w][n]
        BY <4>1 DEF Known
      <4>. QED  BY <1>2, <4>1, <4>2, <4>3 DEF Supplied, ReuseInv
    <3>2. CASE Infra!Goto(w, "nonce") /\ UNCHANGED <<step, got>>
      BY <1>2, <1>9, <3>2 DEF Infra!Ensure, Infra!Goto, Supplied, ReuseInv
    <3>. QED  BY <1>9, <3>1, <3>2 DEF Infra!Ensure
  <2>2. (\A v \in Calls : Supplied(v))'
    BY <1>6, <1>9, <2>1 DEF Infra!Ensure, Infra!Continue, Infra!UseRegistered, Infra!Goto
  <2>. QED  BY <1>3, <1>4, <1>9, <2>2 DEF Infra!Ensure, Infra!chain, ReuseInv
<1>10. ASSUME NEW w \in Calls, Infra!ReadNonce(w) PROVE ReuseInv'
  <2>1. Supplied(w)'
    BY <1>2, <1>10 DEF Infra!ReadNonce, Infra!Goto, Supplied, ReuseInv
  <2>2. (\A v \in Calls : Supplied(v))'
    BY <1>6, <1>10, <2>1 DEF Infra!ReadNonce, Infra!Goto
  <2>. QED  BY <1>3, <1>4, <1>10, <2>2 DEF Infra!ReadNonce, Infra!chain, ReuseInv
<1>11. ASSUME NEW w \in Calls, Infra!Send(w) PROVE ReuseInv'
  <2>1. Supplied(w)'
    BY <1>2, <1>11 DEF Infra!Send, Infra!Goto, Supplied, ReuseInv
  <2>2. (\A v \in Calls : Supplied(v))'
    BY <1>6, <1>11, <2>1 DEF Infra!Send, Infra!Goto
  <2>3. Sound(Infra!TxOf(w))
    <3>1. Supplied(w) /\ place[w] = "send" /\ Infra!TxOf(w).what = step[w]
      BY <1>11 DEF ReuseInv, Infra!Send, Infra!TxOf
    <3>2. \A n \in 1..Creator : Infra!Needed(n, step[w]) => Infra!TxOf(w).uses[n] = got[w][n]
      BY DEF Infra!TxOf
    <3>3. CASE step[w] = Rollup
      BY <3>1, <3>2, <3>3 DEF Sound, Infra!Needed, Supplied
    <3>4. CASE step[w] = Creator
      BY <3>1, <3>2, <3>4 DEF Sound, Infra!Needed, Supplied
    <3>5. CASE step[w] \notin {Creator, Rollup}
      BY <3>1, <3>5 DEF Sound
    <3>. QED  BY <3>3, <3>4, <3>5
  <2>. QED  BY <1>2, <1>3, <1>11, <2>2, <2>3 DEF Infra!Send, Infra!Rivals, ReuseInv
<1>12. ASSUME NEW w \in Calls, Infra!Receive(w) PROVE ReuseInv'
  <2>1. PICK m \in mined : Received(w, m)
    BY <1>12, ReceiveTakesOne
  <2>. USE DEF Received, Ends
  <2>2. Supplied(w) /\ place[w] = "wait" /\ m.tx.what = step[w] /\ Sound(m.tx)
    BY <1>12, <2>1 DEF ReuseInv, Infra!Receive, Infra!TxOf
  <2>3. UNCHANGED <<registry, pool, mined>>
    BY <1>12 DEF Infra!Receive, Infra!chain
  <2>4. CASE m.ok /\ step[w] <= Creator
    <3>1. Address(m.tx) # NoAddress
      BY DEF Address, Tx
    <3>2. Deployed(Address(m.tx), step[w])
      BY <2>2, <2>3, <2>4 DEF Deployed
    <3>3. CASE step[w] = Creator
      <4>1. Whole(Address(m.tx))'
        BY <2>2, <2>3, <2>4, <3>3 DEF Whole, Sound, Deployed
      <4>2. got'[w] = [Infra!Nothing EXCEPT ![Creator] = Address(m.tx)]
        BY <2>1, <2>4, <3>3 DEF Infra!Keep
      <4>3. /\ got'[w][Creator] = Address(m.tx)
            /\ \A n \in 1..Parts : got'[w][n] = NoAddress
        BY <4>2 DEF Infra!Nothing
      <4>4. place'[w] = "save" /\ step'[w] = Creator
        BY <2>1, <2>4, <3>3 DEF Infra!Goto
      <4>5. Supplied(w)'
        BY <3>1, <4>1, <4>3, <4>4 DEF Supplied
      <4>6. (\A v \in Calls : Supplied(v))'
        BY <1>6, <2>1, <2>4, <3>3, <4>5 DEF Infra!Goto
      <4>. QED  BY <1>3, <1>4, <2>3, <4>6 DEF ReuseInv
    <3>4. CASE step[w] # Creator
      <4>1. got'[w] = [got[w] EXCEPT ![step[w]] = Address(m.tx)]
        BY <2>1, <2>4, <3>4 DEF Infra!Keep
      <4>2. /\ got'[w][step[w]] = Address(m.tx)
            /\ \A n \in 1..Creator : n # step[w] => got'[w][n] = got[w][n]
        BY <2>4, <4>1 DEF Known
      <4>3. place'[w] = "nonce" /\ step'[w] = step[w] + 1
        BY <2>1, <2>4, <3>4 DEF Infra!Continue, Infra!Goto
      <4>4. Supplied(w)'
        <5>1. (\A n \in 1..Parts : got[w][n] # NoAddress => Deployed(got[w][n], n))'
          BY <1>2, <2>2, <3>2, <4>2 DEF Supplied
        <5>2. (got[w][Creator] # NoAddress => Whole(got[w][Creator]))'
          BY <1>2, <2>2, <2>4, <3>4, <4>2 DEF Supplied
        <5>3. \A n \in 1..step[w] : got'[w][n] # NoAddress
          BY <2>2, <2>4, <3>1, <3>4, <4>2 DEF Supplied
        <5>. QED  BY <2>4, <3>4, <4>3, <5>1, <5>2, <5>3 DEF Supplied
      <4>5. (\A v \in Calls : Supplied(v))'
        BY <1>6, <2>1, <2>4, <3>4, <4>4 DEF Infra!Continue, Infra!Goto
      <4>. QED  BY <1>3, <1>4, <2>3, <4>5 DEF ReuseInv
    <3>. QED  BY <3>3, <3>4
  <2>5. CASE Ends(w, m)
    <3>1. Supplied(w)'
      BY <1>2, <2>2, <2>5 DEF Supplied, Infra!Continue, Infra!Goto
    <3>2. (\A v \in Calls : Supplied(v))'
      BY <1>6, <2>5, <3>1 DEF Infra!Continue, Infra!Goto
    <3>. QED  BY <1>3, <1>4, <2>3, <3>2 DEF ReuseInv
  <2>6. CASE Infra!Return(w)
    BY <1>3, <1>4, <1>7, <2>3, <2>6 DEF ReuseInv
  <2>. QED  BY <2>1, <2>4, <2>5, <2>6
<1>13. ASSUME NEW w \in Calls, Infra!Save(w) PROVE ReuseInv'
  <2>1. Supplied(w)'
    BY <1>2, <1>13 DEF Infra!Save, Infra!Continue, Infra!Goto, Supplied, ReuseInv
  <2>2. (\A v \in Calls : Supplied(v))'
    BY <1>6, <1>13, <2>1 DEF Infra!Save, Infra!Continue, Infra!Goto
  <2>3. (registry # NoAddress => Whole(registry))'
    BY <1>2, <1>13 DEF Infra!Save, ReuseInv, Supplied
  <2>. QED  BY <1>4, <1>13, <2>2, <2>3 DEF Infra!Save, Infra!chain, ReuseInv
<1>14. ASSUME NEW w \in Calls, Infra!GiveUp(w) PROVE ReuseInv'
  BY <1>3, <1>4, <1>7, <1>14 DEF Infra!GiveUp, Infra!chain, ReuseInv
<1>15. ASSUME NEW s \in Signers, Infra!Mine(s) PROVE ReuseInv'
  BY <1>2, <1>3, <1>5, <1>15 DEF Infra!Mine, Infra!workVars, ReuseInv
<1>16. ASSUME NEW t \in pool, Infra!Forget(t) PROVE ReuseInv'
  BY <1>2, <1>3, <1>5, <1>16 DEF Infra!Forget, Infra!workVars, ReuseInv
<1>17. CASE UNCHANGED Infra!vars
  BY <1>3, <1>4, <1>5, <1>17 DEF Infra!vars, Infra!chain, Infra!workVars, ReuseInv
<1>. QED  BY <1>8, <1>9, <1>10, <1>11, <1>12, <1>13, <1>14, <1>15, <1>16, <1>17
          DEF Infra!Next, Infra!Work

\* However many deployments there are, whoever they share a signer with and wherever
\* they are cut off, they register, and create rollups with, whole creators only.
THEOREM CreatorIsAlwaysWhole ==
  Infra!Spec => []CreatorIsWhole
<1>1. Infra!Init => ReuseInv
  BY ParentChainAssumption, SameChain
     DEF ParentChainAssumption, Infra!Init, ReuseInv, Supplied, Infra!Nothing,
       Creator, Rollup
<1>2. Infra!TypeOK /\ ReuseInv /\ [Infra!Next]_(Infra!vars) => ReuseInv'
  BY ReuseStep
<1>3. ReuseInv => CreatorIsWhole
  BY DEF ReuseInv, CreatorIsWhole, Sound
<1>. QED  BY <1>1, <1>2, <1>3, InfraTypeCorrect, PTL
          DEF Infra!Spec

-----------------------------------------------------------------------------
(* Infrastructure implements Catalogue.                                    *)

\* Where the mined creators are.
CreatorsAt == {Address(m.tx) : m \in Receipts(Creator)}

\* Every creator that is there is whole.
BuiltInv == {a \in Addresses : Whole(a)} = CreatorsAt

LEMMA CreatorsAreWhole == Infra!TypeOK /\ ReuseInv => BuiltInv
<1>. SUFFICES ASSUME Infra!TypeOK, ReuseInv PROVE BuiltInv
  OBVIOUS
<1>1. ASSUME NEW m \in mined, m.ok, m.tx.what = Creator
      PROVE  Whole(Address(m.tx)) /\ Address(m.tx) \in Addresses
  BY <1>1, SameChain DEF ReuseInv, Sound, Whole, Infra!TypeOK, Tx, Address,
     Addresses
<1>2. ASSUME NEW a, Whole(a) PROVE a \in CreatorsAt
  BY <1>2 DEF Whole, CreatorsAt, Receipts
<1>. QED  BY <1>1, <1>2 DEF BuiltInv, CreatorsAt, Receipts

\* A block with one more transaction adds one creator, or one rollup, or neither.
LEMMA ReceiptsGrow ==
  ASSUME NEW t, NEW b \in BOOLEAN, NEW what, mined' = mined \cup {[tx |-> t, ok |-> b]}
  PROVE  Receipts(what)' = IF b /\ t.what = what THEN Receipts(what) \cup {[tx |-> t, ok |-> b]}
                           ELSE Receipts(what)
BY DEF Receipts

\* A mined creator is one more that is built, a mined rollup uses one that is built,
\* a save registers one that is built, and nothing else is seen from outside.
LEMMA CatalogueStep ==
  ASSUME Infra!TypeOK, ReuseInv, BuiltInv, BuiltInv',
         [Infra!Next]_(Infra!vars)
  PROVE  [Reuse!Next]_(Reuse!vars)
<1>. USE ParentChainAssumption, DeploymentsAssumption, SameChain
       DEF ParentChainAssumption, DeploymentsAssumption, Infra!TypeOK, Creator,
           Rollup, Extra
<1>. DEFINE Built == {a \in Addresses : Whole(a)}
            Used == {m.tx.uses[Creator] : m \in Receipts(Rollup)}
<1>1. ASSUME UNCHANGED mined PROVE UNCHANGED <<Built, Used>>
  BY <1>1 DEF Whole, Deployed, Receipts
<1>2. ASSUME UNCHANGED <<mined, registry>> PROVE UNCHANGED Reuse!vars
  BY <1>1, <1>2 DEF Reuse!vars
<1>3. ASSUME NEW w \in Calls, Infra!Save(w) PROVE [Reuse!Next]_(Reuse!vars)
  <2>1. UNCHANGED <<Built, Used>>
    BY <1>1, <1>3 DEF Infra!Save, Infra!chain
  <2>2. CASE registry' = registry
    BY <2>1, <2>2 DEF Reuse!vars
  <2>3. CASE registry' = got[w][Creator] /\ registry' # registry
    <3>1. registry' \in Built
      BY <1>3, <2>3 DEF ReuseInv, Supplied, Infra!Save, Known
    <3>2. Reuse!Register(registry')
      BY <2>1, <3>1 DEF Reuse!Register
    <3>. QED  BY <3>1, <3>2 DEF Reuse!Next
  <2>. QED  BY <1>3, <2>2, <2>3 DEF Infra!Save
<1>4. ASSUME NEW s \in Signers, Infra!Mine(s) PROVE [Reuse!Next]_(Reuse!vars)
  <2>1. PICK t \in pool, b \in BOOLEAN :
          mined' = mined \cup {[tx |-> t, ok |-> b]} /\ UNCHANGED registry
    BY <1>4 DEF Infra!Mine
  <2>2. t \in Tx /\ Sound(t)
    BY DEF ReuseInv
  <2>3. Built = CreatorsAt /\ Built' = CreatorsAt'
    BY DEF BuiltInv
  <2>4. \A what \in {Creator, Rollup} :
          Receipts(what)' = IF b /\ t.what = what THEN Receipts(what) \cup {[tx |-> t, ok |-> b]}
                            ELSE Receipts(what)
    BY <2>1, ReceiptsGrow
  <2>5. CASE b /\ t.what = Creator
    <3>1. Used' = Used
      BY <2>5, <2>4
    <3>2. Built' = Built \cup {Address(t)}
      <4>1. Receipts(Creator)' = Receipts(Creator) \cup {[tx |-> t, ok |-> b]}
        BY <2>5, <2>4
      <4>2. CreatorsAt' = CreatorsAt \cup {Address([tx |-> t, ok |-> b].tx)}
        BY <4>1, Zenon DEF CreatorsAt
      <4>. QED  BY <2>3, <4>2
    <3>3. Reuse!Build(Address(t))
      BY <2>1, <3>1, <3>2 DEF Reuse!Build
    <3>. QED  BY <2>2, <3>3 DEF Reuse!Next, Address, Addresses, Tx
  <2>6. CASE ~(b /\ t.what = Creator)
    <3>1. Built' = Built
      BY <2>3, <2>6, <2>4 DEF CreatorsAt
    <3>2. CASE b /\ t.what = Rollup
      <4>1. Used' = Used \cup {t.uses[Creator]}
        <5>1. Receipts(Rollup)' = Receipts(Rollup) \cup {[tx |-> t, ok |-> b]}
          BY <2>4, <3>2
        <5>2. Used' = Used \cup {[tx |-> t, ok |-> b].tx.uses[Creator]}
          BY <5>1, Zenon
        <5>. QED  BY <5>2
      <4>2. t.uses[Creator] \in Built
        <5>1. Whole(t.uses[Creator])
          BY <2>2, <3>2 DEF Sound
        <5>. QED  BY <2>3, <5>1 DEF Whole, CreatorsAt, Receipts
      <4>3. Reuse!Use(t.uses[Creator])
        BY <2>1, <3>1, <4>1, <4>2 DEF Reuse!Use
      <4>. QED  BY <4>2, <4>3 DEF Reuse!Next
    <3>3. CASE ~(b /\ t.what = Rollup)
      <4>1. Used' = Used
        BY <2>4, <3>3
      <4>. QED  BY <2>1, <3>1, <4>1 DEF Reuse!vars
    <3>. QED  BY <3>2, <3>3
  <2>. QED  BY <2>5, <2>6
<1>5. CASE \E w \in Calls : \/ Infra!Look(w) \/ Infra!GiveUp(w) \/ Infra!Ensure(w)
                            \/ Infra!ReadNonce(w) \/ Infra!Send(w) \/ Infra!Receive(w)
  BY <1>2, <1>5 DEF Infra!Look, Infra!GiveUp, Infra!Ensure, Infra!ReadNonce, Infra!Send,
                    Infra!Receive, Infra!chain
<1>6. CASE \E t \in pool : Infra!Forget(t)
  BY <1>2, <1>6 DEF Infra!Forget
<1>7. CASE UNCHANGED Infra!vars
  BY <1>2, <1>7 DEF Infra!vars, Infra!chain
<1>. QED  BY <1>3, <1>4, <1>5, <1>6, <1>7 DEF Infra!Next, Infra!Work

\* The registry and the chain together are a catalogue: the registered creator is one
\* that has been built as a whole and is never unregistered, and no rollup is made
\* with any other.
THEOREM ReuseImplementsCatalogue ==
  Infra!Spec => ReuseIsACatalogue
<1>1. Infra!Init => ReuseInv
  BY ParentChainAssumption, SameChain DEF ParentChainAssumption, Infra!Init, ReuseInv, Supplied, Infra!Nothing,
     Creator, Rollup
<1>2. Infra!TypeOK /\ ReuseInv /\ [Infra!Next]_(Infra!vars) => ReuseInv'
  BY ReuseStep
<1>3. Infra!Init => Reuse!Init
  BY DEF Infra!Init, Reuse!Init, Whole, Receipts
<1>4. Infra!TypeOK /\ ReuseInv /\ BuiltInv /\ BuiltInv' /\ [Infra!Next]_(Infra!vars)
        => [Reuse!Next]_(Reuse!vars)
  BY CatalogueStep
<1>5. Infra!TypeOK /\ ReuseInv => BuiltInv
  BY CreatorsAreWhole
<1>. QED  BY <1>1, <1>2, <1>3, <1>4, <1>5, InfraTypeCorrect, PTL
          DEF Infra!Spec, Reuse!Spec, ReuseIsACatalogue

-----------------------------------------------------------------------------
(* The address of a contract, which signer and nonce alone determine.      *)

\* The nonces used so far are those below the count.
UsedInv ==
  /\ IsFiniteSet(mined)
  /\ \A m \in mined : m.tx.nonce < Count(m.tx.from)
  /\ OneContract

\* The instance counts as this module does.
LEMMA SameCount == ASSUME NEW s PROVE Infra!Count(s) = Count(s)
<1>1. ASSUME NEW S PROVE Infra!Cardinality(S) = Cardinality(S)
  BY DEF Infra!Cardinality, Cardinality
<1>. QED  BY <1>1 DEF Infra!Count, Count

\* The node takes the transaction with the next nonce into a block, and no other.
LEMMA UsedStep ==
  ASSUME Infra!TypeOK, UsedInv, [Infra!Next]_(Infra!vars)
  PROVE  UsedInv'
<1>1. ASSUME NEW s \in Signers, Infra!Mine(s) PROVE UsedInv'
  <2>. DEFINE Of(x) == {m \in mined : m.tx.from = x}
  <2>1. PICK t \in pool, b \in BOOLEAN :
          t.from = s /\ t.nonce = Count(s) /\ mined' = mined \cup {[tx |-> t, ok |-> b]}
    BY <1>1, SameCount DEF Infra!Mine
  <2>. DEFINE new == [tx |-> t, ok |-> b]
  <2>2. ASSUME NEW x PROVE IsFiniteSet(Of(x))
    BY FS_Subset DEF UsedInv
  <2>3. ASSUME NEW x
         PROVE Count(x) = Cardinality(Of(x)) /\ Count(x)' = Cardinality(Of(x)')
    BY DEF Count
  <2>. HIDE DEF Of
  <2>4. ASSUME NEW x PROVE Count(x) \in Nat
    BY <2>2, <2>3, FS_CardinalityType
  <2>5. IsFiniteSet(mined')
    BY <2>1, FS_AddElement DEF UsedInv
  <2>6. new.tx = t /\ new \notin mined
    <3>1. new.tx = t
      OBVIOUS
    <3>2. Count(s) \in Nat
      BY <2>4
    <3>. QED  BY <2>1, <3>1, <3>2 DEF UsedInv
  <2>. HIDE DEF new
  <2>7. Count(s)' = Count(s) + 1
    <3>1. Of(s)' = Of(s) \cup {new} /\ new \notin Of(s)
      BY <2>1, <2>6 DEF Of, new
    <3>2. Cardinality(Of(s)') = Cardinality(Of(s)) + 1
      BY <2>2, <3>1, FS_AddElement
    <3>. QED  BY <2>3, <3>2
  <2>8. ASSUME NEW x, x # s PROVE Count(x)' = Count(x)
    <3>1. Of(x)' = Of(x)
      BY <2>1, <2>6, <2>8 DEF Of, new
    <3>. QED  BY <2>3, <3>1
  <2>9. ASSUME NEW m \in mined' PROVE m.tx.nonce < Count(m.tx.from)'
    <3>1. CASE m = new
      BY <2>1, <2>4, <2>6, <2>7, <3>1
    <3>2. CASE m \in mined
      <4>1. m.tx.nonce \in Nat /\ m.tx.nonce < Count(m.tx.from)
        BY <3>2, SameChain DEF UsedInv, Infra!TypeOK, Tx
      <4>. QED  BY <2>4, <2>7, <2>8, <4>1
    <3>. QED  BY <2>1, <3>1, <3>2 DEF new
  <2>10. ASSUME NEW m \in mined, Address(m.tx) = Address(t) PROVE FALSE
    <3>1. m.tx.from = s /\ m.tx.nonce = Count(s)
      BY <2>1, <2>10 DEF Address
    <3>2. Count(s) \in Nat
      BY <2>4
    <3>. QED  BY <3>1, <3>2 DEF UsedInv
  <2>11. OneContract'
    BY <2>1, <2>6, <2>10 DEF OneContract, UsedInv, Address, new
  <2>. QED  BY <2>5, <2>9, <2>11 DEF UsedInv
<1>2. CASE UNCHANGED mined
  BY <1>2 DEF UsedInv, OneContract, Count, Address
<1>3. UNCHANGED mined \/ \E s \in Signers : Infra!Mine(s)
  BY DEF Infra!Next, Infra!Work, Infra!vars, Infra!chain, Infra!Look, Infra!Ensure,
     Infra!ReadNonce, Infra!Send, Infra!Receive, Infra!Save, Infra!GiveUp, Infra!Forget
<1>. QED  BY <1>1, <1>2, <1>3

\* Deployments that share a signer may send two transactions with one nonce, but an
\* address never names two contracts: what a receipt says of it stays true.
THEOREM OneContractPerAddress ==
  Infra!Spec => []OneContract
<1>1. Infra!Init => UsedInv
  BY FS_EmptySet DEF Infra!Init, UsedInv, OneContract
<1>2. Infra!TypeOK /\ UsedInv /\ [Infra!Next]_(Infra!vars) => UsedInv'
  BY UsedStep
<1>3. UsedInv => OneContract
  BY DEF UsedInv
<1>. QED  BY <1>1, <1>2, <1>3, InfraTypeCorrect, PTL DEF Infra!Spec
=============================================================================
