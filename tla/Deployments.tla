------------------------------ MODULE Deployments ------------------------------
(***************************************************************************)
(* The life of one row of the control plane's "deployments" table and of   *)
(* every goroutine that moves it: the HTTP handlers that start and resume  *)
(* it, the unified orchestrator that launches a worker for it, the stack   *)
(* orchestrators (OP Stack, Nitro, POPKins bundle) that run in the worker, *)
(* the sweep of stale rows, the start-up scan and a crash of the process.  *)
(* Rows of different deployments share no state, so one row is enough.     *)
(*                                                                         *)
(* Every database statement is a step of its own, because PostgreSQL       *)
(* serialises statements and nothing serialises the goroutines between     *)
(* them.  A statement may fail (MaxFaults); one issued with a cancelled    *)
(* context always does.                                                    *)
(***************************************************************************)
EXTENDS Naturals, Sequences, FiniteSets

CONSTANTS
  Calls,        \* goroutines that may be inside StartDeployment at a time
  NoJob,        \* no entry in runningJobs
  Stacks,       \* the stacks a deployment may be created for
  MaxFaults,    \* bound: database statements that may fail in a behaviour
  MaxCrashes    \* bound: crashes of the server process in a behaviour

ASSUME DeploymentsAssumption ==
  /\ NoJob \notin Calls
  /\ Stacks \subseteq {"opstack", "nitro", "pop-opstack", "pop-nitro"}
  /\ MaxFaults \in Nat
  /\ MaxCrashes \in Nat

VARIABLES
  row,        \* the row: status, current_stage, has error_message, updated_at is recent
  stack,      \* its stack, fixed when the row is created
  artifacts,  \* types of the deployment_artifacts rows saved for it
  onchain,    \* pipeline stages whose work has been carried out at least once
  pc,         \* what each call does next
  reporting,  \* calls whose caller will record an error StartDeployment returns
  cancelled,  \* the context of the call's worker has been cancelled
  at,         \* pipeline stages the call's worker has carried out, while it is there
  jobs,       \* the runningJobs entry: the call whose cancel function it holds
  stopper,    \* a StopDeployment between cancel() and its status update
  startup,    \* the start-up scan of the present process is still to come
  faults, crashes,  \* how much of the bounds has been used
  excused     \* history: no statement has succeeded since the last fault or crash

rowVars == <<row, stack, artifacts, onchain>>
callVars == <<pc, reporting, cancelled, at>>
procVars == <<jobs, stopper, startup>>
boundVars == <<faults, crashes, excused>>
vars == <<rowVars, callVars, procVars, boundVars>>

-----------------------------------------------------------------------------
(* What differs between the stacks.  A pipeline is the list of stages      *)
(* whose start is reported to the row; reports made while artifacts are    *)
(* being written are folded into the one that precedes them.               *)

OpStackPipeline == <<"init", "deploy_superchain", "deploy_implementations",
                     "deploy_opchain", "generate_genesis">>
NitroPipeline == <<"init", "certificates", "download_artifacts",
                   "infrastructure", "deploying">>
PopOpStackPipeline == <<"starting_anvil", "deploying_contracts", "capturing_state">>
PopNitroPipeline == <<"starting_anvil", "downloading_artifacts",
                      "deploying_infrastructure", "deploying_weth",
                      "creating_rollup", "capturing_state">>

\* The stages a worker of the stack goes through before it saves artifacts.
Pipeline == CASE stack = "opstack"     -> OpStackPipeline
              [] stack = "nitro"       -> NitroPipeline
              [] stack = "pop-opstack" -> PopOpStackPipeline
              [] OTHER                 -> PopNitroPipeline

\* The stage reported when the pipeline is through, and the one a completed row
\* is left with.
DoneStage == IF stack = "opstack" THEN "completed"
             ELSE IF stack = "nitro" THEN "artifacts" ELSE "generating_configs"
FinalStage == IF stack = "opstack" THEN "completed"
              ELSE IF stack = "nitro" THEN "none" ELSE "complete"

\* The artifacts a worker saves, in the order it saves them.
ArtifactsOf == CASE stack = "opstack" -> <<"opdeployer_state", "genesis.json", "rollup.json">>
                 [] stack = "nitro"   -> <<"chain_info", "node_config">>
                 [] OTHER             -> <<"configs", "anvil_state">>

\* Nitro only warns when an artifact cannot be saved.
RequiredArtifacts ==
  IF stack = "nitro" THEN {} ELSE {ArtifactsOf[i] : i \in DOMAIN ArtifactsOf}

Stages == {"none", "completed", "complete", "artifacts", "generating_configs"}
            \cup {OpStackPipeline[i] : i \in DOMAIN OpStackPipeline}
            \cup {NitroPipeline[i] : i \in DOMAIN NitroPipeline}
            \cup {PopOpStackPipeline[i] : i \in DOMAIN PopOpStackPipeline}
            \cup {PopNitroPipeline[i] : i \in DOMAIN PopNitroPipeline}

Statuses == {"absent", "pending", "running", "paused", "completed", "failed"}

\* A call is a worker from the moment its cancel function is registered.
WorkerPCs == {"load", "pipe", "save", "complete", "mark_error", "mark_failed",
              "worker_error", "cleanup"}
PCs == {"idle", "api_running", "reset", "clear", "enrich", "config", "running",
        "register", "caller_error"} \cup WorkerPCs

-----------------------------------------------------------------------------
(* The statements of the repository.  A statement that succeeds refreshes  *)
(* updated_at and ends the excuse; one that fails uses up the fault bound. *)

Succeeds == excused' = FALSE /\ UNCHANGED <<faults, crashes>>

Fails == /\ faults < MaxFaults
         /\ faults' = faults + 1
         /\ excused' = TRUE
         /\ UNCHANGED <<row, crashes>>

CreateDeployment ==
  /\ row.status = "absent"
  /\ row' = [row EXCEPT !.status = "pending"]
  /\ Succeeds

UpdateDeploymentStatus(status, stage) ==
  /\ row' = [row EXCEPT !.status = status, !.stage = stage, !.fresh = TRUE]
  /\ Succeeds

UpdateDeploymentConfig == row' = [row EXCEPT !.fresh = TRUE] /\ Succeeds

SetDeploymentError ==
  /\ row' = [row EXCEPT !.status = "failed", !.error = TRUE, !.fresh = TRUE]
  /\ Succeeds

ClearDeploymentError ==
  /\ row' = [row EXCEPT !.error = FALSE, !.fresh = TRUE]
  /\ Succeeds

\* Mutant: stage updates are issued with a background context.
CtxUpdateStatusDetached(p, status, stage) == UpdateDeploymentStatus(status, stage)

\* A statement issued with the worker's context fails, and does nothing, once
\* that context is cancelled.
CtxFails(p) == IF cancelled[p] THEN UNCHANGED <<row, boundVars>> ELSE Fails
CtxUpdateStatus(p, status, stage) ==
  ~cancelled[p] /\ UpdateDeploymentStatus(status, stage)
CtxSetError(p) == ~cancelled[p] /\ SetDeploymentError

Goto(p, l) == pc' = [pc EXCEPT ![p] = l]
Leave(p) == Goto(p, "idle") /\ reporting' = reporting \ {p}

-----------------------------------------------------------------------------
Init ==
  /\ row = [status |-> "absent", stage |-> "none", error |-> FALSE, fresh |-> TRUE]
  /\ stack \in Stacks
  /\ artifacts = {} /\ onchain = {}
  /\ pc = [p \in Calls |-> "idle"]
  /\ reporting = {}
  /\ cancelled = [p \in Calls |-> FALSE]
  /\ at = [p \in Calls |-> 0]
  /\ jobs = NoJob /\ stopper = "idle" /\ startup = "due"
  /\ faults = 0 /\ crashes = 0 /\ excused = FALSE

(* Admission: a handler or the start-up scan reads the row and decides.    *)

Admit(p, l) ==
  /\ pc[p] = "idle"
  /\ Goto(p, l)
  /\ UNCHANGED <<cancelled, at>>

\* POST /api/v1/deployments creates the row and starts nothing.
ApiCreate ==
  /\ CreateDeployment
  /\ UNCHANGED <<stack, artifacts, onchain, callVars, procVars>>

\* The dashboard's form creates the row and calls StartDeployment itself.
FormCreate(p) ==
  /\ CreateDeployment
  /\ Admit(p, "enrich")
  /\ UNCHANGED <<stack, artifacts, onchain, reporting, procVars>>

\* POST /api/v1/deployments/{id}/start reads the row ...
ApiStart(p) ==
  /\ row.status \in {"pending", "paused"}
  /\ Admit(p, "api_running")
  /\ reporting' = reporting \cup {p}
  /\ UNCHANGED <<rowVars, procVars, boundVars>>

\* ... marks it running, whatever it has become, and launches the goroutine.
ApiMarkRunning(p) ==
  /\ pc[p] = "api_running"
  /\ \/ UpdateDeploymentStatus("running", "none") /\ Goto(p, "enrich") /\ UNCHANGED reporting
     \/ Fails /\ Leave(p)
  /\ UNCHANGED <<stack, artifacts, onchain, cancelled, at, procVars>>

\* Mutant: the resume button also accepts a completed deployment.
DeploymentResumeAny(p) ==
  /\ row.status \in {"pending", "failed", "paused", "completed"}
  /\ Admit(p, IF row.status = "pending" THEN "clear" ELSE "reset")
  /\ reporting' = reporting \cup {p}
  /\ UNCHANGED <<rowVars, procVars, boundVars>>

\* The dashboard's resume button reads the row ...
DeploymentResume(p) ==
  /\ row.status \in {"pending", "failed", "paused"}
  /\ Admit(p, IF row.status = "pending" THEN "clear" ELSE "reset")
  /\ reporting' = reporting \cup {p}
  /\ UNCHANGED <<rowVars, procVars, boundVars>>

\* ... resets a failed or paused one to pending ...
ResumeReset(p) ==
  /\ pc[p] = "reset"
  /\ \/ UpdateDeploymentStatus("pending", "none") /\ Goto(p, "clear") /\ UNCHANGED reporting
     \/ Fails /\ Leave(p)
  /\ UNCHANGED <<stack, artifacts, onchain, cancelled, at, procVars>>

\* ... and clears the error; a failure to clear it is only logged.
ResumeClear(p) ==
  /\ pc[p] = "clear"
  /\ ClearDeploymentError \/ Fails
  /\ Goto(p, "enrich")
  /\ UNCHANGED <<stack, artifacts, onchain, reporting, cancelled, at, procVars>>

\* Five seconds after the process starts, pending rows are started.
ProcessPendingDeployments(p) ==
  /\ startup = "due"
  /\ startup' = "done"
  /\ \/ /\ row.status = "pending"
        /\ Admit(p, "enrich")
        /\ UNCHANGED <<reporting, boundVars>>
     \/ /\ row.status # "pending"
        /\ UNCHANGED <<callVars, boundVars>>
     \/ Fails /\ UNCHANGED callVars
  /\ UNCHANGED <<rowVars, jobs, stopper>>

-----------------------------------------------------------------------------
(* StartDeployment, up to the launch of the worker.                        *)

\* Read the row and enrich its config (API key, key addresses).
Enrich(p) ==
  /\ pc[p] = "enrich"
  /\ \/ UNCHANGED <<row, boundVars>> /\ Goto(p, "config")
     \/ (SetDeploymentError \/ Fails) /\ Goto(p, "caller_error")
  /\ UNCHANGED <<stack, artifacts, onchain, reporting, cancelled, at, procVars>>

SaveConfig(p) ==
  /\ pc[p] = "config"
  /\ \/ UpdateDeploymentConfig /\ Goto(p, "running")
     \/ Fails /\ Goto(p, "caller_error")
  /\ UNCHANGED <<stack, artifacts, onchain, reporting, cancelled, at, procVars>>

MarkRunning(p) ==
  /\ pc[p] = "running"
  /\ \/ UpdateDeploymentStatus("running", "none") /\ Goto(p, "register")
     \/ Fails /\ Goto(p, "caller_error")
  /\ UNCHANGED <<stack, artifacts, onchain, reporting, cancelled, at, procVars>>

\* runningJobs[id] = cancel replaces whatever entry is there.
Register(p) ==
  /\ pc[p] = "register"
  /\ jobs' = p
  /\ Goto(p, "load")
  /\ reporting' = reporting \ {p}
  /\ UNCHANGED <<rowVars, cancelled, at, stopper, startup, boundVars>>

\* The API and the resume button record an error StartDeployment returned;
\* the form and the start-up scan only log it.
CallerError(p) ==
  /\ pc[p] = "caller_error"
  /\ \/ p \in reporting /\ (SetDeploymentError \/ Fails)
     \/ p \notin reporting /\ UNCHANGED <<row, boundVars>>
  /\ Leave(p)
  /\ UNCHANGED <<stack, artifacts, onchain, cancelled, at, procVars>>

-----------------------------------------------------------------------------
(* The worker goroutine.                                                   *)

WorkerFrame == UNCHANGED <<stack, reporting, cancelled, procVars>>

\* OP Stack: load the row, parse its config, record the first stage; an error
\* here is returned without MarkFailed.
OpStackLoad(p) ==
  /\ stack = "opstack"
  /\ \/ CtxUpdateStatus(p, "running", "init") /\ Goto(p, "pipe")
     \/ CtxFails(p) /\ Goto(p, "worker_error")
     \/ UNCHANGED <<row, boundVars>> /\ Goto(p, "worker_error")

\* Nitro: record the first stage whether or not that works, load the row.
NitroLoad(p) ==
  /\ stack = "nitro"
  /\ CtxUpdateStatus(p, "running", "init") \/ CtxFails(p)
  /\ (~cancelled[p] /\ Goto(p, "pipe")) \/ Goto(p, "mark_error")

\* Bundle: load the row and create the work directory.
PopLoad(p) ==
  /\ stack \in {"pop-opstack", "pop-nitro"}
  /\ \/ UNCHANGED <<row, boundVars>> /\ ~cancelled[p] /\ Goto(p, "pipe")
     \/ UNCHANGED <<row, boundVars>> /\ Goto(p, "worker_error")
     \/ ~cancelled[p] /\ Fails /\ Goto(p, "worker_error")

Load(p) ==
  /\ pc[p] = "load"
  /\ OpStackLoad(p) \/ NitroLoad(p) \/ PopLoad(p)
  /\ UNCHANGED <<at, artifacts, onchain>> /\ WorkerFrame

\* Where an error of the pipeline goes: OP Stack and Nitro mark the row failed
\* themselves before they return it.
FailurePC == IF stack \in {"opstack", "nitro"} THEN "mark_error" ELSE "worker_error"

\* One stage: its name is written to the row, a failure to write it is only
\* logged, then the stage's work succeeds or fails.
RunStage(p) ==
  /\ pc[p] = "pipe"
  /\ at[p] < Len(Pipeline)
  /\ CtxUpdateStatus(p, "running", Pipeline[at[p] + 1]) \/ CtxFails(p)
  /\ \/ /\ at' = [at EXCEPT ![p] = @ + 1]
        /\ onchain' = onchain \cup {Pipeline[at[p] + 1]}
        /\ UNCHANGED pc
     \/ Goto(p, FailurePC) /\ at' = [at EXCEPT ![p] = 0] /\ UNCHANGED onchain
  /\ UNCHANGED artifacts /\ WorkerFrame

\* The last progress report before the artifacts are saved.
PipelineDone(p) ==
  /\ pc[p] = "pipe"
  /\ at[p] = Len(Pipeline)
  /\ CtxUpdateStatus(p, "running", DoneStage) \/ CtxFails(p)
  /\ Goto(p, "save")
  /\ at' = [at EXCEPT ![p] = 0]
  /\ UNCHANGED <<artifacts, onchain>> /\ WorkerFrame

SavedUpTo(k) == artifacts' = artifacts \cup {ArtifactsOf[i] : i \in 1..k}

\* Mutant: an artifact that cannot be saved is only logged.
SaveArtifactsLenient(p) ==
  /\ pc[p] = "save" /\ stack # "nitro"
  /\ \E k \in 0..Len(ArtifactsOf) : SavedUpTo(IF cancelled[p] THEN 0 ELSE k)
  /\ Goto(p, "complete")
  /\ UNCHANGED <<row, boundVars, at, onchain>> /\ WorkerFrame

\* Artifacts are upserted one by one; OP Stack and the bundle stop at the first
\* that cannot be produced or saved.
SaveArtifacts(p) ==
  /\ pc[p] = "save" /\ stack # "nitro"
  /\ \/ /\ ~cancelled[p]
        /\ SavedUpTo(Len(ArtifactsOf))
        /\ UNCHANGED <<row, boundVars>> /\ Goto(p, "complete")
     \/ /\ \E k \in 0..(Len(ArtifactsOf) - 1) :
             SavedUpTo(IF cancelled[p] THEN 0 ELSE k)
        /\ UNCHANGED <<row, boundVars>> \/ CtxFails(p)
        /\ Goto(p, FailurePC)
  /\ UNCHANGED <<at, onchain>> /\ WorkerFrame

\* Nitro saves what it can, then reports its last stage.
NitroSaveArtifacts(p) ==
  /\ pc[p] = "save" /\ stack = "nitro"
  /\ \E k \in 0..Len(ArtifactsOf) : SavedUpTo(IF cancelled[p] THEN 0 ELSE k)
  /\ CtxUpdateStatus(p, "running", "completed") \/ CtxFails(p)
  /\ Goto(p, "complete")
  /\ UNCHANGED <<at, onchain>> /\ WorkerFrame

\* Mutant: the stage and the status are swapped in the last update.
MarkCompleteSwapped(p) ==
  /\ pc[p] = "complete"
  /\ CtxUpdateStatus(p, "complete", "completed") \/ CtxFails(p)
  /\ Goto(p, "cleanup")
  /\ UNCHANGED <<at, artifacts, onchain>> /\ WorkerFrame

\* The row is marked completed.  OP Stack returns a failure to do so as an
\* error; Nitro and the bundle log it and return success.
MarkComplete(p) ==
  /\ pc[p] = "complete"
  /\ \/ CtxUpdateStatus(p, "completed", FinalStage) /\ Goto(p, "cleanup")
     \/ CtxFails(p) /\ Goto(p, IF stack = "opstack" THEN "worker_error" ELSE "cleanup")
  /\ UNCHANGED <<at, artifacts, onchain>> /\ WorkerFrame

\* MarkFailed and failDeployment: the error first; OP Stack gives up if it
\* cannot be written, Nitro goes on.
MarkFailedError(p) ==
  /\ pc[p] = "mark_error"
  /\ \/ CtxSetError(p) /\ Goto(p, "mark_failed")
     \/ CtxFails(p) /\ Goto(p, IF stack = "opstack" THEN "worker_error" ELSE "mark_failed")
  /\ UNCHANGED <<at, artifacts, onchain>> /\ WorkerFrame

\* ... then the status, which also resets the stage.
MarkFailedStatus(p) ==
  /\ pc[p] = "mark_failed"
  /\ CtxUpdateStatus(p, "failed", "none") \/ CtxFails(p)
  /\ Goto(p, "worker_error")
  /\ UNCHANGED <<at, artifacts, onchain>> /\ WorkerFrame

\* Mutant: the error Deploy returned is only logged.
WorkerErrorLogged(p) ==
  /\ pc[p] = "worker_error"
  /\ UNCHANGED <<row, boundVars>>
  /\ Goto(p, "cleanup")
  /\ UNCHANGED <<at, artifacts, onchain>> /\ WorkerFrame

\* Mutant: the row is marked failed without the message.
WorkerErrorStatusOnly(p) ==
  /\ pc[p] = "worker_error"
  /\ UpdateDeploymentStatus("failed", "none") \/ Fails
  /\ Goto(p, "cleanup")
  /\ UNCHANGED <<at, artifacts, onchain>> /\ WorkerFrame

\* The goroutine records the error Deploy returned, with a context of its own.
WorkerError(p) ==
  /\ pc[p] = "worker_error"
  /\ SetDeploymentError \/ Fails
  /\ Goto(p, "cleanup")
  /\ UNCHANGED <<at, artifacts, onchain>> /\ WorkerFrame

\* Mutant: the clean-up forgets the entry of runningJobs.
CleanupKeepsJob(p) ==
  /\ pc[p] = "cleanup"
  /\ Goto(p, "idle")
  /\ cancelled' = [cancelled EXCEPT ![p] = FALSE]
  /\ UNCHANGED <<rowVars, reporting, at, jobs, stopper, startup, boundVars>>

\* The deferred clean-up deletes the entry of this id, whoever's it is.
Cleanup(p) ==
  /\ pc[p] = "cleanup"
  /\ jobs' = NoJob
  /\ Goto(p, "idle")
  /\ cancelled' = [cancelled EXCEPT ![p] = FALSE]
  /\ UNCHANGED <<rowVars, reporting, at, stopper, startup, boundVars>>

Worker(p) ==
  \/ Load(p) \/ RunStage(p) \/ PipelineDone(p)
  \/ SaveArtifacts(p) \/ NitroSaveArtifacts(p) \/ MarkComplete(p)
  \/ MarkFailedError(p) \/ MarkFailedStatus(p) \/ WorkerError(p) \/ Cleanup(p)

-----------------------------------------------------------------------------
(* StopDeployment, the sweep, the clock and the crash.                     *)

\* Look up the cancel function and call it ...
StopDeployment ==
  /\ stopper = "idle" /\ jobs # NoJob
  /\ cancelled' = [cancelled EXCEPT ![jobs] = TRUE]
  /\ stopper' = "pausing"
  /\ UNCHANGED <<rowVars, pc, reporting, at, jobs, startup, boundVars>>

\* ... then mark the row paused, with a context of its own.
StopMarkPaused ==
  /\ stopper = "pausing"
  /\ UpdateDeploymentStatus("paused", "none") \/ Fails
  /\ stopper' = "idle"
  /\ UNCHANGED <<stack, artifacts, onchain, callVars, jobs, startup>>

\* Mutant: the sweep writes the message and leaves the status.
MarkStaleMessageOnly ==
  /\ row.status = "running" /\ ~row.fresh
  /\ row' = [row EXCEPT !.error = TRUE, !.fresh = TRUE]
  /\ Succeeds
  /\ UNCHANGED <<stack, artifacts, onchain, callVars, procVars>>

\* The list page fails running rows not updated for thirty minutes.
MarkStaleDeploymentsFailed ==
  /\ row.status = "running" /\ ~row.fresh
  /\ SetDeploymentError
  /\ UNCHANGED <<stack, artifacts, onchain, callVars, procVars>>

\* Thirty minutes pass without an update.
Age ==
  /\ row.status = "running" /\ row.fresh
  /\ row' = [row EXCEPT !.fresh = FALSE]
  /\ UNCHANGED <<stack, artifacts, onchain, callVars, procVars, boundVars>>

\* The process dies and a new one starts: every goroutine and the map are gone.
\* This is also what the Go runtime does on a concurrent access to runningJobs.
Crash ==
  /\ crashes < MaxCrashes
  /\ crashes' = crashes + 1
  /\ pc' = [p \in Calls |-> "idle"]
  /\ cancelled' = [p \in Calls |-> FALSE]
  /\ at' = [p \in Calls |-> 0]
  /\ jobs' = NoJob /\ stopper' = "idle" /\ startup' = "due"
  /\ excused' = TRUE
  /\ reporting' = {}
  /\ UNCHANGED <<rowVars, faults>>

-----------------------------------------------------------------------------
\* Steps of a call that has been admitted.
Proceed(p) ==
  \/ ApiMarkRunning(p) \/ ResumeReset(p) \/ ResumeClear(p)
  \/ Enrich(p) \/ SaveConfig(p) \/ MarkRunning(p) \/ Register(p) \/ CallerError(p)
  \/ Worker(p)

Next ==
  \/ ApiCreate
  \/ \E p \in Calls : \/ FormCreate(p) \/ ApiStart(p) \/ DeploymentResume(p)
                      \/ ProcessPendingDeployments(p)
                      \/ Proceed(p)
  \/ StopDeployment \/ StopMarkPaused
  \/ MarkStaleDeploymentsFailed \/ Age \/ Crash

Spec == Init /\ [][Next]_vars

\* The Go scheduler runs every goroutine, and the start-up scan is one of them.
ServerFairness ==
  /\ \A p \in Calls : WF_vars(Proceed(p))
  /\ WF_vars(StopMarkPaused)
  /\ WF_vars(\E p \in Calls : ProcessPendingDeployments(p))

\* Time passes and somebody goes on opening the list page: an assumption on
\* the environment, nothing in the server calls the sweep by itself.
DashboardFairness == WF_vars(Age) /\ WF_vars(MarkStaleDeploymentsFailed)

FairSpec == Spec /\ ServerFairness /\ DashboardFairness
-----------------------------------------------------------------------------
(* Properties.                                                             *)

\* Every variable has its type: the row's status is one of the six of
\* repository/types.go (or there is no row), a call is at a known place, and
\* the fault and crash budgets are respected.
RowTypeOK == row \in [status : Statuses, stage : Stages, error : BOOLEAN, fresh : BOOLEAN]
WorkTypeOK ==
  /\ stack \in Stacks
  /\ artifacts \subseteq {ArtifactsOf[i] : i \in DOMAIN ArtifactsOf}
  /\ onchain \subseteq {Pipeline[i] : i \in DOMAIN Pipeline}
  /\ at \in [Calls -> 0..Len(Pipeline)]
CallsTypeOK ==
  /\ pc \in [Calls -> PCs]
  /\ reporting \subseteq Calls
  /\ cancelled \in [Calls -> BOOLEAN]
ProcTypeOK ==
  /\ jobs \in Calls \cup {NoJob}
  /\ stopper \in {"idle", "pausing"}
  /\ startup \in {"due", "done"}
BoundsOK == faults \in 0..MaxFaults /\ crashes \in 0..MaxCrashes /\ excused \in BOOLEAN

TypeOK == RowTypeOK /\ WorkTypeOK /\ CallsTypeOK /\ ProcTypeOK /\ BoundsOK

\* A call that will still write the row before it ends, with a context that is
\* not cancelled.
Responsible(p) ==
  /\ ~cancelled[p]
  /\ \/ pc[p] \in {"enrich", "config", "running", "register"}
     \/ pc[p] \in WorkerPCs \ {"cleanup"}
     \/ pc[p] = "caller_error" /\ p \in reporting

\* No goroutine walks away from a deployment it leaves "running": unless the
\* last thing that happened to the row was a failed statement or a crash, a
\* running row has a call that will still move it, or a stop about to pause it.
RunningIsOwned ==
  row.status = "running" =>
    excused \/ stopper = "pausing" \/ \E p \in Calls : Responsible(p)

\* Every stage of the pipeline has been carried out, and every artifact saved that
\* has to be.
Backed == (\A i \in DOMAIN Pipeline : Pipeline[i] \in onchain) /\ RequiredArtifacts \subseteq artifacts

\* A completed deployment has had every stage of its pipeline carried out, and
\* has every artifact without which "deployment MUST fail" (genesis.json,
\* rollup.json, ...), whichever of several workers, retries and restarts did it.
CompletedIsBacked == row.status = "completed" => Backed

\* The cancel function found in runningJobs is that of a worker that has not
\* finished: StopDeployment never cancels a call that is over.
JobIsLive == jobs # NoJob => pc[jobs] \in WorkerPCs

\* Nobody is inside StartDeployment, a worker, a handler or a stop.
Quiet == (\A p \in Calls : pc[p] = "idle") /\ stopper = "idle"

\* Once everybody who touched it has left, a failed deployment says why: the
\* status update of MarkFailed, the clearing of a resume and the error of the
\* goroutine never combine into a failure without a message.
FailedIsExplained ==
  Quiet /\ row.status = "failed" /\ ~excused => row.error

\* A worker whose context was cancelled by StopDeployment can fail the row but
\* can no longer report progress on it or complete it.
NoProgressBy(p) ==
  cancelled[p] /\ (pc'[p] # pc[p] \/ at'[p] # at[p]) /\ crashes' = crashes =>
    row'.status \in {row.status, "failed"} /\ row'.stage \in {row.stage, "none"}
CancelledMakesNoProgress == [][\A p \in Calls : NoProgressBy(p)]_vars

\* A completed deployment nobody is working on stays completed: neither start,
\* resume, the start-up scan, the sweep nor a crash reopens it.
CompletedIsFinal ==
  [](row.status = "completed" /\ Quiet => [](row.status = "completed"))

Life == INSTANCE Lifecycle WITH
  status <- row.status, told <- row.error, done <- Backed, busy <- ~Quiet

\* Whatever handlers, workers, stops, sweeps, failures and crashes do to it, a
\* deployment is what Lifecycle says: it moves only while somebody is at work on
\* it, or when it is created, started or found stale; the last one to leave does
\* not leave it running, or failed without a word; and it is completed when all
\* that it takes has been done and saved, which is never undone.
IsALifecycle == Life!Spec

\* A deployment does not stay "running" for ever, whatever fails or crashes:
\* its workers finish it or the sweep fails it.
EveryRunEnds == (row.status = "running") ~> (row.status # "running")
=============================================================================
