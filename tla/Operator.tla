-------------------------------- MODULE Operator --------------------------------
(***************************************************************************)
(* The Kubernetes operator of one cluster: the cluster controller, which   *)
(* keeps the applications at the replicas the specification asks for; the  *)
(* backup and restore controllers and the jobs they start; the             *)
(* applications, which change OpenBao and the database while they run.     *)
(*                                                                         *)
(* A step is one pass of a controller or one command of a job's script.    *)
(* A pass whose status update fails (a conflict, a crash of the operator)  *)
(* has done the rest of its work.  The API server is external: what a      *)
(* controller reads from its cache may be older than its own last write,   *)
(* and a read may fail.  The applications are the API and the dashboard;   *)
(* the RPC gateway, which no restore stops, changes no key and no row of   *)
(* one.                                                                    *)
(***************************************************************************)
EXTENDS Integers, FiniteSets

CONSTANTS
  Keys,      \* what a row of the database and a key of OpenBao stand for
  Backups,   \* POPSignerBackup objects
  Restore,   \* the POPSignerRestore object
  NoBackup,  \* a restore without a backupRef
  Lists,     \* bound: lists of components that backups and restores may name
  MaxCalls,  \* bound: changes the applications make
  MaxFaults  \* bound: failed updates, reads and commands, deletions, stale reads

\* The third one, "secrets", has no part in a restore.
Components == {"openbao", "database"}

ASSUME OperatorAssumption ==
  /\ Lists \subseteq SUBSET Components
  /\ Restore \notin Backups /\ NoBackup \notin Backups
  /\ MaxCalls \in Nat /\ MaxFaults \in Nat

VARIABLES
  wanted, pods,  \* the applications: replicas asked for; their pods
  bao, db,       \* keys stored in OpenBao, and those with a row
  backup,        \* Status.Phase of each backup
  restore,       \* Status.Phase of the restore
  stop, ref,     \* its specification: stopApplications, backupRef
  parts,         \* the components each backup and the restore names
  job, failed,   \* of each backup and the restore: where the job's pod is, and
                 \* how many of its pods have failed
  snaps, dumps,  \* the bucket: snapshots of OpenBao, dumps of the database
  calls, faults, \* how much of the bounds has been used
  meddled,       \* history: the applications were scaled up since the restore
                 \* scaled them down
  misread,       \* history: a failed or late read passed for stopped applications
  fresh, moved   \* history: the database was empty when the restore's job was
                 \* created, and the applications changed nothing while the job
                 \* ran; keys they have changed since it was created

apps == <<wanted, pods>>
spec == <<stop, ref, parts>>
data == <<bao, db>>
bucket == <<snaps, dumps>>
hist == <<meddled, misread, fresh, moved>>
vars == <<apps, data, backup, restore, spec, job, failed, bucket, calls, faults, hist>>

Jobs == Backups \cup {Restore}

\* A dump that pg_dump did not finish is not whole, and nothing is read from it.
Dumps == [rows : SUBSET Keys, whole : BOOLEAN]

BackoffLimit == 2

Ended == {"Completed", "Failed"}

TypeOK ==
  /\ wanted \in BOOLEAN /\ pods \in {"none", "starting", "ready", "leaving"}
  /\ bao \subseteq Keys /\ db \subseteq Keys
  /\ backup \in [Backups -> {"absent", "Pending", "Running", "deleted"} \cup Ended]
  /\ restore \in {"absent", "Pending", "Stopping", "Restoring", "Starting"} \cup Ended
  /\ stop \in BOOLEAN /\ ref \in Backups \cup {NoBackup}
  /\ parts \in [Jobs -> SUBSET Components]
  /\ job \in [Jobs -> {"none", "openbao", "database", "succeeded", "exhausted"}]
  /\ failed \in [Jobs -> 0..(BackoffLimit + 1)]
  /\ snaps \subseteq SUBSET Keys
  /\ dumps \subseteq Dumps
  /\ calls \in 0..MaxCalls /\ faults \in 0..MaxFaults
  /\ meddled \in BOOLEAN /\ misread \in BOOLEAN /\ fresh \in BOOLEAN
  /\ moved \subseteq Keys

\* A cluster that runs.
Init ==
  /\ wanted = TRUE /\ pods = "ready"
  /\ bao \in SUBSET Keys /\ db = bao
  /\ backup = [b \in Backups |-> "absent"]
  /\ restore = "absent"
  /\ stop = TRUE /\ ref = NoBackup /\ parts = [j \in Jobs |-> Components]
  /\ job = [j \in Jobs |-> "none"]
  /\ failed = [j \in Jobs |-> 0]
  /\ snaps = {} /\ dumps = {}
  /\ calls = 0 /\ faults = 0
  /\ meddled = FALSE /\ misread = FALSE /\ fresh = FALSE /\ moved = {}

Fault == faults < MaxFaults /\ faults' = faults + 1

-----------------------------------------------------------------------------
(* The applications and the cluster controller. *)

\* Kubernetes follows the replicas of a Deployment: pods are told to terminate, and
\* do, or others are started next to them; a pod may lose its readiness.
Kubelet ==
  /\ \/ wanted /\ pods \in {"none", "leaving"} /\ pods' = "starting" /\ UNCHANGED faults
     \/ wanted /\ pods = "starting" /\ pods' = "ready" /\ UNCHANGED faults
     \/ ~wanted /\ pods \in {"starting", "ready"} /\ pods' = "leaving" /\ UNCHANGED faults
     \/ ~wanted /\ pods = "leaving" /\ pods' = "none" /\ UNCHANGED faults
     \/ pods = "ready" /\ pods' = "starting" /\ Fault
  /\ UNCHANGED <<wanted, data, backup, restore, spec, job, failed, bucket, calls, hist>>

\* What the status of a Deployment counts: not a pod that was told to terminate.
Replicas == pods \in {"starting", "ready"}

\* Mutant: a Deployment that is there keeps its replicas.
ClusterReconcileCreating ==
  /\ ~wanted
  /\ meddled' = stop
  /\ UNCHANGED <<apps, data, backup, restore, spec, job, failed, bucket,
                 calls, faults, misread, fresh, moved>>

\* ClusterReconciler.Reconcile, every 30 seconds when PostgreSQL, Redis and
\* OpenBao are ready: createOrUpdate writes the whole Deployment, replicas too.
ClusterReconcile ==
  /\ ~wanted
  /\ wanted' = TRUE
  /\ meddled' = stop
  /\ UNCHANGED <<pods, data, backup, restore, spec, job, failed, bucket,
                 calls, faults, misread, fresh, moved>>

\* A key is created or deleted, in OpenBao and then in the database; a call may
\* be cut off in between.  A pod that terminates finishes the calls it has.
Call(k) ==
  /\ pods \in {"ready", "leaving"}
  /\ calls < MaxCalls /\ calls' = calls + 1
  /\ bao' = IF k \in bao THEN bao \ {k} ELSE bao \cup {k}
  /\ \/ db' = (IF k \in bao THEN db \ {k} ELSE db \cup {k}) /\ UNCHANGED faults
     \/ Fault /\ UNCHANGED db
  /\ moved' = IF job[Restore] = "none" THEN {} ELSE moved \cup {k}
  /\ fresh' = (fresh /\ job[Restore] = "succeeded")
  /\ UNCHANGED <<apps, backup, restore, spec, job, failed, bucket, meddled, misread>>

\* What restores are for: the cluster is rebuilt without its data.
Disaster ==
  /\ restore = "absent" /\ (snaps # {} \/ dumps # {}) /\ bao \cup db # {}
  /\ bao' = {} /\ db' = {}
  /\ UNCHANGED <<apps, backup, restore, spec, job, failed, bucket, calls, faults, hist>>
-----------------------------------------------------------------------------
(* BackupReconciler. *)

BackupTo(b, phase) == backup' = [backup EXCEPT ![b] = phase]

CreateBackup(b) ==
  /\ backup[b] = "absent"
  /\ BackupTo(b, "Pending")
  /\ \E c \in Lists : parts' = [parts EXCEPT ![b] = c]
  /\ UNCHANGED <<apps, data, restore, stop, ref, job, failed, bucket, calls, faults, hist>>

\* The job is created, if it is not there, and the phase becomes Running.  The
\* backup fails when its cluster cannot be read or its job cannot be created, as
\* one that is there already but that the cache does not show yet.
StartBackup(b) ==
  /\ backup[b] = "Pending"
  /\ \/ /\ job' = IF job[b] = "none" THEN [job EXCEPT ![b] = "openbao"] ELSE job
        /\ \/ BackupTo(b, "Running") /\ UNCHANGED faults
           \/ Fault /\ UNCHANGED backup
     \/ Fault /\ BackupTo(b, "Failed") /\ UNCHANGED job
  /\ UNCHANGED <<apps, data, restore, spec, failed, bucket, calls, hist>>

\* One failed pod fails the backup, whatever the job's next pod does; a cluster
\* that cannot be read fails it too.
EndBackup(b) ==
  /\ backup[b] = "Running"
  /\ \/ job[b] = "succeeded" /\ BackupTo(b, "Completed") /\ UNCHANGED faults
     \/ job[b] # "succeeded" /\ failed[b] > 0 /\ BackupTo(b, "Failed") /\ UNCHANGED faults
     \/ Fault /\ BackupTo(b, "Failed")
  /\ UNCHANGED <<apps, data, restore, spec, job, failed, bucket, calls, hist>>

\* Its job goes with it, and what it uploaded stays.
DeleteBackup(b) ==
  /\ backup[b] \notin {"absent", "deleted"}
  /\ Fault
  /\ BackupTo(b, "deleted")
  /\ job' = [job EXCEPT ![b] = "none"]
  /\ UNCHANGED <<apps, data, restore, spec, failed, bucket, calls, hist>>
-----------------------------------------------------------------------------
(* The scripts of the jobs.  Every pod runs its script from the beginning.  *)

PodTo(j, step) == job' = [job EXCEPT ![j] = step]

\* Mutant: one pod too many is started.
NextPodOnceMore(j) ==
  /\ failed' = [failed EXCEPT ![j] = @ + 1]
  /\ PodTo(j, IF failed[j] <= BackoffLimit THEN "openbao" ELSE "exhausted")

\* A pod that fails is followed by another.
NextPod(j) ==
  /\ failed' = [failed EXCEPT ![j] = @ + 1]
  /\ PodTo(j, IF failed[j] < BackoffLimit THEN "openbao" ELSE "exhausted")

\* The last command has been run: the pod succeeds, or dies all the same.
Exit(j) ==
  \/ PodTo(j, "succeeded") /\ UNCHANGED <<failed, faults>>
  \/ NextPod(j) /\ Fault

\* The script has come to a component that it was asked for.
At(j, component) == job[j] = component /\ component \in parts[j]

\* if echo "$COMPONENTS" | grep -q: it was not asked for this one.
Skip(j) ==
  /\ job[j] \in Components \ parts[j]
  /\ \/ job[j] = "openbao" /\ PodTo(j, "database") /\ UNCHANGED <<failed, faults>>
     \/ job[j] = "database" /\ Exit(j)
  /\ UNCHANGED <<apps, data, backup, restore, spec, bucket, calls, hist>>

\* buildBackupScript: a raft snapshot is saved and uploaded.
SaveSnapshot(b) ==
  /\ b \in Backups /\ At(b, "openbao")
  /\ snaps' = snaps \cup {bao}
  /\ PodTo(b, "database")
  /\ UNCHANGED <<apps, data, backup, restore, spec, failed, dumps, calls, faults, hist>>

\* pg_dump | gzip: without pipefail a failure of pg_dump does not end the script.
Dump(b) ==
  /\ b \in Backups /\ At(b, "database")
  /\ \/ dumps' = dumps \cup {[rows |-> db, whole |-> TRUE]} /\ Exit(b)
     \/ /\ dumps' = dumps \cup {[rows |-> {}, whole |-> FALSE]} /\ Fault
        /\ PodTo(b, "succeeded") /\ UNCHANGED failed
  /\ UNCHANGED <<apps, data, backup, restore, spec, snaps, calls, hist>>

\* buildRestoreScript: whatever snapshot the pattern openbao-*.snap is taken to
\* mean, whichever backup is meant; raft snapshot restore -force replaces everything.
RestoreSnapshot ==
  /\ At(Restore, "openbao")
  /\ bao' \in snaps
  /\ PodTo(Restore, "database")
  /\ UNCHANGED <<apps, db, backup, restore, spec, failed, bucket, calls, faults, hist>>

\* A dump read into a table that has one of its rows: COPY fails as a whole, and
\* psql goes on and exits with 0.
Loaded(d) == IF d.rows \cap db # {} THEN db ELSE db \cup d.rows

Load ==
  /\ At(Restore, "database")
  /\ \E d \in dumps : db' = Loaded(d)
  /\ Exit(Restore)
  /\ UNCHANGED <<apps, bao, backup, restore, spec, bucket, calls, hist>>

\* A command fails, or the pod dies before or after one took effect (which a
\* failure at the next command is).
PodFails(j) ==
  /\ job[j] \in Components
  /\ \/ Fault
     \/ At(Restore, "openbao") /\ j = Restore /\ snaps = {} /\ UNCHANGED faults
     \/ At(Restore, "database") /\ j = Restore /\ dumps = {} /\ UNCHANGED faults
  /\ NextPod(j)
  /\ UNCHANGED <<apps, data, backup, restore, spec, bucket, calls, hist>>
-----------------------------------------------------------------------------
(* RestoreReconciler. *)

\* An empty list of components means all of them.
CreateRestore ==
  /\ restore = "absent"
  /\ restore' = "Pending"
  /\ stop' \in BOOLEAN
  /\ ref' \in Backups \cup {NoBackup}
  /\ \E c \in Lists : parts' = [parts EXCEPT ![Restore] = c]
  /\ UNCHANGED <<apps, data, backup, job, failed, bucket, calls, faults, hist>>

\* The backup is looked at on every pass.
BackupIsThere == ref = NoBackup \/ (ref \in Backups /\ backup[ref] = "Completed")

\* ... and so is the cluster; one that cannot be read ends the restore.
Refuse ==
  /\ restore \notin {"absent"} \cup Ended
  /\ (~BackupIsThere /\ UNCHANGED faults) \/ Fault
  /\ restore' = "Failed"
  /\ UNCHANGED <<apps, data, backup, spec, job, failed, bucket, calls, hist>>

\* The phase that a pass reaches, or does not reach when its update fails.
RestoreTo(phase) ==
  \/ restore' = phase /\ UNCHANGED faults
  \/ Fault /\ UNCHANGED restore

\* scaleDownApps may fail after the first of the two Deployments, and leaves one
\* alone that it cannot read.
BeginRestore ==
  /\ restore = "Pending" /\ BackupIsThere
  /\ \/ ~stop /\ RestoreTo("Restoring") /\ UNCHANGED <<wanted, meddled, misread>>
     \/ stop /\ RestoreTo("Stopping") /\ wanted' = FALSE /\ meddled' = FALSE /\ misread' = FALSE
     \/ /\ stop /\ Fault /\ wanted' \in {wanted, FALSE} /\ UNCHANGED meddled
        /\ \/ restore' = "Failed" /\ UNCHANGED misread
           \/ restore' = "Stopping" /\ misread' = TRUE
  /\ UNCHANGED <<pods, data, backup, spec, job, failed, bucket, calls, fresh, moved>>

\* Mutant: the replicas asked for are looked at, not the pods.
AwaitAsked ==
  /\ restore = "Stopping" /\ BackupIsThere
  /\ ~wanted /\ UNCHANGED <<faults, misread>>
  /\ restore' = "Restoring"
  /\ UNCHANGED <<apps, data, backup, spec, job, failed, bucket, calls, meddled, fresh, moved>>

\* appsScaledDown: a Deployment that cannot be read is taken for stopped, and the
\* status of one that can may come late.
AwaitStopped ==
  /\ restore = "Stopping" /\ BackupIsThere
  /\ \/ ~Replicas /\ UNCHANGED <<faults, misread>>
     \/ Fault /\ misread' = TRUE
  /\ restore' = "Restoring"
  /\ UNCHANGED <<apps, data, backup, spec, job, failed, bucket, calls, meddled, fresh, moved>>

\* The job is created, or the restore fails.
RunRestore ==
  /\ restore = "Restoring" /\ BackupIsThere
  /\ job[Restore] = "none"
  /\ \/ /\ PodTo(Restore, "openbao") /\ fresh' = (db = {}) /\ moved' = {}
        /\ UNCHANGED <<restore, faults>>
     \/ Fault /\ restore' = "Failed" /\ UNCHANGED <<job, fresh, moved>>
  /\ UNCHANGED <<apps, data, backup, spec, failed, bucket, calls, meddled, misread>>

\* Mutant: a job without failed pods counts as done.
FollowJobEarly ==
  /\ restore = "Restoring" /\ BackupIsThere
  /\ \/ job[Restore] # "none" /\ failed[Restore] = 0 /\ restore' = "Starting" /\ UNCHANGED faults
     \/ job[Restore] # "succeeded" /\ failed[Restore] > 0 /\ restore' = "Failed" /\ UNCHANGED faults
     \/ job[Restore] # "none" /\ Fault /\ restore' = "Failed"
  /\ UNCHANGED <<apps, data, backup, spec, job, failed, bucket, calls, hist>>

\* Mutant: failed pods are not looked at.
FollowJobHoping ==
  /\ restore = "Restoring" /\ BackupIsThere
  /\ \/ job[Restore] = "succeeded" /\ restore' = "Starting" /\ UNCHANGED faults
     \/ job[Restore] # "none" /\ Fault /\ restore' = "Failed"
  /\ UNCHANGED <<apps, data, backup, spec, job, failed, bucket, calls, hist>>

\* Success is looked for first; one failed pod fails the restore.  A job that the
\* cache does not show yet is created again, which fails the restore too.
FollowJob ==
  /\ restore = "Restoring" /\ BackupIsThere
  /\ \/ job[Restore] = "succeeded" /\ restore' = "Starting" /\ UNCHANGED faults
     \/ job[Restore] # "succeeded" /\ failed[Restore] > 0 /\ restore' = "Failed" /\ UNCHANGED faults
     \/ job[Restore] # "none" /\ Fault /\ restore' = "Failed"
  /\ UNCHANGED <<apps, data, backup, spec, job, failed, bucket, calls, hist>>

\* scaleUpApps on every pass.  appsReady may read the Deployment as it was before:
\* with no replicas asked for, none have to be ready.  An update may fail, and one
\* that cannot be read is neither scaled up nor waited for.
StartApps ==
  /\ restore = "Starting" /\ BackupIsThere
  /\ \/ wanted' = TRUE /\ UNCHANGED <<restore, faults>>
     \/ wanted' = TRUE /\ (pods = "ready" \/ ~wanted) /\ RestoreTo("Completed")
     \/ Fault /\ wanted' \in {wanted, TRUE} /\ restore' \in {"Failed", "Completed"}
  /\ UNCHANGED <<pods, data, backup, spec, job, failed, bucket, calls, hist>>

RestoreReconcile ==
  Refuse \/ BeginRestore \/ AwaitStopped \/ RunRestore \/ FollowJob \/ StartApps

BackupReconcile(b) == StartBackup(b) \/ EndBackup(b)

Script(j) ==
  \/ Skip(j) \/ SaveSnapshot(j) \/ Dump(j) \/ PodFails(j)
  \/ j = Restore /\ (RestoreSnapshot \/ Load)

Next ==
  \/ Kubelet \/ ClusterReconcile \/ Disaster
  \/ \E k \in Keys : Call(k)
  \/ \E b \in Backups : CreateBackup(b) \/ BackupReconcile(b) \/ DeleteBackup(b)
  \/ \E j \in Jobs : Script(j)
  \/ CreateRestore \/ RestoreReconcile

Spec == Init /\ [][Next]_vars

\* Controllers requeue what is not finished, Kubernetes runs pods, and the data
\* layer gets ready again.  Nobody owes a failure.
Smooth == UNCHANGED faults

Fairness ==
  /\ WF_vars(Kubelet /\ Smooth) /\ WF_vars(ClusterReconcile)
  /\ WF_vars(RestoreReconcile /\ Smooth)
  /\ \A b \in Backups : WF_vars(BackupReconcile(b) /\ Smooth)
  /\ \A j \in Jobs : WF_vars(Script(j) /\ Smooth)

FairSpec == Spec /\ Fairness

-----------------------------------------------------------------------------
(* Properties. *)

\* While the job of a restore that stops the applications writes, none are asked
\* for and no pod of theirs is starting or ready, until the cluster controller
\* scales them up: no failed, repeated or stale pass of the restore controller
\* starts them early, not even one that gives up while the job goes on.  Unless,
\* that is, one of its reads passed for applications that are gone.  Pods that were
\* told to terminate may still be there: nobody waits for them.
StaysDown ==
  stop /\ job[Restore] \in Components /\ ~meddled /\ ~misread => ~wanted /\ ~Replicas

\* What every snapshot and every dump in the bucket say of a key, if they agree.
Agreed(k) == \A s \in snaps, d \in dumps : d.whole /\ (k \in s <=> k \in d.rows)

\* After a restore of both components into an empty database, during which the
\* applications changed nothing, those of their pods that still terminate included,
\* a key on which all that is in the bucket agrees, and which they have not touched
\* since, has a row exactly if OpenBao has it - whichever files were fetched, and
\* however often pods failed half-way.  (One row written too early is enough to
\* lose the whole dump.)
RestoredPairAgrees ==
  restore \in {"Starting", "Completed"} /\ fresh /\ parts[Restore] = Components =>
    \A k \in Keys \ moved : Agreed(k) => (k \in bao <=> k \in db)

\* Every restore ends, except that one whose applications are scaled up before
\* they were seen to be gone may wait for ever.
RestoreEnds ==
  restore = "Pending" ~> restore \in Ended \/ (restore = "Stopping" /\ wanted)

\* Whatever becomes of a restore, the applications end up running.
AppsComeBack == <>[](pods = "ready")
=============================================================================
