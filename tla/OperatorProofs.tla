----------------------------- MODULE OperatorProofs -----------------------------
(***************************************************************************)
(* Proofs about Operator, for any number of keys and backups and any       *)
(* bounds.                                                                 *)
(***************************************************************************)
EXTENDS Operator, TLAPS

-----------------------------------------------------------------------------
(* Type correctness.                                                       *)

\* A job that still runs has pods left; one that was never there has had none.
PodInv ==
  /\ \A j \in Jobs : job[j] \in {"openbao", "database"} => failed[j] <= BackoffLimit
  /\ \A b \in Backups : job[b] = "none" /\ backup[b] # "deleted" => failed[b] = 0
  /\ job[Restore] = "none" => failed[Restore] = 0

TypeInv == TypeOK /\ PodInv

\* Every variable keeps its type.
LEMMA StepType == TypeInv /\ [Next]_vars => TypeInv'
<1>. SUFFICES ASSUME TypeInv, [Next]_vars PROVE TypeInv'
  OBVIOUS
<1>. USE DEF TypeInv, TypeOK, PodInv, Jobs, Dumps, Ended, BackoffLimit,
               Components, At, Replicas, apps, data, spec, bucket, hist
<1>1. CASE Kubelet
  BY <1>1, OperatorAssumption DEF Kubelet, Fault
<1>2. CASE ClusterReconcile
  BY <1>2, OperatorAssumption DEF ClusterReconcile
<1>3. CASE Disaster
  BY <1>3, OperatorAssumption DEF Disaster, Fault
<1>4. ASSUME NEW k \in Keys, Call(k) PROVE TypeInv'
  BY <1>4, OperatorAssumption DEF Call, Fault
<1>5. ASSUME NEW b \in Backups, CreateBackup(b) PROVE TypeInv'
  BY <1>5, OperatorAssumption DEF CreateBackup, BackupTo
<1>6. ASSUME NEW b \in Backups, StartBackup(b) PROVE TypeInv'
  BY <1>6, OperatorAssumption DEF StartBackup, BackupTo, Fault
<1>7. ASSUME NEW b \in Backups, EndBackup(b) PROVE TypeInv'
  BY <1>7, OperatorAssumption DEF EndBackup, BackupTo, Fault
<1>8. ASSUME NEW b \in Backups, DeleteBackup(b) PROVE TypeInv'
  BY <1>8, OperatorAssumption DEF DeleteBackup, BackupTo, Fault
<1>9. ASSUME NEW j \in Jobs, SaveSnapshot(j) PROVE TypeInv'
  BY <1>9, OperatorAssumption DEF SaveSnapshot, PodTo
<1>10. ASSUME NEW j \in Jobs, Dump(j) PROVE TypeInv'
  <2>1. dumps' \subseteq Dumps
    <3>1. [rows |-> db, whole |-> TRUE] \in Dumps /\ [rows |-> {}, whole |-> FALSE] \in Dumps
      OBVIOUS
    <3>2. dumps' \subseteq dumps \cup {[rows |-> db, whole |-> TRUE], [rows |-> {}, whole |-> FALSE]}
      BY <1>10 DEF Dump
    <3>3. dumps \subseteq Dumps
      OBVIOUS
    <3>. QED  BY <3>1, <3>2, <3>3
  <2>2. \/ Exit(j)
        \/ Fault /\ PodTo(j, "succeeded") /\ UNCHANGED failed
    BY <1>10 DEF Dump
  <2>3. /\ job[j] = "database" /\ j \in Backups
        /\ UNCHANGED <<apps, data, backup, restore, spec, snaps, calls, hist>>
    BY <1>10 DEF Dump
  <2>4. /\ job' \in [Jobs -> {"none", "openbao", "database", "succeeded", "exhausted"}]
        /\ failed' \in [Jobs -> 0..(BackoffLimit + 1)] /\ faults' \in 0..MaxFaults
        /\ PodInv'
    BY <2>2, <2>3, OperatorAssumption DEF Exit, NextPod, PodTo, Fault
  <2>. QED  BY <2>1, <2>3, <2>4
<1>11. CASE RestoreSnapshot
  BY <1>11, OperatorAssumption DEF RestoreSnapshot, PodTo
<1>12. CASE Load
  BY <1>12, OperatorAssumption DEF Load, Loaded, PodTo, Exit, NextPod, Fault
<1>13. ASSUME NEW j \in Jobs, PodFails(j) PROVE TypeInv'
  BY <1>13, OperatorAssumption DEF PodFails, PodTo, NextPod, Fault
<1>14. CASE CreateRestore
  BY <1>14, OperatorAssumption DEF CreateRestore
<1>15. CASE Refuse
  BY <1>15, OperatorAssumption DEF Refuse, Fault
<1>16. CASE BeginRestore
  <2>1. wanted' \in BOOLEAN /\ meddled' \in BOOLEAN /\ misread' \in BOOLEAN
    BY <1>16 DEF BeginRestore
  <2>2. restore' \in {restore, "Restoring", "Stopping", "Failed"} /\ faults' \in 0..MaxFaults
    <3>1. \/ RestoreTo("Restoring") \/ RestoreTo("Stopping")
          \/ Fault /\ restore' \in {"Failed", "Stopping"}
      BY <1>16 DEF BeginRestore
    <3>. QED  BY <3>1, OperatorAssumption DEF RestoreTo, Fault
  <2>3. UNCHANGED <<pods, data, backup, spec, job, failed, bucket, calls, fresh, moved>>
    BY <1>16 DEF BeginRestore
  <2>. QED  BY <2>1, <2>2, <2>3
<1>17. CASE AwaitStopped
  <2>1. misread' \in BOOLEAN /\ restore' = "Restoring"
    BY <1>17 DEF AwaitStopped
  <2>2. faults' \in 0..MaxFaults
    <3>1. Fault \/ UNCHANGED faults
      BY <1>17 DEF AwaitStopped
    <3>. QED  BY <3>1, OperatorAssumption DEF Fault
  <2>3. UNCHANGED <<apps, data, backup, spec, job, failed, bucket, calls, meddled, fresh, moved>>
    BY <1>17 DEF AwaitStopped
  <2>. QED  BY <2>1, <2>2, <2>3
<1>18. CASE RunRestore
  <2>1. /\ fresh' \in BOOLEAN /\ moved' \subseteq Keys /\ restore' \in {restore, "Failed"}
        /\ job' \in {job, [job EXCEPT ![Restore] = "openbao"]}
    BY <1>18 DEF RunRestore, PodTo
  <2>2. faults' \in 0..MaxFaults
    <3>1. Fault \/ UNCHANGED faults
      BY <1>18 DEF RunRestore
    <3>. QED  BY <3>1, OperatorAssumption DEF Fault
  <2>3. /\ job[Restore] = "none"
        /\ UNCHANGED <<apps, data, backup, spec, failed, bucket, calls, meddled, misread>>
    BY <1>18 DEF RunRestore
  <2>. QED  BY <2>1, <2>2, <2>3
<1>19. CASE FollowJob
  BY <1>19, OperatorAssumption DEF FollowJob, Fault
<1>20. CASE StartApps
  <2>1. wanted' \in BOOLEAN
    BY <1>20 DEF StartApps
  <2>2. restore' \in {restore, "Completed", "Failed"} /\ faults' \in 0..MaxFaults
    <3>1. \/ RestoreTo("Completed") \/ UNCHANGED <<restore, faults>>
          \/ Fault /\ restore' \in {"Failed", "Completed"}
      BY <1>20 DEF StartApps
    <3>. QED  BY <3>1, OperatorAssumption DEF RestoreTo, Fault
  <2>3. UNCHANGED <<pods, data, backup, spec, job, failed, bucket, calls, hist>>
    BY <1>20 DEF StartApps
  <2>. QED  BY <2>1, <2>2, <2>3
<1>21. CASE UNCHANGED vars
  BY <1>21 DEF vars
<1>22. ASSUME NEW j \in Jobs, Skip(j) PROVE TypeInv'
  BY <1>22, OperatorAssumption DEF Skip, PodTo, Exit, NextPod, Fault
<1>. QED  BY <1>1, <1>2, <1>3, <1>4, <1>5, <1>6, <1>7, <1>8, <1>9, <1>10, <1>11, <1>12,
          <1>13, <1>14, <1>15, <1>16, <1>17, <1>18, <1>19, <1>20, <1>21, <1>22
             DEF Next, BackupReconcile, RestoreReconcile, Script

\* It holds in every state.
LEMMA TypeInvariant == Spec => []TypeInv
<1>1. Init => TypeInv
  <2>. SUFFICES ASSUME Init PROVE TypeInv
    OBVIOUS
  <2>1. /\ wanted \in BOOLEAN /\ stop \in BOOLEAN /\ fresh \in BOOLEAN
        /\ meddled \in BOOLEAN /\ misread \in BOOLEAN /\ parts \in [Jobs -> SUBSET Components]
        /\ bao \subseteq Keys /\ db \subseteq Keys /\ snaps = {} /\ dumps = {} /\ moved = {}
    BY DEF Init
  <2>2. calls \in 0..MaxCalls /\ faults \in 0..MaxFaults
    BY OperatorAssumption DEF Init
  <2>3. PodInv
    BY DEF Init, PodInv, Jobs, BackoffLimit
  <2>4. /\ pods \in {"none", "starting", "ready", "leaving"} /\ restore = "absent" /\ ref \in Backups \cup {NoBackup}
        /\ backup = [b \in Backups |-> "absent"]
        /\ job = [j \in Jobs |-> "none"] /\ failed = [j \in Jobs |-> 0]
    BY DEF Init
  <2>. QED  BY <2>1, <2>2, <2>3, <2>4 DEF TypeInv, TypeOK, BackoffLimit
<1>2. TypeInv /\ [Next]_vars => TypeInv'
  BY StepType
<1>. QED  BY <1>1, <1>2, PTL DEF Spec

\* Every variable keeps its type, whatever the constants.
THEOREM TypeCorrect == Spec => []TypeOK
<1>1. TypeInv => TypeOK
  BY DEF TypeInv
<1>. QED  BY <1>1, TypeInvariant, PTL

-----------------------------------------------------------------------------
(* The applications stay away from a restore.                              *)

\* How far the restore is, and what is true then of its job and of applications
\* that nobody has scaled up.
PhaseInv ==
  /\ restore \in {"absent", "Pending", "Stopping"} => job[Restore] = "none"
  /\ restore \in {"Starting", "Completed"} => job[Restore] = "succeeded"
  /\ stop /\ ~meddled /\ ~misread /\ restore = "Stopping" => ~wanted
  /\ stop /\ ~meddled /\ ~misread /\ restore = "Restoring" => ~wanted /\ ~Replicas

StaysDownInv == PhaseInv /\ StaysDown

\* Only the cluster controller starts applications while the job runs.
LEMMA StaysDownStep == TypeInv /\ StaysDownInv /\ [Next]_vars => StaysDownInv'
<1>. SUFFICES ASSUME TypeInv, StaysDownInv, [Next]_vars PROVE StaysDownInv'
  OBVIOUS
<1>. USE DEF TypeInv, TypeOK, PodInv, Jobs, Ended, StaysDownInv, PhaseInv, StaysDown,
               Components, At, Replicas, apps, data, spec, bucket, hist
<1>1. CASE Kubelet
  BY <1>1, OperatorAssumption DEF Kubelet, Fault
<1>2. CASE ClusterReconcile
  BY <1>2, OperatorAssumption DEF ClusterReconcile
<1>3. CASE Disaster
  BY <1>3, OperatorAssumption DEF Disaster, Fault
<1>4. ASSUME NEW k \in Keys, Call(k) PROVE StaysDownInv'
  BY <1>4, OperatorAssumption DEF Call, Fault
<1>5. ASSUME NEW b \in Backups, CreateBackup(b) PROVE StaysDownInv'
  BY <1>5, OperatorAssumption DEF CreateBackup, BackupTo
<1>6. ASSUME NEW b \in Backups, StartBackup(b) PROVE StaysDownInv'
  BY <1>6, OperatorAssumption DEF StartBackup, BackupTo, Fault
<1>7. ASSUME NEW b \in Backups, EndBackup(b) PROVE StaysDownInv'
  BY <1>7, OperatorAssumption DEF EndBackup, BackupTo, Fault
<1>8. ASSUME NEW b \in Backups, DeleteBackup(b) PROVE StaysDownInv'
  BY <1>8, OperatorAssumption DEF DeleteBackup, BackupTo, Fault
<1>9. ASSUME NEW j \in Jobs, SaveSnapshot(j) PROVE StaysDownInv'
  BY <1>9, OperatorAssumption DEF SaveSnapshot, PodTo
<1>10. ASSUME NEW j \in Jobs, Dump(j) PROVE StaysDownInv'
  BY <1>10, OperatorAssumption DEF Dump, PodTo, Exit, NextPod, Fault
<1>11. CASE RestoreSnapshot
  BY <1>11, OperatorAssumption DEF RestoreSnapshot, PodTo
<1>12. CASE Load
  BY <1>12, OperatorAssumption DEF Load, Loaded, PodTo, Exit, NextPod, Fault
<1>13. ASSUME NEW j \in Jobs, PodFails(j) PROVE StaysDownInv'
  BY <1>13, OperatorAssumption DEF PodFails, PodTo, NextPod, Fault
<1>14. CASE CreateRestore
  BY <1>14, OperatorAssumption DEF CreateRestore
<1>15. CASE Refuse
  BY <1>15, OperatorAssumption DEF Refuse, Fault
<1>16. CASE BeginRestore
  BY <1>16, OperatorAssumption DEF BeginRestore, RestoreTo, Fault
<1>17. CASE AwaitStopped
  BY <1>17, OperatorAssumption DEF AwaitStopped, Fault
<1>18. CASE RunRestore
  BY <1>18, OperatorAssumption DEF RunRestore, PodTo, Fault
<1>19. CASE FollowJob
  BY <1>19, OperatorAssumption DEF FollowJob, Fault
<1>20. CASE StartApps
  BY <1>20, OperatorAssumption DEF StartApps, RestoreTo, Fault
<1>21. CASE UNCHANGED vars
  BY <1>21 DEF vars
<1>22. ASSUME NEW j \in Jobs, Skip(j) PROVE StaysDownInv'
  BY <1>22, OperatorAssumption DEF Skip, PodTo, Exit, NextPod, Fault
<1>. QED  BY <1>1, <1>2, <1>3, <1>4, <1>5, <1>6, <1>7, <1>8, <1>9, <1>10, <1>11, <1>12,
          <1>13, <1>14, <1>15, <1>16, <1>17, <1>18, <1>19, <1>20, <1>21, <1>22
             DEF Next, BackupReconcile, RestoreReconcile, Script

\* It holds in every state.
LEMMA StaysDownInvariant == Spec => []StaysDownInv
<1>1. Init => StaysDownInv
  BY DEF Init, StaysDownInv, PhaseInv, StaysDown, Jobs, Components
<1>2. TypeInv /\ StaysDownInv /\ [Next]_vars => StaysDownInv'
  BY StaysDownStep
<1>. QED  BY <1>1, <1>2, TypeInvariant, PTL DEF Spec

\* While the job of a restore that stops the applications writes, no pod of theirs is
\* starting or ready, until the cluster controller scales them up, unless a read
\* passed for stopped applications.
THEOREM AlwaysStaysDown == Spec => []StaysDown
<1>1. StaysDownInv => StaysDown
  BY DEF StaysDownInv
<1>. QED  BY <1>1, StaysDownInvariant, PTL

-----------------------------------------------------------------------------
(* What a restore leaves.                                                  *)

\* OpenBao has what one of the snapshots has, once one was restored by a job that
\* restores both components.
BaoInv ==
  fresh /\ parts[Restore] = Components /\ job[Restore] \in {"database", "succeeded"} =>
    \E s \in snaps : \A k \in Keys \ moved : k \in s <=> k \in bao

\* The database is empty, or has what the dumps agree on; the latter once the
\* job succeeded.  Before that the applications have changed nothing.
DbInv ==
  /\ fresh /\ job[Restore] \in {"openbao", "database", "exhausted"} => moved = {}
  /\ fresh /\ parts[Restore] = Components /\ job[Restore] # "none" =>
       \/ job[Restore] # "succeeded" /\ db = {}
       \/ snaps # {} /\ dumps # {} /\ \A k \in Keys \ moved : Agreed(k) => \A d \in dumps : k \in d.rows <=> k \in db

PairInv == PhaseInv /\ BaoInv /\ DbInv

\* Neither a failed pod nor another file makes a difference to a key all files agree on.
LEMMA PairStep == TypeInv /\ PairInv /\ [Next]_vars => PairInv'
<1>. SUFFICES ASSUME TypeInv, PairInv, [Next]_vars PROVE PairInv'
  OBVIOUS
<1>. USE DEF TypeInv, TypeOK, PodInv, Jobs, Dumps, Ended, PairInv, PhaseInv, BaoInv, DbInv, Agreed,
               Components, At, Replicas, apps, data, spec, bucket, hist
<1>1. CASE Kubelet
  BY <1>1, OperatorAssumption DEF Kubelet, Fault
<1>2. CASE ClusterReconcile
  BY <1>2, OperatorAssumption DEF ClusterReconcile
<1>3. CASE Disaster
  BY <1>3, OperatorAssumption DEF Disaster, Fault
<1>4. ASSUME NEW k \in Keys, Call(k) PROVE PairInv'
  BY <1>4, OperatorAssumption DEF Call, Fault
<1>5. ASSUME NEW b \in Backups, CreateBackup(b) PROVE PairInv'
  BY <1>5, OperatorAssumption DEF CreateBackup, BackupTo
<1>6. ASSUME NEW b \in Backups, StartBackup(b) PROVE PairInv'
  BY <1>6, OperatorAssumption DEF StartBackup, BackupTo, Fault
<1>7. ASSUME NEW b \in Backups, EndBackup(b) PROVE PairInv'
  BY <1>7, OperatorAssumption DEF EndBackup, BackupTo, Fault
<1>8. ASSUME NEW b \in Backups, DeleteBackup(b) PROVE PairInv'
  BY <1>8, OperatorAssumption DEF DeleteBackup, BackupTo, Fault
<1>9. ASSUME NEW j \in Jobs, SaveSnapshot(j) PROVE PairInv'
  BY <1>9, OperatorAssumption DEF SaveSnapshot, PodTo
<1>10. ASSUME NEW j \in Jobs, Dump(j) PROVE PairInv'
  <2>1. /\ j \in Backups /\ j # Restore
        /\ UNCHANGED <<apps, data, backup, restore, spec, snaps, calls, hist>>
    BY <1>10, OperatorAssumption DEF Dump
  <2>2. job'[Restore] = job[Restore]
    BY <1>10, <2>1 DEF Dump, Exit, NextPod, PodTo
  <2>3. PICK d \in Dumps : dumps' = dumps \cup {d} /\ (d.whole => d.rows = db)
    <3>1. [rows |-> db, whole |-> TRUE] \in Dumps /\ [rows |-> {}, whole |-> FALSE] \in Dumps
      OBVIOUS
    <3>. QED  BY <1>10, <3>1 DEF Dump
  <2>4. PhaseInv' /\ BaoInv'
    BY <2>1, <2>2
  <2>5. ASSUME NEW k \in Keys, snaps # {}, Agreed(k)'
        PROVE  Agreed(k) /\ (k \in d.rows <=> k \in db)
    BY <2>1, <2>3, <2>5
  <2>6. DbInv'
    BY <2>1, <2>2, <2>3, <2>5
  <2>. QED  BY <2>4, <2>6
<1>11. CASE RestoreSnapshot
  BY <1>11, OperatorAssumption DEF RestoreSnapshot, PodTo
<1>12. CASE Load
  BY <1>12, OperatorAssumption DEF Load, Loaded, PodTo, Exit, NextPod, Fault
<1>13. ASSUME NEW j \in Jobs, PodFails(j) PROVE PairInv'
  BY <1>13, OperatorAssumption DEF PodFails, PodTo, NextPod, Fault
<1>14. CASE CreateRestore
  BY <1>14, OperatorAssumption DEF CreateRestore
<1>15. CASE Refuse
  BY <1>15, OperatorAssumption DEF Refuse, Fault
<1>16. CASE BeginRestore
  BY <1>16, OperatorAssumption DEF BeginRestore, RestoreTo, Fault
<1>17. CASE AwaitStopped
  BY <1>17, OperatorAssumption DEF AwaitStopped, Fault
<1>18. CASE RunRestore
  BY <1>18, OperatorAssumption DEF RunRestore, PodTo, Fault
<1>19. CASE FollowJob
  BY <1>19, OperatorAssumption DEF FollowJob, Fault
<1>20. CASE StartApps
  BY <1>20, OperatorAssumption DEF StartApps, RestoreTo, Fault
<1>21. CASE UNCHANGED vars
  BY <1>21 DEF vars
<1>22. ASSUME NEW j \in Jobs, Skip(j) PROVE PairInv'
  BY <1>22, OperatorAssumption DEF Skip, PodTo, Exit, NextPod, Fault
<1>. QED  BY <1>1, <1>2, <1>3, <1>4, <1>5, <1>6, <1>7, <1>8, <1>9, <1>10, <1>11, <1>12,
          <1>13, <1>14, <1>15, <1>16, <1>17, <1>18, <1>19, <1>20, <1>21, <1>22
             DEF Next, BackupReconcile, RestoreReconcile, Script

\* After a restore of both components into an empty database, OpenBao and the database agree on the
\* keys that all files in the bucket agree on.
THEOREM RestoredPairAlwaysAgrees == Spec => []RestoredPairAgrees
<1>1. Init => PairInv
  BY DEF Init, PairInv, PhaseInv, BaoInv, DbInv, Jobs
<1>2. TypeInv /\ PairInv /\ [Next]_vars => PairInv'
  BY PairStep
<1>3. PairInv => RestoredPairAgrees
  BY DEF PairInv, PhaseInv, BaoInv, DbInv, RestoredPairAgrees, Agreed
<1>. QED  BY <1>1, <1>2, <1>3, TypeInvariant, PTL DEF Spec

=============================================================================
