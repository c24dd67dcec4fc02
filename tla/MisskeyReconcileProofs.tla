----------------------- MODULE MisskeyReconcileProofs -----------------------
(***************************************************************************)
(* What MisskeyReconcile guarantees for any images, configurations and     *)
(* bounds, with or without a lagging cache.                                *)
(***************************************************************************)
EXTENDS MisskeyReconcile, TLAPS

\* The type invariant holds: every write of the operator and of its
\* environment keeps the objects, the cache and the locals in their types.
THEOREM TypeCorrect == Spec => []TypeOK
<1>1. Init => TypeOK
  <2>1. FirstMisskey \in Misskey
    BY FirstAssumption DEF FirstMisskey, Misskey, MisskeySpec
  <2>2. FirstStatus \in Status /\ NoJob \in Job /\ NoDep \in Dep
    BY DEF FirstStatus, Status, Phases, NoJob, Job, JobStates, NoDep, Dep
  <2> SUFFICES ASSUME Init PROVE TypeOK
    OBVIOUS
  <2>3. statusSeen \in BOOLEAN /\ err \in BOOLEAN
    BY Zenon DEF Init
  <2>4. /\ jobs \in [Images -> Job] /\ seenJobs \in [Images -> Job]
        /\ backups \in [Images -> BackupStates]
        /\ deps \in [Roles -> Dep] /\ seenDeps \in [Roles -> Dep]
    BY <2>2 DEF Init, BackupStates
  <2>5. /\ pc \in PCs /\ phase \in Phases
        /\ migrated \subseteq Images /\ covered \subseteq Images
        /\ created \in Nat /\ deletes \in Nat /\ faults \in Nat
    BY DEF Init, PCs, Phases
  <2> QED
    BY <2>1, <2>2, <2>3, <2>4, <2>5 DEF Init, TypeOK
<1>2. TypeOK /\ [Next]_vars => TypeOK'
  <2> SUFFICES ASSUME TypeOK, [Next]_vars
               PROVE  TypeOK'
    OBVIOUS
  <2> USE DEF TypeOK, apiVars, cacheVars, localVars, histVars
  <2>1. FirstMisskey \in Misskey
    BY FirstAssumption DEF FirstMisskey, Misskey, MisskeySpec
  <2>2. /\ GetMisskey \in Misskey
        /\ GetJobs \in [Images -> Job]
        /\ GetDeps \in [Roles -> Dep]
    BY DEF GetMisskey, GetJobs, GetDeps
  <2>3. /\ NoJob \in Job /\ NoDep \in Dep
        /\ Desired(m) \in Dep
        /\ "app" \in Roles /\ "worker" \in Roles
    BY DEF NoJob, Job, JobStates, NoDep, Dep, Desired, Misskey, Roles
  <2>4. ASSUME NEW r \in Roles, NEW new \in Dep, NEW next \in PCs, Apply(r, new, next)
        PROVE  deps' \in [Roles -> Dep] /\ pc' \in PCs /\ err' \in BOOLEAN
    BY <2>4 DEF Apply, PCs
  <2>5. Return => pc' \in PCs /\ m' \in Misskey /\ err' \in BOOLEAN /\ phase' \in Phases
    BY <2>1 DEF Return, PCs, Phases
  <2>6. Fault => faults' \in Nat
    BY DEF Fault
  <2>7. CASE Start
    BY <2>7, <2>2 DEF Start, PCs
  <2>8. CASE DatabaseNotReady
    BY <2>8, <2>6 DEF DatabaseNotReady, PCs
  <2>9. CASE cleanupOldPreMigrationBackups \/ LookForMigrationJob \/ reconcilePreMigrationBackup
    <3>1. backups' \in [Images -> BackupStates]
      BY <2>9 DEF cleanupOldPreMigrationBackups, LookForMigrationJob, reconcilePreMigrationBackup,
         BackupStates
    <3>2. pc' \in PCs
      BY <2>9 DEF cleanupOldPreMigrationBackups, LookForMigrationJob, reconcilePreMigrationBackup,
         PCs
    <3>3. UNCHANGED <<misskey, status, jobs, deps, cacheVars, m, err, phase, histVars>>
      BY <2>9 DEF cleanupOldPreMigrationBackups, LookForMigrationJob, reconcilePreMigrationBackup
    <3> QED
      BY <3>1, <3>2, <3>3
  <2>33. CASE BackupCleanupFailsMidway
    BY <2>33, <2>6 DEF BackupCleanupFailsMidway, BackupStates, PCs
  <2>10. CASE cleanupOldMigrationJobs
    BY <2>10, <2>3 DEF cleanupOldMigrationJobs, PCs
  <2>11. CASE CleanupFailsMidway
    BY <2>11, <2>3, <2>6 DEF CleanupFailsMidway, PCs
  <2>12. CASE CreateMigrationJob
    <3>1. [st |-> "running", cfg |-> m.cfg] \in Job
      BY DEF Job, JobStates, Misskey
    <3>2. jobs' \in [Images -> Job] /\ err' \in BOOLEAN
      BY <3>1, <2>12 DEF CreateMigrationJob
    <3>3. covered' \subseteq Images /\ created' \in Nat
      BY <2>12 DEF CreateMigrationJob
    <3> QED
      BY <3>2, <3>3, <2>12 DEF CreateMigrationJob, PCs
  <2>13. CASE CheckMigrationJob
    BY <2>13, <2>3 DEF CheckMigrationJob, PCs
  <2>14. CASE GateOpen
    BY <2>14 DEF GateOpen, PCs
  <2>15. CASE GateClosed
    BY <2>15, <2>6 DEF GateClosed, PCs
  <2>16. CASE reconcileApp
    BY <2>16, <2>3, <2>4 DEF reconcileApp, PCs
  <2>17. CASE reconcileWorker
    BY <2>17, <2>3, <2>4 DEF reconcileWorker, PCs
  <2>18. CASE suspendWorkloads
    <3>1. ASSUME NEW r \in Roles
          PROVE  [GetDeps[r] EXCEPT !.up = FALSE] \in Dep
      <4>1. GetDeps[r] \in Dep
        BY <2>2
      <4> HIDE DEF TypeOK
      <4> QED
        BY <4>1 DEF Dep
    <3>2. ASSUME NEW r \in Roles, NEW here \in PCs, NEW next \in PCs,
                 suspendWorkload(r, here, next)
          PROVE  TypeOK'
      BY <3>1, <3>2, <2>4 DEF suspendWorkload
    <3> QED
      BY <3>2, <2>18, <2>3 DEF suspendWorkloads, PCs
  <2>19. CASE CallFails
    BY <2>19, <2>6 DEF CallFails, PCs
  <2>20. CASE aggregatePhase
    BY <2>20 DEF aggregatePhase, PCs, Phases
  <2>21. CASE writeStatus
    BY <2>21, <2>2, <2>5 DEF writeStatus, Status, Misskey
  <2>22. CASE statusConflict
    BY <2>22, <2>5 DEF statusConflict
  <2>23. CASE Crash
    BY <2>23, <2>5, <2>6 DEF Crash
  <2>24. CASE EditSpec
    BY <2>24, ChoiceAssumption DEF EditSpec, Misskey
  <2>25. ASSUME NEW i \in Images, JobRetries(i)
         PROVE  TypeOK'
    BY <2>25 DEF JobRetries, Job, JobStates
  <2>26. ASSUME NEW i \in Images, JobEnds(i)
         PROVE  TypeOK'
    BY <2>26 DEF JobEnds, Job, JobStates
  <2>27. ASSUME NEW i \in Images, BackupEnds(i)
         PROVE  TypeOK'
    BY <2>27 DEF BackupEnds, BackupStates
  <2>28. ASSUME NEW i \in Images, DeleteFailed(i)
         PROVE  TypeOK'
    BY <2>28, <2>3 DEF DeleteFailed, BackupStates
  <2>29. CASE SyncMisskey
    BY <2>29 DEF SyncMisskey
  <2>30. CASE SyncJobs
    BY <2>30 DEF SyncJobs
  <2>31. CASE SyncDeps
    BY <2>31 DEF SyncDeps
  <2>32. CASE UNCHANGED vars
    BY <2>32 DEF vars
  <2> QED
    BY <2>7, <2>8, <2>9, <2>10, <2>11, <2>12, <2>13, <2>14, <2>15, <2>16, <2>17,
       <2>18, <2>19, <2>20, <2>21, <2>22, <2>23, <2>24, <2>25, <2>26, <2>27,
       <2>28, <2>29, <2>30, <2>31, <2>32, <2>33
       DEF Next, Operator, Faults, Sync, Environment
<1> QED
  BY <1>1, <1>2, PTL DEF Spec

-----------------------------------------------------------------------------
(***************************************************************************)
(* The migration gate.  MigratedBeforeRollout is not inductive by itself:  *)
(* a Deployment gets its image from the operator's copy m, whose migration *)
(* was judged by a possibly stale Job.  A Job that was ever seen Succeeded *)
(* has Succeeded, and migrated only grows, so the judgement stays true.    *)
(***************************************************************************)

GateInv ==
    /\ \A i \in Images : jobs[i].st = "succeeded" => i \in migrated
    /\ \A i \in Images : seenJobs[i].st = "succeeded" => i \in migrated
    /\ pc \in {"gate", "app", "worker"} => m.image \in migrated
    /\ pc = "write" /\ phase = "Running" => m.image \in migrated
    /\ RunningIsMigrated
    /\ MigratedBeforeRollout

\* A step that leaves the objects the gate reads alone keeps GateInv.
LEMMA GateInvFrame ==
    ASSUME GateInv,
           UNCHANGED <<jobs, seenJobs, deps, status, migrated>>,
           pc' \in {"gate", "app", "worker"} => pc \in {"gate", "app", "worker"} /\ m' = m,
           pc' = "write" => pc = "write" /\ UNCHANGED <<m, phase>>
    PROVE  GateInv'
BY DEF GateInv, RunningIsMigrated, MigratedBeforeRollout

\* GateInv is kept by every step.
LEMMA GateInvStep == TypeOK /\ GateInv /\ [Next]_vars => GateInv'
<1> SUFFICES ASSUME TypeOK, GateInv, [Next]_vars
             PROVE  GateInv'
  OBVIOUS
<1> USE DEF apiVars, cacheVars, localVars, histVars
<1>1. m.image \in Images
  BY DEF TypeOK, Misskey
<1>2. \A i \in Images : GetJobs[i].st = "succeeded" => i \in migrated
  BY DEF GetJobs, GateInv
<1>3. ASSUME NEW r \in Roles, NEW new, NEW next, Apply(r, new, next),
             new.image \in migrated \cup {None},
             next \in {"worker", "suspendWorker", "status"},
             next = "worker" => pc \in {"gate", "app", "worker"},
             UNCHANGED <<jobs, seenJobs, status, migrated, m>>
      PROVE  GateInv'
  <2>1. MigratedBeforeRollout'
    BY <1>3 DEF Apply, MigratedBeforeRollout, GateInv, TypeOK
  <2> QED
    BY <2>1, <1>3 DEF Apply, GateInv, RunningIsMigrated
<1>4. CASE Start
  BY <1>4, GateInvFrame DEF Start
<1>5. CASE DatabaseNotReady \/ GateClosed \/ CallFails \/ Crash
  BY <1>5, GateInvFrame DEF DatabaseNotReady, GateClosed, CallFails, Crash, Return
<1>6. CASE \/ cleanupOldPreMigrationBackups \/ BackupCleanupFailsMidway
           \/ LookForMigrationJob \/ reconcilePreMigrationBackup
  BY <1>6, GateInvFrame DEF cleanupOldPreMigrationBackups, BackupCleanupFailsMidway,
     LookForMigrationJob, reconcilePreMigrationBackup
<1>7. CASE cleanupOldMigrationJobs \/ CleanupFailsMidway
  BY <1>7 DEF cleanupOldMigrationJobs, CleanupFailsMidway, GateInv, NoJob,
     RunningIsMigrated, MigratedBeforeRollout, TypeOK
<1>8. CASE CreateMigrationJob
  BY <1>8, <1>1 DEF CreateMigrationJob, GateInv, RunningIsMigrated,
     MigratedBeforeRollout, TypeOK
<1>9. CASE CheckMigrationJob
  BY <1>9, <1>1, <1>2 DEF CheckMigrationJob, GateInv, NoJob, RunningIsMigrated,
     MigratedBeforeRollout, TypeOK
<1>10. CASE GateOpen
  BY <1>10, GateInvFrame DEF GateOpen
<1>11. CASE reconcileApp
  BY <1>11, <1>3 DEF reconcileApp, Desired, GateInv, Roles
<1>12. CASE reconcileWorker
  BY <1>12, <1>3 DEF reconcileWorker, Desired, GateInv, Roles
<1>13. ASSUME NEW r \in Roles, NEW here, NEW next, suspendWorkload(r, here, next),
              next \in {"suspendWorker", "status"}
       PROVE  GateInv'
  <2>1. CASE GetDeps[r] = NoDep
    BY <2>1, <1>13, GateInvFrame DEF suspendWorkload, Apply
  <2>2. CASE GetDeps[r] # deps[r]
    BY <2>2, <1>13, GateInvFrame DEF suspendWorkload, Apply
  <2>3. CASE GetDeps[r] = deps[r]
    <3>1. [GetDeps[r] EXCEPT !.up = FALSE].image = deps[r].image
      BY <2>3 DEF TypeOK, Dep
    <3>2. deps[r].image \in migrated \cup {None}
      BY DEF GateInv, MigratedBeforeRollout
    <3> QED
      BY <2>1, <3>1, <3>2, <1>13, <1>3 DEF suspendWorkload
  <2> QED
    BY <2>2, <2>3
<1>14. CASE suspendWorkloads
  BY <1>14, <1>13 DEF suspendWorkloads, Roles
<1>15. CASE aggregatePhase
  BY <1>15, <1>1, <1>2 DEF aggregatePhase, AllConditionsTrue, GateInv,
     RunningIsMigrated, MigratedBeforeRollout
<1>16. CASE writeStatus
  BY <1>16 DEF writeStatus, Return, GateInv, RunningIsMigrated, MigratedBeforeRollout
<1>17. CASE statusConflict
  BY <1>17, GateInvFrame DEF statusConflict, Return
<1>18. CASE EditSpec
  BY <1>18, GateInvFrame DEF EditSpec
<1>19. ASSUME NEW i \in Images, JobRetries(i) \/ DeleteFailed(i)
       PROVE  GateInv'
  <2>1. \A k \in Images : jobs'[k].st = "succeeded" => jobs[k].st = "succeeded"
    BY <1>19 DEF JobRetries, DeleteFailed, NoJob, TypeOK, Job
  <2> QED
    BY <2>1, <1>19 DEF JobRetries, DeleteFailed, GateInv, RunningIsMigrated,
       MigratedBeforeRollout
<1>20. ASSUME NEW i \in Images, JobEnds(i)
       PROVE  GateInv'
  <2>1. \A k \in Images : jobs'[k].st = "succeeded" => k \in migrated'
    BY <1>20 DEF JobEnds, GateInv, TypeOK, Job
  <2>2. migrated \subseteq migrated'
    BY <1>20 DEF JobEnds
  <2> QED
    BY <2>1, <2>2, <1>20 DEF JobEnds, GateInv, RunningIsMigrated, MigratedBeforeRollout
<1>21. ASSUME NEW i \in Images, BackupEnds(i)
       PROVE  GateInv'
  BY <1>21, GateInvFrame DEF BackupEnds
<1>22. CASE Sync
  BY <1>22 DEF Sync, SyncMisskey, SyncJobs, SyncDeps, GateInv, RunningIsMigrated,
     MigratedBeforeRollout
<1>23. CASE UNCHANGED vars
  BY <1>23, GateInvFrame DEF vars
<1> QED
  BY <1>4, <1>5, <1>6, <1>7, <1>8, <1>9, <1>10, <1>11, <1>12, <1>14, <1>15, <1>16,
     <1>17, <1>18, <1>19, <1>20, <1>21, <1>22, <1>23
     DEF Next, Operator, Faults, Environment

\* GateInv holds in every reachable state.
LEMMA GateInvHolds == Spec => []GateInv
<1>1. Init => GateInv
  BY DEF Init, GateInv, NoJob, NoDep, FirstStatus, RunningIsMigrated,
     MigratedBeforeRollout
<1> QED
  BY <1>1, GateInvStep, TypeCorrect, PTL DEF Spec

\* The app and worker Deployments never carry an image whose migration Job has
\* not Succeeded: the order reconcileAll imposes survives a stale cache, edits
\* during a pass, failed calls and crashes.
THEOREM RolloutIsMigrated == Spec => []MigratedBeforeRollout
<1>1. GateInv => MigratedBeforeRollout
  BY DEF GateInv
<1> QED
  BY <1>1, GateInvHolds, PTL

\* updateStatus reports Running only for an image whose migration Succeeded.
THEOREM RunningMigrated == Spec => []RunningIsMigrated
<1>1. GateInv => RunningIsMigrated
  BY DEF GateInv
<1> QED
  BY <1>1, GateInvHolds, PTL

-----------------------------------------------------------------------------
(***************************************************************************)
(* Deleting a failed Job by name.  The cached Job and the one in the API   *)
(* server are the same Job, or one of them is missing: a Job is created    *)
(* only when the cache shows none, and its input checksum never changes.   *)
(***************************************************************************)

SameJob ==
    \A i \in Images :
        /\ (jobs[i] # NoJob /\ seenJobs[i] # NoJob) => seenJobs[i].cfg = jobs[i].cfg
        /\ ~CacheLag => seenJobs[i] = NoJob

\* A step that creates no Job and leaves the cached ones alone keeps SameJob.
LEMMA SameJobFrame ==
    ASSUME SameJob, UNCHANGED seenJobs,
           \A i \in Images : jobs'[i] = NoJob \/ (jobs[i] # NoJob /\ jobs'[i].cfg = jobs[i].cfg)
    PROVE  SameJob'
BY DEF SameJob

\* SameJob is kept by every step.
LEMMA SameJobStep == TypeOK /\ SameJob /\ [Next]_vars => SameJob'
<1> SUFFICES ASSUME TypeOK, SameJob, [Next]_vars
             PROVE  SameJob'
  OBVIOUS
<1> USE DEF apiVars, cacheVars, localVars, histVars
<1>1. CASE UNCHANGED <<jobs, seenJobs>>
  BY <1>1 DEF SameJob
<1>2. CASE cleanupOldMigrationJobs \/ CleanupFailsMidway
  BY <1>2, SameJobFrame DEF cleanupOldMigrationJobs, CleanupFailsMidway
<1>3. CASE CreateMigrationJob
  <2>1. m.image \in Images
    BY DEF TypeOK, Misskey
  <2>2. seenJobs[m.image] = NoJob
    BY <1>3, <2>1 DEF CreateMigrationJob, GetJobs, SameJob
  <2>3. \A i \in Images : i # m.image => jobs'[i] = jobs[i]
    BY <1>3 DEF CreateMigrationJob, TypeOK
  <2> QED
    BY <1>3, <2>2, <2>3 DEF CreateMigrationJob, SameJob
<1>4. CASE CheckMigrationJob
  <2>1. \A i \in Images : jobs'[i] = NoJob \/ jobs'[i] = jobs[i]
    BY <1>4 DEF CheckMigrationJob, TypeOK
  <2> QED
    BY <1>4, <2>1, SameJobFrame DEF CheckMigrationJob
<1>5. ASSUME NEW k \in Images, JobRetries(k) \/ JobEnds(k) \/ DeleteFailed(k)
      PROVE  SameJob'
  <2>1. \A i \in Images : jobs'[i] = NoJob \/ (jobs[i] # NoJob /\ jobs'[i].cfg = jobs[i].cfg)
    <3> TAKE i \in Images
    <3>1. NoJob.st = "absent"
      BY DEF NoJob
    <3>2. jobs[i] \in Job /\ jobs \in [Images -> Job]
      BY DEF TypeOK
    <3>3. CASE JobRetries(k)
      BY <3>1, <3>2, <3>3 DEF JobRetries, Job
    <3>4. CASE JobEnds(k)
      BY <3>1, <3>2, <3>4 DEF JobEnds, Job
    <3>5. CASE DeleteFailed(k)
      BY <3>2, <3>5 DEF DeleteFailed
    <3> QED
      BY <1>5, <3>3, <3>4, <3>5
  <2> QED
    BY <1>5, <2>1, SameJobFrame DEF JobRetries, JobEnds, DeleteFailed
<1>6. CASE SyncJobs
  BY <1>6 DEF SyncJobs, SameJob
<1> QED
  BY <1>1, <1>2, <1>3, <1>4, <1>5, <1>6
     DEF Next, Operator, Faults, Sync, Environment, Start, DatabaseNotReady,
         cleanupOldPreMigrationBackups, BackupCleanupFailsMidway, LookForMigrationJob,
         reconcilePreMigrationBackup, GateOpen, GateClosed, reconcileApp,
         reconcileWorker, suspendWorkloads, suspendWorkload, CallFails,
         aggregatePhase, writeStatus, statusConflict, Crash, EditSpec, BackupEnds,
         SyncMisskey, SyncDeps, vars

\* When reconcileMigration deletes the failed Job of the image it works on, the
\* Job that goes carries another input than the one being reconciled, however
\* old the cached copy is that the decision was taken on.
THEOREM RetryDeletesOldJob == Spec => RetryHitsOldJob
<1>1. Init => SameJob
  BY DEF Init, SameJob
<1>2. TypeOK /\ SameJob /\ [Next]_vars =>
        [\A i \in Images :
           (pc = "migrate" /\ pc' # pc /\ jobs[i] # NoJob /\ jobs'[i] = NoJob)
             => jobs[i].cfg # m.cfg]_vars
  <2> SUFFICES ASSUME TypeOK, SameJob, Next, NEW i \in Images,
                      pc = "migrate", pc' # pc, jobs[i] # NoJob, jobs'[i] = NoJob
               PROVE  jobs[i].cfg # m.cfg
    OBVIOUS
  <2> USE DEF apiVars, cacheVars, localVars, histVars
  <2>1. CASE UNCHANGED jobs
    BY <2>1
  <2>2. CASE CreateMigrationJob
    BY <2>2 DEF CreateMigrationJob, TypeOK, NoJob
  <2>3. CASE CheckMigrationJob
    BY <2>3 DEF CheckMigrationJob, TypeOK, GetJobs, SameJob
  <2> QED
    BY <2>1, <2>2, <2>3
       DEF Next, Operator, Faults, Sync, Environment, Start, DatabaseNotReady,
           cleanupOldPreMigrationBackups, BackupCleanupFailsMidway, LookForMigrationJob,
           reconcilePreMigrationBackup, cleanupOldMigrationJobs, CleanupFailsMidway,
           GateOpen, GateClosed, reconcileApp, reconcileWorker, suspendWorkloads,
           suspendWorkload, CallFails, aggregatePhase, writeStatus, statusConflict,
           Crash, EditSpec, JobRetries, JobEnds, BackupEnds, DeleteFailed,
           SyncMisskey, SyncJobs, SyncDeps
<1> QED
  BY <1>1, <1>2, SameJobStep, TypeCorrect, PTL DEF Spec, RetryHitsOldJob

-----------------------------------------------------------------------------
(***************************************************************************)
(* The number of migrations.  Passes work on copies of the object that     *)
(* never get older, and two copies of one generation are equal.  A pass    *)
(* creates a Job only when there is none; for the copy it works on, the    *)
(* Job it has created stays, since only another image's pass or a changed  *)
(* input removes it, unless the user deletes it.                           *)
(***************************************************************************)

\* What the current pass works on, or the next one would.
Working == IF pc = "idle" THEN GetMisskey ELSE m

\* The copy a is no newer than the copy b.
NoNewer(a, b) == a.gen <= b.gen /\ (a.gen = b.gen => a = b)

\* The Job that a pass over mk creates is there.
HasItsJob(mk) == jobs[mk.image] # NoJob /\ jobs[mk.image].cfg = mk.cfg

StormInv ==
    /\ NoNewer(GetMisskey, misskey)
    /\ NoNewer(Working, GetMisskey)
    /\ created <= Working.gen + deletes + (IF HasItsJob(Working) THEN 1 ELSE 0)

\* A step that creates no Job keeps StormInv when it leaves the copies in their
\* order and the Job of the copy at work, if that stays the same, in its place.
LEMMA StormFrame ==
    ASSUME TypeOK, TypeOK', StormInv,
           NoNewer(GetMisskey, misskey)', NoNewer(Working, GetMisskey)',
           NoNewer(Working, Working'),
           UNCHANGED <<created, deletes>>,
           Working' = Working /\ HasItsJob(Working) => HasItsJob(Working)'
    PROVE  StormInv'
<1>1. /\ Working.gen \in Nat /\ Working'.gen \in Nat
      /\ created \in Nat /\ deletes \in Nat
  BY DEF TypeOK, Working, GetMisskey, Misskey
<1>2. CASE Working' = Working
  BY <1>1, <1>2 DEF StormInv
<1>3. CASE Working' # Working
  <2>1. Working.gen + 1 <= Working'.gen
    BY <1>1, <1>3 DEF NoNewer
  <2>2. created <= Working.gen + deletes + 1
    BY <1>1 DEF StormInv
  <2>3. created <= Working'.gen + deletes
    BY <1>1, <2>1, <2>2
  <2> QED
    BY <1>1, <2>3 DEF StormInv
<1> QED
  BY <1>2, <1>3

\* StormInv is kept by every step.
LEMMA StormStep == TypeOK /\ TypeOK' /\ SameJob /\ StormInv /\ [Next]_vars => StormInv'
<1> SUFFICES ASSUME TypeOK, TypeOK', SameJob, StormInv, [Next]_vars
             PROVE  StormInv'
  OBVIOUS
<1> USE DEF apiVars, cacheVars, localVars, histVars
<1>1. /\ misskey \in Misskey /\ GetMisskey \in Misskey /\ m \in Misskey /\ Working \in Misskey
      /\ jobs \in [Images -> Job] /\ created \in Nat /\ deletes \in Nat
      /\ misskey.gen \in Nat /\ GetMisskey.gen \in Nat /\ Working.gen \in Nat
      /\ m.image \in Images /\ Working.image \in Images
  BY DEF TypeOK, Working, GetMisskey, Misskey
<1>2. NoNewer(GetMisskey, misskey) /\ NoNewer(Working, GetMisskey)
  BY DEF StormInv
<1>3. ASSUME UNCHANGED <<misskey, seenMisskey, jobs, created, deletes>>,
             Working' \in {Working, GetMisskey}
      PROVE  StormInv'
  <2>1. GetMisskey' = GetMisskey
    BY <1>3 DEF GetMisskey
  <2>2. NoNewer(Working, Working') /\ NoNewer(Working, GetMisskey)'
    BY <1>1, <1>2, <1>3, <2>1 DEF NoNewer
  <2>3. NoNewer(GetMisskey, misskey)'
    BY <1>2, <1>3, <2>1
  <2>4. Working' = Working /\ HasItsJob(Working) => HasItsJob(Working)'
    BY <1>3 DEF HasItsJob
  <2> QED
    BY <1>3, <2>2, <2>3, <2>4, StormFrame
<1>4. ASSUME UNCHANGED <<misskey, seenMisskey, pc, m, created, deletes>>,
             HasItsJob(Working) => jobs'[Working.image] # NoJob
                                   /\ jobs'[Working.image].cfg = jobs[Working.image].cfg
      PROVE  StormInv'
  <2>1. GetMisskey' = GetMisskey /\ Working' = Working
    BY <1>4 DEF GetMisskey, Working
  <2> QED
    BY <1>1, <1>2, <1>4, <2>1 DEF StormInv, HasItsJob
<1>5. CASE Start
  BY <1>3, <1>5 DEF Start, Working, GetMisskey
<1>6. CASE \/ DatabaseNotReady \/ cleanupOldPreMigrationBackups \/ BackupCleanupFailsMidway
           \/ LookForMigrationJob \/ reconcilePreMigrationBackup \/ GateOpen \/ GateClosed
           \/ CallFails \/ aggregatePhase
  <2>1. Working' = Working
    BY <1>6 DEF DatabaseNotReady, cleanupOldPreMigrationBackups, BackupCleanupFailsMidway,
       LookForMigrationJob, reconcilePreMigrationBackup, GateOpen, GateClosed, CallFails,
       aggregatePhase, Working
  <2> QED
    BY <1>3, <1>6, <2>1 DEF DatabaseNotReady, cleanupOldPreMigrationBackups,
       BackupCleanupFailsMidway, LookForMigrationJob, reconcilePreMigrationBackup, GateOpen,
       GateClosed, CallFails, aggregatePhase
<1>7. ASSUME NEW r, NEW new, NEW next \in PCs \ {"idle"}, Apply(r, new, next), pc # "idle",
             UNCHANGED <<misskey, seenMisskey, jobs, created, deletes, m>>
      PROVE  StormInv'
  BY <1>3, <1>7 DEF Apply, Working
<1>8. CASE reconcileApp \/ reconcileWorker
  BY <1>7, <1>8 DEF reconcileApp, reconcileWorker, PCs
<1>9. ASSUME NEW r, NEW here \in PCs \ {"idle"}, NEW next \in PCs \ {"idle"},
             suspendWorkload(r, here, next)
      PROVE  StormInv'
  <2>1. CASE GetDeps[r] = NoDep
    BY <1>3, <1>9, <2>1 DEF suspendWorkload, Working
  <2>2. CASE GetDeps[r] # NoDep
    BY <1>7, <1>9, <2>2 DEF suspendWorkload
  <2> QED
    BY <2>1, <2>2
<1>10. CASE suspendWorkloads
  BY <1>9, <1>10 DEF suspendWorkloads, PCs
<1>11. CASE writeStatus \/ statusConflict \/ Crash
  <2>1. Working' = GetMisskey'
    BY <1>11 DEF writeStatus, statusConflict, Crash, Return, Working
  <2>2. UNCHANGED <<misskey, seenMisskey, jobs, created, deletes>>
    BY <1>11 DEF writeStatus, statusConflict, Crash
  <2> QED
    BY <1>3, <2>1, <2>2 DEF GetMisskey
<1>12. CASE cleanupOldMigrationJobs \/ CleanupFailsMidway
  <2>1. pc # "idle" /\ pc' # "idle" /\ Working = m /\ Working' = m
    BY <1>12 DEF cleanupOldMigrationJobs, CleanupFailsMidway, Working
  <2>2. jobs'[m.image] = jobs[m.image]
    BY <1>1, <1>12 DEF cleanupOldMigrationJobs, CleanupFailsMidway
  <2>3. UNCHANGED <<misskey, seenMisskey, created, deletes, m>>
    BY <1>12 DEF cleanupOldMigrationJobs, CleanupFailsMidway
  <2> QED
    BY <1>2, <2>1, <2>2, <2>3 DEF StormInv, HasItsJob, GetMisskey
<1>13. CASE CreateMigrationJob
  <2>1. Working = m /\ Working' = m /\ GetMisskey' = GetMisskey /\ misskey' = misskey /\ deletes' = deletes
    BY <1>13 DEF CreateMigrationJob, Working, GetMisskey
  <2>2. CASE jobs[m.image] = NoJob
    <3>1. created <= m.gen + deletes
      BY <1>1, <2>1, <2>2 DEF StormInv, HasItsJob
    <3>2. created' = created + 1 /\ jobs'[m.image] = [st |-> "running", cfg |-> m.cfg]
      BY <1>1, <1>13, <2>2 DEF CreateMigrationJob
    <3>3. HasItsJob(Working)'
      BY <2>1, <3>2 DEF HasItsJob, NoJob
    <3>4. created' <= Working'.gen + deletes' + 1
      BY <1>1, <2>1, <3>1, <3>2
    <3> QED
      BY <1>2, <2>1, <3>3, <3>4 DEF StormInv
  <2>3. CASE jobs[m.image] # NoJob
    BY <1>3, <1>13, <2>1, <2>3 DEF CreateMigrationJob
  <2> QED
    BY <2>2, <2>3
<1>14. CASE CheckMigrationJob
  <2>1. Working = m /\ Working' = m /\ GetMisskey' = GetMisskey
        /\ UNCHANGED <<misskey, created, deletes>>
    BY <1>14 DEF CheckMigrationJob, Working, GetMisskey
  <2>2. HasItsJob(m) => jobs'[m.image] = jobs[m.image]
    BY <1>1, <1>14 DEF CheckMigrationJob, HasItsJob, SameJob, GetJobs
  <2>3. HasItsJob(Working) => HasItsJob(Working)'
    BY <2>1, <2>2 DEF HasItsJob
  <2>4. created' <= Working'.gen + deletes' + (IF HasItsJob(Working) THEN 1 ELSE 0)'
    BY <1>1, <2>1, <2>3 DEF StormInv
  <2> QED
    BY <1>2, <2>1, <2>4 DEF StormInv
<1>15. CASE EditSpec
  <2>1. misskey'.gen = misskey.gen + 1
    BY <1>15 DEF EditSpec
  <2>2. UNCHANGED <<seenMisskey, pc, m, jobs, created, deletes>>
    BY <1>15 DEF EditSpec
  <2>3. GetMisskey' = GetMisskey \/ (GetMisskey' = misskey' /\ GetMisskey = misskey)
    BY <2>2 DEF GetMisskey
  <2>4. NoNewer(GetMisskey, misskey)'
    BY <1>1, <1>2, <2>1, <2>3 DEF NoNewer
  <2>5. Working' = Working \/ (Working' = GetMisskey' /\ Working = GetMisskey)
    BY <2>2 DEF Working
  <2>6. NoNewer(Working, GetMisskey)' /\ NoNewer(Working, Working')
    BY <1>1, <1>2, <2>1, <2>3, <2>5 DEF NoNewer
  <2>7. Working' = Working /\ HasItsJob(Working) => HasItsJob(Working)'
    BY <2>2 DEF HasItsJob
  <2> QED
    BY <2>2, <2>4, <2>6, <2>7, StormFrame
<1>16. ASSUME NEW i \in Images, JobRetries(i) \/ JobEnds(i)
       PROVE  StormInv'
  <2>1. ASSUME jobs[Working.image] # NoJob
        PROVE  jobs'[Working.image] # NoJob /\ jobs'[Working.image].cfg = jobs[Working.image].cfg
    <3>1. jobs[Working.image] \in Job /\ jobs[i] \in Job /\ NoJob.st = "absent"
      BY <1>1 DEF NoJob
    <3>2. CASE JobRetries(i)
      BY <1>1, <2>1, <3>1, <3>2 DEF JobRetries, Job
    <3>3. CASE JobEnds(i)
      BY <1>1, <2>1, <3>1, <3>3 DEF JobEnds, Job
    <3> QED
      BY <1>16, <3>2, <3>3
  <2> QED
    BY <1>4, <1>16, <2>1 DEF JobRetries, JobEnds, HasItsJob
<1>17. ASSUME NEW i \in Images, DeleteFailed(i)
       PROVE  StormInv'
  <2>1. /\ UNCHANGED <<misskey, seenMisskey, pc, m, created>>
        /\ deletes' = deletes + 1
    BY <1>17 DEF DeleteFailed
  <2>2. GetMisskey' = GetMisskey /\ Working' = Working
    BY <2>1 DEF GetMisskey, Working
  <2>3. created <= Working.gen + deletes + 1
    BY <1>1 DEF StormInv
  <2>4. created' <= Working'.gen + deletes'
    BY <1>1, <2>1, <2>2, <2>3
  <2>5. created' <= Working'.gen + deletes' + (IF HasItsJob(Working) THEN 1 ELSE 0)'
    BY <1>1, <2>1, <2>2, <2>4
  <2>6. NoNewer(GetMisskey, misskey)' /\ NoNewer(Working, GetMisskey)'
    BY <1>2, <2>1, <2>2
  <2> QED
    BY <2>5, <2>6 DEF StormInv
<1>18. ASSUME NEW i \in Images, BackupEnds(i)
       PROVE  StormInv'
  BY <1>3, <1>18 DEF BackupEnds, Working, GetMisskey
<1>19. CASE SyncMisskey
  <2>1. UNCHANGED <<misskey, pc, m, jobs, created, deletes>> /\ GetMisskey' = misskey
    BY <1>19 DEF SyncMisskey, GetMisskey
  <2>2. Working' = Working \/ Working' = misskey
    BY <2>1 DEF Working
  <2>3. NoNewer(GetMisskey, misskey)' /\ NoNewer(Working, GetMisskey)' /\ NoNewer(Working, Working')
    BY <1>1, <1>2, <2>1, <2>2 DEF NoNewer
  <2>4. Working' = Working /\ HasItsJob(Working) => HasItsJob(Working)'
    BY <2>1 DEF HasItsJob
  <2> QED
    BY <2>1, <2>3, <2>4, StormFrame
<1>20. CASE SyncJobs \/ SyncDeps
  BY <1>3, <1>20 DEF SyncJobs, SyncDeps, Working, GetMisskey
<1>21. CASE UNCHANGED vars
  BY <1>3, <1>21 DEF vars, Working, GetMisskey
<1> QED
  BY <1>5, <1>6, <1>8, <1>10, <1>11, <1>12, <1>13, <1>14, <1>15, <1>16, <1>17, <1>18, <1>19,
     <1>20, <1>21 DEF Next, Operator, Faults, Sync, Environment

\* The operator never runs a failing migration in a loop: whatever a stale cache
\* shows and wherever passes are cut off, it creates at most one Job for each
\* generation of the object and one more for each Job or Backup the user deletes.
THEOREM NoStorm == Spec => []NoMigrationStorm
<1>1. Init => SameJob
  BY DEF Init, SameJob
<1>2. Init => StormInv
  <2> SUFFICES ASSUME Init PROVE StormInv
    OBVIOUS
  <2>1. GetMisskey = misskey /\ Working = misskey /\ misskey.gen = 0 /\ created = 0 /\ deletes = 0
    BY DEF Init, GetMisskey, Working, FirstMisskey
  <2> QED
    BY <2>1 DEF StormInv, NoNewer
<1>3. TypeOK /\ StormInv => NoMigrationStorm
  <2> SUFFICES ASSUME TypeOK, StormInv PROVE NoMigrationStorm
    OBVIOUS
  <2>1. /\ created \in Nat /\ deletes \in Nat /\ misskey.gen \in Nat /\ GetMisskey.gen \in Nat
        /\ Working.gen \in Nat
    BY DEF TypeOK, Working, GetMisskey, Misskey
  <2>2. Working.gen <= misskey.gen
    BY <2>1 DEF StormInv, NoNewer
  <2>3. created <= Working.gen + deletes + 1
    BY <2>1 DEF StormInv
  <2> QED
    BY <2>1, <2>2, <2>3 DEF NoMigrationStorm
<1> QED
  BY <1>1, <1>2, <1>3, SameJobStep, StormStep, TypeCorrect, PTL DEF Spec

-----------------------------------------------------------------------------
(***************************************************************************)
(* The Backup before a migration, for an object that always asks for one   *)
(* and a cache that is current.  A pass that has got past the Backup gate  *)
(* has removed the Backups of other images, and past the cleanup their     *)
(* Jobs: when its migration starts and makes every other image's Backup    *)
(* worthless, none of them can open a gate later.                          *)
(***************************************************************************)

CoverInv ==
    /\ misskey.preBackup /\ m.preBackup
    /\ \A i \in Images : jobs[i] # NoJob \/ backups[i] = "completed" => i \in covered
    /\ pc \in {"lookup", "await", "cleanup", "migrate"} =>
          \A i \in Images : i # m.image => backups[i] = "absent"
    /\ pc \in {"cleanup", "migrate"} => m.image \in covered
    /\ pc = "migrate" => \A i \in Images : i # m.image => jobs[i] = NoJob

\* A step that changes none of what CoverInv is about, and does not bring the
\* pass to its migration, keeps it.
LEMMA CoverFrame ==
    ASSUME CoverInv, UNCHANGED <<jobs, backups, covered, misskey>>,
           pc' \in {"lookup", "await", "cleanup", "migrate"} => pc' = pc /\ m' = m,
           m'.preBackup
    PROVE  CoverInv'
BY DEF CoverInv

\* CoverInv is kept by every step.
LEMMA CoverStep ==
    ASSUME ~CacheLag, PreBackups \subseteq {TRUE}, FirstSpec.preBackup
    PROVE  TypeOK /\ CoverInv /\ [Next]_vars => CoverInv'
<1> SUFFICES ASSUME TypeOK, CoverInv, [Next]_vars
             PROVE  CoverInv'
  OBVIOUS
<1> USE DEF apiVars, cacheVars, localVars, histVars
<1>1. /\ m.image \in Images /\ FirstMisskey.preBackup
      /\ GetMisskey = misskey /\ GetJobs = jobs
      /\ jobs \in [Images -> Job] /\ backups \in [Images -> BackupStates] /\ covered \subseteq Images
  BY DEF TypeOK, Misskey, FirstMisskey, GetMisskey, GetJobs
<1>2. m.preBackup /\ misskey.preBackup
  BY DEF CoverInv
<1>3. CASE Start
  BY <1>1, <1>2, <1>3, CoverFrame DEF Start
<1>4. CASE \/ DatabaseNotReady \/ GateOpen \/ GateClosed \/ CallFails \/ aggregatePhase
  BY <1>2, <1>4, CoverFrame DEF DatabaseNotReady, GateOpen, GateClosed, CallFails, aggregatePhase
<1>5. CASE cleanupOldPreMigrationBackups
  <2>1. /\ UNCHANGED <<misskey, jobs, m, covered>> /\ pc' = "lookup"
        /\ \A i \in Images : backups'[i] = IF i = m.image THEN backups[i] ELSE "absent"
    BY <1>1, <1>2, <1>5 DEF cleanupOldPreMigrationBackups
  <2> QED
    BY <1>1, <1>2, <2>1 DEF CoverInv
<1>20. CASE BackupCleanupFailsMidway
  <2>1. /\ UNCHANGED <<misskey, jobs, m, covered>> /\ pc' = "status"
        /\ \A i \in Images : backups'[i] = backups[i] \/ backups'[i] = "absent"
    BY <1>1, <1>20 DEF BackupCleanupFailsMidway
  <2> QED
    BY <1>1, <1>2, <2>1 DEF CoverInv
<1>21. CASE LookForMigrationJob
  BY <1>1, <1>2, <1>21 DEF LookForMigrationJob, CoverInv
<1>22. CASE reconcilePreMigrationBackup
  <2>1. UNCHANGED <<misskey, jobs, m, covered>> /\ pc' \in {"cleanup", "status"}
    BY <1>22 DEF reconcilePreMigrationBackup
  <2>2. \A i \in Images : i # m.image => backups'[i] = "absent"
    BY <1>1, <1>22 DEF reconcilePreMigrationBackup, CoverInv
  <2>3. backups'[m.image] = "completed" => backups[m.image] = "completed"
    BY <1>1, <1>22 DEF reconcilePreMigrationBackup
  <2>4. pc' = "cleanup" => backups[m.image] = "completed"
    BY <1>1, <1>22 DEF reconcilePreMigrationBackup
  <2> QED
    BY <1>1, <1>2, <2>1, <2>2, <2>3, <2>4 DEF CoverInv
<1>6. CASE cleanupOldMigrationJobs
  <2>1. \A i \in Images : jobs'[i] = IF i = m.image THEN jobs[i] ELSE NoJob
    BY <1>1, <1>6 DEF cleanupOldMigrationJobs
  <2> QED
    BY <1>6, <2>1 DEF cleanupOldMigrationJobs, CoverInv
<1>7. CASE CleanupFailsMidway
  <2>1. \A i \in Images : jobs'[i] # NoJob => jobs'[i] = jobs[i]
    BY <1>7 DEF CleanupFailsMidway
  <2> QED
    BY <1>7, <2>1 DEF CleanupFailsMidway, CoverInv
<1>8. CASE CreateMigrationJob
  <2>1. CASE jobs[m.image] = NoJob
    <3>1. covered' = covered \cap {m.image} /\ m.image \in covered
      BY <1>8, <2>1 DEF CreateMigrationJob, CoverInv
    <3>2. \A i \in Images : i # m.image => jobs'[i] = NoJob /\ backups'[i] = "absent"
      BY <1>1, <1>8, <2>1 DEF CreateMigrationJob, CoverInv
    <3> QED
      BY <1>8, <3>1, <3>2 DEF CreateMigrationJob, CoverInv
  <2>2. CASE jobs[m.image] # NoJob
    BY <1>2, <1>8, <2>2, CoverFrame DEF CreateMigrationJob
  <2> QED
    BY <2>1, <2>2
<1>9. CASE CheckMigrationJob
  <2>1. \A i \in Images : jobs'[i] # NoJob => jobs'[i] = jobs[i]
    BY <1>1, <1>9 DEF CheckMigrationJob
  <2> QED
    BY <1>9, <2>1 DEF CheckMigrationJob, CoverInv
<1>10. ASSUME NEW r, NEW new, NEW next, Apply(r, new, next),
              next \notin {"lookup", "await", "cleanup", "migrate"},
              UNCHANGED <<jobs, backups, covered, misskey, m>>
       PROVE  CoverInv'
  BY <1>2, <1>10, CoverFrame DEF Apply
<1>11. CASE reconcileApp \/ reconcileWorker
  BY <1>10, <1>11 DEF reconcileApp, reconcileWorker
<1>12. CASE suspendWorkloads
  <2>1. ASSUME NEW r, NEW here, NEW next, suspendWorkload(r, here, next),
               next \notin {"lookup", "await", "cleanup", "migrate"}
        PROVE  CoverInv'
    <3>1. CASE GetDeps[r] = NoDep
      BY <1>2, <2>1, <3>1, CoverFrame DEF suspendWorkload, Apply
    <3>2. CASE GetDeps[r] # NoDep
      BY <1>10, <2>1, <3>2 DEF suspendWorkload
    <3> QED
      BY <3>1, <3>2
  <2> QED
    BY <1>12, <2>1 DEF suspendWorkloads
<1>13. CASE writeStatus \/ statusConflict \/ Crash
  BY <1>1, <1>13, CoverFrame DEF writeStatus, statusConflict, Crash, Return
<1>14. CASE EditSpec
  <2>1. PICK i \in Images, c \in Configs, x \in Suspends, b \in PreBackups :
           misskey' = [image |-> i, cfg |-> c, suspend |-> x, preBackup |-> b, gen |-> misskey.gen + 1]
    BY <1>14 DEF EditSpec
  <2>2. b = TRUE
    OBVIOUS
  <2>3. misskey'.preBackup
    BY <2>1, <2>2
  <2> QED
    BY <1>14, <2>3 DEF EditSpec, CoverInv
<1>15. ASSUME NEW i \in Images, JobRetries(i) \/ JobEnds(i)
       PROVE  CoverInv'
  <2>1. \A k \in Images : jobs'[k] # NoJob => jobs[k] # NoJob
    BY <1>1, <1>15 DEF JobRetries, JobEnds, NoJob
  <2> QED
    BY <1>15, <2>1 DEF JobRetries, JobEnds, CoverInv
<1>16. ASSUME NEW i \in Images, BackupEnds(i)
       PROVE  CoverInv'
  <2>1. /\ covered \subseteq covered'
        /\ \A k \in Images : backups'[k] = "completed" => backups[k] = "completed" \/ k \in covered'
        /\ \A k \in Images : backups[k] = "absent" => backups'[k] = "absent"
    BY <1>1, <1>16 DEF BackupEnds
  <2> QED
    BY <1>16, <2>1 DEF BackupEnds, CoverInv
<1>17. ASSUME NEW i \in Images, DeleteFailed(i)
       PROVE  CoverInv'
  <2>1. /\ \A k \in Images : jobs'[k] # NoJob => jobs[k] # NoJob
        /\ \A k \in Images : backups'[k] = backups[k] \/ backups'[k] = "absent"
    BY <1>1, <1>17 DEF DeleteFailed
  <2> QED
    BY <1>17, <2>1 DEF DeleteFailed, CoverInv
<1>18. CASE Sync \/ UNCHANGED vars
  BY <1>2, <1>18, CoverFrame DEF Sync, SyncMisskey, SyncJobs, SyncDeps, vars
<1> QED
  BY <1>3, <1>4, <1>5, <1>6, <1>7, <1>8, <1>9, <1>11, <1>12, <1>13, <1>14, <1>15, <1>16, <1>17,
     <1>18, <1>20, <1>21, <1>22 DEF Next, Operator, Faults, Environment

\* With preBackup on from the start and a current cache, reconcileMigration
\* creates a Job only for an image with a Backup completed since any other
\* image's migration last started: whatever fails, is deleted or edited between
\* the gate and the creation.  (Neither hypothesis can go: a Job in a stale cache
\* opens the gate, and so does one created while preBackup was off.)
THEOREM BackedUp ==
    ASSUME ~CacheLag, PreBackups \subseteq {TRUE}, FirstSpec.preBackup
    PROVE  Spec => BackupBeforeMigration
<1>1. Init => CoverInv
  BY DEF Init, CoverInv, FirstMisskey
<1>2. TypeOK /\ CoverInv /\ [Next]_vars =>
         [(created' # created /\ m.preBackup) => m.image \in covered]_vars
  <2> SUFFICES ASSUME CoverInv, Next, created' # created
               PROVE  m.image \in covered
    OBVIOUS
  <2> USE DEF apiVars, cacheVars, localVars, histVars
  <2>1. CreateMigrationJob
    BY DEF Next, Operator, Faults, Sync, Environment, Start, DatabaseNotReady,
           cleanupOldPreMigrationBackups, BackupCleanupFailsMidway, LookForMigrationJob,
           reconcilePreMigrationBackup, cleanupOldMigrationJobs, CleanupFailsMidway,
           CheckMigrationJob, GateOpen, GateClosed, reconcileApp, reconcileWorker,
           suspendWorkloads, suspendWorkload, CallFails, aggregatePhase, writeStatus,
           statusConflict, Crash, EditSpec, JobRetries, JobEnds, BackupEnds, DeleteFailed,
           SyncMisskey, SyncJobs, SyncDeps
  <2> QED
    BY <2>1 DEF CreateMigrationJob, CoverInv
<1> QED
  BY <1>1, <1>2, CoverStep, TypeCorrect, PTL DEF Spec, BackupBeforeMigration

-----------------------------------------------------------------------------
(***************************************************************************)
(* The refinement.  A step shows in Upgrade only when it changes migrated, *)
(* a Deployment or the status; those are JobEnds, the writes of the two    *)
(* Deployments, and writeStatus, whose values GateInv bounds.              *)
(***************************************************************************)

\* A step that leaves what Upgrade shows alone is a stutter of it.
LEMMA UpgradeStutter ==
    ASSUME UNCHANGED <<migrated, deps, status>>
    PROVE  UNCHANGED U!vars
BY DEF U!vars, RunningImage

\* Writing one Deployment rolls it to a migrated image, stops it, or shows
\* nothing.
LEMMA UpgradeApply ==
    ASSUME TypeOK, NEW r \in Roles, NEW new \in Dep, NEW next, Apply(r, new, next),
           UNCHANGED <<migrated, status>>,
           \/ new.image \in migrated /\ new.up
           \/ new.image = deps[r].image /\ ~new.up
           \/ GetDeps[r] # deps[r]
    PROVE  U!Next \/ UNCHANGED U!vars
<1>1. CASE UNCHANGED deps
  BY <1>1, UpgradeStutter
<1>2. CASE deps' = [deps EXCEPT ![r] = new] /\ GetDeps[r] = deps[r]
  <2>1. deps \in [Roles -> Dep] /\ migrated \subseteq Images
    BY DEF TypeOK
  <2>2. RunningImage' = RunningImage
    BY DEF RunningImage
  <2>3. \A q \in Roles : deps'[q] = IF q = r THEN new ELSE deps[q]
    BY <1>2, <2>1
  <2>4. CASE new.image \in migrated /\ new.up
    <3>1. [q \in Roles |-> deps'[q].image] = [[q \in Roles |-> deps[q].image] EXCEPT ![r] = new.image]
      BY <2>3
    <3>2. [q \in Roles |-> deps'[q].up] = [[q \in Roles |-> deps[q].up] EXCEPT ![r] = TRUE]
      <4>1. new.up = TRUE
        BY <2>4 DEF Dep
      <4> QED
        BY <2>3, <4>1
    <3>3. U!Roll(r, new.image)
      BY <2>2, <2>4, <3>1, <3>2 DEF U!Roll
    <3> QED
      BY <2>1, <2>4, <3>3 DEF U!Next
  <2>5. CASE new.image = deps[r].image /\ ~new.up
    <3>1. [q \in Roles |-> deps'[q].image] = [q \in Roles |-> deps[q].image]
      BY <2>3, <2>5
    <3>2. [q \in Roles |-> deps'[q].up] = [[q \in Roles |-> deps[q].up] EXCEPT ![r] = FALSE]
      <4>1. new.up = FALSE
        BY <2>5 DEF Dep
      <4> QED
        BY <2>3, <4>1
    <3>3. U!Stop(r)
      BY <2>2, <3>1, <3>2 DEF U!Stop
    <3> QED
      BY <3>3 DEF U!Next
  <2> QED
    BY <1>2, <2>4, <2>5
<1> QED
  BY <1>1, <1>2 DEF Apply

\* Every step of the reconcile loop is a step of Upgrade or a stutter.
LEMMA UpgradeStep == TypeOK /\ GateInv /\ [Next]_vars => [U!Next]_(U!vars)
<1> SUFFICES ASSUME TypeOK, GateInv, [Next]_vars
             PROVE  U!Next \/ UNCHANGED U!vars
  OBVIOUS
<1> USE DEF apiVars, cacheVars, localVars, histVars
<1>1. CASE UNCHANGED <<migrated, deps, status>>
  BY <1>1, UpgradeStutter
<1>2. ASSUME NEW i \in Images, JobEnds(i)
      PROVE  U!Next \/ UNCHANGED U!vars
  <2>1. CASE migrated' = migrated
    BY <1>2, <2>1, UpgradeStutter DEF JobEnds
  <2>2. CASE migrated' = migrated \cup {i}
    <3>1. U!Migrate(i)
      BY <1>2, <2>2 DEF JobEnds, U!Migrate, RunningImage
    <3> QED
      BY <3>1 DEF U!Next
  <2> QED
    BY <1>2, <2>1, <2>2 DEF JobEnds
<1>3. CASE writeStatus
  <2>1. RunningImage' \in migrated \cup {None}
    BY <1>3 DEF writeStatus, RunningImage, GateInv
  <2>2. U!Report
    BY <1>3, <2>1 DEF writeStatus, U!Report
  <2> QED
    BY <2>2 DEF U!Next
<1>4. Desired(m) \in Dep /\ Desired(m).image = m.image /\ Desired(m).up
  BY DEF Desired, Dep, TypeOK, Misskey
<1>5. CASE reconcileApp
  BY <1>4, <1>5, UpgradeApply DEF reconcileApp, GateInv, Roles
<1>6. CASE reconcileWorker
  BY <1>4, <1>6, UpgradeApply DEF reconcileWorker, GateInv, Roles
<1>7. ASSUME NEW r \in Roles, NEW here, NEW next, suspendWorkload(r, here, next)
      PROVE  U!Next \/ UNCHANGED U!vars
  <2>1. CASE GetDeps[r] = NoDep
    BY <1>7, <2>1, UpgradeStutter DEF suspendWorkload, Apply
  <2>2. CASE GetDeps[r] # NoDep
    <3> DEFINE new == [GetDeps[r] EXCEPT !.up = FALSE]
    <3>1. GetDeps[r] \in Dep
      BY DEF GetDeps, TypeOK
    <3>2. new \in Dep /\ new.image = GetDeps[r].image /\ ~new.up
      BY <3>1 DEF Dep
    <3>3. Apply(r, new, next) /\ UNCHANGED <<migrated, status>>
      BY <1>7, <2>2 DEF suspendWorkload
    <3> HIDE DEF new
    <3> QED
      BY <3>2, <3>3, UpgradeApply
  <2> QED
    BY <2>1, <2>2
<1>8. CASE suspendWorkloads
  BY <1>7, <1>8 DEF suspendWorkloads, Roles
<1> QED
  BY <1>1, <1>2, <1>3, <1>5, <1>6, <1>8
     DEF Next, Operator, Faults, Sync, Environment, Start, DatabaseNotReady,
         cleanupOldPreMigrationBackups, BackupCleanupFailsMidway, LookForMigrationJob,
         reconcilePreMigrationBackup, cleanupOldMigrationJobs, CleanupFailsMidway,
         CreateMigrationJob, CheckMigrationJob, GateOpen, GateClosed, CallFails,
         aggregatePhase, statusConflict, Crash, Return, EditSpec, JobRetries, BackupEnds,
         DeleteFailed, SyncMisskey, SyncJobs, SyncDeps, vars

\* MisskeyReconcile implements Upgrade for any images, configurations and bounds,
\* with or without a lagging cache.
THEOREM RefinesUpgrade == Spec => ImplementsUpgrade
<1>1. Init => U!Init
  BY DEF Init, U!Init, NoDep, RunningImage, FirstStatus
<1> QED
  BY <1>1, UpgradeStep, TypeCorrect, GateInvHolds, PTL DEF Spec, ImplementsUpgrade, U!Spec

=============================================================================
