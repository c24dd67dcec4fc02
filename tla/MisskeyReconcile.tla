-------------------------- MODULE MisskeyReconcile --------------------------
(***************************************************************************)
(* One Misskey object and the operator's Reconcile loop over it: the       *)
(* pre-migration Backup gate, the migration Job, the gates before the app  *)
(* and worker Deployments, suspension and the status report.               *)
(*                                                                         *)
(* The reconciler is one process (one worker per object) that reads typed  *)
(* objects from an informer cache, which lags the API server, and Backups  *)
(* live.  Between two of its API calls the user edits the object, Jobs and *)
(* Backups make progress, the cache catches up, a call fails, or the       *)
(* operator crashes.                                                       *)
(***************************************************************************)
EXTENDS Naturals, FiniteSets

CONSTANTS
    Images,         \* the images spec.image can name (or a channel resolves to)
    Configs,        \* the configurations: what the migration and pod checksums cover
    None,           \* "no such object"
    FirstSpec,      \* the spec the object is created with
    Suspends,       \* the values the user gives spec.suspend
    PreBackups,     \* the values the user gives migration.preBackup
    CacheLag,       \* FALSE: the informer cache is always current
    MaxEdits,       \* bound: edits of the object by the user
    MaxDeletes,     \* bound: failed Jobs and Backups the user deletes
    MaxFaults       \* bound: closed gates, failed calls and crashes

MisskeySpec == [image : Images, cfg : Configs, suspend : BOOLEAN, preBackup : BOOLEAN]

ASSUME NoneAssumption == None \notin Images /\ None \notin Configs
ASSUME FirstAssumption == FirstSpec \in MisskeySpec
ASSUME ChoiceAssumption == Suspends \subseteq BOOLEAN /\ PreBackups \subseteq BOOLEAN
ASSUME LagAssumption == CacheLag \in BOOLEAN
ASSUME BoundAssumption == MaxEdits \in Nat /\ MaxDeletes \in Nat /\ MaxFaults \in Nat

VARIABLES
    \* Objects in the API server.
    misskey,        \* the Misskey object: its spec and metadata.generation
    status,         \* its status subresource
    jobs,           \* the migration Job of each image (nameMigrate hashes the image)
    backups,        \* the pre-migration Backup of each image (namePreBackup)
    deps,           \* the app and worker Deployments
    \* The operator's informer cache.
    seenMisskey, seenJobs, seenDeps,
    statusSeen,     \* it shows the last write of status
    \* The operator's locals during one Reconcile.
    pc, m, err, phase,
    \* History and bounds.
    migrated,       \* images a migration Job has Succeeded for
    covered,        \* images with a Backup completed since any other image's
                    \* migration last started
    created,        \* migration Jobs the operator has created
    deletes, faults

apiVars   == <<misskey, status, jobs, backups, deps>>
cacheVars == <<seenMisskey, seenJobs, seenDeps, statusSeen>>
localVars == <<pc, m, err, phase>>
histVars  == <<migrated, covered, created, deletes, faults>>
vars      == <<apiVars, cacheVars, localVars, histVars>>

-----------------------------------------------------------------------------
(* Types *)

\* Misskey: the fields of MisskeySpec that reconcileAll branches on here.
Misskey == [image : Images, cfg : Configs, suspend : BOOLEAN,
            preBackup : BOOLEAN, gen : Nat]

Phases == {"Progressing", "Running", "Error", "Suspended"}

Status == [phase : Phases, observedGeneration : Nat, image : Images \cup {None}]

\* A migration Job.  "retrying": Status.Failed >= 1 but a replacement pod runs
\* (eviction, node loss); "failed": the backoff limit is exhausted.
JobStates == {"absent", "running", "retrying", "failed", "succeeded"}
Job       == [st : JobStates, cfg : Configs \cup {None}]
NoJob     == [st |-> "absent", cfg |-> None]

BackupStates == {"absent", "running", "completed", "failed"}

Roles  == {"app", "worker"}
Dep    == [image : Images \cup {None}, cfg : Configs \cup {None}, up : BOOLEAN]
NoDep  == [image |-> None, cfg |-> None, up |-> FALSE]

PCs == {"idle", "backup", "lookup", "await", "cleanup", "migrate", "gate", "app",
        "worker", "suspendApp", "suspendWorker", "status", "write"}

TypeOK ==
    /\ misskey \in Misskey /\ seenMisskey \in Misskey /\ m \in Misskey
    /\ status \in Status /\ statusSeen \in BOOLEAN
    /\ jobs \in [Images -> Job] /\ seenJobs \in [Images -> Job]
    /\ backups \in [Images -> BackupStates]
    /\ deps \in [Roles -> Dep] /\ seenDeps \in [Roles -> Dep]
    /\ pc \in PCs /\ err \in BOOLEAN /\ phase \in Phases
    /\ migrated \subseteq Images /\ covered \subseteq Images
    /\ created \in Nat /\ deletes \in Nat /\ faults \in Nat

FirstMisskey == [image |-> FirstSpec.image, cfg |-> FirstSpec.cfg,
                 suspend |-> FirstSpec.suspend, preBackup |-> FirstSpec.preBackup,
                 gen |-> 0]
FirstStatus  == [phase |-> "Progressing", observedGeneration |-> 0, image |-> None]

Init ==
    /\ misskey = FirstMisskey /\ seenMisskey = FirstMisskey /\ m = FirstMisskey
    /\ status = FirstStatus /\ statusSeen = TRUE
    /\ jobs = [i \in Images |-> NoJob] /\ seenJobs = [i \in Images |-> NoJob]
    /\ backups = [i \in Images |-> "absent"]
    /\ deps = [r \in Roles |-> NoDep] /\ seenDeps = [r \in Roles |-> NoDep]
    /\ pc = "idle" /\ err = FALSE /\ phase = "Progressing"
    /\ migrated = {} /\ covered = {}
    /\ created = 0 /\ deletes = 0 /\ faults = 0

-----------------------------------------------------------------------------
(* What a cached read returns. *)

GetMisskey == IF CacheLag THEN seenMisskey ELSE misskey
GetJobs    == IF CacheLag THEN seenJobs ELSE jobs
GetDeps    == IF CacheLag THEN seenDeps ELSE deps
Current    == GetMisskey = misskey /\ (CacheLag => statusSeen)

Fault == faults < MaxFaults /\ faults' = faults + 1

\* Reconcile returns (or dies) and its locals are gone; the work queue runs it
\* again (requeue after 15s or the drift interval, or backoff after an error).
Return == pc' = "idle" /\ m' = FirstMisskey /\ err' = FALSE /\ phase' = "Progressing"

(***************************************************************************)
(* The operator.                                                           *)
(***************************************************************************)

\* Slip: a generation the status already reports is not reconciled again.
StartUnobserved ==
    /\ pc = "idle"
    /\ IF status.image # None /\ GetMisskey.gen = status.observedGeneration
       THEN UNCHANGED localVars
       ELSE /\ m' = GetMisskey
            /\ pc' = IF GetMisskey.suspend THEN "suspendApp" ELSE "backup"
            /\ UNCHANGED <<err, phase>>
    /\ UNCHANGED <<apiVars, cacheVars, histVars>>

\* Slip: a suspended object only gets its status written.
StartReports ==
    /\ pc = "idle"
    /\ m' = GetMisskey
    /\ pc' = IF GetMisskey.suspend THEN "status" ELSE "backup"
    /\ UNCHANGED <<apiVars, cacheVars, err, phase, histVars>>

\* Reconcile begins: the object is read from the cache and everything that
\* follows works on this copy.
Start ==
    /\ pc = "idle"
    /\ m' = GetMisskey
    /\ err' = FALSE
    /\ pc' = IF GetMisskey.suspend THEN "suspendApp" ELSE "backup"
    /\ UNCHANGED <<apiVars, cacheVars, phase, histVars>>

\* databaseReady answers no: nothing below is reached in this pass.
DatabaseNotReady ==
    /\ pc = "backup" /\ Fault
    /\ pc' = "status"
    /\ UNCHANGED <<apiVars, cacheVars, m, err, phase, migrated, covered, created, deletes>>

\* cleanupOldPreMigrationBackups, with preBackup on: the Backups of other images
\* go.
cleanupOldPreMigrationBackups ==
    /\ pc = "backup"
    /\ \/ /\ ~m.preBackup
          /\ pc' = "cleanup" /\ UNCHANGED backups
       \/ /\ m.preBackup
          /\ backups' = [i \in Images |-> IF i = m.image THEN backups[i] ELSE "absent"]
          /\ pc' = "lookup"
    /\ UNCHANGED <<misskey, status, jobs, deps, cacheVars, m, err, phase, histVars>>

\* The deletion loop stops at the first error, some Backups already deleted.
BackupCleanupFailsMidway ==
    /\ pc = "backup" /\ m.preBackup /\ Fault
    /\ \E D \in SUBSET (Images \ {m.image}) :
          backups' = [i \in Images |-> IF i \in D THEN "absent" ELSE backups[i]]
    /\ err' = TRUE /\ pc' = "status"
    /\ UNCHANGED <<misskey, status, jobs, deps, cacheVars, m, phase,
                   migrated, covered, created, deletes>>

\* A migration Job of the image (cached read) opens the gate.
LookForMigrationJob ==
    /\ pc = "lookup"
    /\ pc' = IF GetJobs[m.image] # NoJob THEN "cleanup" ELSE "await"
    /\ UNCHANGED <<apiVars, cacheVars, m, err, phase, histVars>>

\* Slip: the gate opens for a Backup that is not finished.
reconcilePreMigrationBackupUnfinished ==
    /\ pc = "await"
    /\ backups' = [backups EXCEPT ![m.image] = IF @ = "absent" THEN "running" ELSE @]
    /\ pc' = IF backups[m.image] = "absent" THEN "status" ELSE "cleanup"
    /\ UNCHANGED <<misskey, status, jobs, deps, cacheVars, m, err, phase, histVars>>

\* reconcilePreMigrationBackup, no Job found: the Backup of the image is created,
\* and opens the gate once it is completed.
reconcilePreMigrationBackup ==
    /\ pc = "await"
    /\ \/ /\ backups[m.image] = "absent"
          /\ backups' = [backups EXCEPT ![m.image] = "running"]
          /\ pc' = "status"
       \/ /\ backups[m.image] = "completed"
          /\ pc' = "cleanup" /\ UNCHANGED backups
       \/ /\ backups[m.image] \in {"running", "failed"}
          /\ pc' = "status" /\ UNCHANGED backups
    /\ UNCHANGED <<misskey, status, jobs, deps, cacheVars, m, err, phase, histVars>>

\* cleanupOldMigrationJobs: delete, in the background, every Job the cached
\* list shows for another image, finished or not.
cleanupOldMigrationJobs ==
    /\ pc = "cleanup"
    /\ jobs' = [i \in Images |->
                  IF i # m.image /\ GetJobs[i] # NoJob THEN NoJob ELSE jobs[i]]
    /\ pc' = "migrate"
    /\ UNCHANGED <<misskey, status, backups, deps, cacheVars, m, err, phase, histVars>>

\* The deletion loop stops at the first error, some Jobs already deleted.
CleanupFailsMidway ==
    /\ pc = "cleanup" /\ Fault
    /\ \E D \in SUBSET {i \in Images : i # m.image /\ GetJobs[i] # NoJob} :
          jobs' = [i \in Images |-> IF i \in D THEN NoJob ELSE jobs[i]]
    /\ err' = TRUE /\ pc' = "status"
    /\ UNCHANGED <<misskey, status, backups, deps, cacheVars, m, phase,
                   migrated, covered, created, deletes>>

\* reconcileMigration, the Job not found: create it.  The API server refuses
\* when the Job exists after all.
CreateMigrationJob ==
    /\ pc = "migrate" /\ GetJobs[m.image] = NoJob
    /\ pc' = "status"
    /\ \/ /\ jobs[m.image] = NoJob
          /\ jobs' = [jobs EXCEPT ![m.image] = [st |-> "running", cfg |-> m.cfg]]
          /\ covered' = covered \cap {m.image}
          /\ created' = created + 1
          /\ UNCHANGED err
       \/ /\ jobs[m.image] # NoJob
          /\ err' = TRUE
          /\ UNCHANGED <<jobs, covered, created>>
    /\ UNCHANGED <<misskey, status, backups, deps, cacheVars, m, phase,
                   migrated, deletes, faults>>

\* Slip: a Job that has not failed counts as complete.
CheckMigrationJobNotFailed ==
    /\ pc = "migrate" /\ GetJobs[m.image] # NoJob
    /\ pc' = IF GetJobs[m.image].st \in {"retrying", "failed"} THEN "status" ELSE "gate"
    /\ UNCHANGED <<apiVars, cacheVars, m, err, phase, histVars>>

\* Slip: a failed Job is recreated whatever its input.
CheckMigrationJobAlwaysRetry ==
    /\ pc = "migrate" /\ GetJobs[m.image] # NoJob
    /\ jobs' = IF GetJobs[m.image].st \in {"retrying", "failed"}
                 THEN [jobs EXCEPT ![m.image] = NoJob] ELSE jobs
    /\ pc' = IF GetJobs[m.image].st = "succeeded" THEN "gate" ELSE "status"
    /\ UNCHANGED <<misskey, status, backups, deps, cacheVars, m, err, phase, histVars>>

\* reconcileMigration, the Job found: a failed Job whose input changed is
\* deleted by name (a later pass creates it anew), a failed one with the same
\* input is kept, and Succeeded >= 1 lets the pass continue.
CheckMigrationJob ==
    /\ pc = "migrate" /\ GetJobs[m.image] # NoJob
    /\ LET job == GetJobs[m.image]
       IN  \/ /\ job.st \in {"retrying", "failed"} /\ job.cfg # m.cfg
              /\ jobs' = [jobs EXCEPT ![m.image] = NoJob]
              /\ pc' = "status"
           \/ /\ job.st = "running" \/ (job.st \in {"retrying", "failed"} /\ job.cfg = m.cfg)
              /\ pc' = "status" /\ UNCHANGED jobs
           \/ /\ job.st = "succeeded"
              /\ pc' = "gate" /\ UNCHANGED jobs
    /\ UNCHANGED <<misskey, status, backups, deps, cacheVars, m, err, phase, histVars>>

\* The gates between the migration and the rollout: the objectStorage and
\* SensitiveDetector meta Jobs are done and Redis is ready.
GateOpen ==
    /\ pc = "gate"
    /\ pc' = "app"
    /\ UNCHANGED <<apiVars, cacheVars, m, err, phase, histVars>>

GateClosed ==
    /\ pc = "gate" /\ Fault
    /\ pc' = "status"
    /\ UNCHANGED <<apiVars, cacheVars, m, err, phase, migrated, covered, created, deletes>>

\* setDeployment: the pod template carries the image and the config checksum.
Desired(mk) == [image |-> mk.image, cfg |-> mk.cfg, up |-> TRUE]

\* CreateOrUpdate of a Deployment with optimistic locking: what the cache shows
\* is mutated; equal means no call, else the write succeeds only when the cache
\* is current (AlreadyExists or Conflict otherwise).
Apply(r, new, next) ==
    \/ /\ GetDeps[r] = new
       /\ pc' = next /\ UNCHANGED <<deps, err>>
    \/ /\ GetDeps[r] # new /\ GetDeps[r] = deps[r]
       /\ deps' = [deps EXCEPT ![r] = new]
       /\ pc' = next /\ UNCHANGED err
    \/ /\ GetDeps[r] # new /\ GetDeps[r] # deps[r]
       /\ err' = TRUE
       /\ pc' = "status" /\ UNCHANGED deps

\* Slip: a changed image replaces the Deployment, the old one goes first.
reconcileAppRecreates ==
    /\ pc = "app"
    /\ IF GetDeps["app"].image \in {None, m.image}
         THEN Apply("app", Desired(m), "worker") ELSE Apply("app", NoDep, "status")
    /\ UNCHANGED <<misskey, status, jobs, backups, cacheVars, m, phase, histVars>>

reconcileApp ==
    /\ pc = "app"
    /\ Apply("app", Desired(m), "worker")
    /\ UNCHANGED <<misskey, status, jobs, backups, cacheVars, m, phase, histVars>>

reconcileWorker ==
    /\ pc = "worker"
    /\ Apply("worker", Desired(m), "status")
    /\ UNCHANGED <<misskey, status, jobs, backups, cacheVars, m, phase, histVars>>

\* suspendWorkloads, one Deployment: absent ones are left alone.
suspendWorkload(r, here, next) ==
    /\ pc = here
    /\ \/ /\ GetDeps[r] = NoDep
          /\ pc' = next /\ UNCHANGED <<deps, err>>
       \/ /\ GetDeps[r] # NoDep
          /\ Apply(r, [GetDeps[r] EXCEPT !.up = FALSE], next)
    /\ UNCHANGED <<misskey, status, jobs, backups, cacheVars, m, phase, histVars>>

suspendWorkloads ==
    \/ suspendWorkload("app", "suspendApp", "suspendWorker")
    \/ suspendWorkload("worker", "suspendWorker", "status")

\* Any other call of reconcileAll fails, those after the workloads (Proxy,
\* Ingress, Monitoring) included: the rest is skipped, the status is not.
CallFails ==
    /\ pc \in PCs \ {"idle", "write"} /\ ~err /\ Fault
    /\ err' = TRUE /\ pc' = "status"
    /\ UNCHANGED <<apiVars, cacheVars, m, phase, migrated, covered, created, deletes>>

\* updateStatus, first half: the conditions are read again and aggregated.
\* The Deployments' conditions look at the replica counts only.
AllConditionsTrue ==
    /\ GetJobs[m.image].st = "succeeded"
    /\ \A r \in Roles : GetDeps[r].up

aggregatePhase ==
    /\ pc = "status"
    /\ \/ err /\ phase' = "Error"
       \/ ~err /\ m.suspend /\ phase' = "Suspended"
       \/ ~err /\ ~m.suspend /\ AllConditionsTrue /\ phase' = "Running"
       \/ ~err /\ ~m.suspend /\ phase' = "Progressing"
    /\ pc' = "write" /\ err' = FALSE
    /\ UNCHANGED <<apiVars, cacheVars, m, histVars>>

\* updateStatus, second half: the object is read again and its status written,
\* stamped with the generation read now.  A stale read is a conflict.
writeStatus ==
    /\ pc = "write"
    /\ Current
    /\ status' = [phase |-> phase, observedGeneration |-> GetMisskey.gen,
                  image |-> m.image]
    /\ statusSeen' = FALSE
    /\ Return
    /\ UNCHANGED <<misskey, jobs, backups, deps, seenMisskey, seenJobs, seenDeps, histVars>>

\* RetryOnConflict gives up; the error is only logged.
statusConflict ==
    /\ pc = "write"
    /\ ~Current
    /\ Return
    /\ UNCHANGED <<apiVars, cacheVars, histVars>>

\* The process dies between two calls; a new one starts over.
Crash ==
    /\ pc # "idle" /\ Fault
    /\ Return
    /\ UNCHANGED <<apiVars, cacheVars, migrated, covered, created, deletes>>

(***************************************************************************)
(* Everyone else.                                                          *)
(***************************************************************************)

\* The user edits the spec; the API server bumps the generation.
EditSpec ==
    /\ misskey.gen < MaxEdits
    /\ \E i \in Images, c \in Configs, s \in Suspends, b \in PreBackups :
          /\ <<i, c, s, b>> # <<misskey.image, misskey.cfg, misskey.suspend, misskey.preBackup>>
          /\ misskey' = [image |-> i, cfg |-> c, suspend |-> s, preBackup |-> b,
                         gen |-> misskey.gen + 1]
    /\ UNCHANGED <<status, jobs, backups, deps, cacheVars, localVars, histVars>>

\* The Job controller and the migration pod.
JobRetries(i) ==
    /\ jobs[i].st = "running"
    /\ jobs' = [jobs EXCEPT ![i].st = "retrying"]
    /\ UNCHANGED <<misskey, status, backups, deps, cacheVars, localVars, histVars>>

JobEnds(i) ==
    /\ jobs[i].st \in {"running", "retrying"}
    /\ \/ /\ jobs' = [jobs EXCEPT ![i].st = "succeeded"]
          /\ migrated' = migrated \cup {i}
       \/ /\ jobs' = [jobs EXCEPT ![i].st = "failed"]
          /\ UNCHANGED migrated
    /\ UNCHANGED <<misskey, status, backups, deps, cacheVars, localVars,
                   covered, created, deletes, faults>>

\* The CNPG operator works on a Backup.
BackupEnds(i) ==
    /\ backups[i] = "running"
    /\ \/ /\ backups' = [backups EXCEPT ![i] = "completed"]
          /\ covered' = covered \cup {i}
       \/ /\ backups' = [backups EXCEPT ![i] = "failed"]
          /\ UNCHANGED covered
    /\ UNCHANGED <<misskey, status, jobs, deps, cacheVars, localVars,
                   migrated, created, deletes, faults>>

\* The documented way to retry: the user deletes the failed Job or Backup.
DeleteFailed(i) ==
    /\ deletes < MaxDeletes /\ deletes' = deletes + 1
    /\ \/ /\ jobs[i].st = "failed"
          /\ jobs' = [jobs EXCEPT ![i] = NoJob] /\ UNCHANGED backups
       \/ /\ backups[i] = "failed"
          /\ backups' = [backups EXCEPT ![i] = "absent"] /\ UNCHANGED jobs
    /\ UNCHANGED <<misskey, status, deps, cacheVars, localVars,
                   migrated, covered, created, faults>>

\* Each informer catches up with the API server on its own.
SyncMisskey ==
    /\ CacheLag
    /\ seenMisskey # misskey \/ ~statusSeen
    /\ seenMisskey' = misskey /\ statusSeen' = TRUE
    /\ UNCHANGED <<apiVars, seenJobs, seenDeps, localVars, histVars>>

SyncJobs ==
    /\ CacheLag
    /\ seenJobs # jobs
    /\ seenJobs' = jobs
    /\ UNCHANGED <<apiVars, seenMisskey, statusSeen, seenDeps, localVars, histVars>>

SyncDeps ==
    /\ CacheLag
    /\ seenDeps # deps
    /\ seenDeps' = deps
    /\ UNCHANGED <<apiVars, seenMisskey, statusSeen, seenJobs, localVars, histVars>>

-----------------------------------------------------------------------------
(* Specification *)

Operator ==
    \/ Start \/ cleanupOldPreMigrationBackups \/ LookForMigrationJob
    \/ reconcilePreMigrationBackup \/ cleanupOldMigrationJobs
    \/ CreateMigrationJob \/ CheckMigrationJob \/ GateOpen
    \/ reconcileApp \/ reconcileWorker \/ suspendWorkloads
    \/ aggregatePhase \/ writeStatus \/ statusConflict

Faults ==
    \/ DatabaseNotReady \/ BackupCleanupFailsMidway \/ CleanupFailsMidway \/ GateClosed
    \/ CallFails \/ Crash

Sync == SyncMisskey \/ SyncJobs \/ SyncDeps

Environment ==
    \/ EditSpec
    \/ \E i \in Images : JobRetries(i) \/ JobEnds(i) \/ BackupEnds(i) \/ DeleteFailed(i)

Next == Operator \/ Faults \/ Sync \/ Environment

Spec == Init /\ [][Next]_vars

\* The work queue always runs Reconcile again, informers deliver, and the Job
\* and CNPG controllers finish what they run.
Fairness ==
    /\ WF_vars(Operator)
    /\ WF_vars(SyncMisskey) /\ WF_vars(SyncJobs) /\ WF_vars(SyncDeps)
    /\ \A i \in Images : WF_vars(JobEnds(i)) /\ WF_vars(BackupEnds(i))

FairSpec == Spec /\ Fairness

(***************************************************************************)
(* Safety.                                                                 *)
(***************************************************************************)

\* The app and worker Deployments carry an image only after a migration Job of
\* that image has Succeeded, whatever the cache showed (reconcileAll runs
\* reconcileApp and reconcileWorker behind the migration gate).
MigratedBeforeRollout ==
    \A r \in Roles : deps[r].image # None => deps[r].image \in migrated

\* The status says Running only with an image whose migration has Succeeded,
\* although the conditions are read again after the gates were.
RunningIsMigrated == status.phase = "Running" => status.image \in migrated

\* The operator never runs a failing migration in a loop: it creates at most one
\* Job per generation of the object, plus one per Job or Backup the user deletes
\* (reconcileMigration recreates a failed Job only for changed input).
NoMigrationStorm == created <= 1 + misskey.gen + deletes

\* Deleting a failed Job by name never hits a Job that already carries the
\* current input: the name is reused, the cached Job may be an old one.
RetryHitsOldJob ==
    [][\A i \in Images :
         (pc = "migrate" /\ pc' # pc /\ jobs[i] # NoJob /\ jobs'[i] = NoJob) => jobs[i].cfg # m.cfg]_vars

\* With preBackup on, a migration Job is created only when a Backup of the
\* database was completed since any other image's migration started.
BackupBeforeMigration ==
    [][(created' # created /\ m.preBackup) => m.image \in covered]_vars

\* A migration Job is not killed midway: cleanupOldMigrationJobs removes Jobs
\* whose migration has been applied.
NoMigrationKilled ==
    [][\A i \in Images :
         (pc = "cleanup" /\ pc' # pc /\ jobs[i] # NoJob /\ jobs'[i] = NoJob)
            => jobs[i].st \notin {"running", "retrying"}]_vars

(***************************************************************************)
(* Liveness, once edits and faults have stopped.                           *)
(***************************************************************************)

\* A pass that cannot go on without the user.
Blocked ==
    \/ jobs[misskey.image].st = "failed"
    \/ misskey.preBackup /\ backups[misskey.image] = "failed"

\* An instance that is not suspended ends up with both Deployments on the
\* image and configuration of its spec, unless a migration or a Backup failed.
Converges ==
    <>[](~misskey.suspend =>
           Blocked \/ \A r \in Roles : deps[r] = Desired(misskey))

\* A suspended instance ends up with no Deployment scaled up.
SuspendStops ==
    <>[](misskey.suspend => \A r \in Roles : ~deps[r].up)

(***************************************************************************)
(* What all of this implements.                                            *)
(***************************************************************************)

RunningImage == IF status.phase = "Running" THEN status.image ELSE None

U == INSTANCE Upgrade WITH image    <- [r \in Roles |-> deps[r].image],
                           up       <- [r \in Roles |-> deps[r].up],
                           reported <- RunningImage

\* The reconcile loop implements Upgrade: seen from the Deployments and the
\* status, every step of a pass, of the cache and of the cluster migrates, rolls
\* one workload to a migrated image, stops one, reports, or shows nothing.
ImplementsUpgrade == U!Spec

=============================================================================
