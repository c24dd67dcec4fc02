# Verification of cloudnative-misskey

TLA+ models of the Kubernetes operator in this repository, checked with TLC on
small instances, and theorems about them checked by TLAPS for all values of the
constants.

## The system

Two controllers run in one process (`cmd/main.go`), each with one worker.

* The **Misskey controller** (`internal/controller/misskey_controller.go`) turns
  one `Misskey` object into Secrets, a CNPG database, Redis, MeiliSearch, a
  migration Job, the app and worker Deployments and the objects around them. A
  pass of `Reconcile` reads the object, adds the finalizer, resolves the image,
  runs `reconcileAll`, which stops at the first error or closed gate, and always
  ends with `updateStatus`. The queue then runs it again: after 15 s, after the
  drift interval (3 min), or with backoff after an error.
* The **MisskeyChannel controller** (`misskeychannel_controller.go`) publishes the
  image a fleet follows, possibly pinned to a digest. The instances work out from
  the channel's status which image they are to run.

What makes the code hard to test is shared by all its parts:

* typed objects are read from an informer cache that lags the API server, while
  Secrets (`cmd/main.go`, `DisableFor`) and unstructured objects (CNPG, Redis
  custom resources) are read live;
* updates carry a resourceVersion and are refused when the copy is stale; creates
  are refused when the name is taken; deletes go by name and are never refused;
* several reads of one pass may see different states; a pass may fail or the
  process may die between any two calls, and the next starts from the beginning;
* Jobs, Backups, the garbage collector, the volume controllers and the user act
  in between.

### Inventory

| Part | Source (`internal/controller/` unless given) | Model |
|---|---|---|
| Reconcile, migration, workloads, status | `misskey_controller.go`, `migration.go`, `workloads.go`, `config.go` (apply) | `MisskeyReconcile` |
| Channels and staged rollout | `channel.go`, `misskeychannel_controller.go` | `MisskeyChannel` |
| Digest resolver | `imagedigest.go` | `DigestResolver` |
| Deletion and retained data | `deletion.go`, finalizer in `misskey_controller.go` | `MisskeyDeletion` |
| Storage changes of StatefulSets | `statefulset.go` | `StatefulSetStorage` |
| Scheduled restore tests | `backupverify.go` | `BackupVerify` |
| SensitiveDetector | `sensitive_detector.go` | `SensitiveDetector` |
| Spec to plan, rendering, admission | `plan.go`, `config.go`, `misskey_pod.go`, `internal/webhook/v1beta1/misskey_webhook.go` | `Plan` |
| Redis, PostgreSQL, search, proxy, ingress, tenancy, monitoring, autoscalers, object storage | `redis.go`, `redisha.go`, `postgres.go`, `meilisearch.go`, `proxy.go`, `ingress.go`, `tenancy.go`, `monitoring.go`, `autoscaling.go`, `objectstorage.go` | `Children` (the calls), `Traffic` (what they must achieve), `Instance` (the calls executed) |
| Secrets, rotation, checksums, replicas | `common.go`, `workloads.go` | `Instance` |
| Upgrades as the user sees them | the three files of the first row | `Upgrade` (abstract) |
| Generated code, wiring, channel webhook | `zz_generated.deepcopy.go`, `cmd/main.go`, `misskeychannel_webhook.go` | not modelled |

How the modules fit together: `MisskeyReconcile` follows the part of a pass between the
database gate and the rollout against a lagging cache, with one nondeterministic gate for
what comes before; `Instance` follows the whole pass over all other objects, with the
migration as a condition; `SensitiveDetector` follows the detector through the same pass.
`StatefulSetStorage`, `BackupVerify` and `MisskeyDeletion` look into single calls of it.
`MisskeyReconcile` implements `Upgrade`.

`PROJECT.json` lists the same parts, the hazards found in them with their lines,
the lines each definition models, and the findings.

## Conventions

* Names of actions and operators are those of the Go functions where one function
  is one action; a function of several API calls is split at the calls, because
  that is where others interleave.
* `seenX` is the informer cache's copy of `X`, and `SyncX` brings it up to date.
  Caches only move forward. Where a run sets `CacheLag = FALSE`, reads return the
  current object, and the run says what follows from the logic alone.
* A failed call and a crash differ only in whether `updateStatus` still runs.
* An operator introduced by a comment `Slip:` is a plausible mistake in the
  definition after it. No specification uses it; it shows that a property would
  notice.
* Counters in guards (`MaxEdits`, `MaxFaults`, ...) bound the environment, never
  the operator.

## Modules

### MisskeyReconcile

State: the object, its status, one migration Job and one pre-migration Backup per
image (their names hash the image), the two Deployments, the cache, and the locals
of a pass (`pc`, the copy `m`, `err`, `phase`). `cfg` stands for everything that goes
into the migration and pod checksums (rendered configuration, versions of the
referenced Secrets).

Actions follow `reconcileAll`: `Start`; `cleanupOldPreMigrationBackups`,
`LookForMigrationJob` and `reconcilePreMigrationBackup`, the three calls of the Backup
gate; `cleanupOldMigrationJobs`, `CreateMigrationJob` or `CheckMigrationJob`, `GateOpen`
(object storage, SensitiveDetector and Redis), `reconcileApp`, `reconcileWorker`,
or `suspendWorkloads`; then `aggregatePhase` and `writeStatus`, the two halves of
`updateStatus`. `DatabaseNotReady`, `GateClosed`, `BackupCleanupFailsMidway`,
`CleanupFailsMidway`, `CallFails` and `Crash` are the ways a pass ends early. A condition that is not about
migration or Deployments may always be false.

* `MigratedBeforeRollout`, and `RunningIsMigrated` (proved only): the gate holds although it,
  and the aggregate, are decided on cached Jobs. It does because a Job that was ever seen
  Succeeded did succeed, and success is not undone.
* `RetryHitsOldJob`, `NoMigrationStorm`: the deletion of a failed Job by name is
  safe, and failing migrations are not run in a loop.
* `BackupBeforeMigration`: checked with a current cache and `preBackup` always on; see
  Limits for what happens otherwise.
* `Converges`, `SuspendStops`: liveness once edits and faults have stopped.
* `ImplementsUpgrade`: refinement, also against a lagging cache; see the next section.
* `NoMigrationKilled`: what a comment says of the cleanup; violated, see Findings.

### Upgrade

The promise behind the migration gate, without Jobs, passes or caches: the set of images
the database is migrated for, the image of each workload and whether it runs, and the image
reported Running. A workload is only ever rolled to a migrated image, one workload at a
time; stopping it keeps its image; only a migrated image is reported. `MisskeyReconcile`
instantiates it with the Deployments' templates and replicas and with the status, and every
step of a pass, of the cluster or of the user is then one of these steps or invisible.

### MisskeyChannel

The channel, its status, the image each instance reports, the registry, the cache,
and the locals of both controllers. `age` is the time since `imageChangedAt`, counted
up to `MaxAge`, after which every batch is due. `channelImageFor` is a pure operator;
`ChannelStart`, `CountInstances` and `WriteChannelStatus` are one pass of the channel
controller, `resolveImage` and `ReportImage` what the Misskey controller contributes.
A channel pass runs when something it watches has changed or a requeue is set (`queued`),
so that a missed wake-up is a liveness error.

The instances sit at the buckets 39 and 80, at the edges of batches of 40 % and of 80 %,
neither of which adds up to 100.

* `SwitchedStays`, `Paced`: batches only widen and none comes early, while `steady`: the pace
  is left alone and an image changes only after the last one has arrived everywhere.
* `FleetConverges`, `CountConverges`: the fleet and the counter arrive, steady or not.

An edit, a push, a registry failure and a restart are events, of which there are `MaxEvents`;
one that ends the steadiness is the last.

### DigestResolver

`Pinned` as two critical sections with the registry request between them, for any
number of callers, and `evictLocked` as the set of key sets it may leave (Go iterates
the map in any order). `FreshEnough`: an answer was behind the tag less than a TTL and
a request ago, although answers may be stored out of order. `CacheBounded`: the limit
stands, however many calls store at once.

### MisskeyDeletion

The object (uid, policy, deletion mark, finalizer, resourceVersion), its data
resources with their owner, and the garbage collector. Resources applied with
server-side apply adopt whatever they find; those applied with CreateOrUpdate refuse
a resource another object controls. `RetainKeepsData` is about edits of the policy
during the deletion, failures between two detached resources, and reuse of the name;
it excepts foreground deletions, see Limits.
`Adopts`, `DeletionEnds` are liveness. The runs may end with everything deleted and
all bounds used, so they do not check for deadlock; neither do those of
`DigestResolver`, whose clock is bounded.

### StatefulSetStorage

One StatefulSet with one claim. `applyStatefulSet` is split at its calls: `GetExisting`,
`expandStatefulSetPVCs`, `DeleteOrphan`, `PollGone` or `PollTimeout`, `ApplySts`.
`DeletesOutdated`: no recreation loop. `TemplateConverges`: whatever happened between
deletion and creation. `ClaimGrows`: the existing claim follows an increase. Two history
variables record what excuses it: `passedOver` (the one update of the claim failed or was
refused) and `rushed` (the storage was edited before the last edit had been applied).

### BackupVerify

The throwaway Cluster, the recorded result, the schedule. Time is kept as ages capped
where the code's comparisons no longer tell them apart, so the model has no time bound.
`RecordedBeforeDeleted`: the result of a test is in the status, and true of the Cluster,
before the Cluster goes. `TestEnds`, `KeepsVerifying`: liveness, the first while the
database is managed. `AtMostOneExtra`: a test waits for the interval, counted from the last
record or the one before it (`prev`). The cached status may lack the last record, so one test
too many is possible; a second in a row is not, because the record in between needs a fresh
copy of the object.

### Plan, Children, Traffic

`Plan` is what the code computes from a spec without looking at the cluster: `resolve`,
`renderDefaultYML`, the init container's script and environment, the Secrets that enter the
checksum, and admission. A spec is a record of the choices the code branches on; hosts and
Secrets are short names.

`Children` gives, for a spec, the sequence of API calls one pass of `reconcileAll` makes:
each `reconcileX` is the sequence of its calls, so that the order between deletions and
applies, and between parts, is the code's. Gates are calls that skip what follows them.

`Traffic` is the reference the objects are held to: which objects answer at the hosts of a
configuration, which connections an instance opens, and what Kubernetes lets through a set
of NetworkPolicies.

### Instance

Executes those calls one at a time. State: the spec and the one the pass works on, the
position in the pass, all objects with their contents, the templates the running pods have,
the storage credentials, a pending write of each autoscaler, and the status. A call that
would change nothing is passed over together with the one before it. What a call reads is
read when it is executed: Secret versions, a Deployment's replicas, the Job.

* `NoTwins`: no Redis in both forms, no workload under both autoscalers, also when a switch
  breaks off between two calls.
* `RotatesOnce`: a request rotates each Secret at most once, over any number of passes.
* `IsolatedFirst`, `Reachable`: policies come before the pods; a settled instance can make
  all its connections, and strangers none.
* `RollsOncePerChange`: an edit, a rotation of however many Secrets or new storage credentials
  replace the pods of a role at most once, also over passes that break off, and nothing else
  does. `due` holds the roles a change may still roll.
* `RolledPodsResolve`, `WrittenBeforeRollout`: pods are only rolled onto a configuration whose
  hosts, Secrets and bucket are there.
* `ServedWhenRunning`: what the status promises.
* `ObjectsSettle`, `WorkloadsSettle`: liveness. The objects become what the last spec asks
  for with nothing left over, and the pods run the current configuration, scaled by
  whoever owns the replicas.

The user of the run moves between twelve specs (`MCInstance`): everything managed, the other
form of everything, everything external, autoscaled, suspended, object storage, rotations of
three generated Secrets, and one that admission refuses.

### SensitiveDetector

The detector is configured through a row of Misskey's database that pods read when they
start. State: the generated key, the detector's objects and pods, the state ConfigMap and
whether the cache has seen it, the Jobs and their pods (which outlive a deleted Job and may
still commit), the row, the Deployments of app and worker and the row their pods have read.
A rolling update has two steps, as `rollingZeroDowntime` sets it up: new pods are created
(`PodsCreated`, recorded in `fresh`), and the old ones go (`RollPods`, `DetectorRolls`). In
between the replica counts already satisfy `misskeyWorkloadsConverged`.

* `UntouchedWithoutBlock`: who never asked for a detector keeps the row they wrote.
* `ConfiguredBeforeRollout`, `RowIsServed`: the row first, then the pods; and the row never
  points to a detector or a key that is not there, neither before they are made nor when they
  are cleaned up.
* `ReadyIsConfigured`: a detector reported ready is the one in the row, and the spec's own when
  the pass got past its gates.
* `KeptWhileUsed`: what the documentation says of the cleanup; violated, see Findings.
* `DetectorSettles`: liveness, for any sequence of two edits and faults.

Two history variables excuse what no code prevents: `late` (a pod of a deleted Job has read
or written) and `unseen` (a stale read missed the state ConfigMap, so the pass took the
instance for one that never had a detector). Once one of them is set no further disturbance
is explored. Steps of the cluster are taken where the pass next sees their effect; elsewhere
they commute with its calls.

## Runs

| Run | Shows | Distinct states |
|---|---|---|
| `MCMigration` | migration safety and refinement of `Upgrade`; lagging cache, 2 images, 2 configurations, 2 edits, 1 deletion | 3.4 M |
| `MCConverge` | liveness; 2 edits of image and suspend, 1 fault anywhere, lagging cache | 1.3 M |
| `MCPreBackup` | Backup gate; current cache, 3 edits, suspension, a failed Backup or Job deleted, 1 fault | 3.3 M |
| `MCRollout` | staged rollouts in uneven batches; 2 events: an edit of tag, tracking or pace, a push, a fault | 0.2 M |
| `MCDigest` | 2 overlapping callers, 3 keys for 2 entries, 1 push, 1 failed request | 0.6 M |
| `MCDeletion` | 2 objects under one name, both kinds of deletion, 2 edits, 2 faults | 0.3 M |
| `MCStorage` | 2 storage edits from the first install on, 2 faults, 1 missed call, lagging cache | 0.4 M |
| `MCVerify` | restore tests; 2 mode changes, 2 other status writes, 2 faults, lagging cache | 0.4 M |
| `MCInstance` | every object of an instance; 12 specs, 2 edits or rotations, 1 failing call or read, 2 replicas | 0.2 M |
| `MCDetector` | 4 kinds of detector, 2 edits, failing calls, stale reads or closed gates in any mixture | 0.9 M |
| `MCMigrationKilled`, `MCDetectorKept` | the violations under Findings | |

The bounds are the smallest that let the interesting orders happen: two images and
two edits so that a Job name is left and returned to; three edits where a Backup must
outlive a migration; two uids so that data outlives its owner; one or two faults so that
a recovery is itself interrupted; sizes 1..3 so that an increase meets an increase; two
edits of the detector's spec so that a third kind comes while the second is being set up or
taken down.

Fairness: the operator's actions are weakly fair (the queue always runs `Reconcile`
again: requeue, drift interval or backoff), informers deliver, the Job and CNPG
controllers finish what they run (with either outcome), the garbage collector and the
StatefulSet controller do their work, time passes. Each instance's resolution in
`MisskeyChannel` is strongly fair, because the one worker takes the instances in turn.
In `Instance` and `SensitiveDetector` the pass is weakly fair and the cluster's controllers
are strongly fair: the models let them act only at the points of a pass where it matters,
and they come by there in every pass.
Faults, edits and the success of a restore are never fair.

## Findings

Two runs are expected to be violated; `PROJECT.json` quotes the lines of the documentation and
names the lines of the code.

| Run | The code | The documentation |
|---|---|---|
| `MCMigrationKilled` | a running migration of another image is killed by the cleanup | old migrations have been applied |
| `MCDetectorKept` | the detector and its key are deleted while old pods that use them still run: the counts of updated and of available pods are compared separately (`sensitive_detector.go:461`) | they are deleted after app and worker have been updated (`README.md:409-410`) |

### Limits

What the passing properties except, and why the code needs the exception (`README.md:n` is
the repository's README):

* `BackupBeforeMigration` is checked with a current cache because the Backup gate
  (`migration.go:164`) opens for a Job that is still in the cache after its deletion; and
  with `preBackup` always on because, while it is off, `migration.go:157` returns before
  the Backups of other images are cleaned up, and an old one counts later.
* `SwitchedStays` and `Paced` hold while the pace is constant and image changes wait for
  the rollout (`steady`): the threshold is computed from the present pace and
  `previousImage` is kept for ever (`channel.go:58-69`), so slowing the pace sends
  instances back.
* `ClaimGrows` excepts a refused update because `statefulset.go:124` leaves a warning and
  goes on, and the new template hides the difference from later passes; and rushed
  edits because a StatefulSet found absent is created with no look at its claim.
* `AtMostOneExtra` allows one test before its time: the schedule is read from the cache, the
  Cluster live (`backupverify.go:127`).
* `TestEnds` excepts external databases: `misskey_controller.go:370` calls
  `reconcileBackupVerify` for managed ones only, also when a test Cluster is left.
* `RecordedBeforeDeleted` lets a restore that became ready after the timeout, but before
  anyone looked, be Succeeded, as the order of the tests in `backupverify.go:143` does.
* `RunningIsMigrated` is about the image in the status. It does not say that the
  Deployments carry it: the conditions look at replica counts only, and a pass that
  stopped before the rollout may find them all true.
* The generation stamped by `updateStatus` and by the channel controller is the one read
  last, which may be newer than the spec the pass worked on; no property relies on it.

* `RetainKeepsData` excepts foreground deletions: the garbage collector deletes what refers to
  the object as soon as it is marked, and the owner references are only taken off once a pass
  sees the deletion (`deletion.go:54`; `misskey_types.go:65` and `README.md:148` make no
  exception).
* `FleetConverges` does not say that instances jump to the newest image: a second change makes
  the unfinished image the previous one, so an instance still on the first is sent to it until
  its batch is due (`channel.go:69`; `README.md:355` says it jumps directly).
* `IsolatedFirst` leaves out the pods of an HA Redis: their policy comes after them
  (`redis.go:134`; the comment at `misskey_controller.go:361` says isolation comes first).
* `Reachable` leaves out two connections the policies close: the scrape of an HA Redis'
  exporter, and the Jobs' way to an external database under egress isolation.
* `RollsOncePerChange` allows a rollout for a failing read and one back: `credentialSecretVersions`
  takes a failing read for a missing Secret (`objectstorage.go:247`, unlike `common.go:67`),
  which also starts a Job and, once read again, a second one.
* `WrittenBeforeRollout` is about the bucket, not the credentials: rotated between the hash of
  the Job and the checksum of the pods, they are rolled for before they are written, and the
  later write does not roll again.
* `RolledPodsResolve` is about pods at their rollout. The ConfigMap is updated before the gates,
  so a pod of the old template that restarts meanwhile reads the new configuration.
* `ServedWhenRunning` does not say that the pods run the present spec: when the gate of the
  rollout is closed, the former Deployments may satisfy every condition.
* `ObjectsSettle` excepts what the code does not remove: Cluster, Poolers and MeiliSearch after a
  change to external ones, a ScheduledBackup whose schedule was emptied (although the field's
  doc says "Empty disables it."), and the monitor of a Redis' other form (the sweep at
  `monitoring.go:117` goes by name).
* `KeptWhileUsed` leaves out pods that started between the commit of a row and the rollout for it:
  their checksum is the old one, so when the block is removed they are not replaced, and the
  detector they use is deleted (`sensitive_detector.go:468` and `README.md:410` say that it
  is kept until they are). The violation does not need them.
* `RowIsServed` is about the row, not about pods that have read an earlier one: those may lose
  their detector, which is the finding above.
* `ReadyIsConfigured`: for a pass stopped at the database or migration gate the condition speaks
  of the hash written last, so the property then only ties the row to that hash.
* `RowIsServed`, `ConfiguredBeforeRollout`, `ReadyIsConfigured` and `DetectorSettles` say nothing
  after a stale read has missed the state ConfigMap or a pod of a deleted Job has acted.
* `Instance` reads the conditions of `updateStatus` at one moment, the code one after the other
  (`misskey_controller.go:477-527`). The Deployments and the Cluster stop only through
  the operator, so `ServedWhenRunning` would differ only for a Redis or MeiliSearch pod that
  fails between two reads; in `MisskeyReconcile` the other conditions are true or false at will.
* A suspended instance whose detector block is removed keeps the detector's Deployment scaled up:
  `suspendWorkloads` only scales it while the block is there and the cleanup waits for the Job.

## Proofs

All theorems hold for every value of the constants that satisfies the named `ASSUME`s
(types of the constants, `None` distinct from values, bounds natural numbers).

* `MisskeyReconcileProofs`: `TypeCorrect`, `RolloutIsMigrated`, `RunningMigrated`,
  `RetryDeletesOldJob`, `NoStorm`, `BackedUp`, `RefinesUpgrade`. The inductive invariant `GateInv` adds to the two safety
  invariants that a Job which is Succeeded, in the API server or in the cache, is of an
  image in `migrated`; that a pass beyond the migration gate works on such an image; and
  that a pass about to report Running has one. It is needed because the Deployments are
  written from `m`, several steps after the Job was read from a stale copy.
  `SameJob` relates a cached failed Job to the one of the same name in the API server:
  a Job is created only while the cache shows none.
  `NoStorm` is from `StormInv`: passes work on copies of the object that never get older, and
  no more Jobs were created than the generation worked on and the user's deletions allow, plus
  one once that generation has its Job.
  `BackedUp` is from `CoverInv`: a pass beyond the cleanup of Backups has removed those of other
  images, so none of them can open a gate after its migration has made them worthless. It
  assumes `preBackup` always on and a current cache, for the reasons under Limits.
  `RefinesUpgrade` (`Spec => ImplementsUpgrade`) maps every action to a step of `Upgrade` or to
  a stutter; `GateInv` gives the guard of `Roll` and of `Report`.
* `SensitiveDetectorProofs`: `BlockOrUntouched`, from `NeverConfigured`: without a block in the
  spec there is no Job, no pod of one and no state ConfigMap, and neither the cache nor a
  running pass has one in mind.
* `PlanProofs`: `EveryTokenResolves` and `TokensApart`, for every spec. They are what keeps a
  `${...}` from reaching Misskey as a password, or one Redis' password from another's block.
* `DigestResolverProofs`: `CacheNeverOverflows`, from `BoundInv` (the cache is a function
  on a finite set of keys) and the lemma that `evictLocked` leaves room for one entry.
  `AnswersAreFresh`, from `FreshInv`: an answer in a call's hands was behind the tag after the
  call began, an entry of the cache at most a request before it was stored, and no request is
  under way for longer than `digestResolveTimeout`; a push never makes `lastCurrent` smaller.
* `MisskeyChannelProofs`: `BatchesOnlyWiden` and `EveryBatchComes` are about `channelImageFor`
  for every batch size, interval and bucket, where the run has two paces; they rest on
  the threshold growing with the age. `ChannelTypes` is the type invariant.
* `MisskeyDeletionProofs`: `RetainedIsKept`, for background and foreground deletions.
  `CopyInv` says that a live copy with the finalizer, in the cache or in the operator's
  hands, is of an object that still exists and has it, and that a deletion is never taken
  back; `OwnerInv` that a resource is owned by nobody, by the object that exists, or by
  one deleted with policy Delete. The finalizer is removed only on the copy the policy
  was read from, which is what the proof turns on.
* `StatefulSetStorageProofs`: `DeleteHitsOutdated`, from `SameTemplate` (a cached
  StatefulSet and the existing one have one template, since one is created only while
  the cache shows none) and `DeletePending`.
* `BackupVerifyProofs`: `ResultIsKept`, from `RecordInv`: between the look at the Cluster,
  the record and the deletion, the result stays true of the Cluster. `LagCostsOneTest`
  (`Spec => AtMostOneExtra`), from `DueInv`: the status that the cache holds, or that a pass
  decides on, is the last record or the one before it; and what was found to be due stays due
  while it ages.

Only model-checked: all liveness properties, the channel's properties over several passes, the properties of `Instance` and the other ones of
`SensitiveDetector`. Liveness under fairness and induction over data are outside what the prover
can do.

The type invariants are proved instead of run: by theorems of their own in
`MisskeyReconcileProofs`, `MisskeyChannelProofs` and `BackupVerifyProofs`, as part of `FreshInv`,
`RetainInv` and `OutdatedInv` in `DigestResolverProofs`, `MisskeyDeletionProofs` and
`StatefulSetStorageProofs`. `Instance` and `SensitiveDetector` state none.

## Assumptions and what is left out

* Caches are monotone, also across a restart in `MisskeyReconcile`; `MisskeyChannel`
  lists everything anew on restart.
* A cached Deployment equal to the one in the API server counts as the same write, which
  lets a few more writes succeed than the resourceVersion check does.
* Times are compared at tick granularity; truncation of `metav1.Time` to seconds is
  ignored.
* `MisskeyDeletion` reads data resources live; a conflict with their own controllers is a
  failed call. Server-side apply by the same field manager replaces the owner reference.
* A deleted object is gone at once: finalizers and grace periods of what the operator deletes are
  left out, except for the StatefulSet that `applyStatefulSet` waits for, the pods of deleted
  Jobs in `SensitiveDetector`, and the Misskey object itself.
* Events, logging, message texts and the contents of rendered objects are left out.
* `Instance` reads objects as they are; what a lagging cache does to a pass is the subject of
  `MisskeyReconcile`, `StatefulSetStorage` and `BackupVerify`. An edit counts from the next pass.
* `SensitiveDetector` reads Jobs and Deployments as they are; a Job that has failed for good,
  restarts of app and worker pods between rollouts and the rotation of a user's own key are left
  out.

## Not modelled

* `zz_generated.deepcopy.go` is generated; `cmd/main.go` is flags and wiring, of which the
  choices that matter (Secrets read live, one worker per controller) are built into the modules.
* The webhooks' warnings, the default of `tenant`, the list of ClusterIssuers and the channel's
  webhook are single comparisons without state.
* Texts and values that no control flow depends on: the statement of the object storage Job and
  its column names, probes, resources, security contexts, labels, alert expressions, the
  Caddyfile, PostgreSQL parameters, bootstrap from a recovery or an import.
* `runtime.go` and the name helpers of `common.go` are constants and defaults.
* Instances that change their channel, and pull secrets in digest requests.
