-------------------------- MODULE SensitiveDetector --------------------------
(***************************************************************************)
(* The detector of sensitive media (sensitive_detector.go).  The operator  *)
(* runs it beside an instance, or points the instance to an external one,  *)
(* by writing its URL and API key to Misskey's meta row.  A Job named      *)
(* after a hash of what it writes does that; app and worker read the row   *)
(* when they start and are rolled once the Job is done.  When the block is *)
(* removed from the spec, or made external, a Job resets the row, the pods *)
(* are rolled, and then the detector and its generated key go.             *)
(*                                                                         *)
(* A rollout brings up a new pod beside the old one (rollingZeroDowntime)  *)
(* and takes the old one down once the new one is available.               *)
(* A deleted Job's pod lives on until it is collected and may still commit.*)
(* The ConfigMap that marks a configured instance is read from a cache.    *)
(***************************************************************************)
EXTENDS Naturals, Sequences

CONSTANTS
    Modes,     \* the detectors the user may ask for
    FirstModes, \* the ones it may start with
    Suspends,  \* whether the user may suspend the instance
    CacheLag,  \* whether the cache may miss what the last pass did to the ConfigMap
    MaxEvents  \* edits of the spec, failing calls, stale reads and closed gates, together

AllModes == {"off", "generated", "own", "external"}

ASSUME DetectorAssumption ==
    /\ "off" \in Modes /\ Modes \subseteq AllModes /\ FirstModes \subseteq Modes
    /\ Suspends \subseteq BOOLEAN /\ FALSE \in Suspends /\ CacheLag \in BOOLEAN
    /\ MaxEvents \in Nat

VARIABLES
    spec,     \* [mode, suspend, rotate] of the Misskey
    secret,   \* the generated key's Secret: [value, mark, last], value 0 when absent
    parts,    \* the objects of the managed detector
    det,      \* its Deployment's [key, replicas]
    detRuns,  \* the key its pods run with
    state,    \* the config ConfigMap: [exists, sql, hash]
    seen,     \* whether it was there when a pass last looked
    jobs,     \* the config Jobs: [hash, done]
    pods,     \* their pods: [hash, sql, key, owned], sql "unread" before they start
    meta,     \* the row: [url, key]
    work,     \* the Deployments of app and worker: [sum, replicas]
    runs,     \* what their available pods run: [sum, meta] as of their start
    fresh,    \* the Deployments with a new pod that is not available yet
    ready,    \* the SensitiveDetectorReady condition
    m, pc,    \* pass: the spec it works on, the next call
    exists, configDone, opened, \* pass: locals, and whether the gate was open
    events,
    touched,  \* history: a block was in the spec
    late,     \* history: a pod of a deleted Job has read or written
    unseen    \* history: a pass missed the ConfigMap

world == <<secret, parts, det, detRuns, state, seen, jobs, pods, meta, work, runs, fresh>>
pass  == <<m, pc, exists, configDone, opened>>
hist  == <<events, touched, late, unseen>>
vars  == <<spec, world, ready, pass, hist>>

Roles == {"app", "worker"}
NoPass == [mode |-> "off", suspend |-> FALSE, rotate |-> 0]
NoKey == [name |-> "none", version |-> 0]
NoHash == [mode |-> "off", key |-> NoKey]
AbsentDep == [sum |-> [mode |-> "absent", key |-> NoKey], replicas |-> 0]
Down == [sum |-> AbsentDep.sum, meta |-> [url |-> "unread", key |-> NoKey]]

enabled(sp) == sp.mode # "off"
managed(sp) == sp.mode \in {"generated", "own"}

(* The key that sensitiveDetectorAPIKeySel selects, with its version.      *)
apiKey(mode) == CASE mode = "off" -> NoKey
                  [] mode = "generated" -> [name |-> "generated", version |-> secret.value]
                  [] mode \in {"own", "external"} -> [name |-> mode, version |-> 1]

sensitiveDetectorConfigHash(sp) == [mode |-> sp.mode, key |-> apiKey(sp.mode)]

misskeyChecksum(sp) == IF enabled(sp) THEN sensitiveDetectorConfigHash(sp) ELSE NoHash

renderSensitiveDetectorConfigSQL(sp) == IF enabled(sp) THEN "set" ELSE "reset"

(* What a Job's environment makes the set statement write.                 *)
Row(mode, key) == [url |-> IF mode = "external" THEN "external" ELSE "managed", key |-> key]
ResetRow == [url |-> "none", key |-> NoKey]

Wanted(sp) == IF enabled(sp) THEN Row(sp.mode, apiKey(sp.mode)) ELSE ResetRow

rotationRequested(sp) == sp.rotate # 0 /\ secret.mark # sp.rotate

(***************************************************************************)
(* The pass: its calls in the order of reconcileAll.                       *)
(***************************************************************************)
Goto(l) == pc' = l

Disturbed == events < MaxEvents /\ events' = events + 1 /\ ~late /\ ~unseen

StartPass ==
    /\ pc = "idle"
    /\ m' = spec
    /\ Goto(IF managed(spec) THEN "secret" ELSE "read")
    /\ UNCHANGED <<spec, world, ready, hist, exists, configDone, opened>>

reconcileSensitiveDetectorSecret ==
    /\ pc = "secret" /\ Goto(IF m.suspend THEN "read" ELSE "detector")
    /\ secret' = IF m.mode # "generated" THEN secret
                 ELSE IF secret.value = 0 \/ rotationRequested(m)
                      THEN [value |-> secret.last + 1, mark |-> m.rotate, last |-> secret.last + 1]
                      ELSE secret
    /\ UNCHANGED <<spec, parts, det, detRuns, state, seen, jobs, pods, meta, work, runs, fresh, ready, hist,
                   m, exists, configDone, opened>>

Parts == {"config", "service", "deployment", "pdb"}
ApplyOrder == <<"config", "service", "deployment", "pdb">>
DeleteOrder == <<"deployment", "service", "pdb", "config">>
FirstOf(order, S) == Head(SelectSeq(order, LAMBDA x : x \in S))

(* One of its calls at a time; all of them are made before the next part.  *)
reconcileSensitiveDetector ==
    LET want == [key |-> apiKey(m.mode), replicas |-> 1]
        todo == (Parts \ parts) \cup (IF det # want THEN {"deployment"} ELSE {})
        part == FirstOf(ApplyOrder, todo)
    IN  /\ pc = "detector"
        /\ IF todo # {}
           THEN /\ parts' = parts \cup {part}
                /\ det' = IF part = "deployment" THEN want ELSE det
                /\ UNCHANGED pc
           ELSE Goto("read") /\ UNCHANGED <<parts, det>>
        /\ fresh' = IF det'.key = det.key THEN fresh ELSE fresh \ {"detector"}
        /\ UNCHANGED <<spec, secret, detRuns, state, seen, jobs, pods, meta, work, runs, ready, hist,
                       m, exists, configDone, opened>>

DoneAtOnce(sp, found) == ~enabled(sp) /\ ~found

readSensitiveDetectorConfigState ==
    /\ pc = "read"
    /\ \/ exists' = state.exists /\ UNCHANGED events
       \/ CacheLag /\ seen # state.exists /\ exists' = seen /\ Disturbed
    /\ seen' = state.exists
    /\ configDone' = DoneAtOnce(m, exists')
    /\ unseen' = (unseen \/ (state.exists /\ ~exists'))
    /\ Goto(IF m.suspend THEN "suspendApp" ELSE "gate")
    /\ UNCHANGED <<spec, secret, parts, det, detRuns, state, jobs, pods, meta, work, runs, fresh, ready, m, opened,
                   touched, late>>

(* Scales every Deployment there is to zero, one after the other.          *)
suspendWorkload(r, here, next) ==
    /\ pc = here /\ Goto(next)
    /\ work' = [work EXCEPT ![r].replicas = 0]
    /\ UNCHANGED <<spec, secret, parts, det, detRuns, state, seen, jobs, pods, meta, runs, fresh, ready, hist,
                   m, exists, configDone, opened>>

suspendDetector ==
    /\ pc = "suspendDetector" /\ Goto("finalize")
    /\ det' = IF managed(m) /\ "deployment" \in parts THEN [det EXCEPT !.replicas = 0] ELSE det
    /\ UNCHANGED <<spec, secret, parts, detRuns, state, seen, jobs, pods, meta, work, runs, fresh, ready, hist,
                   m, exists, configDone, opened>>

suspendWorkloads ==
    \/ suspendWorkload("app", "suspendApp", "suspendWorker")
    \/ suspendWorkload("worker", "suspendWorker", "suspendDetector")
    \/ suspendDetector

(* Slip: the configuration is not skipped for a spec that never had one.   *)
ConfigureAlways == TRUE

NeedsConfig == enabled(m) \/ exists

(* The database is ready and the migration complete, or not yet.           *)
PassGate ==
    /\ pc = "gate"
    /\ \/ opened' = TRUE /\ Goto(IF NeedsConfig THEN "jobs" ELSE "roll") /\ UNCHANGED events
       \/ opened' = FALSE /\ Goto("finalize") /\ Disturbed
    /\ UNCHANGED <<spec, world, ready, m, exists, configDone, touched, late, unseen>>

Orphans(S) == {[p EXCEPT !.owned = p.owned /\ \E j \in S : j.hash = p.hash] : p \in pods}

KeptJobs == {j \in jobs : j.hash = sensitiveDetectorConfigHash(m)}

cleanupSensitiveDetectorConfigJobs ==
    /\ pc = "jobs" /\ Goto("state")
    /\ jobs' = KeptJobs
    /\ pods' = Orphans(jobs')
    /\ UNCHANGED <<spec, secret, parts, det, detRuns, state, seen, meta, work, runs, fresh, ready, hist,
                   m, exists, configDone, opened>>

ApplyConfigState ==
    /\ pc = "state" /\ Goto("job")
    /\ state' = [exists |-> TRUE, sql |-> renderSensitiveDetectorConfigSQL(m),
                 hash |-> sensitiveDetectorConfigHash(m)]
    /\ exists' = TRUE
    /\ UNCHANGED <<spec, secret, parts, det, detRuns, seen, jobs, pods, meta, work, runs, fresh, ready, hist,
                   m, configDone, opened>>

JobDone(h) == \E j \in jobs : j.hash = h /\ j.done

(* Slip: the Job counts as done once it exists.                            *)
JobFound(h) == \E j \in jobs : j.hash = h

JobSucceeded(h) == JobDone(h)

reconcileSensitiveDetectorConfig ==
    LET h == sensitiveDetectorConfigHash(m) IN
    /\ pc = "job"
    /\ configDone' = JobSucceeded(h)
    /\ IF \E j \in jobs : j.hash = h THEN UNCHANGED <<jobs, pods>>
       ELSE /\ jobs' = jobs \cup {[hash |-> h, done |-> FALSE]}
            /\ pods' = pods \cup {[hash |-> h, sql |-> "unread", key |-> NoKey, owned |-> TRUE]}
    /\ Goto(IF configDone' THEN "roll" ELSE "finalize")
    /\ UNCHANGED <<spec, secret, parts, det, detRuns, state, seen, meta, work, runs, fresh, ready, hist,
                   m, exists, opened>>

(* Object storage written and Redis ready, or not yet.                     *)
RollGate ==
    /\ pc = "roll"
    /\ \/ Goto("app") /\ UNCHANGED events
       \/ Goto("finalize") /\ Disturbed
    /\ UNCHANGED <<spec, world, ready, m, exists, configDone, opened, touched, late, unseen>>

Roll(r, next) ==
    /\ pc = r /\ Goto(next)
    /\ work' = [work EXCEPT ![r] = [sum |-> misskeyChecksum(m), replicas |-> 1]]
    /\ fresh' = IF work'[r].sum = work[r].sum THEN fresh ELSE fresh \ {r}
    /\ UNCHANGED <<spec, secret, parts, det, detRuns, state, seen, jobs, pods, meta, runs, ready, hist,
                   m, exists, configDone, opened>>

(* updatedReplicas counts a new pod from its creation, availableReplicas   *)
(* an old one until it is taken down: one of each is enough.               *)
misskeyWorkloadsConverged ==
    \A r \in Roles :
        /\ work[r].sum = misskeyChecksum(m)
        /\ \/ work[r].replicas = 0
           \/ (r \in fresh \/ runs[r].sum = work[r].sum) /\ runs[r] # Down

sensitiveDetectorConverged ==
    /\ "deployment" \in parts
    /\ \/ det.replicas = 0
       \/ ("detector" \in fresh \/ detRuns = det.key) /\ detRuns # NoKey

sensitiveDetectorConfigComplete == state.exists /\ JobDone(state.hash)

(* Slip: the Job of the present spec is not waited for.                    *)
FinalizeUnconfigured ==
    IF ~misskeyWorkloadsConverged THEN "status"
    ELSE IF ~managed(m) THEN "parts"
    ELSE IF m.mode = "own" /\ sensitiveDetectorConverged THEN "ownSecret" ELSE "status"

(* Slip: the managed detector goes with the block only.                    *)
FinalizeOff ==
    IF ~(configDone /\ misskeyWorkloadsConverged) THEN "status"
    ELSE IF ~enabled(m) THEN "parts"
    ELSE IF m.mode = "own" /\ sensitiveDetectorConverged THEN "ownSecret" ELSE "status"

FinalizeNext ==
    IF ~(configDone /\ misskeyWorkloadsConverged) THEN "status"
    ELSE IF ~managed(m) THEN "parts"
    ELSE IF m.mode = "own" /\ sensitiveDetectorConverged THEN "ownSecret" ELSE "status"

finalizeSensitiveDetectorCleanup ==
    /\ pc = "finalize" /\ Goto(FinalizeNext)
    /\ UNCHANGED <<spec, world, ready, hist, m, exists, configDone, opened>>

(* cleanupSensitiveDetector, a call at a time.                             *)
cleanupSensitiveDetector ==
    /\ pc = "parts"
    /\ IF parts = {} THEN Goto("secretGone") /\ UNCHANGED parts
       ELSE parts' = parts \ {FirstOf(DeleteOrder, parts)} /\ UNCHANGED pc
    /\ detRuns' = IF "deployment" \in parts' THEN detRuns ELSE NoKey
    /\ det' = IF "deployment" \in parts' THEN det ELSE [key |-> NoKey, replicas |-> 0]
    /\ fresh' = IF "deployment" \in parts' THEN fresh ELSE fresh \ {"detector"}
    /\ UNCHANGED <<spec, secret, state, seen, jobs, pods, meta, work, runs, ready, hist,
                   m, exists, configDone, opened>>

cleanupGeneratedSensitiveDetectorSecret ==
    /\ pc \in {"ownSecret", "secretGone"}
    /\ secret' = [secret EXCEPT !.value = 0, !.mark = 0]
    /\ Goto(IF pc = "secretGone" /\ ~enabled(m) THEN "jobsGone" ELSE "status")
    /\ UNCHANGED <<spec, parts, det, detRuns, state, seen, jobs, pods, meta, work, runs, fresh, ready, hist,
                   m, exists, configDone, opened>>

cleanupSensitiveDetectorConfigState ==
    /\ \/ /\ pc = "jobsGone" /\ Goto("stateGone")
          /\ jobs' = {} /\ pods' = Orphans({})
          /\ UNCHANGED <<state, exists>>
       \/ /\ pc = "stateGone" /\ Goto("status")
          /\ state' = [exists |-> FALSE, sql |-> "reset", hash |-> NoHash]
          /\ exists' = FALSE
          /\ UNCHANGED <<jobs, pods>>
    /\ UNCHANGED <<spec, secret, parts, det, detRuns, seen, meta, work, runs, fresh, ready, hist,
                   m, configDone, opened>>

deploymentReady == "deployment" \in parts /\ det.replicas > 0 /\ detRuns # NoKey

(* Slip: the Job of the desired hash need only exist.                      *)
ConditionConfiguring(sp) ==
    enabled(sp) /\ state.exists /\ (managed(sp) => deploymentReady)

sensitiveDetectorCondition(sp) ==
    enabled(sp) /\ sensitiveDetectorConfigComplete /\ (managed(sp) => deploymentReady)

updateStatus ==
    /\ pc = "status" /\ Goto("idle")
    /\ ready' = sensitiveDetectorCondition(m)
    /\ m' = NoPass /\ exists' = FALSE /\ configDone' = FALSE /\ opened' = FALSE
    /\ UNCHANGED <<spec, world, hist>>

(* A call fails and the rest of the pass is skipped.  Before the cleanup   *)
(* it is one of reconcileProxy, reconcileIngress and reconcileMonitoring.  *)
CallFails ==
    /\ pc \notin {"idle", "gate", "roll", "status"}
    /\ Disturbed
    /\ opened' = FALSE /\ Goto("status")
    /\ UNCHANGED <<spec, world, ready, m, exists, configDone, touched, late, unseen>>

(***************************************************************************)
(* The cluster and the user.  Their steps are taken where the pass may see *)
(* the difference: a step elsewhere commutes with the calls of the pass up *)
(* to such a point.                                                        *)
(***************************************************************************)
EditSpec ==
    /\ pc = "idle"
    /\ Disturbed
    /\ \/ \E mode \in Modes \ {spec.mode} : spec' = [spec EXCEPT !.mode = mode]
       \/ \E suspend \in Suspends \ {spec.suspend} : spec' = [spec EXCEPT !.suspend = suspend]
       \/ spec' = [spec EXCEPT !.rotate = @ + 1]
    /\ touched' = (touched \/ enabled(spec'))
    /\ UNCHANGED <<world, ready, pass, late, unseen>>

(* A pod starts once the ConfigMap and the Secret it uses are there: it    *)
(* mounts the SQL and takes the key as they are at that moment.            *)
PodStarts(p) ==
    /\ pc = "idle" \/ (p.owned /\ pc = "jobs")
    /\ p.sql = "unread" /\ state.exists
    /\ p.hash.mode = "generated" => secret.value # 0
    /\ pods' = (pods \ {p}) \cup {[p EXCEPT !.sql = state.sql, !.key = apiKey(p.hash.mode)]}
    /\ late' = (late \/ ~p.owned)
    /\ UNCHANGED <<spec, secret, parts, det, detRuns, state, seen, jobs, meta, work, runs, fresh, ready, pass,
                   events, touched, unseen>>

(* The transaction commits.  psql stops at the set statement when the      *)
(* Job's environment lacks its variables; the pod then starts again.       *)
PodCommits(p) ==
    /\ IF p.owned THEN pc \in {"jobs", "job"} ELSE pc = "idle"
    /\ p.sql # "unread"
    /\ IF p.sql = "set" /\ p.hash.mode = "off"
       THEN /\ pods' = (pods \ {p}) \cup {[p EXCEPT !.sql = "unread"]}
            /\ UNCHANGED <<meta, jobs, late>>
       ELSE /\ pods' = pods \ {p}
            /\ meta' = IF p.sql = "reset" THEN ResetRow ELSE Row(p.hash.mode, p.key)
            /\ jobs' = {IF p.owned /\ j.hash = p.hash THEN [j EXCEPT !.done = TRUE] ELSE j : j \in jobs}
            /\ late' = (late \/ ~p.owned)
    /\ UNCHANGED <<spec, secret, parts, det, detRuns, state, seen, work, runs, fresh, ready, pass,
                   events, touched, unseen>>

PodCollected(p) ==
    /\ pc = "idle"
    /\ ~p.owned /\ pods' = pods \ {p}
    /\ UNCHANGED <<spec, secret, parts, det, detRuns, state, seen, jobs, meta, work, runs, fresh, ready, pass, hist>>

Lagging == {r \in Roles : work[r].replicas > 0 /\ runs[r].sum # work[r].sum}
           \cup {d \in {"detector"} : det.replicas > 0 /\ detRuns # det.key}

(* Deployments are rolled: pods of the present templates are created; once *)
(* one is available the pod before it goes.                                *)
PodsCreated ==
    /\ pc = "finalize"
    /\ ~(Lagging \subseteq fresh) /\ fresh' = fresh \cup Lagging
    /\ UNCHANGED <<spec, secret, parts, det, detRuns, state, seen, jobs, pods, meta, work, runs, ready, pass, hist>>

RollPods(r) ==
    /\ pc = "finalize"
    /\ \/ work[r].replicas = 0 /\ runs[r] # Down /\ runs' = [runs EXCEPT ![r] = Down]
       \/ /\ work[r].replicas > 0 /\ r \in fresh
          /\ runs' = [runs EXCEPT ![r] = [sum |-> work[r].sum, meta |-> meta]]
    /\ fresh' = fresh \ {r}
    /\ UNCHANGED <<spec, secret, parts, det, detRuns, state, seen, jobs, pods, meta, work, ready, pass, hist>>

DetectorRolls ==
    /\ pc = "finalize"
    /\ \/ det.replicas = 0 /\ detRuns # NoKey /\ detRuns' = NoKey
       \/ /\ det.replicas > 0 /\ "detector" \in fresh
          /\ det.key.name = "generated" => secret.value # 0
          /\ detRuns' = det.key
    /\ fresh' = fresh \ {"detector"}
    /\ UNCHANGED <<spec, secret, parts, det, state, seen, jobs, pods, meta, work, runs, ready, pass, hist>>

(***************************************************************************)
(* The specification.                                                      *)
(***************************************************************************)
Init ==
    /\ spec \in [mode : FirstModes, suspend : {FALSE}, rotate : {0}]
    /\ secret = [value |-> 0, mark |-> 0, last |-> 0]
    /\ parts = {} /\ det = [key |-> NoKey, replicas |-> 0] /\ detRuns = NoKey
    /\ state = [exists |-> FALSE, sql |-> "reset", hash |-> NoHash] /\ seen = FALSE
    /\ jobs = {} /\ pods = {}
    /\ meta = [url |-> "user", key |-> NoKey]
    /\ \/ work = [r \in Roles |-> AbsentDep] /\ runs = [r \in Roles |-> Down]
       \/ /\ work = [r \in Roles |-> [sum |-> NoHash, replicas |-> 1]]
          /\ runs = [r \in Roles |-> [sum |-> NoHash, meta |-> meta]]
    /\ fresh = {}
    /\ ready = FALSE
    /\ m = NoPass /\ pc = "idle" /\ exists = FALSE /\ configDone = FALSE /\ opened = FALSE
    /\ events = 0
    /\ touched = (spec.mode # "off") /\ late = FALSE /\ unseen = FALSE

Pass ==
    \/ StartPass \/ reconcileSensitiveDetectorSecret \/ reconcileSensitiveDetector
    \/ readSensitiveDetectorConfigState \/ suspendWorkloads \/ PassGate
    \/ cleanupSensitiveDetectorConfigJobs \/ ApplyConfigState \/ reconcileSensitiveDetectorConfig
    \/ RollGate \/ Roll("app", "worker") \/ Roll("worker", "finalize")
    \/ finalizeSensitiveDetectorCleanup \/ cleanupSensitiveDetector
    \/ cleanupGeneratedSensitiveDetectorSecret \/ cleanupSensitiveDetectorConfigState
    \/ updateStatus

OrphanRuns == \E p \in pods : ~p.owned /\ (PodStarts(p) \/ PodCommits(p))

Settling ==
    \/ \E p \in pods : p.owned /\ (PodStarts(p) \/ PodCommits(p))
    \/ \E p \in pods : PodCollected(p)
    \/ PodsCreated
    \/ \E r \in Roles : RollPods(r)
    \/ DetectorRolls

Next == Pass \/ CallFails \/ EditSpec \/ OrphanRuns \/ Settling

Spec == Init /\ [][Next]_vars

(* The controller keeps working; Jobs, Deployments, the collector and the  *)
(* cache make progress.  Nothing makes the user edit or a call fail.       *)
FairSpec == Spec /\ WF_vars(Pass) /\ SF_vars(Settling)

(***************************************************************************)
(* Properties.                                                             *)
(***************************************************************************)
Excused == late \/ unseen

(* The rows that pods of a checksum are rolled for.                        *)
RowsOf(sum) == IF sum.mode = "off" THEN {ResetRow, [url |-> "user", key |-> NoKey]}
               ELSE {Row(sum.mode, sum.key)}

(* The rows in use: the table's, and what running pods have read.  Left    *)
(* out are pods that came up between the commit of a row and the rollout   *)
(* that belongs to it: their checksum stands for another row.              *)
RowsInUse == {meta} \cup {runs[r].meta : r \in {q \in Roles : runs[q].meta \in RowsOf(runs[q].sum)}}

(* Without a sensitiveDetector block in the spec the operator never writes *)
(* the row, so what the administrator has set there stays (the early       *)
(* return of reconcileSensitiveDetectorConfig).                            *)
UntouchedWithoutBlock == ~touched => meta.url = "user" /\ jobs = {}

(* App and worker get a checksum with a detector only after the row says   *)
(* what that checksum stands for: the pods that start then read it.        *)
ConfiguredBeforeRollout ==
    [][\A r \in Roles : work'[r].sum # work[r].sum /\ work'[r].replicas > 0
          => Excused \/ meta = Wanted(m) \/ (~enabled(m) /\ meta.url = "user")]_vars

(* The row never points to a managed detector that is not there, nor holds *)
(* a generated key whose Secret is gone, whatever edits, failed calls and  *)
(* closed gates cut a change of the detector short: a detector is made     *)
(* before its Job and removed after the Job of the spec that gives it up   *)
(* (reconcileAll, finalizeSensitiveDetectorCleanup).                       *)
RowIsServed ==
    \/ Excused
    \/ /\ meta.url = "managed" => {"deployment", "service"} \subseteq parts
       /\ meta.key.name = "generated" => secret.value # 0

(* The managed detector and the generated key are kept until the pods that *)
(* were rolled for them are gone, as README.md:409-410 and the comment of  *)
(* finalizeSensitiveDetectorCleanup say: they go after app and worker have *)
(* been updated.                                                           *)
KeptWhileUsed ==
    [][/\ (parts \ parts') \cap {"deployment", "service"} # {}
             => Excused \/ \A row \in RowsInUse : row.url # "managed"
       /\ secret'.value = 0 /\ secret.value # 0
             => Excused \/ (/\ \A row \in RowsInUse : row.key.name # "generated"
                            /\ detRuns.name # "generated")]_vars

(* Whenever a pass reports the detector ready, gates closed and calls      *)
(* failed or not, the row points to the detector that the config ConfigMap *)
(* records, with that detector's key; and the row is the one of the pass'  *)
(* own spec when it got past its gates (sensitiveDetectorCondition).       *)
ReadyIsConfigured ==
    [][pc = "status" /\ pc' = "idle" /\ ready' =>
          \/ Excused
          \/ /\ \E row \in RowsOf(state.hash) : meta.url = row.url /\ meta.key.name = row.key.name
             /\ opened => meta = Wanted(m)]_vars

SettledOff ==
    /\ parts = {} /\ secret.value = 0 /\ ~state.exists /\ jobs = {}
    /\ \A row \in RowsInUse : row.url \in {"user", "none"}

SettledOn ==
    /\ ready /\ RowsInUse = {Wanted(spec)}
    /\ \A r \in Roles : runs[r].sum = misskeyChecksum(spec)
    /\ secret.value # 0 <=> spec.mode = "generated"
    /\ IF managed(spec) THEN detRuns = apiKey(spec.mode) ELSE parts = {}

(* Once the user stops editing, the row, the pods that read it and the     *)
(* detector come to what the spec asks for, and what a former spec had     *)
(* made is gone; a suspended instance has no pod left.                     *)
DetectorSettles ==
    <>[](\/ Excused
         \/ spec.suspend /\ (\A r \in Roles : runs[r] = Down) /\ (managed(spec) => detRuns = NoKey)
         \/ ~spec.suspend /\ (IF enabled(spec) THEN SettledOn ELSE SettledOff))
=============================================================================
