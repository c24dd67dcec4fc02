------------------------------ MODULE Instance ------------------------------
(***************************************************************************)
(* One Misskey instance and everything reconcileAll keeps around it: a     *)
(* pass executes the calls of module Children one at a time, while the     *)
(* user edits the spec and rotates credentials, backends and workloads     *)
(* come up and restart, autoscalers rescale the Deployments, and any call  *)
(* of the pass may fail and end it.                                        *)
(*                                                                         *)
(* The migration, the pre-migration backup, the verification of backups    *)
(* and the sensitive detector are modules of their own; here a migration   *)
(* is a condition of the environment.  Calls that leave the cluster as it  *)
(* is are passed over in the same step as the call before them.            *)
(***************************************************************************)
EXTENDS Traffic

CONSTANTS
    Specs,      \* the specs the user may ask for, by name
    FirstSpecs, \* the ones the instance may be created with
    Moves,      \* the edits the user may make, from one spec to another
    MaxEdits,   \* edits of the spec and of the storage credentials
    MaxFaults,  \* failing calls and reads
    MaxReplicas \* what an autoscaler may scale to

ASSUME InstanceAssumption ==
    /\ \A n \in DOMAIN Specs : Specs[n] \in SpecType
    /\ FirstSpecs \subseteq DOMAIN Specs /\ Moves \subseteq (DOMAIN Specs) \X (DOMAIN Specs)
    /\ MaxEdits \in Nat /\ MaxFaults \in Nat /\ MaxReplicas \in Nat \ {0}

VARIABLES
    spec,     \* the name of the Misskey's spec, its rotate annotation included
    doing,    \* the one that the current pass works on
    pc,       \* the call of the pass that is next, 0 between passes
    objs,     \* the objects of the cluster with their contents
    running,  \* the workloads whose pods are up, with the template they run
    migrated, \* the migration of the image is complete
    cred,     \* the version of the object storage credentials
    hash,     \* pass: the hash of the object storage Job
    objReady, \* pass: the object storage Job was found done
    scaling,  \* the replicas an autoscaler is about to write, 0 if none
    phase,    \* status.phase
    edits, faults,
    asked,    \* history: rotations asked for since the creation
    due       \* history: the roles whose checksum was not computed, or was
              \* computed from a failing read, since the last change of its inputs

vars == <<spec, doing, pc, objs, running, migrated, cred, hash, objReady, scaling, phase, edits, faults,
          asked, due>>

envs == <<spec, migrated, cred, edits, asked>>

None == "none"
Missing == [value |-> 0, mark |-> 0]
NoHash == [bucket |-> None, cred |-> 0]
Dep(r) == <<"Deployment", r, "">>
Cluster == <<"Cluster", "db", "">>
StorageJob == <<"Job", "objstorage", "">>
RedisForm(sp, s) == IF sp.redis[s] = "ha" THEN <<"RedisReplication", "redis-ha", s>>
                                         ELSE <<"StatefulSet", "redis", s>>

(* The calls of a pass for every spec.                                     *)
Program == [n \in DOMAIN Specs |-> reconcileAll(Specs[n])]
now == Specs[spec]
cur == Specs[doing]

Has(o) == o \in DOMAIN objs
Up(o) == o \in DOMAIN running
Without(f, o) == [x \in DOMAIN f \ {o} |-> f[x]]
With(f, o, v) == [x \in DOMAIN f \cup {o} |-> IF x = o THEN v ELSE f[x]]

(***************************************************************************)
(* What a call reads.                                                      *)
(***************************************************************************)
rotationRequested(sp, secret) == sp.rotate # 0 /\ secret.mark # sp.rotate

(* Slip: the request is not recorded on the Secret.                        *)
markNothing(sp, secret) == secret.mark

markRotation(sp, secret) == IF sp.rotate = 0 THEN secret.mark ELSE sp.rotate

(* The content that a generated Secret of spec sp gets, among objects o.   *)
Generated(c, o, sp) ==
    LET old == IF c.obj \in DOMAIN o THEN o[c.obj] ELSE Missing
    IN  [value |-> IF old.value = 0 \/ rotationRequested(sp, old) THEN old.value + 1 ELSE old.value,
         mark  |-> markRotation(sp, old)]

(* CNPG writes db-app as it brings the cluster up; the user's Secrets      *)
(* exist and do not change.                                                *)
secretVersion(n, o) ==
    CASE <<"Secret", n, "">> \in DOMAIN o -> o[<<"Secret", n, "">>]
      [] n = "db-app" /\ Up(Cluster) -> [value |-> 1, mark |-> 0]
      [] n \in {"user-db", "user-redis", "user-meili", "user-setup"} -> [value |-> 1, mark |-> 0]
      [] OTHER -> Missing

(* The template of a StatefulSet: its Secret's version is in it.           *)
Stateful(c, o) == [secret |-> c.val.secret, exporter |-> c.val.exporter,
                   version |-> secretVersion(c.val.secret, o)]

(* A blind read takes an error for a missing Secret.                       *)
objectStorageHash(sp, blind) ==
    IF resolve(sp).objAutoConfigure
    THEN [bucket |-> sp.storage, cred |-> IF blind THEN 0 ELSE cred]
    ELSE NoHash

(* Slip: the checksum takes over the hash that the Job was named after.    *)
misskeyChecksumOfJob(sp, blind) ==
    [yml |-> renderDefaultYML(sp, resolve(sp)),
     secrets |-> [n \in referencedSecretNames(resolve(sp)) |-> secretVersion(n, objs)],
     obj |-> hash]

misskeyChecksum(sp, blind) ==
    [yml |-> renderDefaultYML(sp, resolve(sp)),
     secrets |-> [n \in referencedSecretNames(resolve(sp)) |-> secretVersion(n, objs)],
     obj |-> objectStorageHash(sp, blind)]

(* Slip: an autoscaled Deployment's replicas are never touched.            *)
resumeNothing(sp, r) ==
    CASE sp.scale[r] = "static" -> 1
      [] sp.scale[r] # "static" /\ ~Has(Dep(r)) -> 1
      [] sp.scale[r] # "static" /\ Has(Dep(r)) -> objs[Dep(r)].replicas

(* The replicas that a rollout leaves: one when static, created without a  *)
(* number, or at zero; else what the autoscaler has set.                   *)
resumeReplicas(sp, r) ==
    IF sp.scale[r] = "static" \/ ~Has(Dep(r)) \/ objs[Dep(r)].replicas = 0
    THEN 1 ELSE objs[Dep(r)].replicas

(***************************************************************************)
(* The conditions that gate a pass and make up the status.                 *)
(***************************************************************************)
databaseReady(sp) ==
    resolve(sp).dbManaged => Up(Cluster) /\ (sp.replicas => running[Cluster].replicas)

redisReady(sp) == \A s \in managedRedisInstances(sp) : Up(RedisForm(sp, s))

deploymentReady(r) == Has(Dep(r)) /\ Up(Dep(r))

objectStorageCondition(sp) ==
    resolve(sp).objAutoConfigure =>
        Has(StorageJob) /\ objs[StorageJob].done /\ objs[StorageJob].hash = objectStorageHash(sp, FALSE)

Ready(sp) ==
    /\ databaseReady(sp) /\ redisReady(sp)
    /\ resolve(sp).meiliManaged => Up(<<"StatefulSet", "meilisearch", "">>)
    /\ migrated /\ objectStorageCondition(sp)
    /\ deploymentReady("app") /\ objs[Dep("app")].replicas # 0
    /\ deploymentReady("worker") /\ objs[Dep("worker")].replicas # 0
    /\ sp.proxy => deploymentReady("proxy")
    /\ sp.ingress => Has(<<"Ingress", "ingress", "">>)

updateStatus(sp) == CASE sp.suspend -> "Suspended"
                      [] ~sp.suspend /\ Ready(sp) -> "Running"
                      [] ~sp.suspend /\ ~Ready(sp) -> "Progressing"

(***************************************************************************)
(* The pass.                                                               *)
(***************************************************************************)
(* Whether call c for spec sp does anything, or reads something that moves *)
(* without the operator.                                                   *)
Stops(c, o, sp) ==
    CASE c.op = "delete" -> c.obj \in DOMAIN o
      [] c.op = "apply"  -> c.obj \notin DOMAIN o \/ o[c.obj] # c.val
      [] c.op = "sts"    -> c.obj \notin DOMAIN o \/ o[c.obj] # Stateful(c, o)
      [] c.op = "secret" -> c.obj \notin DOMAIN o \/ o[c.obj] # Generated(c, o, sp)
      [] OTHER -> TRUE

(* The first call of pass n from position i on that stops, among objects o.*)
Skip(n, o, i) ==
    LET next[j \in Nat] == IF j > Len(Program[n]) \/ Stops(Program[n][j], o, Specs[n]) THEN j ELSE next[j + 1]
    IN  next[i]

At(op) == pc \in 1 .. Len(Program[doing]) /\ Program[doing][pc].op = op
Current == Program[doing][pc]

StartPass ==
    /\ pc = 0
    /\ doing' = spec /\ hash' = NoHash /\ objReady' = TRUE
    /\ pc' = Skip(spec, objs, 1)
    /\ UNCHANGED <<objs, running, scaling, phase, faults, due, envs>>

(* A call that leaves objs with the objects o.                             *)
Write(o) ==
    /\ objs' = o /\ pc' = Skip(doing, objs', pc + 1)
    /\ running' = [w \in DOMAIN running \cap DOMAIN objs' |-> running[w]]
    /\ UNCHANGED <<doing, phase, envs>>

ApplyObject ==
    /\ At("apply") /\ Write(With(objs, Current.obj, Current.val))
    /\ UNCHANGED <<hash, objReady, scaling, faults, due>>

ApplyStatefulSet ==
    /\ At("sts") /\ Write(With(objs, Current.obj, Stateful(Current, objs)))
    /\ UNCHANGED <<hash, objReady, scaling, faults, due>>

GenerateSecret ==
    /\ At("secret") /\ Write(With(objs, Current.obj, Generated(Current, objs, cur)))
    /\ UNCHANGED <<hash, objReady, scaling, faults, due>>

DeleteObject ==
    /\ At("delete") /\ Write(Without(objs, Current.obj))
    /\ UNCHANGED <<hash, objReady, scaling, faults, due>>

(* A read that fails without an error being returned takes one fault.      *)
MayBeBlind(blind) == faults + (IF blind THEN 1 ELSE 0) <= MaxFaults /\ faults' = faults + (IF blind THEN 1 ELSE 0)

(* Writing the Deployment makes an autoscaler's pending write conflict.    *)
ApplyDeployment(blind) ==
    /\ At("deploy") /\ (blind => resolve(cur).objAutoConfigure)
    /\ MayBeBlind(blind)
    /\ LET r == Current.obj[2] IN
       /\ Write(With(objs, Dep(r), [replicas |-> resumeReplicas(cur, r), sum |-> misskeyChecksum(cur, blind)]))
       /\ scaling' = [scaling EXCEPT ![r] = IF Has(Dep(r)) /\ objs'[Dep(r)] = objs[Dep(r)] THEN @ ELSE 0]
       /\ due' = IF blind THEN due \cup {r} ELSE due \ {r}
    /\ UNCHANGED <<hash, objReady>>

ScaleToZero ==
    /\ At("zero")
    /\ LET r == Current.obj[2] IN
       IF Has(Dep(r)) /\ objs[Dep(r)].replicas # 0
       THEN /\ Write(With(objs, Dep(r), [objs[Dep(r)] EXCEPT !.replicas = 0]))
            /\ scaling' = [scaling EXCEPT ![r] = 0]
       ELSE Write(objs) /\ UNCHANGED scaling
    /\ UNCHANGED <<hash, objReady, faults, due>>

ReadHash(blind) ==
    /\ At("hash") /\ MayBeBlind(blind)
    /\ hash' = objectStorageHash(cur, blind)
    /\ Write(objs) /\ UNCHANGED <<objReady, scaling, due>>

cleanupObjectStorageJobs ==
    /\ At("stale")
    /\ Write(IF Has(StorageJob) /\ objs[StorageJob].hash # hash THEN Without(objs, StorageJob) ELSE objs)
    /\ UNCHANGED <<hash, objReady, scaling, faults, due>>

(* Slip: a Job that exists counts as one that has finished.                *)
EnsureStorageJobExists ==
    /\ At("job")
    /\ objReady' = TRUE
    /\ Write(IF Has(StorageJob) THEN objs ELSE With(objs, StorageJob, [hash |-> hash, done |-> FALSE]))
    /\ UNCHANGED <<hash, scaling, faults, due>>

EnsureStorageJob ==
    /\ At("job")
    /\ objReady' = (Has(StorageJob) /\ objs[StorageJob].done)
    /\ Write(IF Has(StorageJob) THEN objs ELSE With(objs, StorageJob, [hash |-> hash, done |-> FALSE]))
    /\ UNCHANGED <<hash, scaling, faults, due>>

Open(cond) == CASE cond = "migrated" -> databaseReady(cur) /\ migrated
                [] cond = "rollout" -> objReady /\ redisReady(cur)

PassGate ==
    /\ At("gate")
    /\ pc' = Skip(doing, objs, IF Open(Current.obj[2]) THEN pc + 1 ELSE pc + 1 + Current.val)
    /\ UNCHANGED <<doing, objs, running, hash, objReady, scaling, phase, faults, due, envs>>

EndPass ==
    /\ pc > Len(Program[doing])
    /\ pc' = 0 /\ phase' = updateStatus(cur)
    /\ UNCHANGED <<doing, objs, running, hash, objReady, scaling, faults, due, envs>>

(* A call fails and the pass ends with its error, or the operator dies.    *)
CallFails ==
    /\ pc \in 1 .. Len(Program[doing]) /\ faults < MaxFaults
    /\ pc' = 0 /\ faults' = faults + 1
    /\ phase' \in {phase, "Error"}
    /\ UNCHANGED <<doing, objs, running, hash, objReady, scaling, due, envs>>

(***************************************************************************)
(* The environment.  A step of it is taken where the pass next reads what  *)
(* the step changes: at that call or gate, or before the status is written.*)
(***************************************************************************)
AtEnd == pc > Len(Program[doing])
AtGate(cond) == At("gate") /\ Current.obj[2] = cond

(* A pass works on the spec it has read: an edit counts from the next one. *)
EditSpec(n) ==
    /\ pc = 0 /\ edits < MaxEdits
    /\ <<spec, n>> \in Moves /\ Valid(Specs[n]) /\ validate(Specs[n])
    /\ spec' = n /\ edits' = edits + 1
    /\ due' = Roles
    /\ asked' = IF Specs[n].rotate \notin {0, now.rotate} THEN asked + 1 ELSE asked
    /\ UNCHANGED <<doing, pc, objs, running, migrated, cred, hash, objReady, scaling, phase, faults>>

RotateCredentials ==
    /\ At("hash") \/ At("deploy") \/ AtEnd
    /\ edits < MaxEdits /\ resolve(now).objAutoConfigure
    /\ cred' = cred + 1 /\ edits' = edits + 1 /\ due' = Roles
    /\ UNCHANGED <<spec, doing, pc, objs, running, migrated, hash, objReady, scaling, phase, faults, asked>>

Pods(o) == IF o \in {Dep(r) : r \in Roles} THEN objs[o].sum ELSE objs[o]
Scaled(o) == o \in {Dep(r) : r \in Roles} => objs[o].replicas # 0

(* Deployments and the cluster are updated without an interruption; the    *)
(* pods of a Redis or of Meilisearch go down first.                        *)
MovePods(o) ==
    /\ \/ AtEnd
       \/ AtGate("migrated") /\ o[1] = "Cluster"
       \/ AtGate("rollout") /\ o[2] \in {"redis", "redis-ha"}
    /\ Has(o) /\ o[1] \in {"Cluster", "StatefulSet", "RedisReplication", "Deployment"}
    /\ running' =
          CASE ~Scaled(o) -> Without(running, o)
            [] Scaled(o) /\ (~Up(o) \/ o[1] \in {"Deployment", "Cluster"}) -> With(running, o, Pods(o))
            [] OTHER -> IF running[o] = Pods(o) THEN running ELSE Without(running, o)
    /\ running' # running
    /\ UNCHANGED <<doing, pc, objs, hash, objReady, scaling, phase, faults, due, envs>>

(* The migration that module MisskeyReconcile is about.                    *)
Migrate ==
    /\ AtGate("migrated") /\ ~migrated /\ databaseReady(cur)
    /\ migrated' = TRUE
    /\ UNCHANGED <<spec, doing, pc, objs, running, cred, hash, objReady, scaling, phase, edits, faults, asked, due>>

CompleteStorageJob ==
    /\ At("job") \/ AtEnd
    /\ Has(StorageJob) /\ ~objs[StorageJob].done
    /\ objs' = With(objs, StorageJob, [objs[StorageJob] EXCEPT !.done = TRUE])
    /\ UNCHANGED <<doing, pc, running, hash, objReady, scaling, phase, faults, due, envs>>

(* An HPA leaves a Deployment at zero alone; KEDA also scales up from zero.*)
ScalerReads(r, n) ==
    /\ \/ AtEnd
       \/ At("delete") /\ Current.obj \in {<<"HPA", r, "">>, <<"ScaledObject", r, "">>}
    /\ scaling[r] = 0 /\ Has(Dep(r)) /\ n # objs[Dep(r)].replicas
    /\ \/ Has(<<"HPA", r, "">>) /\ objs[Dep(r)].replicas # 0
       \/ Has(<<"ScaledObject", r, "">>)
    /\ scaling' = [scaling EXCEPT ![r] = n]
    /\ UNCHANGED <<doing, pc, objs, running, hash, objReady, phase, faults, due, envs>>

ScalerWrites(r) ==
    /\ \/ AtEnd
       \/ (At("deploy") \/ At("zero")) /\ Current.obj = Dep(r)
    /\ scaling[r] # 0
    /\ objs' = With(objs, Dep(r), [objs[Dep(r)] EXCEPT !.replicas = scaling[r]])
    /\ scaling' = [scaling EXCEPT ![r] = 0]
    /\ UNCHANGED <<doing, pc, running, hash, objReady, phase, faults, due, envs>>

Init ==
    /\ spec \in FirstSpecs /\ doing = spec /\ pc = 0
    /\ objs = <<>> /\ running = <<>>
    /\ migrated = FALSE /\ cred = 1 /\ hash = NoHash /\ objReady = TRUE
    /\ scaling = [r \in Roles |-> 0] /\ phase = "New"
    /\ edits = 0 /\ faults = 0 /\ asked = IF now.rotate = 0 THEN 0 ELSE 1
    /\ due = Roles

Pass == \/ StartPass \/ ApplyObject \/ ApplyStatefulSet \/ GenerateSecret \/ DeleteObject
        \/ ApplyDeployment(FALSE) \/ ScaleToZero \/ ReadHash(FALSE) \/ cleanupObjectStorageJobs
        \/ EnsureStorageJob \/ PassGate \/ EndPass

Settling == \/ \E o \in DOMAIN objs : MovePods(o)
            \/ Migrate \/ CompleteStorageJob

Next == \/ Pass \/ Settling
        \/ CallFails \/ ApplyDeployment(TRUE) \/ ReadHash(TRUE)
        \/ \E n \in DOMAIN Specs : EditSpec(n)
        \/ RotateCredentials
        \/ \E r \in Roles : \/ \E n \in 1 .. MaxReplicas : ScalerReads(r, n)
                            \/ ScalerWrites(r)

Spec == Init /\ [][Next]_vars

(* The operator keeps making passes; the cluster's controllers run beside  *)
(* it and do bring pods up and complete Jobs.                              *)
FairSpec == Spec /\ WF_vars(Pass) /\ SF_vars(Settling)

(***************************************************************************)
(* Properties.                                                             *)
(***************************************************************************)
Rolled(r) == /\ Dep(r) \in DOMAIN objs'
             /\ Has(Dep(r)) => objs'[Dep(r)].sum # objs[Dep(r)].sum

Policies == {objs[o] : o \in {x \in DOMAIN objs : x[1] = "NetworkPolicy"}}

(* Nothing is left for a pass of the spec to do but to watch the rollout.  *)
Settled == pc = 0 /\ \A i \in DOMAIN Program[spec] :
               LET c == Program[spec][i] IN
               c.op \in {"apply", "delete", "sts", "secret"} => ~Stops(c, objs, now)

(* A Redis never exists in both of its forms, nor a workload under both    *)
(* autoscalers, whatever edits and failing calls interrupt a switch: one   *)
(* form would be left with data and clients of its own, and two            *)
(* autoscalers would fight over replicas.                                  *)
NoTwins ==
    /\ \A s \in RedisNames : ~(Has(<<"StatefulSet", "redis", s>>) /\ Has(<<"RedisReplication", "redis-ha", s>>))
    /\ \A r \in Roles : ~(Has(<<"HPA", r, "">>) /\ Has(<<"ScaledObject", r, "">>))

(* One request to rotate regenerates a Secret at most once, however many   *)
(* passes carry the annotation and wherever one of them breaks off.        *)
RotatesOnce ==
    \A n \in {"meilisearch", "setup", "redis-auth"} :
        Has(<<"Secret", n, "">>) => objs[<<"Secret", n, "">>].value <= 1 + asked

(* Once a spec is settled, its NetworkPolicies let every connection        *)
(* through that the instance opens, and under isolation none from a        *)
(* stranger's pod to a part of it that is not its public entry.            *)
Reachable ==
    Settled =>
        /\ \A f \in NeededFlows(now) : Admits(Policies, f)
        /\ now.isolation =>
              \A x \in (InstancePods \cup UNION {HAPods(s) : s \in HA(now)})
                        \ {<<publicEntry(now), "">>, <<"postgres", "">>} :
                  ~Admits(Policies, [src |-> <<"elsewhere", "">>, dst |-> x, port |-> "redis"])

(* Under isolation no pod of the instance is created while a stranger's    *)
(* pod could still connect to it.  The pods of an HA Redis do not carry    *)
(* the instance's labels and get their policy after they are created.      *)
IsolatedFirst ==
    [][\A o \in DOMAIN objs' \ DOMAIN objs :
          cur.isolation /\ o[1] \in {"StatefulSet", "Deployment", "Job"} /\ o[2] # publicEntry(cur)
          => ~Admits(Policies, [src |-> <<"elsewhere", "">>, port |-> "other",
                                dst |-> IF o[1] = "Job" THEN <<"job", "">> ELSE <<o[2], o[3]>>])]_vars

(* A change (an edit, a request to rotate, new storage credentials)        *)
(* replaces the pods of a role at most once, however many Secrets it       *)
(* regenerates and wherever passes break off on the way, and nothing else  *)
(* does.  A failing read of the storage credentials, which the checksum    *)
(* takes for missing ones, costs one rollout there and one back.           *)
RollsOncePerChange == [][\A r \in Roles : Rolled(r) => r \in due \/ faults' # faults]_vars

(* When app or worker is rolled, the configuration its new pods read is    *)
(* the one it was rolled for, each token in it is replaced from a Secret   *)
(* that exists, and the objects behind its hosts exist.                    *)
RolledPodsResolve ==
    [][\A r \in Roles : Rolled(r) =>
          LET yml == objs[<<"ConfigMap", "config", "">>].yml IN
          /\ objs'[Dep(r)].sum.yml = yml
          /\ Backends(yml) \subseteq DOMAIN objs
          /\ \A t \in Placeholders(yml) :
                /\ t \in renderConfigScript
                /\ \E e \in renderInitEnv(resolve(cur)) : e[1] = t /\ secretVersion(e[2], objs) # Missing]_vars

(* When app or worker is rolled, the bucket it is rolled for has been      *)
(* written to the meta row.                                                *)
WrittenBeforeRollout ==
    [][\A r \in Roles : Rolled(r) /\ resolve(cur).objAutoConfigure =>
          /\ Has(StorageJob) /\ objs[StorageJob].done
          /\ objs[StorageJob].hash.bucket = objs'[Dep(r)].sum.obj.bucket]_vars

(* A pass that reports Running has left a way in: the Ingress leads to a   *)
(* Service whose workload is up, and the objects behind the hosts of the   *)
(* published configuration exist.                                          *)
ServedWhenRunning ==
    [][EndPass /\ phase' = "Running" =>
          /\ cur.ingress => LET b == objs[<<"Ingress", "ingress", "">>].backend IN
                              Has(<<"Service", b, "">>) /\ Up(Dep(b))
          /\ Backends(objs[<<"ConfigMap", "config", "">>].yml) \subseteq DOMAIN objs]_vars

(* What the operator leaves behind on purpose or never removes: Secrets,   *)
(* backends that were given up for external ones, a schedule, the monitor  *)
(* of a Redis' other form, and while suspended the workloads.              *)
LeftBehind(o) ==
    \/ o[1] \in {"Secret", "Cluster", "ScheduledBackup"}
    \/ o[1] = "Pooler" /\ now.db = "external"
    \/ o[1] \in {"Service", "StatefulSet"} /\ o[2] = "meilisearch"
    \/ o[1] \in {"ServiceMonitor", "PodMonitor"} /\ o[2] = "redis" /\ o[3] \in managedRedisInstances(now)
    \/ now.suspend /\ o[1] \in {"Deployment", "PDB"}

(* The objects that the calls of a pass make.                              *)
Made == [n \in DOMAIN Specs |->
            {Program[n][i].obj : i \in {j \in DOMAIN Program[n] : Program[n][j].op \notin {"delete", "gate"}}}]

(* Liveness: the objects settle on what the last spec asks for, and        *)
(* nothing else is left of the specs before it.                            *)
ObjectsSettle ==
    <>[]/\ pc = 0 => Settled
        /\ \A o \in DOMAIN objs \ Made[spec] : LeftBehind(o)

(* Liveness: a suspended instance ends with no replicas; any other ends    *)
(* with pods of both roles that run the current configuration and Secrets, *)
(* the autoscalers notwithstanding, beside Redis pods of the same Secret,  *)
(* and its status says so.                                                 *)
WorkloadsSettle ==
    <>[](IF now.suspend
         THEN phase = "Suspended" /\ \A r \in Roles : Has(Dep(r)) => objs[Dep(r)].replicas = 0
         ELSE /\ phase = "Running"
              /\ \A r \in Roles : Up(Dep(r)) /\ objs[Dep(r)].replicas # 0
                                /\ running[Dep(r)] = misskeyChecksum(now, FALSE)
              /\ \A s \in Standalone(now) : Up(RedisForm(now, s)) /\
                     running[RedisForm(now, s)].version = secretVersion("redis-auth", objs))
=============================================================================
