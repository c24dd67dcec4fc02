------------------------------ MODULE Children ------------------------------
(***************************************************************************)
(* The API calls that one pass of reconcileAll makes for a spec m, in      *)
(* their order: each reconcileX of the controller is the sequence of its   *)
(* calls, and reconcileAll is their concatenation.                         *)
(*                                                                         *)
(* A call is a record: op, what is done; obj, the object <<kind, name,     *)
(* suffix>> it is done to; val, the content that the spec gives it.  What  *)
(* a call reads from the cluster (Secret versions, a Deployment's          *)
(* replicas) is read when module Instance executes it.                     *)
(***************************************************************************)
EXTENDS Plan

LOCAL INSTANCE SequencesExt

Call(op, kind, name, s, val) == <<[op |-> op, obj |-> <<kind, name, s>>, val |-> val]>>
Apply(kind, name, val)  == Call("apply", kind, name, "", val)
Delete(kind, name)      == Call("delete", kind, name, "", "none")
When(c, calls)          == IF c THEN calls ELSE <<>>
ApplyIf(c, kind, name, val) == IF c THEN Apply(kind, name, val) ELSE Delete(kind, name)

(* calls, made only when cond holds as the gate is reached.                *)
Gate(cond, calls) == Call("gate", "Gate", cond, "", Len(calls)) \o calls

(* The default Redis and the roles, in the order of redisRoleDescs.        *)
allRedisSuffixes == <<"", "jobqueue", "pubsub", "timelines", "reactions">>

(* The calls for every suffix, one suffix after the other.                 *)
ForEachSuffix(calls) == FlattenSeq([i \in DOMAIN allRedisSuffixes |-> calls[allRedisSuffixes[i]]])

Generate(name) == Call("secret", "Secret", name, "", "none")

(***************************************************************************)
(* Secrets and ConfigMaps.                                                 *)
(***************************************************************************)
reconcileMeiliSecret(m) == When(m.search # "ownKey", Generate("meilisearch"))
reconcileSetupSecret    == Generate("setup")
reconcileRedisAuthSecret == Generate("redis-auth")

renderCaddyfile(m) == IF m.maintenance THEN "page" ELSE "plain"

reconcileConfigMaps(m, p) ==
    Apply("ConfigMap", "config", [yml |-> renderDefaultYML(m, p),
                                  caddy |-> IF m.proxy THEN renderCaddyfile(m) ELSE "none"])
    \o Apply("ConfigMap", "migrate-config", renderDefaultYML(m, migratePlan(p)))
    \o When(m.proxy /\ m.maintenance, Apply("ConfigMap", "maintenance-html", "html"))

(***************************************************************************)
(* Tenancy: the pods that a NetworkPolicy selects, and the peers, pods or  *)
(* places outside of the instance, that it admits.  A pod is a pair of its *)
(* component and suffix.  Pods of the HA Redis and of the pooler do not    *)
(* carry the instance label.                                               *)
(***************************************************************************)
Components == {"app", "worker", "proxy", "meilisearch", "job", "postgres"}
InstancePods == {<<c, "">> : c \in Components} \cup {<<"redis", s>> : s \in RedisNames}
HAPods(s) == {<<"redis-ha", s>>, <<"redis-ha-sentinel", s>>}
CNPGPods  == {<<"postgres", "">>, <<"pooler", "">>}
Places    == {<<x, "">> : x \in {"allowed", "dns", "public", "ingress-controller", "elsewhere"}}

Policy(dir, pods, peers, ports) == [dir |-> dir, pods |-> pods, peers |-> peers, ports |-> ports]

publicEntry(m) == IF m.proxy THEN "proxy" ELSE "app"

reconcileNetworkIsolation(m) ==
    ApplyIf(m.isolation, "NetworkPolicy", "isolation",
        Policy("in", {x \in InstancePods : x[1] \notin {publicEntry(m), "postgres"}},
               InstancePods \cup {<<"allowed", "">>}, "any"))

egressCommonRules == InstancePods \cup {<<"dns", "">>, <<"allowed", "">>}

(* Slip: the pods of the HA Redis are taken for pods of the instance.      *)
redisEgressNone(m) == {}

redisEgressRule(m) == UNION {HAPods(s) : s \in {t \in RedisNames : m.redis[t] = "ha"}}

reconcileEgressIsolation(m) ==
    ApplyIf(m.egress, "NetworkPolicy", "egress-frontend",
        Policy("out", {x \in InstancePods : x[1] \in Roles},
               egressCommonRules \cup CNPGPods \cup redisEgressRule(m) \cup {<<"public", "">>}, "any"))
    \o ApplyIf(m.egress, "NetworkPolicy", "egress-backend",
        Policy("out", {x \in InstancePods : x[1] \notin Roles \cup {"postgres"}},
               egressCommonRules, "any"))

reconcileTenancy(m) ==
    reconcileNetworkIsolation(m) \o reconcileEgressIsolation(m)
    \o ApplyIf(m.quota, "ResourceQuota", "quota", "hard")
    \o ApplyIf(m.limits, "LimitRange", "limits", "container")

(***************************************************************************)
(* PostgreSQL.                                                             *)
(***************************************************************************)
buildDBCluster(m) == [replicas |-> m.replicas, backup |-> m.backup # "none"]

reconcilePostgres(m) ==
    Apply("Cluster", "db", buildDBCluster(m))
    \o When(m.backup = "scheduled", Apply("ScheduledBackup", "db", "schedule"))

reconcilePoolers(m) ==
    ApplyIf(m.pooler, "Pooler", "db-pooler-rw", "rw")
    \o ApplyIf(m.pooler /\ readOffloadActive(m), "Pooler", "db-pooler-ro", "ro")

(***************************************************************************)
(* Redis.                                                                  *)
(***************************************************************************)
Standalone(m) == {s \in RedisNames : m.redis[s] = "standalone"}
HA(m)         == {s \in RedisNames : m.redis[s] = "ha"}
managedRedisInstances(m) == Standalone(m) \cup HA(m)

deleteRedisStandalone(s) ==
    Call("delete", "StatefulSet", "redis", s, "none") \o Call("delete", "Service", "redis", s, "none")
    \o Call("delete", "NetworkPolicy", "redis", s, "none")

deleteRedisHA(s) ==
    Call("delete", "RedisReplication", "redis-ha", s, "none")
    \o Call("delete", "RedisSentinel", "redis-ha", s, "none")

deleteRedisHANetworkPolicy(s) == Call("delete", "NetworkPolicy", "redis-ha", s, "none")

reconcileRedisHA(m, s) ==
    Call("apply", "RedisReplication", "redis-ha", s, [exporter |-> m.monitoring])
    \o Call("apply", "RedisSentinel", "redis-ha", s, "quorum")

reconcileRedisHANetworkPolicy(m, s) ==
    IF m.isolation
    THEN Call("apply", "NetworkPolicy", "redis-ha", s,
              Policy("in", HAPods(s), {<<"app", "">>, <<"worker", "">>, <<"allowed", "">>} \cup HAPods(s),
                     "redis"))
    ELSE deleteRedisHANetworkPolicy(s)

reconcileRedisStandalone(m, s) ==
    Call("apply", "Service", "redis", s, [metrics |-> m.monitoring])
    \o Call("sts", "StatefulSet", "redis", s, [secret |-> "redis-auth", exporter |-> m.monitoring])
    \o Call("delete", "NetworkPolicy", "redis", s, "none")

(* Slip: the other form is only removed by the sweep at the end.           *)
reconcileRedisSweepLast(m) ==
    LET Provide[s \in RedisNames] ==
            CASE s \in HA(m) -> reconcileRedisHA(m, s) \o reconcileRedisHANetworkPolicy(m, s)
              [] s \in Standalone(m) -> reconcileRedisStandalone(m, s)
              [] OTHER -> <<>>
        Sweep[s \in RedisNames] ==
            When(s \notin Standalone(m), deleteRedisStandalone(s))
            \o When(s \notin HA(m), deleteRedisHA(s) \o deleteRedisHANetworkPolicy(s))
    IN  When(managedRedisInstances(m) # {}, reconcileRedisAuthSecret)
        \o ForEachSuffix(Provide) \o ForEachSuffix(Sweep)

reconcileRedis(m) ==
    LET Provide[s \in RedisNames] ==
            CASE s \in HA(m) -> deleteRedisStandalone(s) \o reconcileRedisHA(m, s)
                                \o reconcileRedisHANetworkPolicy(m, s)
              [] s \in Standalone(m) -> deleteRedisHA(s) \o deleteRedisHANetworkPolicy(s)
                                        \o reconcileRedisStandalone(m, s)
              [] OTHER -> <<>>
        Sweep[s \in RedisNames] ==
            When(s \notin Standalone(m), deleteRedisStandalone(s))
            \o When(s \notin HA(m), deleteRedisHA(s) \o deleteRedisHANetworkPolicy(s))
    IN  When(managedRedisInstances(m) # {}, reconcileRedisAuthSecret)
        \o ForEachSuffix(Provide) \o ForEachSuffix(Sweep)

(***************************************************************************)
(* Search, app and worker.                                                 *)
(***************************************************************************)
reconcileMeilisearch(m, p) ==
    Apply("Service", "meilisearch", "http")
    \o Call("sts", "StatefulSet", "meilisearch", "", [secret |-> p.meiliKeySel, exporter |-> m.monitoring])

reconcileAppService == Apply("Service", "app", "http")

deleteHPA(r)          == Delete("HPA", r)
deleteTriggerAuth(r)  == Delete("TriggerAuth", r)

(* Slip: the trigger's credentials outlive the ScaledObject.               *)
deleteScaledObjectOnly(r) == Delete("ScaledObject", r)

deleteScaledObject(r) == Delete("ScaledObject", r) \o deleteTriggerAuth(r)

(* The worker's KEDA triggers are job queues, the app's a request rate.    *)
reconcileScaledObject(r, p) ==
    LET ep == jobQueueEndpoint(p) IN
    ApplyIf(r = "worker", "TriggerAuth", r, ep.passSel)
    \o Apply("ScaledObject", r, IF r = "worker" THEN renderRedisBlock(ep) ELSE [rps |-> TRUE])

reconcileAutoscaler(m, r, p) ==
    CASE m.scale[r] = "static" -> deleteHPA(r) \o deleteScaledObject(r)
      [] m.scale[r] = "keda"   -> deleteHPA(r) \o reconcileScaledObject(r, p)
      [] m.scale[r] = "hpa"    -> deleteScaledObject(r) \o Apply("HPA", r, "cpu")

reconcilePDB(r) == Apply("PDB", r, "maxUnavailable")

(* reconcileApp and reconcileWorker.                                       *)
reconcileRole(m, r, p) ==
    Call("deploy", "Deployment", r, "", "none") \o reconcilePDB(r) \o reconcileAutoscaler(m, r, p)

suspendRole(r) == deleteHPA(r) \o deleteScaledObject(r) \o Call("zero", "Deployment", r, "", "none")
suspendWorkloads == suspendRole("app") \o suspendRole("worker")

(***************************************************************************)
(* Object storage: the Job that writes the meta row, named after a hash of *)
(* what it writes and of the credentials' versions.                        *)
(***************************************************************************)
reconcileObjectStorage ==
    Call("hash", "Job", "objstorage", "", "none") \o Call("stale", "Job", "objstorage", "", "none")
    \o Apply("ConfigMap", "objstorage-sql", "sql") \o Call("job", "Job", "objstorage", "", "none")

cleanupObjectStorage == Delete("Job", "objstorage") \o Delete("ConfigMap", "objstorage-sql")

(***************************************************************************)
(* Proxy, ingress, monitoring.                                             *)
(***************************************************************************)
deleteLegacyMaintenanceWorkload == Delete("Deployment", "maintenance") \o Delete("Service", "maintenance")
deleteProxyResources == Delete("Deployment", "proxy") \o Delete("Service", "proxy") \o Delete("PDB", "proxy")
deleteMaintenanceHTMLConfigMap == Delete("ConfigMap", "maintenance-html")

reconcileProxy(m) ==
    deleteLegacyMaintenanceWorkload \o
    IF m.proxy
    THEN Apply("Service", "proxy", [metrics |-> m.monitoring])
         \o Apply("Deployment", "proxy", [caddy |-> renderCaddyfile(m), html |-> m.maintenance])
         \o reconcilePDB("proxy") \o When(~m.maintenance, deleteMaintenanceHTMLConfigMap)
    ELSE deleteProxyResources \o deleteMaintenanceHTMLConfigMap

(* Slip: the Ingress always leads to the proxy.                            *)
reconcileIngressProxy(m) == ApplyIf(m.ingress, "Ingress", "ingress", [backend |-> "proxy"])

reconcileIngress(m) == ApplyIf(m.ingress, "Ingress", "ingress", [backend |-> publicEntry(m)])

(* A Redis monitor is a ServiceMonitor or a PodMonitor of the same name;   *)
(* the sweep passes over a name that is wanted in either kind.             *)
redisMonitors(m) ==
    LET Provide[s \in RedisNames] ==
            CASE m.monitoring /\ s \in HA(m) -> Call("apply", "PodMonitor", "redis", s, "scrape")
              [] m.monitoring /\ s \in Standalone(m) ->
                     Call("apply", "ServiceMonitor", "redis", s, "scrape")
              [] OTHER -> <<>>
        Sweep[s \in RedisNames] ==
            When(~m.monitoring \/ s \notin managedRedisInstances(m),
                 Call("delete", "ServiceMonitor", "redis", s, "none")
                 \o Call("delete", "PodMonitor", "redis", s, "none"))
    IN  ForEachSuffix(Provide) \o ForEachSuffix(Sweep)

buildPrometheusRule(m) == OnlyIf(m.proxy, {"5xx"}) \cup OnlyIf(m.db = "managed" /\ m.backup # "none", {"backup"})

reconcileMonitoring(m, p) ==
    ApplyIf(m.monitoring /\ p.dbManaged, "PodMonitor", "db", "scrape")
    \o ApplyIf(m.monitoring /\ p.meiliManaged, "ServiceMonitor", "meilisearch", p.meiliKeySel)
    \o ApplyIf(m.monitoring /\ m.proxy, "ServiceMonitor", "proxy", "scrape")
    \o redisMonitors(m)
    \o ApplyIf(m.monitoring /\ m.rules /\ buildPrometheusRule(m) # {}, "PrometheusRule", "alerts",
               buildPrometheusRule(m))

(***************************************************************************)
(* The pass.                                                               *)
(***************************************************************************)
(* Slip: the policies come after the pods they protect.                    *)
reconcileAllTenancyLast(m) ==
    LET p == resolve(m)
        rollout == Gate("rollout", reconcileRole(m, "app", p) \o reconcileRole(m, "worker", p))
    IN  When(p.meiliManaged, reconcileMeiliSecret(m)) \o When(p.setupManaged, reconcileSetupSecret)
        \o reconcileConfigMaps(m, p)
        \o When(p.dbManaged, reconcilePostgres(m) \o reconcilePoolers(m))
        \o reconcileRedis(m) \o When(p.meiliManaged, reconcileMeilisearch(m, p))
        \o reconcileAppService \o When(~p.objAutoConfigure, cleanupObjectStorage)
        \o (IF m.suspend THEN suspendWorkloads
            ELSE Gate("migrated", When(p.objAutoConfigure, reconcileObjectStorage) \o rollout))
        \o reconcileTenancy(m) \o reconcileProxy(m) \o reconcileIngress(m) \o reconcileMonitoring(m, p)

reconcileAll(m) ==
    LET p == resolve(m)
        rollout == Gate("rollout", reconcileRole(m, "app", p) \o reconcileRole(m, "worker", p))
    IN  When(p.meiliManaged, reconcileMeiliSecret(m)) \o When(p.setupManaged, reconcileSetupSecret)
        \o reconcileConfigMaps(m, p) \o reconcileTenancy(m)
        \o When(p.dbManaged, reconcilePostgres(m) \o reconcilePoolers(m))
        \o reconcileRedis(m) \o When(p.meiliManaged, reconcileMeilisearch(m, p))
        \o reconcileAppService \o When(~p.objAutoConfigure, cleanupObjectStorage)
        \o (IF m.suspend THEN suspendWorkloads
            ELSE Gate("migrated", When(p.objAutoConfigure, reconcileObjectStorage) \o rollout))
        \o reconcileProxy(m) \o reconcileIngress(m) \o reconcileMonitoring(m, p)
=============================================================================
