------------------------------- MODULE Traffic -------------------------------
(***************************************************************************)
(* What an instance needs of its cluster to serve: the objects behind the  *)
(* hosts of a rendered configuration, the connections its parts open, and  *)
(* whether a set of NetworkPolicies lets a connection through.  This is    *)
(* the reference that the objects made by module Children are held to; the *)
(* rules of NetworkPolicy are Kubernetes', not the operator's.             *)
(***************************************************************************)
EXTENDS Children

(* The objects that answer at the hosts of a configuration.                *)
Backends(yml) ==
    {<<"Cluster", "db", "">> : h \in {yml.db} \cap {"db-rw"}}
    \cup {<<"Cluster", "db", "">> : h \in yml.slaves \cap {"db-ro"}}
    \cup {<<"Pooler", h, "">> : h \in ({yml.db} \cup yml.slaves) \cap {"db-pooler-rw", "db-pooler-ro"}}
    \cup UNION {LET h == yml.redis[s].host IN
                CASE h[1] = "redis"    -> {<<"Service", "redis", h[2]>>, <<"StatefulSet", "redis", h[2]>>}
                  [] h[1] = "redis-ha" -> {<<"RedisReplication", "redis-ha", h[2]>>,
                                           <<"RedisSentinel", "redis-ha", h[2]>>}
                  [] h[1] = "external" -> {} : s \in DOMAIN yml.redis}
    \cup OnlyIf(yml.meili = "meilisearch",
                {<<"Service", "meilisearch", "">>, <<"StatefulSet", "meilisearch", "">>})

(* The pods or places behind a host of the configuration.                  *)
DatabasePods(h) == CASE h = "external" -> <<"public", "">>
                     [] h \in {"db-rw", "db-ro"} -> <<"postgres", "">>
                     [] h \in {"db-pooler-rw", "db-pooler-ro"} -> <<"pooler", "">>

RedisPods(block) == {IF h[1] \in {"external", "external-sentinel"} THEN <<"public", "">> ELSE h
                        : h \in {block.host} \cup block.sentinels}

SearchPods(h) == CASE h = "none" -> {}
                   [] h = "external" -> {<<"public", "">>}
                   [] h = "meilisearch" -> {<<"meilisearch", "">>}

Flow(src, dsts, port) == {[src |-> src, dst |-> d, port |-> port] : d \in dsts}

(* The connections that an instance of spec m opens once it is settled,    *)
(* but for two that the policies are known to close: the scrape of an HA   *)
(* Redis' exporter, and a Job's way to an external database under egress   *)
(* isolation.                                                              *)
NeededFlows(m) ==
    LET yml  == renderDefaultYML(m, resolve(m))
        job  == renderDefaultYML(m, migratePlan(resolve(m)))
        pods == {<<r, "">> : r \in Roles}
    IN  UNION {Flow(x, {<<"public", "">>, <<"dns", "">>} \cup {DatabasePods(h) : h \in {yml.db} \cup yml.slaves}
                       \cup SearchPods(yml.meili), "other")
               \cup UNION {Flow(x, RedisPods(yml.redis[s]), "redis") : s \in DOMAIN yml.redis} : x \in pods}
        \cup OnlyIf(m.db = "managed" \/ ~m.egress, Flow(<<"job", "">>, {DatabasePods(job.db)}, "other"))
        \cup OnlyIf(m.proxy, Flow(<<"proxy", "">>, {<<"app", "">>}, "other"))
        \cup OnlyIf(m.ingress, Flow(<<"ingress-controller", "">>, {<<publicEntry(m), "">>}, "other"))
        \cup UNION {Flow(<<"redis-ha-sentinel", s>>, {<<"redis-ha", s>>}, "redis") : s \in HA(m)}
        \cup OnlyIf(m.scale["worker"] = "keda",
                    Flow(<<"allowed", "">>, RedisPods(yml.redis[IF "jobqueue" \in DOMAIN yml.redis
                                                                THEN "jobqueue" ELSE ""]), "redis"))
        \cup OnlyIf(m.monitoring,
                    Flow(<<"allowed", "">>, {<<"redis", s>> : s \in Standalone(m)} \cup OnlyIf(m.proxy, {<<"proxy", "">>}),
                         "metrics"))

(* A pod that some policy of a direction selects only takes part in what   *)
(* one of those policies admits.                                           *)
Admits(policies, f) ==
    LET Passes(dir, here, there) ==
            LET chosen == {p \in policies : p.dir = dir /\ here \in p.pods} IN
            chosen # {} => \E p \in chosen : there \in p.peers /\ p.ports \in {"any", f.port}
    IN  Passes("in", f.dst, f.src) /\ Passes("out", f.src, f.dst)
=============================================================================
