-------------------------------- MODULE Plan --------------------------------
(***************************************************************************)
(* What a Misskey spec means: resolve() flattens the managed/external      *)
(* choices into a plan (plan.go), renderDefaultYML turns the plan into the *)
(* configuration that the pods read (config.go), renderInitEnv gives the   *)
(* pods the Secrets that the configuration's placeholders stand for        *)
(* (misskey_pod.go), and the admission webhook accepts or refuses a spec.  *)
(*                                                                         *)
(* Everything here is a pure function of the spec.  Host names, Secrets    *)
(* and objects are short names, the instance's own name left out; numbers, *)
(* sizes, resources and labels without meaning for a property are left     *)
(* out, and every remaining knob of default.yml is the field `knobs`.      *)
(***************************************************************************)
EXTENDS Naturals, FiniteSets, Sequences

(* The name suffixes of the Redis instances: the default one and one per   *)
(* role.                                                                   *)
RedisNames == {"", "jobqueue", "pubsub", "timelines", "reactions"}

PassEnv == [s \in RedisNames |->
    CASE s = "" -> "REDIS_PASSWORD"
      [] s = "jobqueue" -> "REDIS_PASSWORD_JOBQUEUE"
      [] s = "pubsub" -> "REDIS_PASSWORD_PUBSUB"
      [] s = "timelines" -> "REDIS_PASSWORD_TIMELINES"
      [] s = "reactions" -> "REDIS_PASSWORD_REACTIONS"]

Roles == {"app", "worker"}

OnlyIf(c, S) == IF c THEN S ELSE {}

(* The fields of a Misskey that admission and reconciliation branch on.    *)
(* "none" for a Redis role: not separated.  "ownKey" and "own": managed,   *)
(* but with a Secret of the user's.  foreign: the image fields filled from *)
(* a registry that is not on the operator's allow-list.  An external Redis *)
(* or database is one with a password.                                     *)
SpecType ==
    [db : {"managed", "external"}, replicas : BOOLEAN, readOffload : BOOLEAN,
     pooler : BOOLEAN, backup : {"none", "wal", "scheduled"},
     redis : [RedisNames -> {"none", "standalone", "ha", "external", "sentinel"}],
     search : {"sqlLike", "managed", "ownKey", "external"},
     setup : {"none", "generated", "own"},
     storage : {"none", "manual", "bucket1", "bucket2"},
     proxy : BOOLEAN, maintenance : BOOLEAN, ingress : BOOLEAN,
     isolation : BOOLEAN, egress : BOOLEAN, quota : BOOLEAN, limits : BOOLEAN,
     monitoring : BOOLEAN, rules : BOOLEAN,
     scale : [Roles -> {"static", "hpa", "keda"}],
     suspend : BOOLEAN, rotate : 0 .. 2, knobs : 1 .. 2, foreign : SUBSET (STRING \X RedisNames)]

(***************************************************************************)
(* Resolution.                                                             *)
(***************************************************************************)
readOffloadActive(m) == m.replicas /\ m.readOffload

externalRedisEndpoint(s, sentinels) ==
    [host |-> <<"external", s>>,
     sentinels |-> IF sentinels THEN {<<"external-sentinel", s>>} ELSE {},
     passSel |-> "user-redis", passEnv |-> PassEnv[s], managed |-> FALSE, ha |-> FALSE]

managedRedisEndpoint(s, ha) ==
    [host |-> IF ha THEN <<"redis-ha", s>> ELSE <<"redis", s>>,
     sentinels |-> IF ha THEN {<<"redis-ha-sentinel", s>>} ELSE {},
     passSel |-> "redis-auth", passEnv |-> PassEnv[s], managed |-> TRUE, ha |-> ha]

redisEndpoint(m, s) ==
    IF m.redis[s] \in {"external", "sentinel"}
    THEN externalRedisEndpoint(s, m.redis[s] = "sentinel")
    ELSE managedRedisEndpoint(s, m.redis[s] = "ha")

resolve(m) ==
    LET dbManaged == m.db = "managed"
        offload   == dbManaged /\ readOffloadActive(m)
    IN  [dbManaged |-> dbManaged,
         dbHost    |-> CASE ~dbManaged -> "external"
                         [] dbManaged /\ m.pooler -> "db-pooler-rw"
                         [] dbManaged /\ ~m.pooler -> "db-rw",
         dbPassSel |-> IF dbManaged THEN "db-app" ELSE "user-db",
         dbSlaves  |-> CASE ~offload -> {}
                         [] offload /\ m.pooler -> {"db-pooler-ro"}
                         [] offload /\ ~m.pooler -> {"db-ro"},
         redis     |-> [s \in {t \in RedisNames : m.redis[t] # "none"} |-> redisEndpoint(m, s)],
         meiliEnabled |-> m.search # "sqlLike",
         meiliManaged |-> m.search \in {"managed", "ownKey"},
         meiliHost    |-> IF m.search = "external" THEN "external" ELSE "meilisearch",
         meiliKeySel  |-> IF m.search = "managed" THEN "meilisearch" ELSE "user-meili",
         setupEnabled |-> m.setup # "none",
         setupManaged |-> m.setup = "generated",
         setupSel     |-> IF m.setup = "generated" THEN "setup" ELSE "user-setup",
         objAutoConfigure |-> m.storage \in {"bucket1", "bucket2"}]

(* The plan of the migration Job: straight to the primary, no replicas.    *)
migratePlan(p) ==
    [p EXCEPT !.dbHost = IF p.dbManaged THEN "db-rw" ELSE p.dbHost, !.dbSlaves = {}]

(* The Redis of the job queue: its own when separated, else the default.   *)
jobQueueEndpoint(p) == IF "jobqueue" \in DOMAIN p.redis THEN p.redis["jobqueue"] ELSE p.redis[""]

(***************************************************************************)
(* Configuration and Secrets.                                              *)
(***************************************************************************)
renderRedisBlock(ep) == [host |-> ep.host, sentinels |-> ep.sentinels, pass |-> ep.passEnv]

renderDefaultYML(m, p) ==
    [db |-> p.dbHost, slaves |-> p.dbSlaves,
     redis |-> [s \in DOMAIN p.redis |-> renderRedisBlock(p.redis[s])],
     meili |-> IF p.meiliEnabled THEN p.meiliHost ELSE "none",
     setup |-> p.setupEnabled, knobs |-> m.knobs]

(* The ${...} tokens that a rendered default.yml still holds.              *)
Placeholders(yml) ==
    {"DB_PASSWORD"} \cup {yml.redis[s].pass : s \in DOMAIN yml.redis}
        \cup OnlyIf(yml.meili # "none", {"MEILI_KEY"})
        \cup OnlyIf(yml.setup, {"SETUP_PASSWORD"})

(* The tokens that the init container's program replaces.                  *)
renderConfigScript == {"DB_PASSWORD", "MEILI_KEY", "SETUP_PASSWORD"} \cup {PassEnv[s] : s \in RedisNames}

(* Slip: the separated roles' passwords are left out.                      *)
renderInitEnvDefault(p) ==
    {<<"DB_PASSWORD", p.dbPassSel>>, <<p.redis[""].passEnv, p.redis[""].passSel>>}
        \cup OnlyIf(p.meiliEnabled, {<<"MEILI_KEY", p.meiliKeySel>>})
        \cup OnlyIf(p.setupEnabled, {<<"SETUP_PASSWORD", p.setupSel>>})

(* The environment of the init container: token and Secret.                *)
renderInitEnv(p) ==
    {<<"DB_PASSWORD", p.dbPassSel>>}
        \cup OnlyIf(p.meiliEnabled, {<<"MEILI_KEY", p.meiliKeySel>>})
        \cup {<<p.redis[s].passEnv, p.redis[s].passSel>> : s \in DOMAIN p.redis}
        \cup OnlyIf(p.setupEnabled, {<<"SETUP_PASSWORD", p.setupSel>>})

(* The Secrets whose versions enter the pods' checksum.                    *)
referencedSecretNames(p) ==
    {p.dbPassSel} \cup {p.redis[s].passSel : s \in DOMAIN p.redis}
        \cup OnlyIf(p.meiliEnabled, {p.meiliKeySel})
        \cup OnlyIf(p.setupEnabled, {p.setupSel})

(***************************************************************************)
(* Admission.                                                              *)
(***************************************************************************)
(* The CRD's own cross-field rules.                                        *)
Valid(m) ==
    /\ m.db = "external" => ~m.pooler /\ m.backup = "none"
    /\ m.redis[""] # "none"

(* The image fields that any spec can fill.  The detector's, of which     *)
(* module SensitiveDetector is, are left out.                              *)
AnyImages == {<<f, "">> : f \in {"misskey", "proxy", "postgres", "redis", "meilisearch", "redisExporter"}}

(* The image fields of spec m that the webhook checks.                     *)
specImages(m) ==
    AnyImages \cup {<<"redis-ha", s>> : s \in {t \in RedisNames : m.redis[t] = "ha"}}
        \cup OnlyIf(m.storage # "none", {<<"objectStorage", "">>})

validate(m) == m.foreign \cap specImages(m) = {}
=============================================================================
