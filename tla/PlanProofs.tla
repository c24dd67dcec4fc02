----------------------------- MODULE PlanProofs -----------------------------
(***************************************************************************)
(* Three files spell out the same list of tokens on their own: config.go   *)
(* writes them into default.yml, misskey_pod.go replaces them and fetches  *)
(* the Secrets behind them, common.go watches those Secrets for changes.   *)
(* The theorems say that the lists agree for every spec.                   *)
(***************************************************************************)
EXTENDS Plan, TLAPS

\* A Redis endpoint takes its password from the token of its own name suffix.
LEMMA EndpointToken ==
    ASSUME NEW m, NEW s \in RedisNames
    PROVE  redisEndpoint(m, s).passEnv = PassEnv[s]
BY DEF redisEndpoint, externalRedisEndpoint, managedRedisEndpoint

\* The plan and its migration variant have the same Redis endpoints, each with
\* its own token.
LEMMA PlanRedis ==
    ASSUME NEW m
    PROVE  /\ DOMAIN resolve(m).redis \subseteq RedisNames
           /\ \A s \in DOMAIN resolve(m).redis : resolve(m).redis[s].passEnv = PassEnv[s]
<1>1. resolve(m).redis = [s \in {t \in RedisNames : m.redis[t] # "none"} |-> redisEndpoint(m, s)]
  BY DEF resolve
<1> QED
  BY <1>1, EndpointToken

\* What the tokens of a rendered plan need: any p that has the fields of a plan.
LEMMA TokensOfPlan ==
    ASSUME NEW m, NEW p,
           DOMAIN p.redis \subseteq RedisNames,
           \A s \in DOMAIN p.redis : p.redis[s].passEnv = PassEnv[s],
           p.meiliEnabled => p.meiliHost # "none",
           NEW t \in Placeholders(renderDefaultYML(m, p))
    PROVE  /\ t \in renderConfigScript
           /\ \E e \in renderInitEnv(p) : e[1] = t /\ e[2] \in referencedSecretNames(p)
<1> DEFINE yml == renderDefaultYML(m, p)
<1>1. /\ yml.redis = [s \in DOMAIN p.redis |-> renderRedisBlock(p.redis[s])]
      /\ yml.meili = IF p.meiliEnabled THEN p.meiliHost ELSE "none"
      /\ yml.setup = p.setupEnabled
  BY DEF renderDefaultYML
<1>2. t \in Placeholders(yml)
  OBVIOUS
<1> HIDE DEF yml
<1>3. CASE t = "DB_PASSWORD"
  <2>1. <<"DB_PASSWORD", p.dbPassSel>> \in renderInitEnv(p)
    BY DEF renderInitEnv
  <2>2. p.dbPassSel \in referencedSecretNames(p)
    BY DEF referencedSecretNames
  <2>3. "DB_PASSWORD" \in renderConfigScript
    BY DEF renderConfigScript
  <2> QED
    BY <1>3, <2>1, <2>2, <2>3
<1>4. ASSUME NEW s \in DOMAIN yml.redis, t = yml.redis[s].pass
      PROVE  /\ t \in renderConfigScript
             /\ \E e \in renderInitEnv(p) : e[1] = t /\ e[2] \in referencedSecretNames(p)
  <2>1. s \in DOMAIN p.redis /\ s \in RedisNames /\ t = p.redis[s].passEnv
    BY <1>1, <1>4 DEF renderRedisBlock
  <2>2. <<p.redis[s].passEnv, p.redis[s].passSel>> \in renderInitEnv(p)
    BY <2>1 DEF renderInitEnv
  <2>3. p.redis[s].passSel \in referencedSecretNames(p)
    BY <2>1 DEF referencedSecretNames
  <2>4. t \in renderConfigScript
    BY <2>1 DEF renderConfigScript
  <2> QED
    BY <2>1, <2>2, <2>3, <2>4
<1>5. CASE t = "MEILI_KEY" /\ yml.meili # "none"
  <2>1. p.meiliEnabled
    BY <1>1, <1>5
  <2>2. <<"MEILI_KEY", p.meiliKeySel>> \in renderInitEnv(p)
    BY <2>1 DEF renderInitEnv, OnlyIf
  <2>3. p.meiliKeySel \in referencedSecretNames(p)
    BY <2>1 DEF referencedSecretNames, OnlyIf
  <2>4. "MEILI_KEY" \in renderConfigScript
    BY DEF renderConfigScript
  <2> QED
    BY <1>5, <2>2, <2>3, <2>4
<1>6. CASE t = "SETUP_PASSWORD" /\ yml.setup
  <2>1. <<"SETUP_PASSWORD", p.setupSel>> \in renderInitEnv(p)
    BY <1>1, <1>6 DEF renderInitEnv, OnlyIf
  <2>2. p.setupSel \in referencedSecretNames(p)
    BY <1>1, <1>6 DEF referencedSecretNames, OnlyIf
  <2>3. "SETUP_PASSWORD" \in renderConfigScript
    BY DEF renderConfigScript
  <2> QED
    BY <1>6, <2>1, <2>2, <2>3
<1> QED
  BY <1>2, <1>3, <1>4, <1>5, <1>6 DEF Placeholders, OnlyIf

\* Every token that renderDefaultYML leaves in the configuration, of app and
\* worker as of the migration Job, is one the init container replaces, is in its
\* environment, and comes from a Secret whose rotation rolls the pods.
THEOREM EveryTokenResolves ==
    ASSUME NEW m, NEW p \in {resolve(m), migratePlan(resolve(m))},
           NEW t \in Placeholders(renderDefaultYML(m, p))
    PROVE  /\ t \in renderConfigScript
           /\ \E e \in renderInitEnv(p) : e[1] = t /\ e[2] \in referencedSecretNames(p)
<1>1. resolve(m).meiliHost # "none"
  BY DEF resolve
<1>2. /\ p.redis = resolve(m).redis
      /\ p.meiliHost = resolve(m).meiliHost
  <2>1. migratePlan(resolve(m)).redis = resolve(m).redis
        /\ migratePlan(resolve(m)).meiliHost = resolve(m).meiliHost
    BY DEF migratePlan, resolve
  <2> QED
    BY <2>1
<1> QED
  BY <1>1, <1>2, PlanRedis, TokensOfPlan

\* No two Redis instances share a token: a separated role never gets the
\* password of another.
THEOREM TokensApart ==
    ASSUME NEW m, NEW s \in DOMAIN resolve(m).redis, NEW t \in DOMAIN resolve(m).redis, s # t
    PROVE  resolve(m).redis[s].passEnv # resolve(m).redis[t].passEnv
<1>1. s \in RedisNames /\ t \in RedisNames
  BY PlanRedis
<1>2. PassEnv[s] # PassEnv[t]
  BY <1>1 DEF PassEnv, RedisNames
<1> QED
  BY <1>2, PlanRedis

=============================================================================
