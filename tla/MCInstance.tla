----------------------------- MODULE MCInstance -----------------------------
(***************************************************************************)
(* The specs between which the user of the checked instance moves.         *)
(***************************************************************************)
EXTENDS Instance

Redis(default, jobqueue) == [s \in RedisNames |-> CASE s = "" -> default
                                                   [] s = "jobqueue" -> jobqueue
                                                   [] OTHER -> "none"]

(* Defaults: CNPG, one Redis, a proxy behind an Ingress.                   *)
MCPlain ==
    [db |-> "managed", replicas |-> FALSE, readOffload |-> FALSE, pooler |-> FALSE, backup |-> "none",
     redis |-> Redis("standalone", "none"), search |-> "sqlLike", setup |-> "none", storage |-> "none",
     proxy |-> TRUE, maintenance |-> FALSE, ingress |-> TRUE, isolation |-> FALSE, egress |-> FALSE,
     quota |-> FALSE, limits |-> FALSE, monitoring |-> FALSE, rules |-> FALSE,
     scale |-> [r \in Roles |-> "static"], suspend |-> FALSE, rotate |-> 0, knobs |-> 1, foreign |-> {}]

(* Three generated Secrets, to be rotated.                                 *)
MCRotated(n) == [MCPlain EXCEPT !.search = "managed", !.setup = "generated", !.rotate = n]

(* Every backend that the operator runs itself, with everything around it. *)
MCStack ==
    [MCPlain EXCEPT !.replicas = TRUE, !.readOffload = TRUE, !.pooler = TRUE, !.backup = "scheduled",
     !.redis = Redis("ha", "standalone"), !.search = "managed", !.setup = "generated",
     !.maintenance = TRUE, !.isolation = TRUE, !.egress = TRUE, !.quota = TRUE,
     !.limits = TRUE, !.monitoring = TRUE, !.rules = TRUE]

(* The other form of each Redis, and less around it.                       *)
MCSwitched ==
    [MCStack EXCEPT !.redis = Redis("standalone", "ha"), !.readOffload = FALSE, !.backup = "none",
     !.maintenance = FALSE, !.egress = FALSE, !.quota = FALSE, !.knobs = 2]

(* The same with an image that the operator does not allow.                *)
MCForeign == [MCSwitched EXCEPT !.foreign = {<<"redis-ha", "jobqueue">>}]

(* Nothing of its own but the workloads.                                   *)
MCExternal ==
    [MCPlain EXCEPT !.db = "external", !.redis = Redis("external", "sentinel"), !.search = "external",
     !.setup = "own", !.storage = "manual", !.proxy = FALSE, !.isolation = TRUE, !.egress = TRUE]

(* Autoscaled workloads, suspended, and with the autoscalers exchanged.    *)
MCScaled == [MCExternal EXCEPT !.scale = [r \in Roles |-> IF r = "app" THEN "hpa" ELSE "keda"]]
MCSuspended == [MCScaled EXCEPT !.suspend = TRUE]
MCRescaled == [MCScaled EXCEPT !.scale = [r \in Roles |-> IF r = "app" THEN "keda" ELSE "static"]]

(* Object storage that the operator configures.                            *)
MCStored(b) == [MCExternal EXCEPT !.storage = b]

MCSpecs == [first |-> MCRotated(0), rotated |-> MCRotated(1), again |-> MCRotated(2),
            stack |-> MCStack, switched |-> MCSwitched, foreign |-> MCForeign, external |-> MCExternal,
            scaled |-> MCScaled, suspended |-> MCSuspended, rescaled |-> MCRescaled,
            stored |-> MCStored("bucket1"), moved |-> MCStored("bucket2")]
MCFirstSpecs == {"first", "stack", "scaled", "stored"}
MCMoves == {<<"first", "rotated">>, <<"rotated", "again">>,
            <<"stack", "switched">>, <<"stack", "foreign">>, <<"stack", "external">>,
            <<"scaled", "suspended">>, <<"suspended", "scaled">>, <<"scaled", "rescaled">>,
            <<"stored", "moved">>, <<"stored", "external">>}
=============================================================================
