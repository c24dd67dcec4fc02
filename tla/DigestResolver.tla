--------------------------- MODULE DigestResolver ---------------------------
(***************************************************************************)
(* The DigestResolver the two controllers share: a bounded cache of tag to *)
(* digest with a TTL.  Pinned takes the lock to look an entry up, drops it *)
(* for the registry request and takes it again to store the answer, so     *)
(* calls for one key overlap.                                              *)
(***************************************************************************)
EXTENDS Integers, FiniteSets

CONSTANTS
    Callers,            \* the controllers' workers
    Keys,               \* cacheKey: image and pull secrets
    Digests,
    None,
    digestResolveTTL, digestResolveTimeout, maxCacheEntries,
    MaxTime,            \* bound: the clock
    MaxPushes,          \* bound: pushes of new content
    MaxFaults           \* bound: failed requests

ASSUME KeyAssumption == IsFiniteSet(Keys)
ASSUME NoneAssumption == None \notin Digests /\ None \notin Keys
ASSUME TimeAssumption ==
    /\ digestResolveTTL \in Nat \ {0} /\ digestResolveTimeout \in Nat
    /\ MaxTime \in Nat /\ MaxPushes \in Nat /\ MaxFaults \in Nat
ASSUME SizeAssumption == maxCacheEntries \in Nat \ {0}

VARIABLES
    now,
    registry,       \* the digest behind each key
    lastCurrent,    \* when a digest was last behind a key (-1: never)
    cache,          \* a function on the keys that have an entry
    pc, key, entry, digest, began,  \* locals of each call of Pinned
    pushes, faults

callVars  == <<pc, key, entry, digest, began>>
boundVars == <<pushes, faults>>
vars      == <<now, registry, lastCurrent, cache, callVars, boundVars>>

digestEntry == [digest : Digests, resolvedAt : 0..MaxTime]
NoEntry     == [digest |-> None, resolvedAt |-> 0]

TypeOK ==
    /\ now \in 0..MaxTime
    /\ registry \in [Keys -> Digests]
    /\ lastCurrent \in [Keys -> [Digests -> -1..MaxTime]]
    /\ DOMAIN cache \subseteq Keys /\ \A k \in DOMAIN cache : cache[k] \in digestEntry
    /\ pc \in [Callers -> {"idle", "head", "answered"}]
    /\ key \in [Callers -> Keys \cup {None}]
    /\ entry \in [Callers -> digestEntry \cup {NoEntry}]
    /\ digest \in [Callers -> Digests \cup {None}]
    /\ began \in [Callers -> 0..MaxTime]
    /\ pushes \in 0..MaxPushes /\ faults \in 0..MaxFaults

Init ==
    /\ now = 0
    /\ registry \in [Keys -> Digests]
    /\ lastCurrent = [k \in Keys |-> [d \in Digests |-> IF registry[k] = d THEN 0 ELSE -1]]
    /\ cache = [k \in {} |-> NoEntry]
    /\ pc = [c \in Callers |-> "idle"] /\ key = [c \in Callers |-> None]
    /\ entry = [c \in Callers |-> NoEntry] /\ digest = [c \in Callers |-> None]
    /\ began = [c \in Callers |-> 0]
    /\ pushes = 0 /\ faults = 0

Live(e) == now - e.resolvedAt < digestResolveTTL

-----------------------------------------------------------------------------
(* Pinned *)

\* The call returns; digest keeps what it returned until the next call.
Return(c, d) ==
    /\ pc' = [pc EXCEPT ![c] = "idle"]
    /\ entry' = [entry EXCEPT ![c] = NoEntry]
    /\ digest' = [digest EXCEPT ![c] = d]
    /\ began' = [began EXCEPT ![c] = 0]

\* Slip: an entry is good for ever.
LookupNoTTL(c, k) ==
    /\ pc[c] = "idle"
    /\ key' = [key EXCEPT ![c] = k]
    /\ \/ k \in DOMAIN cache /\ Return(c, cache[k].digest)
       \/ /\ k \notin DOMAIN cache
          /\ pc' = [pc EXCEPT ![c] = "head"]
          /\ digest' = [digest EXCEPT ![c] = None]
          /\ began' = [began EXCEPT ![c] = now]
          /\ UNCHANGED entry
    /\ UNCHANGED <<now, registry, lastCurrent, cache, boundVars>>

\* The first critical section: a live entry is the answer.
Lookup(c, k) ==
    /\ pc[c] = "idle"
    /\ key' = [key EXCEPT ![c] = k]
    /\ \/ /\ k \in DOMAIN cache /\ Live(cache[k])
          /\ Return(c, cache[k].digest)
       \/ /\ k \in DOMAIN cache => ~Live(cache[k])
          /\ pc' = [pc EXCEPT ![c] = "head"]
          /\ entry' = [entry EXCEPT ![c] = IF k \in DOMAIN cache THEN cache[k] ELSE NoEntry]
          /\ digest' = [digest EXCEPT ![c] = None]
          /\ began' = [began EXCEPT ![c] = now]
    /\ UNCHANGED <<now, registry, lastCurrent, cache, boundVars>>

\* registryHead: the registry reads the tag and answers.
HeadAnswers(c) ==
    /\ pc[c] = "head"
    /\ pc' = [pc EXCEPT ![c] = "answered"]
    /\ digest' = [digest EXCEPT ![c] = registry[key[c]]]
    /\ UNCHANGED <<now, registry, lastCurrent, cache, key, entry, began, boundVars>>

\* The request fails or times out: the entry looked up before, or an error.
HeadFails(c) ==
    /\ pc[c] = "head"
    /\ faults < MaxFaults /\ faults' = faults + 1
    /\ Return(c, entry[c].digest)
    /\ UNCHANGED <<now, registry, lastCurrent, cache, key, pushes>>

\* Slip: nothing is evicted while the cache is exactly full.
evictLockedOffByOne ==
    IF Cardinality(DOMAIN cache) <= maxCacheEntries THEN {DOMAIN cache}
    ELSE {{k \in DOMAIN cache : Live(cache[k])}}

\* The keys evictLocked may leave: below the limit all of them, else the live
\* ones, and when those still reach the limit, all but one of the oldest.
evictLocked ==
    LET live  == {k \in DOMAIN cache : Live(cache[k])}
        oldest == {k \in live : \A l \in live : cache[k].resolvedAt <= cache[l].resolvedAt}
    IN  IF Cardinality(DOMAIN cache) < maxCacheEntries THEN {DOMAIN cache}
        ELSE IF Cardinality(live) < maxCacheEntries THEN {live}
        ELSE {live \ {k} : k \in oldest}

\* The second critical section.
Store(c) ==
    /\ pc[c] = "answered"
    /\ \E kept \in evictLocked :
          cache' = [k \in kept \cup {key[c]} |->
                      IF k = key[c] THEN [digest |-> digest[c], resolvedAt |-> now]
                                    ELSE cache[k]]
    /\ Return(c, digest[c])
    /\ UNCHANGED <<now, registry, lastCurrent, key, boundVars>>

-----------------------------------------------------------------------------
(* The rest of the world *)

\* New content is pushed under a tag.
Push(k, d) ==
    /\ registry[k] # d
    /\ pushes < MaxPushes /\ pushes' = pushes + 1
    /\ registry' = [registry EXCEPT ![k] = d]
    /\ lastCurrent' = [lastCurrent EXCEPT ![k][d] = now]
    /\ UNCHANGED <<now, cache, callVars, faults>>

\* A request is over digestResolveTimeout after it began.
Tick ==
    /\ now < MaxTime
    /\ \A c \in Callers : pc[c] # "idle" => now - began[c] < digestResolveTimeout
    /\ now' = now + 1
    /\ lastCurrent' = [k \in Keys |-> [lastCurrent[k] EXCEPT ![registry[k]] = now + 1]]
    /\ UNCHANGED <<registry, cache, callVars, boundVars>>

Next ==
    \/ \E c \in Callers : (\E k \in Keys : Lookup(c, k)) \/ HeadAnswers(c) \/ HeadFails(c) \/ Store(c)
    \/ \E k \in Keys, d \in Digests : Push(k, d)
    \/ Tick

Spec == Init /\ [][Next]_vars

-----------------------------------------------------------------------------
(* Properties *)

\* The cache never holds more than maxCacheEntries entries, however many calls
\* store at once (evictLocked runs before each store).
CacheBounded == Cardinality(DOMAIN cache) <= maxCacheEntries

\* A successful call returns a digest that was behind the tag less than a TTL
\* and a request ago, although an answer may be stored after a newer one.
FreshEnough ==
    [][\A c \in Callers :
         (pc'[c] = "idle" /\ digest'[c] # None /\ faults' = faults
            /\ (pc[c] # "idle" \/ digest'[c] # digest[c] \/ key'[c] # key[c]))
            => now - lastCurrent[key'[c]][digest'[c]] < digestResolveTTL + digestResolveTimeout]_vars

=============================================================================
