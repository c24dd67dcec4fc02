------------------------ MODULE DigestResolverProofs ------------------------
(***************************************************************************)
(* The size bound of the digest cache and the age of what it answers, for  *)
(* any number of callers, keys, entries and any TTL.                       *)
(***************************************************************************)
EXTENDS DigestResolver, FiniteSetTheorems, TLAPS

\* The bound needs to know that the cache has entries for Keys only, and that a
\* call with an answer to store holds a key.
BoundInv ==
    /\ DOMAIN cache \subseteq Keys
    /\ CacheBounded
    /\ pc \in [Callers -> {"idle", "head", "answered"}]
    /\ key \in [Callers -> Keys \cup {None}]
    /\ \A c \in Callers : pc[c] # "idle" => key[c] \in Keys

\* What evictLocked leaves is a part of the cache with room for one more.
LEMMA EvictLeavesRoom ==
    ASSUME DOMAIN cache \subseteq Keys, CacheBounded, NEW kept \in evictLocked
    PROVE  /\ kept \subseteq DOMAIN cache
           /\ IsFiniteSet(kept)
           /\ Cardinality(kept) < maxCacheEntries
<1> DEFINE live == {k \in DOMAIN cache : Live(cache[k])}
           oldest == {k \in live : \A l \in live : cache[k].resolvedAt <= cache[l].resolvedAt}
<1>1. IsFiniteSet(DOMAIN cache) /\ Cardinality(DOMAIN cache) \in Nat
  BY KeyAssumption, FS_Subset, FS_CardinalityType
<1>2. /\ IsFiniteSet(live) /\ Cardinality(live) \in Nat
      /\ Cardinality(live) <= Cardinality(DOMAIN cache)
  BY <1>1, FS_Subset, FS_CardinalityType
<1>3. CASE Cardinality(DOMAIN cache) < maxCacheEntries /\ kept = DOMAIN cache
  BY <1>1, <1>3
<1>4. CASE Cardinality(live) < maxCacheEntries /\ kept = live
  BY <1>2, <1>4
<1>5. ASSUME NEW k \in oldest, kept = live \ {k}
      PROVE  /\ kept \subseteq DOMAIN cache
             /\ IsFiniteSet(kept)
             /\ Cardinality(kept) < maxCacheEntries
  <2>1. k \in live
    OBVIOUS
  <2>2. IsFiniteSet(kept) /\ Cardinality(kept) = Cardinality(live) - 1
    BY <1>2, <1>5, <2>1, FS_RemoveElement
  <2>3. Cardinality(live) <= maxCacheEntries
    BY <1>1, <1>2, SizeAssumption DEF CacheBounded
  <2>4. kept \subseteq DOMAIN cache
    BY <1>5
  <2> QED
    BY <1>2, <2>2, <2>3, <2>4, SizeAssumption
<1>6. \/ Cardinality(DOMAIN cache) < maxCacheEntries /\ kept = DOMAIN cache
      \/ Cardinality(live) < maxCacheEntries /\ kept = live
      \/ \E k \in oldest : kept = live \ {k}
  BY Zenon DEF evictLocked
<1> QED
  BY <1>3, <1>4, <1>5, <1>6

\* Storing an answer keeps the bound.
LEMMA StoreKeepsBound ==
    ASSUME BoundInv, NEW c \in Callers, Store(c)
    PROVE  DOMAIN cache' \subseteq Keys /\ CacheBounded'
<1>1. PICK kept \in evictLocked : DOMAIN cache' = kept \cup {key[c]}
  BY DEF Store
<1>2. /\ kept \subseteq DOMAIN cache /\ IsFiniteSet(kept)
      /\ Cardinality(kept) < maxCacheEntries
  BY EvictLeavesRoom DEF BoundInv
<1>3. key[c] \in Keys
  BY DEF BoundInv, Store
<1>4. /\ Cardinality(kept) \in Nat
      /\ Cardinality(kept \cup {key[c]}) <= Cardinality(kept) + 1
  <2>1. Cardinality(kept) \in Nat
    BY <1>2, FS_CardinalityType
  <2>2. CASE key[c] \in kept
    <3>1. kept \cup {key[c]} = kept
      BY <2>2
    <3> QED
      BY <2>1, <3>1
  <2>3. CASE key[c] \notin kept
    <3>1. Cardinality(kept \cup {key[c]}) = Cardinality(kept) + 1
      BY <1>2, <2>3, FS_AddElement
    <3> QED
      BY <2>1, <3>1
  <2> QED
    BY <2>2, <2>3
<1>5. IsFiniteSet(kept \cup {key[c]})
  BY <1>2, FS_AddElement
<1>6. Cardinality(kept \cup {key[c]}) \in Nat
  BY <1>5, FS_CardinalityType
<1>7. Cardinality(DOMAIN cache') <= maxCacheEntries
  BY <1>1, <1>2, <1>4, <1>6, SizeAssumption
<1> QED
  BY <1>1, <1>2, <1>3, <1>7 DEF BoundInv, CacheBounded

\* The digest cache never outgrows maxCacheEntries, however the calls of Pinned
\* overlap between their two critical sections.
THEOREM CacheNeverOverflows == Spec => []CacheBounded
<1>1. Init => BoundInv
  <2> SUFFICES ASSUME Init PROVE BoundInv
    OBVIOUS
  <2>1. DOMAIN cache = {}
    BY DEF Init
  <2>2. Cardinality({}) = 0
    BY FS_EmptySet
  <2>3. CacheBounded
    BY <2>1, <2>2, SizeAssumption DEF CacheBounded
  <2> QED
    BY <2>1, <2>3 DEF Init, BoundInv
<1>2. BoundInv /\ [Next]_vars => BoundInv'
  <2> SUFFICES ASSUME BoundInv, [Next]_vars
               PROVE  BoundInv'
    OBVIOUS
  <2>1. ASSUME NEW c \in Callers, NEW k \in Keys, Lookup(c, k)
        PROVE  BoundInv'
    BY <2>1 DEF Lookup, Return, BoundInv, CacheBounded
  <2>2. ASSUME NEW c \in Callers, HeadAnswers(c)
        PROVE  BoundInv'
    BY <2>2 DEF HeadAnswers, BoundInv, CacheBounded
  <2>3. ASSUME NEW c \in Callers, HeadFails(c)
        PROVE  BoundInv'
    BY <2>3 DEF HeadFails, Return, BoundInv, CacheBounded
  <2>4. ASSUME NEW c \in Callers, Store(c)
        PROVE  BoundInv'
    <3>1. DOMAIN cache' \subseteq Keys /\ CacheBounded'
      BY <2>4, StoreKeepsBound
    <3>2. key' = key /\ pc' = [pc EXCEPT ![c] = "idle"]
      BY <2>4 DEF Store, Return
    <3> QED
      BY <3>1, <3>2 DEF BoundInv
  <2>5. ASSUME NEW k \in Keys, NEW d \in Digests, Push(k, d)
        PROVE  BoundInv'
    BY <2>5 DEF Push, callVars, BoundInv, CacheBounded
  <2>6. CASE Tick
    BY <2>6 DEF Tick, callVars, BoundInv, CacheBounded
  <2>7. CASE UNCHANGED vars
    BY <2>7 DEF vars, callVars, BoundInv, CacheBounded
  <2> QED
    BY <2>1, <2>2, <2>3, <2>4, <2>5, <2>6, <2>7 DEF Next
<1>3. BoundInv => CacheBounded
  BY DEF BoundInv
<1> QED
  BY <1>1, <1>2, <1>3, PTL DEF Spec

-----------------------------------------------------------------------------
(* The age of an answer. *)

\* What a call holds or the cache keeps was behind its tag when the request for
\* it was under way, and no request is older than digestResolveTimeout.
FreshInv ==
    /\ TypeOK
    /\ \A k \in Keys : /\ lastCurrent[k][registry[k]] = now
                       /\ \A d \in Digests : lastCurrent[k][d] <= now
    /\ \A c \in Callers : pc[c] # "idle" =>
          key[c] \in Keys /\ began[c] <= now /\ now - began[c] <= digestResolveTimeout
    /\ \A c \in Callers : pc[c] = "answered" =>
          digest[c] \in Digests /\ lastCurrent[key[c]][digest[c]] >= began[c]
    /\ \A k \in DOMAIN cache :
          lastCurrent[k][cache[k].digest] >= cache[k].resolvedAt - digestResolveTimeout

\* The types for the locals when a call returns.
LEMMA ReturnTypes ==
    ASSUME TypeOK, NEW c \in Callers, NEW d \in Digests \cup {None}, Return(c, d)
    PROVE  /\ pc' \in [Callers -> {"idle", "head", "answered"}]
           /\ entry' \in [Callers -> digestEntry \cup {NoEntry}]
           /\ digest' \in [Callers -> Digests \cup {None}]
           /\ began' \in [Callers -> 0..MaxTime]
  BY TimeAssumption DEF TypeOK, Return

\* What a call of Pinned stores has the age of its request.
LEMMA StoreKeepsFresh ==
    ASSUME FreshInv, NEW c \in Callers, Store(c)
    PROVE  FreshInv'
<1>1. /\ pc[c] = "answered" /\ key[c] \in Keys /\ digest[c] \in Digests
      /\ lastCurrent[key[c]][digest[c]] >= began[c]
      /\ began[c] <= now /\ now - began[c] <= digestResolveTimeout
  BY DEF Store, FreshInv
<1>2. UNCHANGED <<now, registry, lastCurrent, key, pushes, faults>>
  BY DEF Store, boundVars
<1>3. Return(c, digest[c])
  BY DEF Store
<1>4. PICK kept \in evictLocked :
          cache' = [k \in kept \cup {key[c]} |->
                      IF k = key[c] THEN [digest |-> digest[c], resolvedAt |-> now]
                                    ELSE cache[k]]
  BY DEF Store
<1>5. kept \subseteq DOMAIN cache
  BY DEF evictLocked
<1>6. /\ DOMAIN cache' = kept \cup {key[c]}
      /\ cache'[key[c]] = [digest |-> digest[c], resolvedAt |-> now]
      /\ \A k \in DOMAIN cache' : k # key[c] => k \in DOMAIN cache /\ cache'[k] = cache[k]
  BY <1>4, <1>5
<1>7. DOMAIN cache' \subseteq Keys /\ \A k \in DOMAIN cache' : cache'[k] \in digestEntry
  <2>1. [digest |-> digest[c], resolvedAt |-> now] \in digestEntry
    BY <1>1 DEF FreshInv, TypeOK, digestEntry
  <2> QED
    BY <1>1, <1>5, <1>6, <2>1 DEF FreshInv, TypeOK
<1>8. TypeOK'
  BY <1>1, <1>2, <1>3, <1>7, ReturnTypes DEF FreshInv, TypeOK
<1>9. \A k \in DOMAIN cache' :
        lastCurrent'[k][cache'[k].digest] >= cache'[k].resolvedAt - digestResolveTimeout
  <2> SUFFICES ASSUME NEW k \in DOMAIN cache'
               PROVE  lastCurrent[k][cache'[k].digest] >= cache'[k].resolvedAt - digestResolveTimeout
    BY <1>2
  <2>1. CASE k = key[c]
    <3>1. began[c] \in Int /\ now \in Int /\ lastCurrent[key[c]][digest[c]] \in Int
      BY <1>1 DEF FreshInv, TypeOK
    <3> QED
      BY <1>1, <1>6, <2>1, <3>1, TimeAssumption
  <2>2. CASE k # key[c]
    BY <1>6, <2>2 DEF FreshInv
  <2> QED
    BY <2>1, <2>2
<1>10. pc' = [pc EXCEPT ![c] = "idle"] /\ \A b \in Callers : b # c => digest'[b] = digest[b] /\ began'[b] = began[b]
  BY <1>3 DEF Return, FreshInv, TypeOK
<1> QED
  BY <1>2, <1>8, <1>9, <1>10 DEF FreshInv, TypeOK

\* Every step keeps FreshInv: time and pushes move lastCurrent forward only.
LEMMA FreshStep == FreshInv /\ [Next]_vars => FreshInv'
<1> SUFFICES ASSUME FreshInv, [Next]_vars
             PROVE  FreshInv'
  OBVIOUS
<1> USE TimeAssumption
<1>1. ASSUME NEW c \in Callers, NEW k \in Keys, Lookup(c, k)
      PROVE  FreshInv'
  <2>1. /\ UNCHANGED <<now, registry, lastCurrent, cache, pushes, faults>>
        /\ key' = [key EXCEPT ![c] = k]
    BY <1>1 DEF Lookup, boundVars
  <2>2. CASE k \in DOMAIN cache /\ Return(c, cache[k].digest)
    <3>1. cache[k].digest \in Digests
      BY <2>2 DEF FreshInv, TypeOK, digestEntry
    <3>2. TypeOK'
      BY <2>1, <2>2, <3>1, ReturnTypes DEF FreshInv, TypeOK
    <3>3. /\ pc' = [pc EXCEPT ![c] = "idle"]
          /\ \A b \in Callers : b # c => digest'[b] = digest[b] /\ began'[b] = began[b] /\ key'[b] = key[b]
      BY <2>1, <2>2 DEF Return, FreshInv, TypeOK
    <3> QED
      BY <2>1, <3>2, <3>3 DEF FreshInv, TypeOK
  <2>3. CASE /\ pc' = [pc EXCEPT ![c] = "head"]
             /\ entry' = [entry EXCEPT ![c] = IF k \in DOMAIN cache THEN cache[k] ELSE NoEntry]
             /\ digest' = [digest EXCEPT ![c] = None]
             /\ began' = [began EXCEPT ![c] = now]
    <3>1. TypeOK'
      BY <2>1, <2>3 DEF FreshInv, TypeOK
    <3>2. pc'[c] = "head" /\ key'[c] = k /\ began'[c] = now
      BY <2>1, <2>3 DEF FreshInv, TypeOK
    <3>3. \A b \in Callers : b # c =>
             pc'[b] = pc[b] /\ digest'[b] = digest[b] /\ began'[b] = began[b] /\ key'[b] = key[b]
      BY <2>1, <2>3 DEF FreshInv, TypeOK
    <3>4. now \in Int
      BY DEF FreshInv, TypeOK
    <3> QED
      BY <2>1, <3>1, <3>2, <3>3, <3>4 DEF FreshInv
  <2> QED
    BY <1>1, <2>2, <2>3 DEF Lookup
<1>2. ASSUME NEW c \in Callers, HeadAnswers(c)
      PROVE  FreshInv'
  <2>1. /\ UNCHANGED <<now, registry, lastCurrent, cache, key, entry, began, pushes, faults>>
        /\ pc[c] = "head" /\ pc' = [pc EXCEPT ![c] = "answered"]
        /\ digest' = [digest EXCEPT ![c] = registry[key[c]]]
    BY <1>2 DEF HeadAnswers, boundVars
  <2>2. key[c] \in Keys /\ registry[key[c]] \in Digests
    BY <2>1 DEF FreshInv, TypeOK
  <2>3. TypeOK'
    BY <2>1, <2>2 DEF FreshInv, TypeOK
  <2>4. digest'[c] = registry[key[c]] /\ lastCurrent[key[c]][digest'[c]] = now /\ began[c] <= now
    BY <2>1, <2>2 DEF FreshInv, TypeOK
  <2>5. \A b \in Callers : b # c => pc'[b] = pc[b] /\ digest'[b] = digest[b]
    BY <2>1 DEF FreshInv, TypeOK
  <2>6. now \in Int /\ began[c] \in Int
    BY DEF FreshInv, TypeOK
  <2> QED
    BY <2>1, <2>2, <2>3, <2>4, <2>5, <2>6 DEF FreshInv
<1>3. ASSUME NEW c \in Callers, HeadFails(c)
      PROVE  FreshInv'
  <2>1. /\ UNCHANGED <<now, registry, lastCurrent, cache, key, pushes>>
        /\ faults' \in 0..MaxFaults /\ Return(c, entry[c].digest)
    BY <1>3 DEF HeadFails, FreshInv, TypeOK
  <2>2. entry[c].digest \in Digests \cup {None}
    BY DEF FreshInv, TypeOK, digestEntry, NoEntry
  <2>3. TypeOK'
    BY <2>1, <2>2, ReturnTypes DEF FreshInv, TypeOK
  <2>4. /\ pc' = [pc EXCEPT ![c] = "idle"]
        /\ \A b \in Callers : b # c => digest'[b] = digest[b] /\ began'[b] = began[b]
    BY <2>1 DEF Return, FreshInv, TypeOK
  <2> QED
    BY <2>1, <2>3, <2>4 DEF FreshInv, TypeOK
<1>4. ASSUME NEW c \in Callers, Store(c)
      PROVE  FreshInv'
  BY <1>4, StoreKeepsFresh
<1>5. ASSUME NEW k \in Keys, NEW d \in Digests, Push(k, d)
      PROVE  FreshInv'
  <2>1. /\ UNCHANGED <<now, cache, pc, key, entry, digest, began, faults>>
        /\ pushes' \in 0..MaxPushes
        /\ registry' = [registry EXCEPT ![k] = d]
        /\ lastCurrent' = [lastCurrent EXCEPT ![k] = [lastCurrent[k] EXCEPT ![d] = now]]
    BY <1>5 DEF Push, callVars, FreshInv, TypeOK
  <2>2. TypeOK'
    BY <2>1 DEF FreshInv, TypeOK
  <2>3. \A l \in Keys, e \in Digests : lastCurrent'[l][e] =
           IF l = k /\ e = d THEN now ELSE lastCurrent[l][e]
    BY <2>1 DEF FreshInv, TypeOK
  <2>4. \A l \in Keys, e \in Digests : /\ lastCurrent[l][e] \in Int /\ lastCurrent'[l][e] \in Int
                                       /\ lastCurrent'[l][e] >= lastCurrent[l][e]
                                       /\ lastCurrent'[l][e] <= now
    BY <2>3 DEF FreshInv, TypeOK
  <2>5. \A l \in Keys : lastCurrent'[l][registry'[l]] = now
    BY <2>1, <2>3 DEF FreshInv, TypeOK
  <2> QED
    BY <2>1, <2>2, <2>4, <2>5 DEF FreshInv, TypeOK, digestEntry
<1>6. CASE Tick
  <2>1. /\ UNCHANGED <<registry, cache, pc, key, entry, digest, began, pushes, faults>>
        /\ now' = now + 1 /\ now' \in 0..MaxTime
        /\ \A c \in Callers : pc[c] # "idle" => now - began[c] < digestResolveTimeout
        /\ lastCurrent' = [k \in Keys |-> [lastCurrent[k] EXCEPT ![registry[k]] = now + 1]]
    BY <1>6 DEF Tick, callVars, boundVars, FreshInv, TypeOK
  <2>2. TypeOK'
    BY <2>1 DEF FreshInv, TypeOK
  <2>3. \A l \in Keys, e \in Digests : lastCurrent'[l][e] =
           IF e = registry[l] THEN now + 1 ELSE lastCurrent[l][e]
    BY <2>1 DEF FreshInv, TypeOK
  <2>4. \A l \in Keys, e \in Digests : /\ lastCurrent[l][e] \in Int /\ lastCurrent'[l][e] \in Int
                                       /\ lastCurrent'[l][e] >= lastCurrent[l][e]
                                       /\ lastCurrent'[l][e] <= now'
    BY <2>1, <2>3 DEF FreshInv, TypeOK
  <2>5. \A l \in Keys : lastCurrent'[l][registry'[l]] = now'
    BY <2>1, <2>3 DEF FreshInv, TypeOK
  <2>6. \A c \in Callers : pc[c] # "idle" =>
          began[c] <= now' /\ now' - began[c] <= digestResolveTimeout
    BY <2>1 DEF FreshInv, TypeOK
  <2> QED
    BY <2>1, <2>2, <2>4, <2>5, <2>6 DEF FreshInv, TypeOK, digestEntry
<1>7. CASE UNCHANGED vars
  BY <1>7 DEF vars, callVars, boundVars, FreshInv, TypeOK
<1> QED
  BY <1>1, <1>2, <1>3, <1>4, <1>5, <1>6, <1>7 DEF Next

\* For every TTL, timeout, size and number of callers: what Pinned returns from
\* the registry or from a live entry was behind the tag less than a TTL and a
\* request ago, although calls that overlap store their answers in any order.
THEOREM AnswersAreFresh == Spec => FreshEnough
<1>1. Init => FreshInv
  <2> SUFFICES ASSUME Init PROVE FreshInv
    OBVIOUS
  <2>1. TypeOK
    BY TimeAssumption DEF Init, TypeOK
  <2>2. \A k \in Keys, d \in Digests : lastCurrent[k][d] = IF registry[k] = d THEN 0 ELSE -1
    BY DEF Init
  <2> QED
    BY <2>1, <2>2, TimeAssumption DEF Init, FreshInv, TypeOK
<1>2. FreshInv /\ [Next]_vars
        => [\A c \in Callers :
              (pc'[c] = "idle" /\ digest'[c] # None /\ faults' = faults
                 /\ (pc[c] # "idle" \/ digest'[c] # digest[c] \/ key'[c] # key[c]))
                 => now - lastCurrent[key'[c]][digest'[c]] < digestResolveTTL + digestResolveTimeout]_vars
  <2> SUFFICES ASSUME FreshInv, Next, NEW c \in Callers,
                      pc'[c] = "idle", digest'[c] # None, faults' = faults,
                      pc[c] # "idle" \/ digest'[c] # digest[c] \/ key'[c] # key[c]
               PROVE  now - lastCurrent[key'[c]][digest'[c]] < digestResolveTTL + digestResolveTimeout
    OBVIOUS
  <2>1. \/ \E k \in Keys : Lookup(c, k)
        \/ Store(c)
    <3>1. \A b \in Callers : ~HeadFails(b)
      BY DEF HeadFails, FreshInv, TypeOK
    <3>2. \A k \in Keys, d \in Digests : ~Push(k, d)
      BY DEF Push, callVars
    <3>3. ~Tick
      BY DEF Tick, callVars
    <3>4. \A b \in Callers : ~HeadAnswers(b)
      BY DEF HeadAnswers, FreshInv, TypeOK
    <3>5. \A b \in Callers, k \in Keys : Lookup(b, k) => b = c
      BY DEF Lookup, Return, FreshInv, TypeOK
    <3>6. \A b \in Callers : Store(b) => b = c
      BY DEF Store, Return, FreshInv, TypeOK
    <3> QED
      BY <3>1, <3>2, <3>3, <3>4, <3>5, <3>6 DEF Next
  <2>2. ASSUME NEW k \in Keys, Lookup(c, k)
        PROVE  now - lastCurrent[key'[c]][digest'[c]] < digestResolveTTL + digestResolveTimeout
    <3>1. key'[c] = k
      BY <2>2 DEF Lookup, FreshInv, TypeOK
    <3>2. k \in DOMAIN cache /\ Live(cache[k]) /\ digest'[c] = cache[k].digest
      BY <2>2 DEF Lookup, Return, FreshInv, TypeOK
    <3>3. /\ lastCurrent[k][cache[k].digest] >= cache[k].resolvedAt - digestResolveTimeout
          /\ lastCurrent[k][cache[k].digest] \in Int /\ now \in Int /\ cache[k].resolvedAt \in Int
      BY <3>2 DEF FreshInv, TypeOK, digestEntry
    <3> QED
      BY <3>1, <3>2, <3>3, TimeAssumption DEF Live
  <2>3. CASE Store(c)
    <3>1. key' = key /\ digest'[c] = digest[c] /\ pc[c] = "answered"
      BY <2>3 DEF Store, Return, FreshInv, TypeOK
    <3>2. /\ lastCurrent[key[c]][digest[c]] >= began[c] /\ now - began[c] <= digestResolveTimeout
          /\ lastCurrent[key[c]][digest[c]] \in Int /\ now \in Int /\ began[c] \in Int
      BY <3>1 DEF FreshInv, TypeOK
    <3> QED
      BY <3>1, <3>2, TimeAssumption
  <2> QED
    BY <2>1, <2>2, <2>3
<1> QED
  BY <1>1, <1>2, FreshStep, PTL DEF Spec, FreshEnough

=============================================================================
