\* Two workers, tags whose content changes, a cache smaller than the set of keys.
SPECIFICATION Spec
CONSTANTS
    Callers = {c1, c2}
    Keys = {k1, k2, k3}
    Digests = {d1, d2}
    None = None
    digestResolveTTL = 2
    digestResolveTimeout = 1
    maxCacheEntries = 2
    MaxTime = 4
    MaxPushes = 1
    MaxFaults = 1
SYMMETRY Symmetry
INVARIANT CacheBounded
PROPERTY FreshEnough
CHECK_DEADLOCK FALSE
