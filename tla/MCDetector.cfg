SPECIFICATION FairSpec
CONSTANTS
    Modes = {"off", "generated", "own", "external"}
    FirstModes = {"off", "generated"}
    Suspends = {FALSE, TRUE}
    CacheLag = TRUE
    MaxEvents = 2
INVARIANTS UntouchedWithoutBlock RowIsServed
PROPERTIES ConfiguredBeforeRollout ReadyIsConfigured DetectorSettles
