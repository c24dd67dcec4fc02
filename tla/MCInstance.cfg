SPECIFICATION FairSpec
CONSTANTS
    Specs <- MCSpecs
    FirstSpecs <- MCFirstSpecs
    Moves <- MCMoves
    MaxEdits = 2
    MaxFaults = 1
    MaxReplicas = 2
INVARIANTS NoTwins RotatesOnce Reachable
PROPERTIES IsolatedFirst RollsOncePerChange RolledPodsResolve WrittenBeforeRollout ServedWhenRunning ObjectsSettle WorkloadsSettle
