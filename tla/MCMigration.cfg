\* Image and input changes against a lagging cache.
SPECIFICATION Spec
CONSTANTS
    Images <- MCImages
    Configs <- MCConfigs
    None = None
    FirstSpec <- MCFirst
    Suspends = {FALSE}
    PreBackups = {FALSE}
    CacheLag = TRUE
    MaxEdits = 2
    MaxDeletes = 1
    MaxFaults = 0
INVARIANTS MigratedBeforeRollout NoMigrationStorm
PROPERTIES RetryHitsOldJob ImplementsUpgrade
