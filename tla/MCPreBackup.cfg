\* The Backup gate with a current cache and preBackup always on, and suspension.
SPECIFICATION Spec
CONSTANTS
    Images <- MCImages
    Configs <- MCConfigs
    None = None
    FirstSpec <- MCFirstBackup
    Suspends = {FALSE, TRUE}
    PreBackups = {TRUE}
    CacheLag = FALSE
    MaxEdits = 3
    MaxDeletes = 1
    MaxFaults = 1
PROPERTIES BackupBeforeMigration
