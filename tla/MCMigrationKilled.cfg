\* An image change while a migration runs.
SPECIFICATION Spec
CONSTANTS
    Images <- MCImages
    Configs <- MCOne
    None = None
    FirstSpec <- MCFirst
    Suspends = {FALSE}
    PreBackups = {FALSE}
    CacheLag = FALSE
    MaxEdits = 1
    MaxDeletes = 0
    MaxFaults = 0
PROPERTIES NoMigrationKilled
