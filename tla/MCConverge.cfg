\* Suspension, image changes, crashes and failed calls, a lagging cache; liveness.
SPECIFICATION FairSpec
CONSTANTS
    Images <- MCImages
    Configs <- MCOne
    None = None
    FirstSpec <- MCFirst
    Suspends = {FALSE, TRUE}
    PreBackups = {FALSE}
    CacheLag = TRUE
    MaxEdits = 2
    MaxDeletes = 0
    MaxFaults = 1
PROPERTIES Converges SuspendStops
