\* Verification switched off and on, the database made external, conflicts and
\* crashes, a lagging cache.
SPECIFICATION FairSpec
CONSTANTS
    Interval = 3
    Timeout = 2
    Modes = {"verify", "off", "external"}
    CacheLag = TRUE
    MaxEdits = 2
    MaxWrites = 2
    MaxFaults = 2
PROPERTIES AtMostOneExtra RecordedBeforeDeleted TestEnds KeepsVerifying
