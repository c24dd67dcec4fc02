\* Two objects under one name, background and foreground deletion, policy edits, failures.
SPECIFICATION FairSpec
CONSTANTS
    ServerSide = {"cluster"}
    CreateOrUpdate = {"meiliSecret", "meili"}
    ApplyRank <- MCApplyRank
    RetainRank <- MCRetainRank
    Foreground = {FALSE, TRUE}
    MaxUids = 2
    MaxEdits = 2
    MaxFaults = 2
PROPERTIES RetainKeepsData Adopts DeletionEnds
CHECK_DEADLOCK FALSE
