\* Size and class changes from the first install on, crashes, a lagging cache.
SPECIFICATION FairSpec
CONSTANTS
    Sizes = {1, 2, 3}
    Classes = {"fast", "slow"}
    FirstTemplate <- MCFirstTemplate
    Installed = FALSE
    AllowExpansion = TRUE
    CacheLag = TRUE
    MaxEdits = 2
    MaxTouches = 1
    MaxMisses = 1
    MaxFaults = 2
PROPERTIES DeletesOutdated TemplateConverges ClaimGrows
