\* One edit: the managed detector is given up while the former pods still serve.
SPECIFICATION Spec
CONSTANTS
    Modes = {"off", "generated"}
    FirstModes = {"generated"}
    Suspends = {FALSE}
    CacheLag = FALSE
    MaxEvents = 1
PROPERTIES KeptWhileUsed
