SPECIFICATION Spec
CONSTANTS
    Cpus = {0, 1, 2}
    Topologies <- MCTopologies
    OnlineSets <- MCOnlineSets
    TRIALS = 2
    CAPS <- MCCaps
    MAX_CAP_ITEMS = 8
    ITEM = 3
    HUGEPAGE = 16
    MAX_FREE = 3
    MAX_RESERVED = 1
    MAX_LOC = 1
INVARIANT PreflightIsSound HugepagesSuffice LocDeltaIsOwn
CHECK_DEADLOCK FALSE
