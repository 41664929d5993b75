CONSTANTS
    t1 = t1
    t2 = t2
    Tools <- TwoTools
    MaxCmds <- OneEach
    MaxPids = 4
SPECIFICATION FairSpec
INVARIANTS ChainBounded LaunchedHasDll CleanupReachesOld
PROPERTIES Awakened
