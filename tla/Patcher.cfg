SPECIFICATION Spec
CONSTANTS
    Hooks <- FewHooks
    KillApis <- TwoApis
    Callers = {c1, c2}
    PatchLoop = loop
    Windows <- SomeWindows
    MaxKills = 1
    MaxEvents = 2
INVARIANTS ObserversUntouched ExitsIgnored ParamReadable OneLogUnderFlag
PROPERTIES LateModulesHooked FlagFreed DialogsDismissed
CHECK_DEADLOCK FALSE
