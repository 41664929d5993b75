CONSTANTS
    t1 = t1
    t2 = t2
    Tools <- OneTool
    MaxCmds <- TwoCommands
    MaxPids = 3
SPECIFICATION Spec
PROPERTIES CleanupCleans
