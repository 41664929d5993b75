SPECIFICATION Spec
CONSTANTS
    Clients = {c1, c2}
    Nobody = Nobody
    c1 = c1
    c2 = c2
    Workloads <- Both
    MaxDumps <- Dumps
    MaxMisses = 1
PROPERTIES DisarmedForGood ArmedAgain LoopsOrWedged
CHECK_DEADLOCK FALSE
