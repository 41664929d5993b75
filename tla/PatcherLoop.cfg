SPECIFICATION Spec
CONSTANTS
    Clients = {c1, c2}
    Nobody = Nobody
    c1 = c1
    c2 = c2
    Workloads <- Heap
    MaxDumps <- Dumps
    MaxMisses = 1
PROPERTY LoopsForever
CHECK_DEADLOCK FALSE
