CONSTANTS
    c1 = c1
    c2 = c2
    NoConn = NoConn
    Conns <- TwoConns
    Rmi <- RoomRmi
    Plan <- RoomPlan
    Inputs <- RoomInputs
    MaxReq <- OneEach
    Cap = 6
    Draining = {}
SPECIFICATION Spec
INVARIANTS RegistryExact SenderOrder
PROPERTIES BroadcastReachesAll
SYMMETRY TwoConnsSym
