CONSTANTS
    c1 = c1
    c2 = c2
    NoConn = NoConn
    Conns <- TwoConns
    Rmi <- LoginRmi
    Plan <- LoginPlan
    Inputs <- LoginInputs
    MaxReq <- TwoAndOne
    Cap = 1
    Draining = {c1}
SPECIFICATION FairSpec
INVARIANTS TypeOK WireFramed
PROPERTIES ImplementsReplyStreams ClientsServed LeaversRemoved ShutdownCompletes
