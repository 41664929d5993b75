CONSTANTS
    c1 = c1
    c2 = c2
    NoConn = NoConn
    Conns <- TwoConns
    Rmi <- ChatRmi
    Plan <- ChatPlan
    Inputs <- ChatInputs
    MaxReq <- OneEach
    Cap = 4
    Draining = {c1, c2}
SPECIFICATION FairSpec
INVARIANTS WireFramed
