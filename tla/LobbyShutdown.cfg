CONSTANTS
    c1 = c1
    c2 = c2
    NoConn = NoConn
    Conns <- TwoConns
    Rmi <- ChatRmi
    Plan <- ChatPlan
    Inputs <- ChatInputs
    MaxReq <- OnlyFirst
    Cap = 1
    Draining = {c2}
SPECIFICATION FairSpec
PROPERTIES ShutdownCompletes
