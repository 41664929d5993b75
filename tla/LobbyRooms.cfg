CONSTANTS
    c1 = c1
    c2 = c2
    a = a
    NoName = NoName
    Clients <- TwoClients
    Names <- TwoRooms
    Ops = {"create", "join", "list"}
    MaxReq <- TwoAndOne
SPECIFICATION FairSpec
INVARIANTS ToldExists ViewComplete
PROPERTIES RequestsAnswered
