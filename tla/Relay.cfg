CONSTANTS
    h1 = h1
    h2 = h2
    Hosts <- TwoHosts
    MaxSent <- TwoAndOne
    MaxMoves <- OnlyFirst
SPECIFICATION FairSpec
INVARIANT OwnAddress
PROPERTIES NewestAddress MainEnds
