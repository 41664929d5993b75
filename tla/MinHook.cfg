CONSTANTS
    t1 = t1
    t2 = t2
    th1 = th1
    Targets <- TwoTargets
    Codes <- CodesOfTwo
    Prologues <- SoundCodes
    Called <- CallsBoth
    Threads <- OneThread
    InitialCapacity = 1
    SlotsPerBlock = 2
    Bases = {0, 1}
SPECIFICATION FairSpec
INVARIANTS TypeOK AtInstruction TrampolineFaithful TableMatchesCode SlotsAccounted
PROPERTIES RemovalEvacuates CallsReturn
