CONSTANTS
    t1 = t1
    t2 = t2
    Turn <- Turns
    NoTurn = NoTurn
    StepCap = 1
    MaxCalls = 1
    MaxBegin = 1
    MaxAsks = 1
    MaxSteer = 0
    MaxDrop = 0
    MaxRestore = 1
    DenialBreaker = 1
SPECIFICATION FairSpec
INVARIANTS
    TurnsAreSerial
    OwnOutcome
    RestoreMeetsLosers
PROPERTIES
    HandleResolves
    ImplementsContract
CHECK_DEADLOCK FALSE
