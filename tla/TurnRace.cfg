CONSTANTS
    t1 = t1
    t2 = t2
    Turn <- Turns
    NoTurn = NoTurn
    StepCap = 1
    MaxCalls = 1
    MaxBegin = 2
    MaxAsks = 1
    MaxSteer = 1
    MaxDrop = 0
    MaxRestore = 0
    DenialBreaker = 1
SYMMETRY Symmetry
SPECIFICATION Spec
INVARIANTS
    ParkedIsCancellable
    SteerLandsInItsTurn
PROPERTIES
    NothingRunsAfterTheEnd
CHECK_DEADLOCK FALSE
