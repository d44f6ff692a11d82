CONSTANTS
    t1 = t1
    t2 = t2
    Turn <- OneTurn
    NoTurn = NoTurn
    StepCap = 2
    MaxCalls = 2
    MaxBegin = 1
    MaxAsks = 2
    MaxSteer = 0
    MaxDrop = 1
    MaxRestore = 1
    DenialBreaker = 2
SPECIFICATION Spec
INVARIANTS
    CallsAreSettled
    HumanConsent
    BudgetHolds
CHECK_DEADLOCK FALSE
