SPECIFICATION SubFairSpec
CONSTANTS
    MaxDispatch = 2
    MaxTurns = 2
    ConfiguredMax = 2
    HardMaxConcurrent = 2
    MaxRetainedAgents = 1
    MaxAgentSteps = 2
INVARIANTS
    ChildrenHold
PROPERTIES
    DispatchReturns
CHECK_DEADLOCK FALSE
