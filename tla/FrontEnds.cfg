CONSTANTS
    Turn = {1, 2, 3}
    NoTurn = 0
    Request = {1, 2}
    MaxAsk = 1
    Job = 1
    MaxDenied = 1
    MaxPrompt = 2
    QueueCap = 2
    AskCap = 1
    MaxCompact = 1
    LateSteer = FALSE
SPECIFICATION FrontSpec
INVARIANTS
    LeasesHold
    ExitCodeIsTrue
    ScreenIsTrue
PROPERTIES
    FrontEndsLetGo
CHECK_DEADLOCK FALSE
