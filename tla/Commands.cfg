SPECIFICATION CommandsSpec
CONSTANTS
    t1 = t1
    t2 = t2
    Task <- Tasks
    MaxJobs = 2
    MaxSteps = 2
    MaxRetained = 1
    CancelForeground = FALSE
    Alphabets <- MCAlphabets
    SCRIPT_NESTING = 4
    MAX_BRACE_WORDS = 4
    TrustedRules <- MCTrusted
    AllowIrreversible <- MCAllow
    Policies <- MCPolicies
    Calls <- MCCalls
    AutoAllow = {"job"}
    ShimPrograms <- MCShims
    Replies <- MCReplies
    Paths = {"p"}
    Dirs = {"d", "e"}
INVARIANTS
    VerdictsHold
    ConsentHolds
    DispatchHolds
    RestoreIdle
    FinishedIsDead
    ShutdownReaches
PROPERTIES
    CallsGetThrough
CHECK_DEADLOCK FALSE
