CONSTANTS
    Query = {1, 2}
    File = {f, g}
    SpawnBudget = 2
    QueueCap = 1
    MaxPublished = 2
    MaxCrash = 1
    RingBytes = 4
    Budget = 7
    Reserve = 1
    SpillMaxBytes = 6
    MaxSteps = 2
    MaxChunk = 4
    MaxBytes = 7
    MaxWire = 6
    LimitBytes = 5
    MaxRetries = 2
    MaxStreamBytes = 3
    MaxFragments = 4
    CallIndex = {0, 1}
    MaxRounds = 2
    MaxCalls = 2
    MaxInjected = 1
    Keyboard = {1, 2, 3, 4}
    MaxInput = 3
    ImageCap = 2
    HistoryCap = 2
    Call = {1, 2}
    Page = {"a", "b", "c"}
    CachedPages = 2
    MaxRedirects = 1
    ChunkChars = 2
    PageChars <- MCPageChars
    MaxFetch = 3
    Paster = {1, 2}
    ImageLength = 2
    MaxImageBytes = 6
    MaxTotalBytes = 9
    MaxRequestBytes = 14
    MaxPerMessage = 2
    Envelope = 2
    NoteBytes = 1
    FileKinds = {0, 2, 5, 7}
    MaxMessages = 2
    MaxImages = 3
    Roots <- MCRoots
    Place = {"skills", "home", "a", "b", "c", "d"}
    Links <- MCLinks
    SkillNames = {"x"}
    MaxBroken = 1
    MaxWalkDepth = 2
    MaxSessionList = 2
    Saved = {1, 2, 3, 4}
    Clock = {1, 2, 3}
    Entry = {"request_write_root", "skill", "typo"}
    Instance = {1, 2}
    Cap = 1
    MaxTyped = 5
SPECIFICATION EdgesSpec
INVARIANTS
    ReplyHolds
    UserLosesNothing
    ModelIsToldTheTruth
PROPERTIES
    ReplyEnds
CHECK_DEADLOCK FALSE
