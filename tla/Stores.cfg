SPECIFICATION StoresSpec
CONSTANTS
    d = d
    a = a
    g = g
    s = s
    root = root
    f1 = f1
    f2 = f2
    Path <- Paths
    Parent <- Parents
    Root = root
    Content <- Contents
    Skipped <- Skips
    CaptureLinks = FALSE
    Retained = 1
    MaxEntries = 2
    MaxSnapshots = 2
    MaxEdits = 1
    MaxCrash = 1
    p = p
    q = q
    Process <- Processes
    Workspace = {"home", "away"}
    MaxLaunch = 2
    Dir = {"lib"}
    MaxKey = 2
    MaxSave = 2
    MaxMeddle = 1
SYMMETRY Alike
INVARIANTS
    RestoreExact
    NoWriteThrough
    RetainedAreWhole
    StoresHold
PROPERTIES
    GrantsStand
CHECK_DEADLOCK FALSE
