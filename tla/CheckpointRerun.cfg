SPECIFICATION StoresSpec
CONSTANTS
    d = d
    a = a
    g = g
    s = s
    root = root
    f1 = f1
    f2 = f2
    Path <- Paths
    Parent <- Parents
    Root = root
    Content <- Contents
    Skipped <- Skips
    CaptureLinks = TRUE
    Retained = 1
    MaxEntries = 2
    MaxSnapshots = 1
    MaxEdits = 2
    MaxCrash = 0
    p = p
    q = q
    Process <- Processes
    Workspace = {"home"}
    MaxLaunch = 0
    Dir = {"lib"}
    MaxKey = 0
    MaxSave = 0
    MaxMeddle = 0
INVARIANTS
    RerunFinishes
CHECK_DEADLOCK FALSE
