SPECIFICATION MCSpec
CONSTANTS
    Tree <- MCTree
    Primary <- MCPrimary
    Home <- MCHome
    Secrets <- MCSecrets
    Requests <- MCRequests
    GrantRequests <- MCGrants
    Swaps <- MCSwaps
    Fresh = "fresh"
    TextAlphabets <- MCTexts
    NewTexts <- MCNew
    MaxFile = 4
    MaxOld = 3
    Settings <- MCSettings
    MaxEdits = 2
    MaxUpdates = 2
    Programs = {p, q}
    Path = {1, 2, 3}
    Control = {2}
    StateDir = {1}
    Content = {1, 2}
    Commits <- MCCommits
    CopyBudget = 2
    MaxChanges = 2
    Instance = {1, 2, 3}
    RepoOf <- MCRepoOf
    IdOf <- MCIdOf
    Parallelism = 2
    MaxAsk = 1
    Command = {p, q}
    Directory = {1, 2, 3, 4, 5, 6}
    Slash = 1
    Name = {"w", "h", "t"}
    Layout <- MCLayout
    Inside = {2, 4, 5, 6}
    Granted <- MCGranted
    Cwds <- MCCwds
    Caches <- MCCaches
    Temps <- MCTemps
    Planted <- MCPlanted
    Ways <- MCWays
    Places <- MCPlaces
    MaxLinks = 1
    Machines <- MCMachines
    MaxMoves = 2
SYMMETRY Alike
INVARIANTS
    RootsHold
    EditsKeepTheRest
    LimitsHold
    ResultsAreTrue
CHECK_DEADLOCK FALSE
