CONSTANTS
    turnLoop = turnLoop
    frontEnd = frontEnd
    Saver <- Savers
    RecentTail = 0
    Retries = 1
    MaxEntries = 2
    MaxEdits = 1
    MaxCrash = 1
    MaxStarts = 4
SPECIFICATION MCSpec
INVARIANTS
    FlushDurable
    TranscriptIsSaved
PROPERTIES
    FlushAnswered
CHECK_DEADLOCK FALSE
