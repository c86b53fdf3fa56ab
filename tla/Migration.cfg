SPECIFICATION FairSpec
CONSTANTS
    Openers = {c1, c2}
    Rows = {r1, r2, r3}
    Unreadable = {r3}
    Starts = {1, 4, 8}
    OldBuildsRun = TRUE
    MaxFaults = 2
    NoOne = NoOne
INVARIANTS
    VersionsTellSchema
    HistoryIsKept
PROPERTIES
    EveryoneOpens
CHECK_DEADLOCK FALSE
