SPECIFICATION Spec
CONSTANTS
    Platforms = {"fanqie"}
    MaxPolls = 2
    MaxChecks = 3
    MaxNotices = 1
    MaxLayouts = 0
    MaxMisses = 0
    Crashing = FALSE
INVARIANT EarlierMarkersAreRejected
CHECK_DEADLOCK FALSE
