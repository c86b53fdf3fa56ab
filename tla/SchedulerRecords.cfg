SPECIFICATION FairSpec
CONSTANTS
    v1 = v1  v2 = v2  a1 = a1
    d1 = d1  d2 = d2
    p1 = p1  p2 = p2
    NoDue = NoDue
    NoJob = NoJob
    IdRank <- MCIdRank
    ClockText <- MCClockText
    TargetsOf <- MCTargetsOf
    Registered <- MCRegistered
    VideoJobs = {v1}
    ArticleJobs = {a1}
    Daemons = {d1}
    Platforms = {p1}
    MaxClaimBatch = 2
    BatchSize = 1
    MaxTime = 1
    MaxText = 2
    MaxHistory = 3
    FaultPoints = {"claim", "complete"}
    MaxFaults = 1
    MaxCrashes = 0
    MaxDispatches = 1
    ImportableIds <- MCImportableIds
INVARIANTS NothingEarly BatchIsShared RecordsAreSound
PROPERTY DueJobsSettle
