SPECIFICATION FairSpec
CONSTANTS
    v1 = v1  v2 = v2  a1 = a1
    d1 = d1  d2 = d2
    p1 = p1  p2 = p2
    NoDue = NoDue
    NoJob = NoJob
    IdRank <- MCIdRank
    ClockText <- MCClockText
    TargetsOf <- MCTargetsOf
    Registered <- MCRegistered
    VideoJobs = {v1}
    ArticleJobs = {a1}
    Daemons = {d1}
    Platforms = {p1}
    MaxClaimBatch = 1
    BatchSize = 1
    MaxTime = 0
    MaxText = 1
    MaxHistory = 1
    FaultPoints = {}
    MaxFaults = 0
    MaxCrashes = 1
    MaxDispatches = 0
    ImportableIds = {}
PROPERTY ClaimsAreResolved
