SPECIFICATION Spec
CONSTANTS
    v1 = v1  v2 = v2  a1 = a1
    d1 = d1  d2 = d2
    p1 = p1  p2 = p2
    NoDue = NoDue
    NoJob = NoJob
    IdRank <- MCIdRank
    ClockText <- MCClockText
    TargetsOf <- MCTargetsOf
    Registered <- MCRegistered
    VideoJobs = {v1, v2}
    ArticleJobs = {}
    Daemons = {d1, d2}
    Platforms = {p1, p2}
    MaxClaimBatch = 2
    BatchSize = 2
    MaxTime = 0
    MaxText = 1
    MaxHistory = 2
    FaultPoints = {"claim", "complete", "requeue"}
    MaxFaults = 2
    MaxCrashes = 1
    MaxDispatches = 0
    ImportableIds = {}
SYMMETRY DaemonSymmetry
INVARIANTS TypeOK ClaimsAreExclusive DuplicatesNeedLoss OnlyFaultsOrphan PublishedWasTaken
PROPERTY ImplementsLedger
