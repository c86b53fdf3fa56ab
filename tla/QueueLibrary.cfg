SPECIFICATION Spec
CONSTANTS
    v1 = v1  v2 = v2  v3 = v3  a1 = a1
    NoDue = NoDue
    NoJob = NoJob
    IdRank <- MCIdRank
    VideoJobs = {v1, v2}
    ArticleJobs = {a1}
    MaxClaimBatch = 1
    MaxText = 1
    MaxHistory = 2
    MaxRevision = 3
    MaxLimit = 2
CHECK_DEADLOCK FALSE
INVARIANTS RevisionNamesOneRow RecordsAgree
PROPERTIES SettledStaysSettled ClaimsInOrder
