SPECIFICATION Spec
CONSTANTS
    dy = dy
    ks = ks
    jj = jj
    f1 = f1
    Invocations = {i1, i2}
    Requests <- MCRequests
    Platforms = {dy, ks, jj}
    Files = {f1}
    MaxRows = 2
INVARIANTS
    HistoryTellsTheWork
    AnswersAreEarned
    UnrecordedIsTold
    StaleFilesAreSkipped
SYMMETRY Symmetry
CHECK_DEADLOCK FALSE
