SPECIFICATION Spec
CONSTANTS
    o1 = o1
    o2 = o2
    n1 = n1
    n2 = n2
    k = k
    x = x
    h = h
    Callers = {c1, c2}
    ObjectIds = {o1, o2}
    RowIds = {n1, n2}
    Kinds = {k}
    ExternalIds = {x}
    Types = {"supplies"}
    HistoryIds = {h}
    NoExternal = NoExternal
    MaxRevision = 1
    Requests <- MCCalls
INVARIANTS
    TypeOK
    CheckedRowIsCurrent
    OkIsStored
    MissingIsNotFound
PROPERTIES
    ImplementsRecords
CHECK_DEADLOCK FALSE
