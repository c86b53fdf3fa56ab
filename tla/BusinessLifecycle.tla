------------------------- MODULE BusinessLifecycle -------------------------
(***************************************************************************)
(* The business records of one SQLite file and the programs that share it: *)
(* the daemon's HTTP API, the command line, the MCP server and the desktop *)
(* application.  Each program has a connection of its own, so a call's     *)
(* queries interleave with those of every other program.  An insertion is  *)
(* a few existence queries and an autocommit INSERT; a transition is one   *)
(* deferred transaction: a SELECT that takes SQLite's shared lock, an      *)
(* UPDATE that takes the reserved lock and a COMMIT that waits for every   *)
(* other reader.  A query that waits too long fails, and any program may   *)
(* die between two queries.                                                *)
(***************************************************************************)
EXTENDS BusinessStates, Naturals, Sequences, FiniteSets

CONSTANTS
    Callers,      \* connections, each with one call at a time
    Requests,     \* the calls they may make
    ObjectIds, RowIds, Kinds, ExternalIds, Types, HistoryIds,
    NoExternal,   \* the object has no external id
    MaxRevision   \* the largest revision the database can hold

Fronts == {"http", "cli", "mcp", "desktop"}

Lists   == {"business_objects", "ledger_entries", "content_attributions",
            "business_relations"}
Inserts == {"insert_business_object", "insert_ledger_entry",
            "insert_content_attribution", "insert_business_relation"}
Operations == Lists \cup Inserts \cup {"business_object", "transition_business_object"}

\* What may be wrong with a request before any row is looked at.
Defects == {"none", "malformed", "foreign_path", "empty_field", "bad_value"}

RequestSpace ==
    [front : Fronts, op : Operations, object : ObjectIds, id : RowIds, kind : Kinds,
     external : ExternalIds \cup {NoExternal}, target : ObjectIds, type : Types,
     history : HistoryIds, lifecycle : Lifecycles, approval : Approvals,
     expected : 0 .. MaxRevision, defect : Defects]

ASSUME LifecycleAssumption ==
    /\ Requests \subseteq RequestSpace
    /\ Requests # {}
    /\ MaxRevision \in Nat
    /\ NoExternal \notin ExternalIds

\* The tables' rows; what the properties never tell apart (names, amounts,
\* attributes, times) is left out.
BusinessObject ==
    [id : ObjectIds, kind : Kinds, external : ExternalIds \cup {NoExternal},
     lifecycle : Lifecycles, approval : Approvals, revision : 0 .. MaxRevision]
LedgerEntry        == [id : RowIds, object : ObjectIds]
ContentAttribution == [object : ObjectIds, history : HistoryIds]
BusinessRelation   == [id : RowIds, object : ObjectIds, target : ObjectIds, type : Types]

VARIABLES
    objects, ledger, attributions, relations, \* the tables
    history,   \* ids of the recorded publications
    at,        \* where each caller's call is
    request,   \* what it asks for
    checks,    \* the existence queries it has still to make
    loaded,    \* the row a transition has read
    outcome    \* "ok", or the error the repository returned

tableVars == <<objects, ledger, attributions, relations>>
callVars  == <<at, request, checks, loaded, outcome>>
vars      == <<tableVars, history, callVars>>

Init ==
    /\ objects = {}
    /\ ledger = {}
    /\ attributions = {}
    /\ relations = {}
    /\ history = {}
    /\ at = [c \in Callers |-> "idle"]
    /\ request = [c \in Callers |-> CHOOSE r \in Requests : TRUE]
    /\ checks = [c \in Callers |-> <<>>]
    /\ loaded = [c \in Callers |-> {}]
    /\ outcome = [c \in Callers |-> "none"]

-----------------------------------------------------------------------------
(* A call enters through its program. *)

\* Which repository operations the handlers of each program lead to.  The desktop
\* has no command that reads one object.
HttpOperations    == Operations
CliOperations     == Operations
McpOperations     == Operations
DesktopOperations == Operations \ {"business_object"}

Offered(r) ==
    \/ r.front = "http" /\ r.op \in HttpOperations
    \/ r.front = "cli" /\ r.op \in CliOperations
    \/ r.front = "mcp" /\ r.op \in McpOperations
    \/ r.front = "desktop" /\ r.op \in DesktopOperations

\* What a program refuses before it turns to the repository.  The daemon: a body that
\* does not parse or has an unknown field, and one that names another object than its
\* path.  The command line: an argument it cannot read or an empty one.  The MCP
\* server and the desktop: what their input types cannot hold.
HttpRefuses(r) ==
    \/ r.defect = "malformed"
    \/ r.defect = "foreign_path" /\ r.op \in Inserts \ {"insert_business_object"}

CliRefuses(r) == r.defect \in {"malformed", "empty_field"}

RefusesInput(r) ==
    \/ r.front = "http" /\ HttpRefuses(r)
    \/ r.front = "cli" /\ CliRefuses(r)
    \/ r.front \in {"mcp", "desktop"} /\ r.defect = "malformed"

\* Mutant: the daemon no longer looks up the object of a new ledger entry.
HttpLooksUp_NotEntries(r) ==
    r.op \in (Lists \cup Inserts) \ {"business_objects", "insert_business_object",
                                     "insert_ledger_entry"}

\* The daemon looks the object up before it touches anything below it, the command
\* line only before it lists.
HttpLooksUp(r) ==
    r.op \in (Lists \cup Inserts) \ {"business_objects", "insert_business_object"}

CliLooksUp(r) == r.op \in Lists \ {"business_objects"}

LooksUpFirst(r) ==
    \/ r.front = "http" /\ HttpLooksUp(r)
    \/ r.front = "cli" /\ CliLooksUp(r)

\* What an existence query may end in ("Invalid" is the validation before the first).
Errors == {"Invalid", "UnknownBusinessObject", "UnknownTarget", "UnknownHistoryRecord",
           "DuplicateBusinessObjectId", "DuplicateBusinessObjectExternalId",
           "DuplicateLedgerEntryId", "DuplicateContentAttribution",
           "DuplicateBusinessRelationId", "DuplicateBusinessRelation"}

\* The queries of each repository operation before its own statement, each named
\* by the error it leads to.
ObjectQueries ==
    <<"Invalid", "DuplicateBusinessObjectId", "DuplicateBusinessObjectExternalId">>
EntryQueries == <<"Invalid", "UnknownBusinessObject", "DuplicateLedgerEntryId">>
AttributionQueries ==
    <<"Invalid", "UnknownBusinessObject", "UnknownHistoryRecord",
      "DuplicateContentAttribution">>
RelationQueries ==
    <<"Invalid", "UnknownBusinessObject", "UnknownTarget", "DuplicateBusinessRelationId",
      "DuplicateBusinessRelation">>
ListQueries == <<"UnknownBusinessObject">>

Queries(op) ==
    IF op = "insert_business_object" THEN ObjectQueries
    ELSE IF op = "insert_ledger_entry" THEN EntryQueries
    ELSE IF op = "insert_content_attribution" THEN AttributionQueries
    ELSE IF op = "insert_business_relation" THEN RelationQueries
    ELSE IF op \in Lists \ {"business_objects"} THEN ListQueries
    ELSE <<>>

\* Where a call is when these of its queries are left: at the next one, or at the
\* statement they were for.
PlaceOf(op, left) ==
    IF left # <<>> THEN "check"
    ELSE IF op \in Inserts THEN "insert"
    ELSE IF op = "transition_business_object" THEN "load" ELSE "read"

Begin(c) ==
    /\ at[c] \in {"idle", "done"}
    /\ \E r \in Requests :
        /\ Offered(r)
        /\ request' = [request EXCEPT ![c] = r]
        /\ \/ /\ RefusesInput(r)
              /\ at' = [at EXCEPT ![c] = "done"]
              /\ outcome' = [outcome EXCEPT ![c] = "Input"]
              /\ UNCHANGED checks
           \/ /\ ~RefusesInput(r)
              /\ checks' = [checks EXCEPT ![c] = Queries(r.op)]
              /\ at' = [at EXCEPT ![c] =
                   IF LooksUpFirst(r) THEN "look_up" ELSE PlaceOf(r.op, Queries(r.op))]
              /\ outcome' = [outcome EXCEPT ![c] = "none"]
    /\ UNCHANGED <<tableVars, history, loaded>>

-----------------------------------------------------------------------------
(* The repository's queries. *)

Known(id) == \E object \in objects : object.id = id

\* validate_business_object, validate_ledger_entry and validate_business_relation.
Invalid(r) ==
    \/ r.defect \in {"empty_field", "bad_value"}
    \/ r.op = "insert_business_relation" /\ r.object = r.target

Refused(error, r) ==
    \/ error = "Invalid" /\ Invalid(r)
    \/ error = "UnknownBusinessObject" /\ ~Known(r.object)
    \/ error = "UnknownTarget" /\ ~Known(r.target)
    \/ error = "UnknownHistoryRecord" /\ r.history \notin history
    \/ error = "DuplicateBusinessObjectId" /\ Known(r.object)
    \/ /\ error = "DuplicateBusinessObjectExternalId"
       /\ r.external # NoExternal
       /\ \E other \in objects : other.kind = r.kind /\ other.external = r.external
    \/ error = "DuplicateLedgerEntryId" /\ \E entry \in ledger : entry.id = r.id
    \/ error = "DuplicateContentAttribution"
       /\ [object |-> r.object, history |-> r.history] \in attributions
    \/ error = "DuplicateBusinessRelationId" /\ \E other \in relations : other.id = r.id
    \/ /\ error = "DuplicateBusinessRelation"
       /\ \E other \in relations :
            /\ other.object = r.object
            /\ other.target = r.target
            /\ other.type = r.type

Answer(c, result) ==
    /\ at' = [at EXCEPT ![c] = "done"]
    /\ outcome' = [outcome EXCEPT ![c] = result]
    /\ checks' = [checks EXCEPT ![c] = <<>>]
    /\ loaded' = [loaded EXCEPT ![c] = {}]
    /\ UNCHANGED request

Advance(c, place) ==
    /\ at' = [at EXCEPT ![c] = place]
    /\ UNCHANGED <<request, outcome>>

\* The program's own look at the object: require_business_object of the daemon and
\* object_or_not_found of the command line.
LookUp(c) ==
    /\ at[c] = "look_up"
    /\ \/ ~Known(request[c].object) /\ Answer(c, "NotFound")
       \/ Known(request[c].object) /\ Advance(c, "check") /\ UNCHANGED <<checks, loaded>>
    /\ UNCHANGED <<tableVars, history>>

Check(c) ==
    /\ at[c] = "check"
    /\ checks[c] # <<>>
    /\ \/ /\ Refused(Head(checks[c]), request[c])
          /\ Answer(c, IF Head(checks[c]) = "UnknownTarget"
                       THEN "UnknownBusinessObject" ELSE Head(checks[c]))
       \/ /\ ~Refused(Head(checks[c]), request[c])
          /\ Advance(c, PlaceOf(request[c].op, Tail(checks[c])))
          /\ checks' = [checks EXCEPT ![c] = Tail(@)]
          /\ UNCHANGED loaded
    /\ UNCHANGED <<tableVars, history>>

\* One SELECT: an object that is not there is an error only when it was asked for.
Read(c) ==
    /\ at[c] = "read"
    /\ Answer(c, IF request[c].op = "business_object" /\ ~Known(request[c].object)
                 THEN "UnknownBusinessObject" ELSE "ok")
    /\ UNCHANGED <<tableVars, history>>

-----------------------------------------------------------------------------
(* Locks.  They follow from where the calls are: a transition reads from its   *)
(* load to its commit, and has reserved the file once its UPDATE ran.          *)

\* Mutant: the transaction begins with the UPDATE, after the row was read.
Reading_Late(c) == at[c] = "commit"

Reading(c) == at[c] \in {"update", "commit"}
Reserved(c) == at[c] = "commit"

OthersRead(c)    == \E other \in Callers \ {c} : Reading(other)
OthersReserve(c) == \E other \in Callers \ {c} : Reserved(other)

-----------------------------------------------------------------------------
(* The INSERT statements, each refused by the keys of its table. *)

NewObjectKey(r) ==
    /\ ~Known(r.object)
    /\ \/ r.external = NoExternal
       \/ \A other \in objects : other.kind # r.kind \/ other.external # r.external

NewEntryKey(r) == \A entry \in ledger : entry.id # r.id

NewAttributionKey(r) == [object |-> r.object, history |-> r.history] \notin attributions

NewRelationKey(r) ==
    \A other \in relations :
        /\ other.id # r.id
        /\ \/ other.object # r.object
           \/ other.target # r.target
           \/ other.type # r.type

Unique(r) ==
    /\ r.op = "insert_business_object" => NewObjectKey(r)
    /\ r.op = "insert_ledger_entry" => NewEntryKey(r)
    /\ r.op = "insert_content_attribution" => NewAttributionKey(r)
    /\ r.op = "insert_business_relation" => NewRelationKey(r)

References(r) ==
    /\ r.op # "insert_business_object" => Known(r.object)
    /\ r.op = "insert_business_relation" => Known(r.target)
    /\ r.op = "insert_content_attribution" => r.history \in history

\* Mutant: the two statuses are bound to each other's columns.
NewObject_Swapped(r) ==
    [id |-> r.object, kind |-> r.kind, external |-> r.external,
     lifecycle |-> r.approval, approval |-> r.lifecycle, revision |-> 0]

\* The desktop creates every object as a pending draft.
NewObject(r) ==
    [id |-> r.object, kind |-> r.kind, external |-> r.external,
     lifecycle |-> IF r.front = "desktop" THEN "draft" ELSE r.lifecycle,
     approval |-> IF r.front = "desktop" THEN "pending" ELSE r.approval,
     revision |-> 0]

InsertObject(c) ==
    /\ request[c].op = "insert_business_object"
    /\ objects' = objects \cup {NewObject(request[c])}
    /\ UNCHANGED <<ledger, attributions, relations>>

InsertEntry(c) ==
    /\ request[c].op = "insert_ledger_entry"
    /\ ledger' = ledger \cup {[id |-> request[c].id, object |-> request[c].object]}
    /\ UNCHANGED <<objects, attributions, relations>>

InsertAttribution(c) ==
    /\ request[c].op = "insert_content_attribution"
    /\ attributions' = attributions \cup
         {[object |-> request[c].object, history |-> request[c].history]}
    /\ UNCHANGED <<objects, ledger, relations>>

InsertRelation(c) ==
    /\ request[c].op = "insert_business_relation"
    /\ relations' = relations \cup
         {[id |-> request[c].id, object |-> request[c].object,
           target |-> request[c].target, type |-> request[c].type]}
    /\ UNCHANGED <<objects, ledger, attributions>>

Insert(c) ==
    /\ at[c] = "insert"
    /\ ~OthersRead(c)
    /\ \/ /\ Unique(request[c]) /\ References(request[c])
          /\ \/ InsertObject(c)
             \/ InsertEntry(c)
             \/ InsertAttribution(c)
             \/ InsertRelation(c)
          /\ Answer(c, "ok")
       \/ /\ ~(Unique(request[c]) /\ References(request[c]))
          /\ Answer(c, "Database")
          /\ UNCHANGED tableVars
    /\ UNCHANGED history

-----------------------------------------------------------------------------
(* A transition: BEGIN and SELECT, the checks on the row, UPDATE, COMMIT. *)

\* Why the row that was read cannot make the step, or "none".  The overflow error of
\* the next revision, a u64, is out of reach: SQLite holds no revision that large.
TransitionError(row, r) ==
    IF row.revision # r.expected THEN "StaleBusinessObjectRevision"
    ELSE IF row.lifecycle = r.lifecycle /\ row.approval = r.approval
      THEN "BusinessObjectTransitionNoop"
    ELSE IF row.lifecycle # r.lifecycle
            /\ <<row.lifecycle, r.lifecycle>> \notin LifecycleEdges
      THEN "InvalidBusinessObjectLifecycleTransition"
    ELSE IF row.approval # r.approval /\ <<row.approval, r.approval>> \notin ApprovalEdges
      THEN "InvalidBusinessObjectApprovalTransition"
    ELSE "none"

\* An error drops the transaction, and with it the lock.
Load(c) ==
    /\ at[c] = "load"
    /\ \/ ~Known(request[c].object) /\ Answer(c, "UnknownBusinessObject")
       \/ \E row \in objects :
            /\ row.id = request[c].object
            /\ \/ /\ TransitionError(row, request[c]) # "none"
                  /\ Answer(c, TransitionError(row, request[c]))
               \/ /\ TransitionError(row, request[c]) = "none"
                  /\ Advance(c, "update")
                  /\ loaded' = [loaded EXCEPT ![c] = {row}]
                  /\ UNCHANGED checks
    /\ UNCHANGED <<tableVars, history>>

\* The rows of UPDATE ... WHERE id = ? AND revision = ?
Matching(r) == {row \in objects : row.id = r.object /\ row.revision = r.expected}

\* Mutant: the transaction is dropped without its commit.
Update_NoCommit(c) ==
    /\ at[c] = "update"
    /\ ~OthersReserve(c)
    /\ Answer(c, IF Cardinality(Matching(request[c])) = 1
                 THEN "ok" ELSE "ConcurrentBusinessObjectUpdate")
    /\ UNCHANGED <<tableVars, history>>

\* The next revision is bound as a signed 64-bit parameter, which fails past the
\* largest one before SQLite sees the statement.
Unbindable(r) == r.expected + 1 > MaxRevision

\* Only one connection reserves the file; a reader that finds it reserved does not
\* wait (see Busy).
Update(c) ==
    /\ at[c] = "update"
    /\ \/ /\ Unbindable(request[c])
          /\ Answer(c, "Database")
       \/ /\ ~Unbindable(request[c]) /\ ~OthersReserve(c)
          /\ Cardinality(Matching(request[c])) = 1
          /\ Advance(c, "commit")
          /\ UNCHANGED <<checks, loaded>>
       \/ /\ ~Unbindable(request[c]) /\ ~OthersReserve(c)
          /\ Cardinality(Matching(request[c])) # 1
          /\ Answer(c, "ConcurrentBusinessObjectUpdate")
    /\ UNCHANGED <<tableVars, history>>

\* Mutant: the UPDATE leaves the revision as it is.
Moved_SameRevision(row, r) ==
    [row EXCEPT !.lifecycle = r.lifecycle, !.approval = r.approval]

Moved(row, r) ==
    [id |-> row.id, kind |-> row.kind, external |-> row.external,
     lifecycle |-> r.lifecycle, approval |-> r.approval, revision |-> r.expected + 1]

Commit(c) ==
    /\ at[c] = "commit"
    /\ ~OthersRead(c)
    /\ objects' = (objects \ Matching(request[c])) \cup
                  {Moved(row, request[c]) : row \in Matching(request[c])}
    /\ Answer(c, "ok")
    /\ UNCHANGED <<ledger, attributions, relations, history>>

\* SQLite refuses a statement: another connection, of these programs or of a
\* scheduler, holds the lock it needs for longer than the busy timeout, or is in the
\* way of a reader that wants to write.  The transaction is rolled back.
Busy(c) ==
    /\ \/ at[c] \in {"look_up", "read", "insert", "load", "update", "commit"}
       \/ at[c] = "check" /\ checks[c] # <<>> /\ Head(checks[c]) # "Invalid"
    /\ Answer(c, "Database")
    /\ UNCHANGED <<tableVars, history>>

\* The program dies; a hot journal is rolled back by whoever opens the file next.
Crash(c) ==
    /\ at[c] \notin {"idle", "done"}
    /\ at' = [at EXCEPT ![c] = "idle"]
    /\ request' = [request EXCEPT ![c] = CHOOSE r \in Requests : TRUE]
    /\ checks' = [checks EXCEPT ![c] = <<>>]
    /\ loaded' = [loaded EXCEPT ![c] = {}]
    /\ outcome' = [outcome EXCEPT ![c] = "none"]
    /\ UNCHANGED <<tableVars, history>>

\* A publication of another component is recorded.
RecordHistory ==
    /\ \E id \in HistoryIds : history' = history \cup {id}
    /\ UNCHANGED <<tableVars, callVars>>

Step(c) ==
    \/ Begin(c) \/ LookUp(c) \/ Check(c) \/ Read(c) \/ Insert(c)
    \/ Load(c) \/ Update(c) \/ Commit(c) \/ Busy(c) \/ Crash(c)

Next == RecordHistory \/ \E c \in Callers : Step(c)

Spec == Init /\ [][Next]_vars

-----------------------------------------------------------------------------
(* What the caller is told. *)

HttpTold(op, result) ==
    IF result = "NotFound" THEN "not_found"
    ELSE IF /\ result = "UnknownBusinessObject"
            /\ op \in {"business_object", "business_relations", "insert_business_relation",
                       "transition_business_object"}
      THEN "not_found" ELSE "rejected"

McpTold(result) ==
    IF result \in {"UnknownBusinessObject", "UnknownHistoryRecord"} THEN "not_found"
    ELSE IF result \in {"Database", "ConcurrentBusinessObjectUpdate",
                        "BusinessObjectRevisionOverflow"} THEN "failed"
    ELSE "invalid_input"

DesktopTold(result) ==
    IF result \in {"UnknownBusinessObject", "UnknownHistoryRecord"}
    THEN "not_found" ELSE "invalid_request"

CliTold(result) == IF result = "Input" THEN "exit 2" ELSE "exit 4"

Told(r, result) ==
    IF result = "ok" THEN "ok"
    ELSE IF r.front = "http" THEN HttpTold(r.op, result)
    ELSE IF r.front = "mcp" THEN McpTold(result)
    ELSE IF r.front = "desktop" THEN DesktopTold(result)
    ELSE CliTold(result)

-----------------------------------------------------------------------------
(* Properties. *)

Places == {"idle", "look_up", "check", "read", "insert", "load", "update", "commit",
           "done"}

Outcomes ==
    Errors \cup {"none", "ok", "Input", "NotFound", "Database",
                 "StaleBusinessObjectRevision", "BusinessObjectTransitionNoop",
                 "InvalidBusinessObjectLifecycleTransition",
                 "InvalidBusinessObjectApprovalTransition",
                 "ConcurrentBusinessObjectUpdate"}

TypeOK ==
    /\ objects \subseteq BusinessObject
    /\ ledger \subseteq LedgerEntry
    /\ attributions \subseteq ContentAttribution
    /\ relations \subseteq BusinessRelation
    /\ history \subseteq HistoryIds
    /\ at \in [Callers -> Places]
    /\ request \in [Callers -> Requests]
    /\ checks \in [Callers -> Seq(Errors)]
    /\ loaded \in [Callers -> SUBSET BusinessObject]
    /\ outcome \in [Callers -> Outcomes]

\* Whatever two programs check before they insert, an id names one object and an
\* external id names one object of its kind: between the existence queries of
\* insert_business_object and its INSERT another program may insert the same.
OneRowPerKey ==
    \A a, b \in objects :
        \/ a = b
        \/ /\ a.id # b.id
           /\ a.external = NoExternal \/ a.kind # b.kind \/ a.external # b.external

\* The row a transition has checked is still the stored row when its UPDATE and its
\* COMMIT run, whatever the other programs write meanwhile: the edge it takes, and
\* the object it answers with, belong to that row.
CheckedRowIsCurrent ==
    \A c \in Callers : at[c] \in {"update", "commit"} =>
        \E row \in objects :
            /\ row.id = request[c].object
            /\ loaded[c] = {row}
            /\ TransitionError(row, request[c]) = "none"

\* An answered success is in the tables: the object, entry, link or relation that was
\* inserted, or a revision past the one that was to be moved on.
OkIsStored ==
    \A c \in Callers : (at[c] = "done" /\ outcome[c] = "ok") =>
        LET r == request[c] IN
        /\ r.op = "insert_business_object" => Known(r.object)
        /\ r.op = "insert_ledger_entry" => [id |-> r.id, object |-> r.object] \in ledger
        /\ r.op = "insert_content_attribution" =>
             [object |-> r.object, history |-> r.history] \in attributions
        /\ r.op = "insert_business_relation" =>
             [id |-> r.id, object |-> r.object, target |-> r.target, type |-> r.type]
               \in relations
        /\ r.op = "transition_business_object" =>
             \E row \in objects : row.id = r.object /\ row.revision > r.expected

\* A missing object is reported as not found by the daemon, the MCP server and the
\* desktop application, although the daemon answers any repository error below an
\* object as a bad request; and what hangs off an object is only listed for one that
\* exists.
MissingIsNotFound ==
    \A c \in Callers : at[c] = "done" =>
        /\ (outcome[c] \in {"UnknownBusinessObject", "NotFound"}
              /\ request[c].front # "cli") => Told(request[c], outcome[c]) = "not_found"
        /\ (outcome[c] = "ok" /\ request[c].op \in Lists \ {"business_objects"})
              => Known(request[c].object)

\* The tables of all programs together behave as the versioned, append-only store of
\* BusinessRecords.
Records == INSTANCE BusinessRecords WITH
    Object <- {object \in BusinessObject : object.revision = 0},
    Entry <- LedgerEntry, Attribution <- ContentAttribution,
    Relation <- BusinessRelation, History <- HistoryIds
ImplementsRecords == Records!Spec
=============================================================================
