---------------------- MODULE BusinessLifecycleProofs ----------------------
(***************************************************************************)
(* What BusinessLifecycle promises for any number of programs, calls and   *)
(* rows.  The argument is about locks: while a transition holds the row it *)
(* has checked, no other program's INSERT or COMMIT can run, so the row is *)
(* current when it is replaced; everything else only grows.                *)
(***************************************************************************)
EXTENDS BusinessLifecycle, SequenceTheorems, TLAPS

ChildLists == Lists \ {"business_objects"}

\* Only a relation looks for a target, and a new object for no object.
MayAsk(queries, op) ==
    \A i \in 1 .. Len(queries) :
        /\ queries[i] = "UnknownTarget" => op = "insert_business_relation"
        /\ queries[i] = "UnknownBusinessObject" => op # "insert_business_object"

\* What is known about one call from where it is: which of its queries have been
\* answered, and how.
Prepared(c) ==
    /\ at[c] = "look_up" => LooksUpFirst(request[c])
    /\ at[c] \in {"check", "read", "insert"} /\ LooksUpFirst(request[c])
         => Known(request[c].object)
    /\ at[c] \in {"look_up", "check"} => checks[c] # <<>>
    /\ at[c] \in {"look_up", "check"} /\ request[c].op \in ChildLists
         => checks[c] = <<"UnknownBusinessObject">>
    /\ at[c] \in {"look_up", "check"} /\ request[c].op \in Inserts
         => checks[c] = Queries(request[c].op) \/ ~Invalid(request[c])
    /\ at[c] \in {"look_up", "check"}
         => request[c].op \in ChildLists \cup Inserts
    /\ at[c] \in {"look_up", "check"} => MayAsk(checks[c], request[c].op)
    /\ at[c] = "insert" => request[c].op \in Inserts /\ ~Invalid(request[c])
    /\ at[c] = "read" /\ request[c].op \in ChildLists => Known(request[c].object)
    /\ at[c] = "read" => request[c].op \in Lists \cup {"business_object"}
    /\ at[c] \in {"load", "update", "commit"}
         => request[c].op = "transition_business_object"
    /\ at[c] = "commit" => ~Unbindable(request[c])

Current(c) ==
    at[c] \in {"update", "commit"} =>
        \E row \in objects :
            /\ row.id = request[c].object
            /\ loaded[c] = {row}
            /\ TransitionError(row, request[c]) = "none"

Stored(r) ==
    /\ r.op = "insert_business_object" => Known(r.object)
    /\ r.op = "insert_ledger_entry" => [id |-> r.id, object |-> r.object] \in ledger
    /\ r.op = "insert_content_attribution" =>
         [object |-> r.object, history |-> r.history] \in attributions
    /\ r.op = "insert_business_relation" =>
         [id |-> r.id, object |-> r.object, target |-> r.target, type |-> r.type]
           \in relations
    /\ r.op = "transition_business_object" =>
         \E row \in objects : row.id = r.object /\ row.revision > r.expected
    /\ r.op \in ChildLists => Known(r.object)

Answered(c) ==
    at[c] = "done" =>
        /\ outcome[c] = "ok" => Stored(request[c])
        /\ outcome[c] = "NotFound" => request[c].front \in {"http", "cli"}
        /\ outcome[c] = "UnknownBusinessObject" =>
             /\ ~LooksUpFirst(request[c]) \/ request[c].op = "business_relations"
                  \/ request[c].op = "insert_business_relation" \/ request[c].front = "cli"
             /\ request[c].op \notin {"business_objects", "insert_business_object"}

CallOK(c) == Prepared(c) /\ Current(c) /\ Answered(c)

Inv == TypeOK /\ OneRowPerKey /\ \A c \in Callers : CallOK(c)

-----------------------------------------------------------------------------
(* What one step does to the tables. *)

CommitMoves(c) ==
    \E row \in objects :
        /\ row.id = request[c].object
        /\ row.revision = request[c].expected
        /\ TransitionError(row, request[c]) = "none"
        /\ ~Unbindable(request[c])
        /\ objects' = (objects \ {row}) \cup {Moved(row, request[c])}
        /\ UNCHANGED <<ledger, attributions, relations, history>>

RowInserted(c) ==
    /\ Unique(request[c])
    /\ References(request[c])
    /\ ~Invalid(request[c])
    /\ \/ InsertObject(c)
       \/ InsertEntry(c)
       \/ InsertAttribution(c)
       \/ InsertRelation(c)
    /\ UNCHANGED history

\* A COMMIT replaces the one row its transition has checked.
LEMMA CommitIsMove ==
    ASSUME LifecycleAssumption, Inv, NEW c \in Callers, Commit(c)
    PROVE  CommitMoves(c)
<1>1. CallOK(c) /\ at[c] = "commit"
  BY DEF Inv, Commit
<1>2. PICK row \in objects : /\ row.id = request[c].object
                             /\ TransitionError(row, request[c]) = "none"
  BY <1>1 DEF CallOK, Current
<1>3. row.revision = request[c].expected
  BY <1>2 DEF TransitionError
<1>4. Matching(request[c]) = {row}
  BY <1>2, <1>3 DEF Matching, Inv, OneRowPerKey
<1>5. {Moved(r, request[c]) : r \in Matching(request[c])} = {Moved(row, request[c])}
  BY <1>4
<1>6. ~Unbindable(request[c])
  BY <1>1 DEF CallOK, Prepared
<1>7. QED
  BY <1>2, <1>3, <1>4, <1>5, <1>6 DEF Commit, CommitMoves

\* A call that reads or is refused writes nothing; INSERT and COMMIT write while no
\* other call reads.
LEMMA StepEffect ==
    ASSUME LifecycleAssumption, Inv, NEW c \in Callers, Step(c)
    PROVE  /\ \A d \in Callers \ {c} :
                /\ at'[d] = at[d]
                /\ request'[d] = request[d]
                /\ checks'[d] = checks[d]
                /\ loaded'[d] = loaded[d]
                /\ outcome'[d] = outcome[d]
           /\ \/ UNCHANGED <<tableVars, history>>
              \/ /\ ~OthersRead(c)
                 /\ RowInserted(c) \/ CommitMoves(c)
<1>. USE DEF LifecycleAssumption, Inv, TypeOK
<1>1. CASE Begin(c)
  BY <1>1 DEF Begin, tableVars
<1>2. CASE LookUp(c)
  BY <1>2 DEF LookUp, Answer, Advance, tableVars
<1>3. CASE Check(c)
  BY <1>3 DEF Check, Answer, Advance, tableVars
<1>4. CASE Read(c)
  BY <1>4 DEF Read, Answer, tableVars
<1>5. CASE Insert(c)
  <2>1. ~Invalid(request[c])
    BY <1>5 DEF Insert, CallOK, Prepared
  <2>2. QED
    BY <1>5, <2>1 DEF Insert, Answer, RowInserted, tableVars
<1>6. CASE Load(c)
  BY <1>6 DEF Load, Answer, Advance, tableVars
<1>7. CASE Update(c)
  BY <1>7 DEF Update, Answer, Advance, tableVars
<1>8. CASE Commit(c)
  BY <1>8, CommitIsMove DEF Commit, Answer, LifecycleAssumption
<1>9. CASE Busy(c)
  BY <1>9 DEF Busy, Answer, tableVars
<1>10. CASE Crash(c)
  BY <1>10 DEF Crash, tableVars
<1>11. QED
  BY <1>1, <1>2, <1>3, <1>4, <1>5, <1>6, <1>7, <1>8, <1>9, <1>10 DEF Step

-----------------------------------------------------------------------------
(* The tables. *)

LEMMA MovedIsTyped ==
    ASSUME LifecycleAssumption, NEW row \in BusinessObject, NEW r \in RequestSpace,
           row.revision = r.expected, ~Unbindable(r)
    PROVE  /\ Moved(row, r) \in BusinessObject
           /\ Moved(row, r).id = row.id
           /\ Moved(row, r).kind = row.kind
           /\ Moved(row, r).external = row.external
           /\ Moved(row, r).revision = row.revision + 1
<1>1. /\ row.revision \in 0 .. MaxRevision
      /\ r.lifecycle \in Lifecycles
      /\ r.approval \in Approvals
  BY DEF BusinessObject, RequestSpace
<1>2. row.revision + 1 \in 0 .. MaxRevision
  BY <1>1 DEF Unbindable, LifecycleAssumption
<1>3. QED
  BY <1>1, <1>2 DEF Moved, BusinessObject

LEMMA RequestIsTyped ==
    ASSUME LifecycleAssumption, Inv, NEW c \in Callers
    PROVE  request[c] \in RequestSpace
BY DEF LifecycleAssumption, Inv, TypeOK

LEMMA NewObjectIsTyped ==
    ASSUME LifecycleAssumption, NEW r \in RequestSpace
    PROVE  /\ NewObject(r) \in BusinessObject
           /\ NewObject(r).id = r.object
           /\ NewObject(r).kind = r.kind
           /\ NewObject(r).external = r.external
           /\ NewObject(r).revision = 0
BY DEF LifecycleAssumption, RequestSpace, BusinessObject, NewObject, Lifecycles, Approvals

\* Rows stay, in a version no older than before; their keys stay different.
TablesGrow ==
    /\ objects' \subseteq BusinessObject
    /\ OneRowPerKey'
    /\ \A row \in objects : \E new \in objects' :
          new.id = row.id /\ new.revision >= row.revision
    /\ ledger \subseteq ledger' /\ ledger' \subseteq LedgerEntry
    /\ attributions \subseteq attributions' /\ attributions' \subseteq ContentAttribution
    /\ relations \subseteq relations' /\ relations' \subseteq BusinessRelation

LEMMA InsertGrows ==
    ASSUME LifecycleAssumption, Inv, NEW c \in Callers, RowInserted(c)
    PROVE  TablesGrow
<1>. USE DEF LifecycleAssumption
<1>. DEFINE r == request[c]
<1>1. r \in RequestSpace
  BY RequestIsTyped DEF LifecycleAssumption
<1>2. /\ \A row \in objects : row.revision >= row.revision
      /\ objects \subseteq BusinessObject
      /\ ledger \subseteq LedgerEntry
      /\ attributions \subseteq ContentAttribution
      /\ relations \subseteq BusinessRelation
      /\ OneRowPerKey
  BY DEF Inv, TypeOK, BusinessObject
<1>3. CASE InsertObject(c)
  <2>. DEFINE new == NewObject(r)
  <2>1. new \in BusinessObject /\ new.id = r.object /\ new.kind = r.kind
          /\ new.external = r.external
    BY <1>1, NewObjectIsTyped DEF LifecycleAssumption
  <2>2. objects' = objects \cup {new} /\ UNCHANGED <<ledger, attributions, relations>>
    BY <1>3 DEF InsertObject
  <2>3. NewObjectKey(r)
    BY <1>3 DEF InsertObject, RowInserted, Unique
  <2>4. \A row \in objects : /\ row.id # new.id
                             /\ \/ new.external = NoExternal
                                \/ row.kind # new.kind
                                \/ row.external # new.external
    BY <2>1, <2>3 DEF NewObjectKey, Known
  <2>5. OneRowPerKey'
    <3>. HIDE DEF new
    <3>. SUFFICES ASSUME NEW a \in objects', NEW b \in objects', a # b
                  PROVE  a.id # b.id /\ (\/ a.external = NoExternal
                                         \/ a.kind # b.kind
                                         \/ a.external # b.external)
      BY DEF OneRowPerKey
    <3>1. CASE a \in objects /\ b \in objects
      BY <1>2, <3>1 DEF OneRowPerKey
    <3>2. CASE a = new /\ b \in objects
      BY <2>4, <3>2
    <3>3. CASE a \in objects /\ b = new
      BY <2>4, <3>3
    <3>4. QED
      BY <2>2, <3>1, <3>2, <3>3
  <2>6. QED
    BY <1>2, <2>1, <2>2, <2>5 DEF TablesGrow
<1>4. CASE ~InsertObject(c)
  <2>1. UNCHANGED objects
    BY <1>4 DEF RowInserted, InsertEntry, InsertAttribution, InsertRelation
  <2>2. OneRowPerKey'
    BY <1>2, <2>1 DEF OneRowPerKey
  <2>3. /\ [id |-> r.id, object |-> r.object] \in LedgerEntry
        /\ [object |-> r.object, history |-> r.history] \in ContentAttribution
        /\ [id |-> r.id, object |-> r.object, target |-> r.target, type |-> r.type]
             \in BusinessRelation
    BY <1>1 DEF RequestSpace, LedgerEntry, ContentAttribution, BusinessRelation
  <2>4. /\ ledger \subseteq ledger' /\ ledger' \subseteq LedgerEntry
        /\ attributions \subseteq attributions' /\ attributions' \subseteq ContentAttribution
        /\ relations \subseteq relations' /\ relations' \subseteq BusinessRelation
    BY <1>2, <1>4, <2>3 DEF RowInserted, InsertEntry, InsertAttribution, InsertRelation
  <2>5. QED
    BY <1>2, <2>1, <2>2, <2>4 DEF TablesGrow
<1>5. QED
  BY <1>3, <1>4

LEMMA CommitGrows ==
    ASSUME LifecycleAssumption, Inv, NEW c \in Callers, CommitMoves(c)
    PROVE  TablesGrow
<1>. USE DEF LifecycleAssumption
<1>1. PICK row \in objects :
        /\ row.id = request[c].object
        /\ row.revision = request[c].expected
        /\ TransitionError(row, request[c]) = "none"
        /\ ~Unbindable(request[c])
        /\ objects' = (objects \ {row}) \cup {Moved(row, request[c])}
        /\ UNCHANGED <<ledger, attributions, relations, history>>
  BY DEF CommitMoves
<1>. DEFINE new == Moved(row, request[c])
<1>2. /\ objects \subseteq BusinessObject
      /\ ledger \subseteq LedgerEntry
      /\ attributions \subseteq ContentAttribution
      /\ relations \subseteq BusinessRelation
      /\ OneRowPerKey
  BY DEF Inv, TypeOK
<1>3. new \in BusinessObject /\ new.id = row.id /\ new.kind = row.kind
        /\ new.external = row.external /\ new.revision = row.revision + 1
  BY <1>1, <1>2, RequestIsTyped, MovedIsTyped DEF LifecycleAssumption
<1>. HIDE DEF new
<1>4. objects' = (objects \ {row}) \cup {new}
  BY <1>1 DEF new
<1>5. OneRowPerKey'
  <2>. SUFFICES ASSUME NEW a \in objects', NEW b \in objects', a # b
                PROVE  a.id # b.id /\ (\/ a.external = NoExternal
                                       \/ a.kind # b.kind
                                       \/ a.external # b.external)
    BY DEF OneRowPerKey
  <2>1. CASE a \in objects \ {row} /\ b \in objects \ {row}
    BY <1>2, <2>1 DEF OneRowPerKey
  <2>2. CASE a = new /\ b \in objects \ {row}
    BY <1>2, <1>3, <2>2 DEF OneRowPerKey
  <2>3. CASE a \in objects \ {row} /\ b = new
    BY <1>2, <1>3, <2>3 DEF OneRowPerKey
  <2>4. QED
    BY <1>4, <2>1, <2>2, <2>3
<1>6. \A other \in objects : \E later \in objects' :
          later.id = other.id /\ later.revision >= other.revision
  <2>1. row.revision \in Nat /\ \A other \in objects : other.revision \in Nat
    BY <1>1, <1>2 DEF BusinessObject
  <2>. TAKE other \in objects
  <2>2. CASE other = row
    <3>1. new \in objects' /\ new.id = other.id /\ new.revision >= other.revision
      BY <1>3, <1>4, <2>1, <2>2
    <3>2. QED
      BY <3>1
  <2>3. CASE other # row
    BY <1>4, <2>1, <2>3
  <2>4. QED
    BY <2>2, <2>3
<1>7. QED
  BY <1>1, <1>2, <1>3, <1>4, <1>5, <1>6 DEF TablesGrow

LEMMA StepGrows ==
    ASSUME LifecycleAssumption, Inv, NEW c \in Callers, Step(c)
    PROVE  TablesGrow
<1>1. CASE UNCHANGED <<tableVars, history>>
  <2>1. \A row \in objects : row.revision >= row.revision
    BY DEF Inv, TypeOK, BusinessObject
  <2>2. OneRowPerKey'
    BY <1>1 DEF Inv, OneRowPerKey, tableVars
  <2>3. QED
    BY <1>1, <2>1, <2>2 DEF Inv, TypeOK, TablesGrow, tableVars
<1>2. QED
  BY <1>1, StepEffect, InsertGrows, CommitGrows DEF LifecycleAssumption

LEMMA KnownGrows ==
    ASSUME TablesGrow, NEW id, Known(id)
    PROVE  Known(id)'
BY DEF TablesGrow, Known

LEMMA StoredGrows ==
    ASSUME Inv, TablesGrow, NEW r \in RequestSpace, Stored(r)
    PROVE  Stored(r)'
<1>1. Known(r.object) => Known(r.object)'
  BY KnownGrows
<1>2. ASSUME r.op = "transition_business_object"
      PROVE  \E row \in objects' : row.id = r.object /\ row.revision > r.expected
  <2>1. PICK row \in objects : row.id = r.object /\ row.revision > r.expected
    BY <1>2 DEF Stored
  <2>2. PICK later \in objects' : later.id = row.id /\ later.revision >= row.revision
    BY DEF TablesGrow
  <2>3. row.revision \in Nat /\ later.revision \in Nat /\ r.expected \in Nat
    BY DEF Inv, TypeOK, BusinessObject, TablesGrow, RequestSpace
  <2>4. QED
    BY <2>1, <2>2, <2>3
<1>3. r.op = "insert_business_relation" =>
        [id |-> r.id, object |-> r.object, target |-> r.target, type |-> r.type]
          \in relations'
  BY DEF Stored, TablesGrow
<1>4. QED
  BY <1>1, <1>2, <1>3 DEF Stored, TablesGrow

\* What another program does leaves a call as well prepared as it was.
LEMMA OtherCalls ==
    ASSUME LifecycleAssumption, Inv, NEW c \in Callers, Step(c),
           NEW d \in Callers \ {c}
    PROVE  CallOK(d)'
<1>. USE DEF LifecycleAssumption
<1>1. /\ at'[d] = at[d]
      /\ request'[d] = request[d]
      /\ checks'[d] = checks[d]
      /\ loaded'[d] = loaded[d]
      /\ outcome'[d] = outcome[d]
  BY StepEffect DEF LifecycleAssumption
<1>2. TablesGrow
  BY StepGrows DEF LifecycleAssumption
<1>3. CallOK(d)
  BY DEF Inv
<1>4. PICK r \in RequestSpace : r = request[d] /\ r = request'[d]
  BY <1>1, RequestIsTyped DEF LifecycleAssumption
<1>5. Prepared(d)'
  <2>1. Known(r.object) => Known(r.object)'
    BY <1>2, KnownGrows
  <2>2. QED
    BY <1>1, <1>3, <1>4, <2>1 DEF CallOK, Prepared
<1>6. Current(d)'
  <2>1. CASE at[d] \in {"update", "commit"}
    <3>1. OthersRead(c)
      BY <2>1 DEF OthersRead, Reading
    <3>2. UNCHANGED objects
      BY <3>1, StepEffect DEF LifecycleAssumption, tableVars
    <3>3. QED
      BY <1>1, <1>3, <3>2 DEF CallOK, Current, TransitionError
  <2>2. CASE at[d] \notin {"update", "commit"}
    BY <1>1, <2>2 DEF Current
  <2>3. QED
    BY <2>1, <2>2
<1>7. Answered(d)'
  <2>1. Stored(r) => Stored(r)'
    BY <1>2, StoredGrows
  <2>3. QED
    BY <1>1, <1>3, <1>4, <2>1 DEF CallOK, Answered
<1>8. QED
  BY <1>5, <1>6, <1>7 DEF CallOK

-----------------------------------------------------------------------------
(* The call that takes the step. *)

LEMMA DoneIsEnough ==
    ASSUME NEW c \in Callers, at'[c] \in {"done", "idle"}, Answered(c)'
    PROVE  CallOK(c)'
BY DEF CallOK, Prepared, Current

LEMMA QueriesMayAsk ==
    ASSUME NEW op
    PROVE  MayAsk(Queries(op), op) /\ Queries(op) \in Seq(Errors)
<1>1. CASE op = "insert_business_object"
  <2>1. Queries(op) =
          <<"Invalid", "DuplicateBusinessObjectId", "DuplicateBusinessObjectExternalId">>
    BY <1>1
    DEF Queries, Lists, ObjectQueries, EntryQueries, AttributionQueries, RelationQueries,
        ListQueries
  <2>2. Queries(op) \in Seq(Errors)
    BY <2>1 DEF Errors
  <2>3. MayAsk(Queries(op), op)
    BY <1>1, <2>1 DEF MayAsk
  <2>4. QED
    BY <2>2, <2>3
<1>2. CASE op = "insert_ledger_entry"
  <2>1. Queries(op) = <<"Invalid", "UnknownBusinessObject", "DuplicateLedgerEntryId">>
    BY <1>2
    DEF Queries, Lists, ObjectQueries, EntryQueries, AttributionQueries, RelationQueries,
        ListQueries
  <2>2. Queries(op) \in Seq(Errors)
    BY <2>1 DEF Errors
  <2>3. MayAsk(Queries(op), op)
    BY <1>2, <2>1 DEF MayAsk
  <2>4. QED
    BY <2>2, <2>3
<1>3. CASE op = "insert_content_attribution"
  <2>1. Queries(op) = <<"Invalid", "UnknownBusinessObject", "UnknownHistoryRecord",
                        "DuplicateContentAttribution">>
    BY <1>3
    DEF Queries, Lists, ObjectQueries, EntryQueries, AttributionQueries, RelationQueries,
        ListQueries
  <2>2. Queries(op) \in Seq(Errors)
    BY <2>1 DEF Errors
  <2>3. MayAsk(Queries(op), op)
    BY <1>3, <2>1 DEF MayAsk
  <2>4. QED
    BY <2>2, <2>3
<1>4. CASE op = "insert_business_relation"
  <2>1. Queries(op) = <<"Invalid", "UnknownBusinessObject", "UnknownTarget",
                        "DuplicateBusinessRelationId", "DuplicateBusinessRelation">>
    BY <1>4
    DEF Queries, Lists, ObjectQueries, EntryQueries, AttributionQueries, RelationQueries,
        ListQueries
  <2>2. Queries(op) \in Seq(Errors)
    BY <2>1 DEF Errors
  <2>3. MayAsk(Queries(op), op)
    BY <1>4, <2>1 DEF MayAsk
  <2>4. QED
    BY <2>2, <2>3
<1>5. CASE op \in {"ledger_entries", "content_attributions", "business_relations"}
  <2>1. Queries(op) = <<"UnknownBusinessObject">>
    BY <1>5
    DEF Queries, Lists, ObjectQueries, EntryQueries, AttributionQueries, RelationQueries,
        ListQueries
  <2>2. Queries(op) \in Seq(Errors)
    BY <2>1 DEF Errors
  <2>3. MayAsk(Queries(op), op)
    BY <1>5, <2>1 DEF MayAsk
  <2>4. QED
    BY <2>2, <2>3
<1>6. CASE op \notin Inserts \cup {"ledger_entries", "content_attributions",
                                  "business_relations"}
  <2>1. Queries(op) = <<>>
    BY <1>6
    DEF Queries, Lists, ObjectQueries, EntryQueries, AttributionQueries, RelationQueries,
        ListQueries, Inserts
  <2>2. QED
    BY <2>1 DEF MayAsk
<1>7. QED
  BY <1>1, <1>2, <1>3, <1>4, <1>5, <1>6 DEF Inserts

LEMMA BeginCall ==
    ASSUME LifecycleAssumption, Inv, NEW c \in Callers, Begin(c)
    PROVE  CallOK(c)'
<1>. USE DEF LifecycleAssumption
<1>1. PICK r \in Requests :
        /\ request' = [request EXCEPT ![c] = r]
        /\ \/ /\ RefusesInput(r)
              /\ at' = [at EXCEPT ![c] = "done"]
              /\ outcome' = [outcome EXCEPT ![c] = "Input"]
              /\ UNCHANGED checks
           \/ /\ ~RefusesInput(r)
              /\ checks' = [checks EXCEPT ![c] = Queries(r.op)]
              /\ at' = [at EXCEPT ![c] =
                   IF LooksUpFirst(r) THEN "look_up" ELSE PlaceOf(r.op, Queries(r.op))]
              /\ outcome' = [outcome EXCEPT ![c] = "none"]
  BY DEF Begin
<1>2. /\ request'[c] = r
      /\ r \in RequestSpace
      /\ r.op \in Operations
  BY <1>1 DEF Inv, TypeOK, RequestSpace
<1>3. CASE RefusesInput(r)
  <2>1. at'[c] = "done" /\ outcome'[c] = "Input"
    BY <1>1, <1>3 DEF Inv, TypeOK
  <2>2. Answered(c)'
    BY <2>1 DEF Answered
  <2>3. QED
    BY <2>1, <2>2, DoneIsEnough
<1>4. CASE ~RefusesInput(r)
  <2>1. /\ at'[c] = IF LooksUpFirst(r) THEN "look_up" ELSE PlaceOf(r.op, Queries(r.op))
        /\ checks'[c] = Queries(r.op)
    BY <1>1, <1>4 DEF Inv, TypeOK
  <2>2. Queries(r.op) = <<>> <=> r.op \notin Inserts \cup ChildLists
    BY <1>2
    DEF Queries, Lists, ObjectQueries, EntryQueries, AttributionQueries, RelationQueries,
        ListQueries, Inserts, ChildLists, Operations
  <2>3. r.op \in ChildLists => Queries(r.op) = <<"UnknownBusinessObject">>
    BY
    DEF Queries, Lists, ObjectQueries, EntryQueries, AttributionQueries, RelationQueries,
        ListQueries, ChildLists
  <2>4. MayAsk(Queries(r.op), r.op)
    BY QueriesMayAsk
  <2>5. LooksUpFirst(r) => r.op \in Inserts \cup ChildLists
    BY <1>2
    DEF LooksUpFirst, HttpLooksUp, CliLooksUp, Inserts, ChildLists, Lists, Operations
  <2>6. at'[c] \notin {"done", "update", "commit"}
    BY <2>1 DEF PlaceOf
  <2>7. Prepared(c)'
    <3>1. CASE LooksUpFirst(r)
      <4>1. at'[c] = "look_up"
        BY <2>1, <3>1
      <4>2. QED
        BY <1>2, <2>1, <2>2, <2>3, <2>4, <2>5, <3>1, <4>1 DEF Prepared
    <3>2. CASE ~LooksUpFirst(r)
      <4>1. at'[c] = PlaceOf(r.op, Queries(r.op))
        BY <2>1, <3>2
      <4>2. CASE r.op \in Inserts \cup ChildLists
        <5>1. at'[c] = "check"
          BY <2>2, <4>1, <4>2 DEF PlaceOf
        <5>2. QED
          BY <1>2, <2>1, <2>2, <2>3, <2>4, <3>2, <4>2, <5>1 DEF Prepared
      <4>3. CASE r.op \notin Inserts \cup ChildLists
        <5>1. IF r.op = "transition_business_object" THEN at'[c] = "load"
                                                     ELSE at'[c] = "read"
          BY <2>2, <4>1, <4>3 DEF PlaceOf
        <5>2. r.op \in {"business_objects", "business_object", "transition_business_object"}
          BY <1>2, <4>3 DEF Operations, Inserts, ChildLists, Lists
        <5>3. QED
          BY <1>2, <3>2, <4>3, <5>1, <5>2 DEF Prepared, Lists, ChildLists
      <4>4. QED
        BY <4>2, <4>3
    <3>3. QED
      BY <3>1, <3>2
  <2>8. QED
    BY <2>6, <2>7 DEF CallOK, Current, Answered
<1>5. QED
  BY <1>3, <1>4

LEMMA LookUpCall ==
    ASSUME LifecycleAssumption, Inv, NEW c \in Callers, LookUp(c)
    PROVE  CallOK(c)'
<1>. USE DEF LifecycleAssumption
<1>1. CallOK(c) /\ request[c] \in RequestSpace
  BY RequestIsTyped DEF Inv, LifecycleAssumption
<1>2. request' = request /\ UNCHANGED objects
  BY DEF LookUp, Answer, Advance, tableVars
<1>3. CASE Answer(c, "NotFound")
  <2>1. at'[c] = "done" /\ outcome'[c] = "NotFound"
    BY <1>3 DEF Answer, Inv, TypeOK
  <2>2. request'[c].front \in {"http", "cli"}
    BY <1>1, <1>2 DEF LookUp, CallOK, Prepared, LooksUpFirst, HttpLooksUp, CliLooksUp
  <2>3. QED
    BY <2>1, <2>2, DoneIsEnough DEF Answered
<1>4. CASE Advance(c, "check") /\ UNCHANGED <<checks, loaded>> /\ Known(request[c].object)
  <2>1. at'[c] = "check" /\ at[c] = "look_up"
    BY <1>4 DEF LookUp, Advance, Inv, TypeOK
  <2>2. PICK r \in RequestSpace : r = request[c] /\ r = request'[c]
    BY <1>1, <1>2
  <2>3. Known(r.object)'
    BY <1>2, <1>4, <2>2 DEF Known
  <2>4. QED
    BY <1>1, <1>4, <2>1, <2>2, <2>3 DEF CallOK, Prepared, Current, Answered
<1>5. QED
  BY <1>3, <1>4 DEF LookUp

LEMMA ReadCall ==
    ASSUME LifecycleAssumption, Inv, NEW c \in Callers, Read(c)
    PROVE  CallOK(c)'
<1>1. CallOK(c)
  BY DEF Inv
<1>2. /\ request' = request
      /\ UNCHANGED objects
      /\ at'[c] = "done"
      /\ outcome'[c] = IF request[c].op = "business_object" /\ ~Known(request[c].object)
                       THEN "UnknownBusinessObject" ELSE "ok"
  BY DEF Read, Answer, tableVars, Inv, TypeOK
<1>3. PICK r : r = request[c] /\ r = request'[c]
  BY <1>2
<1>4. Known(r.object)' <=> Known(r.object)
  BY <1>2 DEF Known
<1>5. r.op \in Lists \cup {"business_object"} /\ (r.op \in ChildLists => Known(r.object))
  BY <1>1, <1>3 DEF Read, CallOK, Prepared
<1>6. CASE r.op = "business_object" /\ ~Known(r.object)
  BY <1>2, <1>3, <1>6, DoneIsEnough
  DEF Answered, LooksUpFirst, HttpLooksUp, CliLooksUp, Lists, Inserts
<1>7. CASE ~(r.op = "business_object" /\ ~Known(r.object))
  <2>1. Stored(r)'
    BY <1>4, <1>5 DEF Stored, Lists
  <2>2. QED
    BY <1>2, <1>3, <1>7, <2>1, DoneIsEnough DEF Answered
<1>8. QED
  BY <1>6, <1>7

LEMMA InsertCall ==
    ASSUME LifecycleAssumption, Inv, NEW c \in Callers, Insert(c)
    PROVE  CallOK(c)'
<1>. USE DEF LifecycleAssumption
<1>1. CallOK(c) /\ request[c] \in RequestSpace
  BY RequestIsTyped DEF Inv, LifecycleAssumption
<1>2. request' = request /\ at'[c] = "done" /\ outcome'[c] \in {"ok", "Database"}
  BY DEF Insert, Answer, Inv, TypeOK
<1>3. PICK r \in RequestSpace : r = request[c] /\ r = request'[c]
  BY <1>1, <1>2
<1>4. CASE outcome'[c] = "ok"
  <2>1. \/ InsertObject(c)
        \/ InsertEntry(c)
        \/ InsertAttribution(c)
        \/ InsertRelation(c)
    BY <1>4 DEF Insert, Answer, Inv, TypeOK
  <2>2. CASE InsertObject(c)
    <3>1. NewObject(r) \in objects' /\ r.op = "insert_business_object"
      BY <1>3, <2>2 DEF InsertObject
    <3>2. Known(r.object)'
      BY <3>1, NewObjectIsTyped DEF LifecycleAssumption, Known
    <3>3. Stored(r)'
      BY <3>1, <3>2 DEF Stored, ChildLists, Lists
    <3>4. QED
      BY <1>2, <1>3, <1>4, <3>3, DoneIsEnough DEF Answered
  <2>3. CASE InsertEntry(c)
    <3>1. Stored(r)'
      BY <1>3, <2>3 DEF InsertEntry, Stored, ChildLists, Lists
    <3>2. QED
      BY <1>2, <1>3, <1>4, <3>1, DoneIsEnough DEF Answered
  <2>4. CASE InsertAttribution(c)
    <3>1. Stored(r)'
      BY <1>3, <2>4 DEF InsertAttribution, Stored, ChildLists, Lists
    <3>2. QED
      BY <1>2, <1>3, <1>4, <3>1, DoneIsEnough DEF Answered
  <2>5. CASE InsertRelation(c)
    <3>1. /\ [id |-> r.id, object |-> r.object, target |-> r.target, type |-> r.type]
                \in relations'
          /\ r.op = "insert_business_relation"
      BY <1>3, <2>5 DEF InsertRelation
    <3>2. Stored(r)'
      BY <3>1 DEF Stored, ChildLists, Lists
    <3>3. QED
      BY <1>2, <1>3, <1>4, <3>2, DoneIsEnough DEF Answered
  <2>6. QED
    BY <2>1, <2>2, <2>3, <2>4, <2>5
<1>5. CASE outcome'[c] = "Database"
  BY <1>2, <1>5, DoneIsEnough DEF Answered
<1>6. QED
  BY <1>2, <1>4, <1>5

LEMMA LoadCall ==
    ASSUME LifecycleAssumption, Inv, NEW c \in Callers, Load(c)
    PROVE  CallOK(c)'
<1>. USE DEF LifecycleAssumption
<1>1. /\ CallOK(c)
      /\ request' = request
      /\ UNCHANGED objects
      /\ at[c] = "load"
  BY DEF Inv, Load, Answer, Advance, tableVars
<1>2. PICK r : r = request[c] /\ r = request'[c] /\ r.op = "transition_business_object"
  BY <1>1 DEF CallOK, Prepared
<1>3. CASE Answer(c, "UnknownBusinessObject")
  BY <1>2, <1>3, DoneIsEnough
  DEF Answer, Answered, Inv, TypeOK, LooksUpFirst, HttpLooksUp, CliLooksUp, Lists, Inserts
<1>4. ASSUME NEW row \in objects, Answer(c, TransitionError(row, request[c])),
             TransitionError(row, request[c]) # "none"
      PROVE  CallOK(c)'
  <2>1. TransitionError(row, request[c]) \notin {"ok", "NotFound", "UnknownBusinessObject"}
    BY DEF TransitionError
  <2>2. at'[c] = "done" /\ outcome'[c] = TransitionError(row, request[c])
    BY <1>4 DEF Answer, Inv, TypeOK
  <2>3. QED
    BY <2>1, <2>2, DoneIsEnough DEF Answered
<1>5. ASSUME NEW row \in objects, row.id = request[c].object,
             TransitionError(row, request[c]) = "none",
             Advance(c, "update"), loaded' = [loaded EXCEPT ![c] = {row}]
      PROVE  CallOK(c)'
  <2>1. at'[c] = "update" /\ loaded'[c] = {row}
    BY <1>5 DEF Advance, Inv, TypeOK
  <2>2. Current(c)'
    BY <1>1, <1>5, <2>1 DEF Current, TransitionError
  <2>3. QED
    BY <1>2, <2>1, <2>2 DEF CallOK, Prepared, Answered
<1>6. QED
  BY <1>3, <1>4, <1>5 DEF Load

LEMMA UpdateCall ==
    ASSUME LifecycleAssumption, Inv, NEW c \in Callers, Update(c)
    PROVE  CallOK(c)'
<1>1. CallOK(c) /\ request' = request /\ UNCHANGED objects /\ at[c] = "update"
  BY DEF Inv, Update, Answer, Advance, tableVars
<1>2. CASE Advance(c, "commit") /\ UNCHANGED <<checks, loaded>> /\ ~Unbindable(request[c])
  <2>1. at'[c] = "commit" /\ loaded'[c] = loaded[c]
    BY <1>2 DEF Advance, Inv, TypeOK
  <2>2. QED
    BY <1>1, <1>2, <2>1 DEF CallOK, Prepared, Current, Answered, TransitionError
<1>3. CASE Answer(c, "ConcurrentBusinessObjectUpdate") \/ Answer(c, "Database")
  BY <1>3, DoneIsEnough DEF Answer, Answered, Inv, TypeOK
<1>4. QED
  BY <1>2, <1>3 DEF Update

LEMMA CommitCall ==
    ASSUME LifecycleAssumption, Inv, NEW c \in Callers, Commit(c), CommitMoves(c)
    PROVE  CallOK(c)'
<1>. USE DEF LifecycleAssumption
<1>1. CallOK(c) /\ request[c] \in RequestSpace
  BY RequestIsTyped DEF Inv, LifecycleAssumption
<1>2. request' = request /\ at'[c] = "done" /\ outcome'[c] = "ok" /\ at[c] = "commit"
  BY DEF Commit, Answer, Inv, TypeOK
<1>3. PICK r \in RequestSpace :
        r = request[c] /\ r = request'[c] /\ r.op = "transition_business_object"
  BY <1>1, <1>2 DEF CallOK, Prepared
<1>4. PICK row \in objects :
        /\ row.id = r.object
        /\ row.revision = r.expected
        /\ ~Unbindable(r)
        /\ objects' = (objects \ {row}) \cup {Moved(row, r)}
  BY <1>3 DEF CommitMoves
<1>5. Moved(row, r) \in objects' /\ Moved(row, r).id = r.object
        /\ Moved(row, r).revision > r.expected
  <2>1. row \in BusinessObject /\ row.revision \in Nat
    BY DEF Inv, TypeOK, BusinessObject
  <2>2. Moved(row, r).id = row.id /\ Moved(row, r).revision = row.revision + 1
    BY <1>4, <2>1, MovedIsTyped DEF LifecycleAssumption
  <2>3. QED
    BY <1>4, <2>1, <2>2
<1>6. Stored(r)'
  BY <1>3, <1>5 DEF Stored, ChildLists, Lists
<1>7. QED
  BY <1>2, <1>3, <1>6, DoneIsEnough DEF Answered

LEMMA CheckCall ==
    ASSUME LifecycleAssumption, Inv, NEW c \in Callers, Check(c)
    PROVE  CallOK(c)'
<1>. USE DEF LifecycleAssumption
<1>1. CallOK(c) /\ request[c] \in RequestSpace
  BY RequestIsTyped DEF Inv, LifecycleAssumption
<1>2. request' = request /\ UNCHANGED tableVars /\ UNCHANGED history /\ at[c] = "check"
  BY DEF Check, Answer, Advance
<1>3. PICK r \in RequestSpace : r = request[c] /\ r = request'[c]
  BY <1>1, <1>2
<1>4. PICK queries \in Seq(Errors) : queries = checks[c] /\ queries # <<>>
  BY DEF Check, Inv, TypeOK
<1>4a. Len(queries) \in Nat /\ Len(queries) # 0 /\ Head(queries) = queries[1]
  BY <1>4, EmptySeq, HeadTailProperties
<1>5. /\ Head(queries) = queries[1]
      /\ 1 \in 1 .. Len(queries)
      /\ Tail(queries) \in Seq(Errors)
      /\ \A i \in 1 .. Len(Tail(queries)) :
            /\ Tail(queries)[i] = queries[i + 1]
            /\ i + 1 \in 1 .. Len(queries)
  BY <1>4, <1>4a, HeadTailProperties
<1>6. /\ MayAsk(queries, r.op)
      /\ LooksUpFirst(r) => Known(r.object)
      /\ r.op \in ChildLists \cup Inserts
      /\ r.op \in ChildLists => queries = <<"UnknownBusinessObject">>
      /\ r.op \in Inserts => queries = Queries(r.op) \/ ~Invalid(r)
  BY <1>1, <1>2, <1>3, <1>4 DEF CallOK, Prepared
<1>7. CASE Refused(Head(queries), r) /\
           Answer(c, IF Head(queries) = "UnknownTarget"
                     THEN "UnknownBusinessObject" ELSE Head(queries))
  <2>1. /\ at'[c] = "done"
        /\ outcome'[c] = IF Head(queries) = "UnknownTarget"
                         THEN "UnknownBusinessObject" ELSE Head(queries)
    BY <1>7 DEF Answer, Inv, TypeOK
  <2>2. Head(queries) \notin {"ok", "NotFound"}
    BY <1>7 DEF Refused
  <2>3. Head(queries) = "UnknownTarget" => r.op = "insert_business_relation"
    BY <1>5, <1>6 DEF MayAsk
  <2>4. Head(queries) = "UnknownBusinessObject" =>
          r.op # "insert_business_object" /\ ~Known(r.object)
    BY <1>5, <1>6, <1>7 DEF MayAsk, Refused
  <2>5. r.op # "business_objects"
    BY <1>6 DEF ChildLists, Inserts
  <2>6. Answered(c)'
    BY <1>3, <1>6, <2>1, <2>2, <2>3, <2>4, <2>5 DEF Answered
  <2>7. QED
    BY <2>1, <2>6, DoneIsEnough
<1>8. CASE /\ ~Refused(Head(queries), r)
           /\ Advance(c, PlaceOf(r.op, Tail(queries)))
           /\ checks' = [checks EXCEPT ![c] = Tail(@)]
           /\ UNCHANGED loaded
  <2>1. at'[c] = PlaceOf(r.op, Tail(queries)) /\ checks'[c] = Tail(queries)
    BY <1>4, <1>8 DEF Advance, Inv, TypeOK
  <2>2. (Known(r.object) => Known(r.object)')
    BY <1>2 DEF Known, tableVars
  <2>3. CASE r.op \in ChildLists
    <3>1. Head(queries) = "UnknownBusinessObject" /\ Tail(queries) = <<>>
      <4>1. queries = <<"UnknownBusinessObject">>
        BY <1>6, <2>3
      <4>2. QED
        BY <4>1
    <3>2. Known(r.object)'
      BY <1>8, <2>2, <3>1 DEF Refused
    <3>3. at'[c] = "read"
      BY <2>1, <2>3, <3>1 DEF PlaceOf, ChildLists, Lists, Inserts
    <3>4. QED
      BY <1>3, <2>3, <3>2, <3>3 DEF CallOK, Prepared, Current, Answered, ChildLists, Lists
  <2>4. CASE r.op \in Inserts
    <3>1. ~Invalid(r)
      <4>1. Queries(r.op)[1] = "Invalid"
        BY <2>4
        DEF Queries, Lists, ObjectQueries, EntryQueries, AttributionQueries,
            RelationQueries, ListQueries, Inserts
      <4>2. QED
        BY <1>5, <1>6, <1>8, <2>4, <4>1 DEF Refused
    <3>2. MayAsk(Tail(queries), r.op)
      BY <1>5, <1>6 DEF MayAsk
    <3>3. r.op \notin Lists
      BY <2>4 DEF Inserts, Lists
    <3>4. CASE Tail(queries) # <<>>
      <4>1. at'[c] = "check"
        BY <2>1, <3>4 DEF PlaceOf
      <4>2. Prepared(c)'
        BY <1>3, <1>6, <2>1, <2>2, <2>4, <3>1, <3>2, <3>3, <3>4, <4>1
        DEF Prepared, ChildLists, Invalid
      <4>3. QED
        BY <4>1, <4>2 DEF CallOK, Current, Answered
    <3>5. CASE Tail(queries) = <<>>
      <4>1. at'[c] = "insert"
        BY <2>1, <2>4, <3>5 DEF PlaceOf
      <4>2. Prepared(c)'
        BY <1>3, <1>6, <2>2, <2>4, <3>1, <4>1 DEF Prepared, Invalid
      <4>3. QED
        BY <4>1, <4>2 DEF CallOK, Current, Answered
    <3>6. QED
      BY <3>4, <3>5
  <2>5. QED
    BY <1>6, <2>3, <2>4
<1>9. QED
  BY <1>3, <1>4, <1>7, <1>8 DEF Check

\* One step keeps the calls prepared, current and truthfully answered.
LEMMA OwnCall ==
    ASSUME LifecycleAssumption, Inv, NEW c \in Callers, Step(c)
    PROVE  CallOK(c)'
<1>1. CASE Busy(c)
  BY <1>1, DoneIsEnough DEF Busy, Answer, Answered, Inv, TypeOK
<1>2. CASE Crash(c)
  <2>1. at'[c] = "idle"
    BY <1>2 DEF Crash, Inv, TypeOK
  <2>2. QED
    BY <2>1, DoneIsEnough DEF Answered
<1>3. CASE Commit(c)
  BY <1>3, CommitIsMove, CommitCall DEF LifecycleAssumption
<1>4. QED
  BY <1>1, <1>2, <1>3, BeginCall, LookUpCall, CheckCall, ReadCall, InsertCall, LoadCall,
     UpdateCall DEF Step, LifecycleAssumption

-----------------------------------------------------------------------------
(* Types. *)

CallTypes ==
    /\ at \in [Callers -> Places]
    /\ request \in [Callers -> Requests]
    /\ checks \in [Callers -> Seq(Errors)]
    /\ loaded \in [Callers -> SUBSET BusinessObject]
    /\ outcome \in [Callers -> Outcomes]

LEMMA AnswerTypes ==
    ASSUME CallTypes, NEW c \in Callers, NEW result \in Outcomes, Answer(c, result)
    PROVE  CallTypes'
<1>1. <<>> \in Seq(Errors)
  BY EmptySeq
<1>2. QED
  BY <1>1 DEF CallTypes, Answer, Places

LEMMA StepTypes ==
    ASSUME LifecycleAssumption, Inv, NEW c \in Callers, Step(c)
    PROVE  CallTypes'
<1>. USE DEF LifecycleAssumption
<1>1. CallTypes
  BY DEF Inv, TypeOK, CallTypes
<1>2. CASE Begin(c)
  <2>1. PICK r \in Requests :
          /\ request' = [request EXCEPT ![c] = r]
          /\ \/ /\ at' = [at EXCEPT ![c] = "done"]
                /\ outcome' = [outcome EXCEPT ![c] = "Input"]
                /\ UNCHANGED checks
             \/ /\ checks' = [checks EXCEPT ![c] = Queries(r.op)]
                /\ at' = [at EXCEPT ![c] =
                     IF LooksUpFirst(r) THEN "look_up" ELSE PlaceOf(r.op, Queries(r.op))]
                /\ outcome' = [outcome EXCEPT ![c] = "none"]
    BY <1>2 DEF Begin
  <2>2. Queries(r.op) \in Seq(Errors)
    BY QueriesMayAsk
  <2>3. PlaceOf(r.op, Queries(r.op)) \in Places
    BY DEF PlaceOf, Places
  <2>4. loaded' = loaded
    BY <1>2 DEF Begin
  <2>5. QED
    BY <1>1, <2>1, <2>2, <2>3, <2>4 DEF CallTypes, Places, Outcomes
<1>3. CASE LookUp(c)
  BY <1>1, <1>3, AnswerTypes DEF LookUp, Outcomes, Advance, CallTypes, Places
<1>4. CASE Check(c)
  <2>1. checks[c] \in Seq(Errors) /\ checks[c] # <<>>
    BY <1>1, <1>4 DEF Check, CallTypes
  <2>2. Head(checks[c]) \in Errors /\ Tail(checks[c]) \in Seq(Errors)
    BY <2>1, HeadTailProperties
  <2>3. Head(checks[c]) \in Outcomes /\ "UnknownBusinessObject" \in Outcomes
    BY <2>2 DEF Outcomes, Errors
  <2>4. PlaceOf(request[c].op, Tail(checks[c])) \in Places
    BY DEF PlaceOf, Places
  <2>5. CASE Answer(c, IF Head(checks[c]) = "UnknownTarget"
                       THEN "UnknownBusinessObject" ELSE Head(checks[c]))
    BY <1>1, <2>3, <2>5, AnswerTypes
  <2>6. CASE /\ Advance(c, PlaceOf(request[c].op, Tail(checks[c])))
             /\ checks' = [checks EXCEPT ![c] = Tail(@)]
             /\ UNCHANGED loaded
    BY <1>1, <2>2, <2>4, <2>6 DEF Advance, CallTypes
  <2>7. QED
    BY <1>4, <2>5, <2>6 DEF Check
<1>5. CASE Read(c)
  BY <1>1, <1>5, AnswerTypes DEF Read, Outcomes, Errors
<1>6. CASE Insert(c)
  BY <1>1, <1>6, AnswerTypes DEF Insert, Outcomes
<1>7. CASE Load(c)
  <2>1. CASE Answer(c, "UnknownBusinessObject")
    BY <1>1, <2>1, AnswerTypes DEF Outcomes, Errors
  <2>2. ASSUME NEW row \in objects, Answer(c, TransitionError(row, request[c]))
        PROVE  CallTypes'
    <3>1. TransitionError(row, request[c]) \in Outcomes
      BY DEF TransitionError, Outcomes
    <3>2. QED
      BY <1>1, <2>2, <3>1, AnswerTypes
  <2>3. ASSUME NEW row \in objects, Advance(c, "update"), UNCHANGED checks,
               loaded' = [loaded EXCEPT ![c] = {row}]
        PROVE  CallTypes'
    BY <1>1, <2>3 DEF Advance, CallTypes, Places, Inv, TypeOK
  <2>4. QED
    BY <1>7, <2>1, <2>2, <2>3 DEF Load
<1>8. CASE Update(c)
  BY <1>1, <1>8, AnswerTypes DEF Update, Outcomes, Advance, CallTypes, Places
<1>9. CASE Commit(c)
  BY <1>1, <1>9, AnswerTypes DEF Commit, Outcomes
<1>10. CASE Busy(c)
  BY <1>1, <1>10, AnswerTypes DEF Busy, Outcomes
<1>11. CASE Crash(c)
  <2>1. <<>> \in Seq(Errors)
    BY EmptySeq
  <2>2. (CHOOSE r \in Requests : TRUE) \in Requests
    OBVIOUS
  <2>3. QED
    BY <1>1, <1>11, <2>1, <2>2 DEF Crash, CallTypes, Places, Outcomes
<1>12. QED
  BY <1>2, <1>3, <1>4, <1>5, <1>6, <1>7, <1>8, <1>9, <1>10, <1>11 DEF Step

-----------------------------------------------------------------------------
(* The invariant. *)

LEMMA InvInit == LifecycleAssumption /\ Init => Inv
<1>. SUFFICES ASSUME LifecycleAssumption, Init PROVE Inv
  OBVIOUS
<1>. USE DEF LifecycleAssumption
<1>1. <<>> \in Seq(Errors) /\ (CHOOSE r \in Requests : TRUE) \in Requests
  BY EmptySeq
<1>2. TypeOK
  BY <1>1 DEF Init, TypeOK, Places, Outcomes
<1>3. OneRowPerKey
  BY DEF Init, OneRowPerKey
<1>4. \A c \in Callers : CallOK(c)
  BY DEF Init, CallOK, Prepared, Current, Answered
<1>5. QED
  BY <1>2, <1>3, <1>4 DEF Inv

LEMMA InvNext == LifecycleAssumption /\ Inv /\ [Next]_vars => Inv'
<1>. SUFFICES ASSUME LifecycleAssumption, Inv, [Next]_vars PROVE Inv'
  OBVIOUS
<1>1. ASSUME NEW c \in Callers, Step(c) PROVE Inv'
  <2>1. TablesGrow
    BY <1>1, StepGrows
  <2>2. CallTypes'
    BY <1>1, StepTypes
  <2>3. history' = history
    BY <1>1, StepEffect DEF RowInserted, CommitMoves
  <2>4. TypeOK'
    BY <2>1, <2>2, <2>3 DEF TypeOK, CallTypes, TablesGrow, Inv
  <2>5. \A d \in Callers : CallOK(d)'
    BY <1>1, OwnCall, OtherCalls
  <2>6. QED
    BY <2>1, <2>4, <2>5 DEF Inv, TablesGrow
<1>2. CASE RecordHistory
  <2>1. history' \subseteq HistoryIds /\ UNCHANGED <<tableVars, callVars>>
    BY <1>2 DEF RecordHistory, Inv, TypeOK
  <2>2. QED
    BY <2>1 DEF Inv, TypeOK, OneRowPerKey, CallOK, Prepared, Current, Answered, Stored,
      Known, tableVars, callVars
<1>3. CASE UNCHANGED vars
  BY <1>3 DEF Inv, TypeOK, OneRowPerKey, CallOK, Prepared, Current, Answered, Stored,
    Known, vars, tableVars, callVars
<1>4. QED
  BY <1>1, <1>2, <1>3 DEF Next

LEMMA InvImplies == LifecycleAssumption /\ Inv =>
    OneRowPerKey /\ CheckedRowIsCurrent /\ OkIsStored /\ MissingIsNotFound
<1>. SUFFICES ASSUME LifecycleAssumption, Inv
     PROVE OneRowPerKey /\ CheckedRowIsCurrent /\ OkIsStored /\ MissingIsNotFound
  OBVIOUS
<1>1. OneRowPerKey /\ CheckedRowIsCurrent
  BY DEF Inv, CallOK, Current, CheckedRowIsCurrent
<1>2. OkIsStored
  BY DEF Inv, CallOK, Answered, Stored, OkIsStored
<1>3. MissingIsNotFound
  <2>. SUFFICES ASSUME NEW c \in Callers, at[c] = "done"
       PROVE /\ (outcome[c] \in {"UnknownBusinessObject", "NotFound"}
                   /\ request[c].front # "cli")
                => Told(request[c], outcome[c]) = "not_found"
             /\ (outcome[c] = "ok" /\ request[c].op \in Lists \ {"business_objects"})
                => Known(request[c].object)
    BY DEF MissingIsNotFound
  <2>1. Answered(c) /\ request[c] \in RequestSpace
    BY RequestIsTyped DEF Inv, CallOK
  <2>2. request[c].front \in Fronts /\ request[c].op \in Operations
    BY <2>1 DEF RequestSpace
  <2>3. outcome[c] = "NotFound" /\ request[c].front # "cli"
          => Told(request[c], outcome[c]) = "not_found"
    BY <2>1 DEF Answered, Told, HttpTold
  <2>4. ASSUME outcome[c] = "UnknownBusinessObject", request[c].front = "http"
        PROVE  Told(request[c], outcome[c]) = "not_found"
    <3>1. request[c].op \in {"business_object", "business_relations",
                             "insert_business_relation", "transition_business_object"}
      BY <2>1, <2>2, <2>4 DEF Answered, LooksUpFirst, HttpLooksUp, CliLooksUp, Operations
    <3>2. QED
      BY <2>4, <3>1 DEF Told, HttpTold
  <2>5. ASSUME outcome[c] = "UnknownBusinessObject", request[c].front \in {"mcp", "desktop"}
        PROVE  Told(request[c], outcome[c]) = "not_found"
    BY <2>5 DEF Told, McpTold, DesktopTold
  <2>6. QED
    BY <2>1, <2>2, <2>3, <2>4, <2>5 DEF Answered, Stored, ChildLists, Fronts
<1>4. QED
  BY <1>1, <1>2, <1>3

\* In every reachable state of any number of programs the tables and the calls have
\* their types: every row holds statuses and a revision that can be read back.  The
\* revisions stay in range because the UPDATE's parameter cannot be bound past it.
THEOREM LifecycleTypes == Spec => []TypeOK
<1>1. Inv => TypeOK
  BY DEF Inv
<1>2. QED
  BY InvInit, InvNext, LifecycleAssumption, <1>1, PTL DEF Spec

\* Programs that check before they insert never store two objects under one id, or
\* under one external id of a kind.
THEOREM KeysStayUnique == Spec => []OneRowPerKey
  BY InvInit, InvNext, InvImplies, LifecycleAssumption, PTL DEF Spec

\* A transition's UPDATE and COMMIT run on the very row its checks were made on.
THEOREM TransitionsAreIsolated == Spec => []CheckedRowIsCurrent
  BY InvInit, InvNext, InvImplies, LifecycleAssumption, PTL DEF Spec

\* A success that was answered is in the tables, and stays there.
THEOREM SuccessIsDurable == Spec => []OkIsStored
  BY InvInit, InvNext, InvImplies, LifecycleAssumption, PTL DEF Spec

\* A missing object is reported as not found.
THEOREM MissingIsReported == Spec => []MissingIsNotFound
  BY InvInit, InvNext, InvImplies, LifecycleAssumption, PTL DEF Spec

-----------------------------------------------------------------------------
(* Refinement: INSERT and COMMIT are the store's steps, all others stutter. *)

LEMMA InsertRefines ==
    ASSUME LifecycleAssumption, Inv, NEW c \in Callers, RowInserted(c)
    PROVE  Records!Next
<1>. USE DEF LifecycleAssumption
<1>1. PICK r \in RequestSpace : r = request[c]
  BY RequestIsTyped DEF LifecycleAssumption
<1>2. UNCHANGED history
  BY DEF RowInserted
<1>3. CASE InsertObject(c)
  <2>. DEFINE new == NewObject(r)
  <2>1. /\ new \in BusinessObject /\ new.id = r.object /\ new.kind = r.kind
        /\ new.external = r.external /\ new.revision = 0
    BY NewObjectIsTyped DEF LifecycleAssumption
  <2>2. /\ objects' = objects \cup {new}
        /\ UNCHANGED <<ledger, attributions, relations>>
    BY <1>1, <1>3 DEF InsertObject
  <2>3. NewObjectKey(r)
    BY <1>1, <1>3 DEF InsertObject, RowInserted, Unique
  <2>. HIDE DEF new
  <2>4. Records!Create(new)
    BY <1>2, <2>1, <2>2, <2>3 DEF Records!Create, Records!Known, NewObjectKey, Known
  <2>5. new \in {object \in BusinessObject : object.revision = 0} \cap objects'
    BY <2>1, <2>2
  <2>6. QED
    BY <2>4, <2>5 DEF Records!Next
<1>4. CASE InsertEntry(c)
  <2>. DEFINE new == [id |-> r.id, object |-> r.object]
  <2>1. new \in LedgerEntry /\ new.id = r.id /\ new.object = r.object
    BY DEF LedgerEntry, RequestSpace
  <2>2. Records!Append(new)
    BY <1>1, <1>2, <1>4, <2>1
    DEF InsertEntry, RowInserted, Unique, References, NewEntryKey, Known,
        Records!Append, Records!Known
  <2>3. QED
    BY <2>1, <2>2 DEF Records!Next
<1>5. CASE InsertAttribution(c)
  <2>. DEFINE new == [object |-> r.object, history |-> r.history]
  <2>1. new \in ContentAttribution /\ new.history = r.history /\ new.object = r.object
    BY DEF ContentAttribution, RequestSpace
  <2>2. Records!Attribute(new)
    BY <1>1, <1>2, <1>5, <2>1
    DEF InsertAttribution, RowInserted, Unique, References, NewAttributionKey, Known,
        Records!Attribute, Records!Known
  <2>3. QED
    BY <2>1, <2>2 DEF Records!Next
<1>6. CASE InsertRelation(c)
  <2>. DEFINE new == [id |-> r.id, object |-> r.object, target |-> r.target,
                      type |-> r.type]
  <2>1. /\ new \in BusinessRelation /\ new.id = r.id /\ new.object = r.object
        /\ new.target = r.target /\ new.type = r.type
    BY DEF BusinessRelation, RequestSpace
  <2>2. /\ r.op = "insert_business_relation"
        /\ relations' = relations \cup {new}
        /\ UNCHANGED <<objects, ledger, attributions>>
    BY <1>1, <1>6 DEF InsertRelation
  <2>3. NewRelationKey(r) /\ Known(r.object) /\ Known(r.target) /\ ~Invalid(r)
    BY <1>1, <2>2 DEF RowInserted, Unique, References
  <2>4. r.object # r.target
    BY <2>2, <2>3 DEF Invalid
  <2>5. \A other \in relations :
          /\ other.id # new.id
          /\ <<other.object, other.target, other.type>> # <<new.object, new.target, new.type>>
    BY <2>1, <2>3 DEF NewRelationKey
  <2>. HIDE DEF new
  <2>6. Records!Relate(new)
    BY <1>2, <2>1, <2>2, <2>3, <2>4, <2>5 DEF Known, Records!Relate, Records!Known
  <2>7. QED
    BY <2>1, <2>6 DEF Records!Next
<1>7. QED
  BY <1>3, <1>4, <1>5, <1>6 DEF RowInserted

LEMMA CommitRefines ==
    ASSUME LifecycleAssumption, Inv, NEW c \in Callers, CommitMoves(c)
    PROVE  Records!Next
<1>1. PICK r \in RequestSpace : r = request[c]
  BY RequestIsTyped
<1>2. PICK row \in objects :
        /\ row.revision = r.expected
        /\ TransitionError(row, r) = "none"
        /\ objects' = (objects \ {row}) \cup {Moved(row, r)}
        /\ UNCHANGED <<ledger, attributions, relations, history>>
  BY <1>1 DEF CommitMoves
<1>3. r.lifecycle \in Lifecycles /\ r.approval \in Approvals
  BY DEF RequestSpace
<1>4. /\ <<r.lifecycle, r.approval>> # <<row.lifecycle, row.approval>>
      /\ <<row.lifecycle, r.lifecycle>> \in LifecycleEdges \/ r.lifecycle = row.lifecycle
      /\ <<row.approval, r.approval>> \in ApprovalEdges \/ r.approval = row.approval
  BY <1>2 DEF TransitionError
<1>5. Moved(row, r) = [id |-> row.id, kind |-> row.kind, external |-> row.external,
                       lifecycle |-> r.lifecycle, approval |-> r.approval,
                       revision |-> row.revision + 1]
  BY <1>2 DEF Moved
<1>6. Records!Move(row, r.lifecycle, r.approval)
  BY <1>2, <1>4, <1>5 DEF Records!Move, Records!LifecycleEdges, Records!ApprovalEdges,
    LifecycleEdges, ApprovalEdges
<1>7. QED
  BY <1>3, <1>6 DEF Records!Next, Records!Lifecycles, Records!Approvals,
    Lifecycles, Approvals

LEMMA StepRefines ==
    LifecycleAssumption /\ Inv /\ [Next]_vars => [Records!Next]_(Records!recordVars)
<1>. SUFFICES ASSUME LifecycleAssumption, Inv, [Next]_vars
     PROVE  [Records!Next]_(Records!recordVars)
  OBVIOUS
<1>1. ASSUME NEW c \in Callers, Step(c) PROVE [Records!Next]_(Records!recordVars)
  BY <1>1, StepEffect, InsertRefines, CommitRefines DEF Records!recordVars, tableVars
<1>2. CASE RecordHistory
  <2>1. PICK id \in HistoryIds : history' = history \cup {id}
    BY <1>2 DEF RecordHistory
  <2>2. Records!Record(id)
    BY <1>2, <2>1 DEF RecordHistory, Records!Record, tableVars
  <2>3. QED
    BY <2>2 DEF Records!Next
<1>3. CASE UNCHANGED vars
  BY <1>3 DEF vars, tableVars, Records!recordVars
<1>4. QED
  BY <1>1, <1>2, <1>3 DEF Next

\* All programs together are one versioned, append-only store: whatever their queries
\* interleave with, an object is created once and then moves along the two graphs one
\* revision at a time, and what hangs off it is appended once and never changed.
THEOREM LifecycleImplementsRecords == Spec => ImplementsRecords
<1>1. Init => Records!Init
  BY DEF Init, Records!Init
<1>2. QED
  BY <1>1, InvInit, InvNext, StepRefines, LifecycleAssumption, PTL
  DEF Spec, ImplementsRecords, Records!Spec
=============================================================================
