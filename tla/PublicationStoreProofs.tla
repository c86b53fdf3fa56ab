----------------------- MODULE PublicationStoreProofs -----------------------
(***************************************************************************)
(* Facts about the storage operations, whoever calls them: each keeps the  *)
(* tables well typed, and what it does to a row's state and revision.      *)
(***************************************************************************)
EXTENDS PublicationStore, FiniteSetTheorems, TLAPS

\* A row that moves stays a row, one revision further.
LEMMA MovedRow ==
    ASSUME NEW row \in JobRow, NEW next \in PublishState
    PROVE  /\ Moved(row, next) \in JobRow
           /\ Moved(row, next).state = next
           /\ Moved(row, next).due = row.due
           /\ Moved(row, next).revision = row.revision + 1
BY DEF Moved, JobRow

LEMMA InitType == StoreInit => StoreTypeOK
BY DEF StoreInit, StoreTypeOK, Absent, JobRow

\* A history insert adds one row, under an id no row had.
LEMMA InsertedRow ==
    ASSUME StoreTypeOK, NEW prefix \in Prefixes, NEW request \in Jobs \cup {NoJob},
           NEW state \in PublishState, InsertTerminalHistory(prefix, request, state)
    PROVE  /\ \E id \in HistoryId :
                 /\ ~Recorded(id)
                 /\ history' = history \cup
                       {[id |-> id, request |-> request, state |-> state]}
           /\ history' \subseteq HistoryRow
           /\ historySeq' \in [Kinds -> Nat]
<1>1. PICK n \in 1 .. MaxHistory :
         /\ FirstFree(prefix, n)
         /\ history' = history \cup {[id      |-> [prefix |-> prefix, number |-> n],
                                      request |-> request,
                                      state   |-> state]}
         /\ historySeq' = [historySeq EXCEPT ![TableOf(prefix)] = n]
  BY DEF InsertTerminalHistory
<1>2. [prefix |-> prefix, number |-> n] \in HistoryId
  BY DEF HistoryId
<1>3. [id |-> [prefix |-> prefix, number |-> n], request |-> request, state |-> state]
         \in HistoryRow
  BY <1>2 DEF HistoryRow
<1>4. historySeq' \in [Kinds -> Nat]
  <2>1. n \in Nat
    BY StoreAssumption DEF StoreAssumption
  <2>2. historySeq \in [Kinds -> Nat]
    BY DEF StoreTypeOK
  <2>3. QED
    BY <1>1, <2>1, <2>2
<1>5. QED
  BY <1>1, <1>2, <1>3, <1>4 DEF FirstFree, StoreTypeOK

LEMMA RecordDispatchType ==
    ASSUME StoreTypeOK, NEW state \in PublishState, RecordProviderDispatchHistory(state)
    PROVE  StoreTypeOK'
<1>1. "dispatch-history" \in Prefixes
  BY DEF Prefixes
<1>2. QED
  BY <1>1, InsertedRow DEF RecordProviderDispatchHistory, StoreTypeOK

LEMMA AppendHistoryType ==
    ASSUME StoreTypeOK, NEW id \in HistoryId, NEW state \in PublishState,
           AppendHistory(id, state)
    PROVE  StoreTypeOK'
BY DEF AppendHistory, StoreTypeOK, HistoryRow

LEMMA AllocateType ==
    ASSUME StoreTypeOK, NEW j \in Jobs, AllocateJobId(j)
    PROVE  StoreTypeOK'
BY DEF AllocateJobId, StoreTypeOK

LEMMA InsertJobType ==
    ASSUME StoreTypeOK, NEW j \in Jobs, NEW draft \in BOOLEAN,
           NEW due \in Texts \cup {NoDue}, InsertJob(j, draft, due)
    PROVE  StoreTypeOK'
BY DEF InsertJob, StoreTypeOK, JobRow, PublishState

\* A claim selects only queued, scheduled, due jobs of its own queue.
LEMMA ClaimableDue ==
    ASSUME NEW queue \in Kinds, NEW t, NEW limit
    PROVE  /\ Claimable(queue, t, limit) \subseteq Jobs
           /\ \A j \in Claimable(queue, t, limit) :
                 /\ jobs[j].state = "queued"
                 /\ jobs[j].due # NoDue
                 /\ jobs[j].due <= t
BY DEF Claimable, DueJobs, JobsOf, Jobs

LEMMA ClaimType ==
    ASSUME StoreTypeOK, NEW queue \in Kinds, NEW t, NEW limit, ClaimDue(queue, t, limit)
    PROVE  StoreTypeOK'
<1>1. "dispatching" \in PublishState
  BY DEF PublishState
<1>2. jobs' \in [Jobs -> JobRow]
  BY <1>1, MovedRow DEF ClaimDue, StoreTypeOK
<1>3. QED
  BY <1>2 DEF ClaimDue, StoreTypeOK

\* Only a job that is not yet terminal can be completed.
LEMMA CompletesOpenJob ==
    ASSUME StoreTypeOK, NEW j \in Jobs, NEW revision, NEW next \in PublishState,
           CanComplete(j, revision, next)
    PROVE  jobs[j].state \in {"draft", "queued", "dispatching"}
BY DEF CanComplete, CanTransitionTo, TransitionGraph

LEMMA PrefixType == ASSUME NEW j \in Jobs PROVE ScheduledPrefix(j) \in Prefixes
BY DEF ScheduledPrefix, Prefixes

LEMMA CompleteType ==
    ASSUME StoreTypeOK, NEW j \in Jobs, NEW revision, NEW next \in PublishState,
           CompleteJobWithHistory(j, revision, next)
    PROVE  StoreTypeOK'
<1>1. jobs' \in [Jobs -> JobRow]
  BY MovedRow DEF CompleteJobWithHistory, StoreTypeOK
<1>2. history' \subseteq HistoryRow /\ historySeq' \in [Kinds -> Nat]
  BY PrefixType, InsertedRow DEF CompleteJobWithHistory
<1>3. QED
  BY <1>1, <1>2 DEF CompleteJobWithHistory, StoreTypeOK

LEMMA RequeueType ==
    ASSUME StoreTypeOK, NEW j \in Jobs, NEW revision, RequeueClaim(j, revision)
    PROVE  StoreTypeOK'
<1>1. "queued" \in PublishState
  BY DEF PublishState
<1>2. QED
  BY <1>1, MovedRow DEF RequeueClaim, StoreTypeOK

LEMMA AdvanceType ==
    ASSUME StoreTypeOK, NEW j \in Jobs, NEW revision, NEW next \in PublishState,
           Advance(j, revision, next)
    PROVE  StoreTypeOK'
BY MovedRow DEF Advance, StoreTypeOK

-----------------------------------------------------------------------------
(* The order of a claim. *)

\* ORDER BY due_at, id is a strict total order of the scheduled jobs.
LEMMA PrecedesOrder ==
    ASSUME NEW i \in Jobs, NEW j \in Jobs, NEW k \in Jobs,
           jobs[i].due \in Nat, jobs[j].due \in Nat, jobs[k].due \in Nat
    PROVE  /\ i # j => Precedes(i, j) \/ Precedes(j, i)
           /\ Precedes(i, j) /\ Precedes(j, k) => Precedes(i, k)
<1>1. IdRank[i] \in Nat /\ IdRank[j] \in Nat /\ IdRank[k] \in Nat
  BY StoreAssumption DEF StoreAssumption
<1>2. i # j => IdRank[i] # IdRank[j]
  BY StoreAssumption DEF StoreAssumption
<1> DEFINE di == jobs[i].due
           dj == jobs[j].due
           dk == jobs[k].due
<1>3. di \in Nat /\ dj \in Nat /\ dk \in Nat
  OBVIOUS
<1>4. /\ Precedes(i, j) <=> di < dj \/ (di = dj /\ IdRank[i] < IdRank[j])
      /\ Precedes(j, i) <=> dj < di \/ (dj = di /\ IdRank[j] < IdRank[i])
      /\ Precedes(j, k) <=> dj < dk \/ (dj = dk /\ IdRank[j] < IdRank[k])
      /\ Precedes(i, k) <=> di < dk \/ (di = dk /\ IdRank[i] < IdRank[k])
  BY DEF Precedes
<1> HIDE DEF di, dj, dk
<1>5. QED
  BY <1>1, <1>2, <1>3, <1>4

\* What a claim selects comes before every job of the queue that it leaves queued.
LEMMA ClaimInOrder ==
    ASSUME StoreTypeOK, NEW queue \in Kinds, NEW t \in Texts, NEW limit \in Nat,
           NEW i \in JobsOf(queue), jobs[i].state = "queued", jobs[i].due \in Texts,
           i \notin Claimable(queue, t, limit),
           NEW j \in Claimable(queue, t, limit)
    PROVE  Precedes(j, i)
<1> DEFINE due == DueJobs(queue, t)
           cap == IF limit < MaxClaimBatch THEN limit ELSE MaxClaimBatch
           Before(k) == {m \in due : Precedes(m, k)}
<1>1. Texts \subseteq Nat /\ cap \in Nat
  BY StoreAssumption DEF StoreAssumption, Texts
<1>2. i \in Jobs /\ due \subseteq Jobs /\ IsFiniteSet(Jobs)
  BY StoreAssumption DEF StoreAssumption, JobsOf, Jobs, DueJobs
<1>3. \A k \in due : jobs[k].due \in Nat
  BY <1>1, <1>2 DEF StoreTypeOK, JobRow, DueJobs
<1>4. j \in due /\ Cardinality(Before(j)) < cap
  BY DEF Claimable
<1>5. \A k : IsFiniteSet(Before(k)) /\ Cardinality(Before(k)) \in Nat
  BY <1>2, FS_Subset, FS_CardinalityType
<1>6. CASE i \notin due
  <2>1. ~(jobs[i].due <= t)
    BY <1>1, <1>6, StoreAssumption DEF DueJobs, StoreAssumption
  <2>2. jobs[j].due <= t
    BY <1>4 DEF DueJobs
  <2> DEFINE di == jobs[i].due
             dj == jobs[j].due
  <2>3. di \in Nat /\ dj \in Nat /\ t \in Nat /\ ~(di <= t) /\ dj <= t
    BY <1>1, <1>3, <1>4, <2>1, <2>2
  <2>4. dj < di
    <3> HIDE DEF di, dj
    <3>1. QED
      BY <2>3
  <2>5. QED
    BY <2>4 DEF Precedes
<1>7. CASE i \in due
  <2>1. ~(Cardinality(Before(i)) < cap)
    BY <1>7 DEF Claimable
  <2>2. SUFFICES ASSUME Precedes(i, j) PROVE FALSE
    <3>1. i # j
      OBVIOUS
    <3>2. QED
      BY <1>1, <1>2, <1>3, <1>4, <2>2, <3>1, PrecedesOrder
  <2>3. Before(i) \subseteq Before(j)
    BY <1>1, <1>2, <1>3, <1>4, <2>2, PrecedesOrder
  <2>4. Cardinality(Before(i)) <= Cardinality(Before(j))
    BY <1>5, <2>3, FS_Subset
  <2>5. QED
    BY <1>1, <1>4, <1>5, <2>1, <2>4
<1>8. QED
  BY <1>6, <1>7

\* A claim takes no more than the limit: each job it takes has a different number of due
\* jobs before it, and that number is below the limit.
LEMMA ClaimFits ==
    ASSUME StoreTypeOK, NEW queue \in Kinds, NEW t, NEW limit \in Nat
    PROVE  /\ IsFiniteSet(Claimable(queue, t, limit))
           /\ Cardinality(Claimable(queue, t, limit)) <= limit
<1> DEFINE due == DueJobs(queue, t)
           cap == IF limit < MaxClaimBatch THEN limit ELSE MaxClaimBatch
           Before(k) == {m \in due : Precedes(m, k)}
           claimed == Claimable(queue, t, limit)
           rank == [k \in claimed |-> Cardinality(Before(k))]
<1>1. cap \in Nat /\ cap <= limit
  BY StoreAssumption DEF StoreAssumption
<1>2. due \subseteq Jobs /\ IsFiniteSet(Jobs)
  BY StoreAssumption DEF StoreAssumption, JobsOf, Jobs, DueJobs
<1>3. \A k \in due : jobs[k].due \in Nat
  BY <1>2, StoreAssumption DEF StoreAssumption, StoreTypeOK, JobRow, DueJobs, Texts
<1>4. \A k : IsFiniteSet(Before(k)) /\ Cardinality(Before(k)) \in Nat
  BY <1>2, FS_Subset, FS_CardinalityType
<1>5. claimed \subseteq due /\ \A k \in claimed : Cardinality(Before(k)) < cap
  BY DEF Claimable
<1>6. IsFiniteSet(claimed) /\ Cardinality(claimed) \in Nat
  BY <1>2, <1>5, FS_Subset, FS_CardinalityType
<1>7. rank \in [claimed -> 0 .. cap - 1]
  BY <1>1, <1>4, <1>5
<1>8. ASSUME NEW i \in claimed, NEW j \in claimed, Precedes(i, j)
      PROVE  rank[i] # rank[j]
  <2>1. i \in Jobs /\ j \in Jobs /\ jobs[i].due \in Nat /\ jobs[j].due \in Nat
    BY <1>2, <1>3, <1>5
  <2>2. Before(i) \subseteq Before(j)
    BY <1>2, <1>3, <1>8, <2>1, PrecedesOrder
  <2>3. i \in Before(j)
    BY <1>5, <1>8
  <2>4. ~Precedes(i, i)
    <3> DEFINE di == jobs[i].due
    <3>1. di \in Nat /\ IdRank[i] \in Nat
      BY <2>1, StoreAssumption DEF StoreAssumption
    <3>2. Precedes(i, i) <=> di < di \/ (di = di /\ IdRank[i] < IdRank[i])
      BY DEF Precedes
    <3> HIDE DEF di
    <3>3. QED
      BY <3>1, <3>2
  <2>5. Before(i) # Before(j)
    BY <2>3, <2>4
  <2>6. Cardinality(Before(i)) # Cardinality(Before(j))
    BY <1>4, <2>2, <2>5, FS_Subset
  <2>7. QED
    BY <2>6
<1>9. SUFFICES ASSUME Cardinality(claimed) > limit PROVE FALSE
  BY <1>1, <1>6
<1>10. IsFiniteSet(0 .. cap - 1) /\ Cardinality(0 .. cap - 1) = cap
  <2> HIDE DEF cap
  <2>0. 0 \in Int /\ cap - 1 \in Int
    BY <1>1
  <2>1. /\ IsFiniteSet(0 .. cap - 1)
        /\ Cardinality(0 .. cap - 1) = IF 0 > cap - 1 THEN 0 ELSE cap - 1 - 0 + 1
    BY <2>0, FS_Interval
  <2>2. QED
    BY <1>1, <2>1
<1> HIDE DEF claimed, rank, cap
<1>11. PICK i \in claimed, j \in claimed : i # j /\ rank[i] = rank[j]
  <2>1. Cardinality(0 .. cap - 1) < Cardinality(claimed)
    BY <1>1, <1>6, <1>9, <1>10
  <2>2. QED
    BY <1>6, <1>7, <1>10, <2>1, FS_PigeonHole
<1>12. Precedes(i, j) \/ Precedes(j, i)
  <2>1. i \in Jobs /\ j \in Jobs /\ jobs[i].due \in Nat /\ jobs[j].due \in Nat
    BY <1>2, <1>3, <1>5
  <2>2. QED
    BY <1>11, <2>1, PrecedesOrder
<1>13. QED
  BY <1>8, <1>11, <1>12
=============================================================================
