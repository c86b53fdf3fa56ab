----------------------- MODULE PublicationQueueProofs -----------------------
(***************************************************************************)
(* What the queue guarantees to any mixture of callers, for any number of  *)
(* jobs, revisions and limits.  Every row moves along one line: it appears *)
(* once, then only goes to a next revision, and not at all once settled.   *)
(***************************************************************************)
EXTENDS PublicationQueue, PublicationStoreProofs

LEMMA JobsFunction == StoreTypeOK => jobs \in [Jobs -> JobRow]
BY DEF StoreTypeOK

\* The three ways a row changes: it appears, it moves on from a state that is not
\* settled, or it stays.
RowStep(j) ==
    \/ jobs'[j] = jobs[j]
    \/ /\ jobs[j] = Absent
       /\ jobs'[j].state \in {"draft", "queued"}
       /\ jobs'[j].revision = 0
    \/ /\ jobs[j].state \in {"draft", "queued", "dispatching"}
       /\ jobs'[j].state \in PublishState
       /\ jobs'[j].revision = jobs[j].revision + 1

LEMMA GraphEdges ==
    ASSUME NEW from, NEW next, CanTransitionTo(from, next)
    PROVE  from \in {"draft", "queued", "dispatching"} /\ next \in PublishState
BY DEF CanTransitionTo, TransitionGraph, PublishState, Terminal

\* A row moved by one call moves on, the others stay.
LEMMA OneMoves ==
    ASSUME StoreTypeOK, NEW j \in Jobs, NEW next \in PublishState,
           jobs[j].state \in {"draft", "queued", "dispatching"},
           jobs' = [jobs EXCEPT ![j] = Moved(@, next)]
    PROVE  \A i \in Jobs : RowStep(i)
<1>1. jobs[j] \in JobRow /\ jobs'[j] = Moved(jobs[j], next)
  BY DEF StoreTypeOK
<1>2. RowStep(j)
  BY <1>1, MovedRow DEF RowStep
<1>3. \A i \in Jobs : i # j => jobs'[i] = jobs[i]
  BY DEF StoreTypeOK
<1>4. QED
  BY <1>2, <1>3 DEF RowStep

LEMMA RowSteps ==
    ASSUME StoreTypeOK, [Next]_vars
    PROVE  \A j \in Jobs : RowStep(j)
<1>1. CASE UNCHANGED jobs
  BY <1>1 DEF RowStep
<1>2. CASE Enqueue
  <2>1. CASE \E j \in Jobs : AllocateJobId(j)
    BY <2>1, <1>1 DEF AllocateJobId
  <2>2. ASSUME NEW j \in Jobs, NEW draft \in BOOLEAN, NEW due \in Texts \cup {NoDue},
               InsertJob(j, draft, due)
        PROVE  \A i \in Jobs : RowStep(i)
    BY <2>2 DEF InsertJob, RowStep, StoreTypeOK
  <2>3. QED
    BY <1>2, <2>1, <2>2 DEF Enqueue
<1>3. CASE ClaimBatch
  <2>1. PICK queue \in Kinds, t \in Texts, limit \in 0 .. MaxLimit : ClaimDue(queue, t, limit)
    BY <1>3 DEF ClaimBatch
  <2> DEFINE claimed == Claimable(queue, t, limit)
  <2>2. \A j \in claimed : j \in Jobs /\ jobs[j].state = "queued"
    BY ClaimableDue
  <2>3. \A j \in Jobs : jobs'[j] = IF j \in claimed THEN Moved(jobs[j], "dispatching")
                                                   ELSE jobs[j]
    BY <2>1 DEF ClaimDue
  <2> HIDE DEF claimed
  <2>4. "dispatching" \in PublishState
    BY DEF PublishState
  <2>5. ASSUME NEW j \in Jobs, j \in claimed PROVE RowStep(j)
    <3>1. jobs[j] \in JobRow /\ jobs'[j] = Moved(jobs[j], "dispatching")
      BY <2>3, <2>5, JobsFunction
    <3>2. QED
      BY <2>2, <2>4, <2>5, <3>1, MovedRow DEF RowStep
  <2>6. QED
    BY <2>3, <2>5 DEF RowStep
<1>4. CASE Complete
  <2>1. PICK j \in Jobs, revision \in Revisions, next \in PublishState :
           CompleteJobWithHistory(j, revision, next)
    BY <1>4 DEF Complete
  <2>2. QED
    BY <2>1, CompletesOpenJob, OneMoves DEF CompleteJobWithHistory
<1>5. CASE Requeue
  <2>1. PICK j \in Jobs, revision \in Revisions : RequeueClaim(j, revision)
    BY <1>5 DEF Requeue
  <2>2. "queued" \in PublishState
    BY DEF PublishState
  <2>3. QED
    BY <2>1, <2>2, OneMoves DEF RequeueClaim, CanRequeue
<1>6. CASE AdvanceJob
  <2>1. PICK j \in Jobs, revision \in Revisions, next \in PublishState :
           Advance(j, revision, next)
    BY <1>6 DEF AdvanceJob
  <2>2. j \in Jobs /\ jobs[j].state \in {"draft", "queued", "dispatching"}
    BY <2>1, GraphEdges DEF Advance
  <2>3. QED
    BY <2>1, <2>2, OneMoves DEF Advance
<1>7. QED
  BY <1>1, <1>2, <1>3, <1>4, <1>5, <1>6 DEF Next, vars, storeVars

LEMMA StoreTyped == StoreTypeOK /\ [Next]_vars => StoreTypeOK'
<1> SUFFICES ASSUME StoreTypeOK, [Next]_vars PROVE StoreTypeOK'
  OBVIOUS
<1>1. CASE UNCHANGED vars
  BY <1>1 DEF vars, storeVars, StoreTypeOK
<1>2. CASE Enqueue
  BY <1>2, AllocateType, InsertJobType DEF Enqueue
<1>3. CASE ClaimBatch
  BY <1>3, ClaimType DEF ClaimBatch
<1>4. CASE Complete
  BY <1>4, CompleteType DEF Complete
<1>5. CASE Requeue
  BY <1>5, RequeueType DEF Requeue
<1>6. CASE AdvanceJob
  <2>1. PICK j \in Jobs, revision \in Revisions, next \in PublishState :
           Advance(j, revision, next)
    BY <1>6 DEF AdvanceJob
  <2>2. QED
    BY <2>1, AdvanceType
<1>7. QED
  BY <1>1, <1>2, <1>3, <1>4, <1>5, <1>6 DEF Next

\* The tables and what has been seen of them keep their types.
THEOREM QueueTypes == Spec => []TypeOK
<1>1. Init => TypeOK
  BY InitType DEF Init, TypeOK, Snapshot, StoreTypeOK
<1>2. TypeOK /\ [Next]_vars => TypeOK'
  <2> SUFFICES ASSUME TypeOK, [Next]_vars PROVE TypeOK'
    OBVIOUS
  <2>1. StoreTypeOK' /\ jobs' \in [Jobs -> JobRow]
    BY StoreTyped DEF TypeOK, StoreTypeOK
  <2>2. past' = past \/ past' = past \cup {[job |-> j, row |-> jobs'[j]] : j \in Jobs}
    BY DEF Next, Observe, vars
  <2>3. QED
    BY <2>1, <2>2 DEF TypeOK, Snapshot
<1>3. QED
  BY <1>1, <1>2, PTL DEF Spec

-----------------------------------------------------------------------------
(* Revisions. *)

\* What has been seen of a row is behind it: an earlier revision, the row itself, or,
\* as long as nothing has been inserted, nothing.
Behind(seen) ==
    /\ seen.row.revision <= jobs[seen.job].revision
    /\ seen.row.state = "absent" \/ seen.row.revision < jobs[seen.job].revision
         \/ seen.row = jobs[seen.job]
    /\ jobs[seen.job] = Absent => seen.row = Absent

RevisionInv == \A seen \in past : Behind(seen)

\* complete_job_with_history and its siblings check a caller's revision against the
\* row's: whoever calls whatever, a revision that still passes names the row the
\* caller has seen.
THEOREM RevisionsNameRows == Spec => []RevisionNamesOneRow
<1>1. Init => RevisionInv
  BY DEF Init, StoreInit, Absent, RevisionInv, Behind
<1>2. TypeOK /\ RevisionInv /\ [Next]_vars => RevisionInv'
  <2> SUFFICES ASSUME TypeOK, RevisionInv, [Next]_vars, NEW seen \in past'
               PROVE  Behind(seen)'
    BY DEF RevisionInv
  <2>1. StoreTypeOK /\ jobs \in [Jobs -> JobRow] /\ past \subseteq Snapshot
    BY DEF TypeOK, StoreTypeOK
  <2>2. StoreTypeOK' /\ jobs' \in [Jobs -> JobRow]
    BY <2>1, StoreTyped DEF StoreTypeOK
  <2>3. CASE seen \in past
    <3>1. seen.job \in Jobs /\ seen.row \in JobRow /\ Behind(seen)
      BY <2>1, <2>3 DEF Snapshot, RevisionInv
    <3>2. RowStep(seen.job)
      BY <2>1, <3>1, RowSteps
    <3> DEFINE row == jobs[seen.job]
               next == jobs'[seen.job]
    <3>3. row \in JobRow /\ next \in JobRow
      BY <2>1, <2>2, <3>1
    <3>4. /\ seen.row.revision \in Nat /\ row.revision \in Nat /\ next.revision \in Nat
          /\ Absent.state = "absent" /\ Absent.revision = 0
      BY <3>1, <3>3 DEF JobRow, Absent
    <3>5. CASE next = row
      BY <3>1, <3>5 DEF Behind
    <3>6. CASE row = Absent /\ next.state \in {"draft", "queued"} /\ next.revision = 0
      BY <3>1, <3>4, <3>6 DEF Behind
    <3>7. CASE /\ row.state \in {"draft", "queued", "dispatching"}
               /\ next.state \in PublishState /\ next.revision = row.revision + 1
      <4>1. seen.row.revision < next.revision
        BY <3>1, <3>4, <3>7 DEF Behind
      <4>2. next # Absent
        BY <3>4, <4>1
      <4>3. QED
        BY <3>4, <4>1, <4>2 DEF Behind
    <3>8. QED
      BY <3>2, <3>5, <3>6, <3>7 DEF RowStep
  <2>4. CASE seen \notin past
    <3>1. PICK j \in Jobs : seen = [job |-> j, row |-> jobs'[j]]
      BY <2>4 DEF Next, Observe, vars
    <3>2. jobs'[j].revision \in Nat
      BY <2>2 DEF JobRow
    <3>3. QED
      BY <3>1, <3>2 DEF Behind
  <2>5. QED
    BY <2>3, <2>4
<1>3. TypeOK /\ RevisionInv => RevisionNamesOneRow
  <2> SUFFICES ASSUME TypeOK, RevisionInv, NEW seen \in past,
                      seen.row.revision = jobs[seen.job].revision,
                      seen.row.state # "absent"
               PROVE  seen.row = jobs[seen.job]
    BY DEF RevisionNamesOneRow
  <2>1. seen.row.revision \in Nat
    BY DEF TypeOK, Snapshot, JobRow
  <2>2. QED
    BY <2>1 DEF RevisionInv, Behind
<1>4. QED
  BY <1>1, <1>2, <1>3, QueueTypes, PTL DEF Spec

-----------------------------------------------------------------------------
(* Settled jobs. *)

\* No operation finds a settled job in a state it would move.
THEOREM SettledJobsStay == Spec => SettledStaysSettled
<1> DEFINE Stays == \A j \in Jobs : jobs[j].state \in Terminal => jobs'[j] = jobs[j]
<1>1. TypeOK /\ [Next]_vars => Stays
  BY RowSteps DEF TypeOK, RowStep, Terminal, Absent
<1>2. QED
  BY <1>1, QueueTypes, PTL DEF Spec, SettledStaysSettled, Stays

\* What a step writes to the history: nothing, or one row about the job it moves, with
\* the state it moves it to.
LEMMA HistorySteps ==
    ASSUME StoreTypeOK, [Next]_vars
    PROVE  \/ UNCHANGED history
           \/ \E j \in Jobs, row \in HistoryRow :
                 /\ history' = history \cup {row}
                 /\ row.request = j
                 /\ row.state = jobs'[j].state
                 /\ jobs[j].state \notin Terminal
<1>1. CASE Complete
  <2>1. PICK j \in Jobs, revision \in Revisions, next \in PublishState :
           CompleteJobWithHistory(j, revision, next)
    BY <1>1 DEF Complete
  <2>2. jobs[j].state \notin Terminal
    BY <2>1, CompletesOpenJob DEF CompleteJobWithHistory, Terminal
  <2>3. jobs'[j].state = next
    BY <2>1, JobsFunction DEF CompleteJobWithHistory, Moved
  <2>4. PICK id \in HistoryId :
           history' = history \cup {[id |-> id, request |-> j, state |-> next]}
    BY <2>1, PrefixType, InsertedRow DEF CompleteJobWithHistory
  <2> DEFINE row == [id |-> id, request |-> j, state |-> next]
  <2>5. row \in HistoryRow /\ row.request = j /\ row.state = next
    BY DEF HistoryRow
  <2>6. QED
    BY <2>2, <2>3, <2>4, <2>5
<1>2. CASE ~Complete
  BY <1>2 DEF Next, vars, storeVars, Enqueue, AllocateJobId, InsertJob, ClaimBatch, ClaimDue,
              Requeue, RequeueClaim, AdvanceJob, Advance
<1>3. QED
  BY <1>1, <1>2

\* complete_job_with_history takes any next state of the graph, and nobody has to hold a
\* claim: the one terminal record of a job is about the state it keeps.
THEOREM RecordsKeepAgreeing == Spec => []RecordsAgree
<1>1. Init => RecordsAgree
  BY DEF Init, StoreInit, RecordsAgree, Outcomes, HistoryOf
<1>2. TypeOK /\ RecordsAgree /\ [Next]_vars => RecordsAgree'
  <2> SUFFICES ASSUME TypeOK, RecordsAgree, [Next]_vars PROVE RecordsAgree'
    OBVIOUS
  <2>0. StoreTypeOK
    BY DEF TypeOK
  <2>1. \A j \in Jobs : jobs[j].state \in Terminal => jobs'[j] = jobs[j]
    BY <2>0, RowSteps DEF RowStep, Terminal, Absent
  <2>2. \A j \in Jobs : jobs[j].state \notin Terminal => Outcomes(j) = {}
    BY DEF RecordsAgree, Outcomes
  <2>3. CASE UNCHANGED history
    <3>1. \A j \in Jobs : Outcomes(j)' = Outcomes(j)
      BY <2>3 DEF Outcomes, HistoryOf
    <3>2. QED
      BY <2>1, <2>2, <3>1 DEF RecordsAgree
  <2>4. ASSUME NEW j \in Jobs, NEW row \in HistoryRow,
               history' = history \cup {row}, row.request = j,
               row.state = jobs'[j].state, jobs[j].state \notin Terminal
        PROVE  RecordsAgree'
    <3>1. \A i \in Jobs : i # j => Outcomes(i)' = Outcomes(i)
      BY <2>4 DEF Outcomes, HistoryOf
    <3>2. Outcomes(j)' \subseteq {row}
      BY <2>2, <2>4 DEF Outcomes, HistoryOf
    <3>3. QED
      BY <2>1, <2>2, <2>4, <3>1, <3>2 DEF RecordsAgree
  <2>5. QED
    BY <2>0, <2>3, <2>4, HistorySteps
<1>3. QED
  BY <1>1, <1>2, QueueTypes, PTL DEF Spec

-----------------------------------------------------------------------------
(* The order of claims. *)

\* ClaimDue selects by schedule text and id and is cut off after the limit: a job left in
\* the queue comes after every job that was taken.
THEOREM ClaimsStayInOrder == Spec => ClaimsInOrder
<1> DEFINE InOrder ==
      \A queue \in Kinds : \A i, j \in JobsOf(queue) :
         /\ jobs[i].state = "queued" /\ jobs'[i].state = "queued"
         /\ jobs[j].state = "queued" /\ jobs'[j].state = "dispatching"
         /\ jobs[i].due \in Texts
         /\ ClaimBatch
         => Precedes(j, i)
<1>1. TypeOK => InOrder
  <2> SUFFICES ASSUME StoreTypeOK, ClaimBatch,
                      NEW queue \in Kinds, NEW i \in JobsOf(queue), NEW j \in JobsOf(queue),
                      jobs[i].state = "queued", jobs'[i].state = "queued",
                      jobs[j].state = "queued", jobs'[j].state = "dispatching",
                      jobs[i].due \in Texts
               PROVE  Precedes(j, i)
    BY Zenon DEF InOrder, TypeOK
  <2>0. i \in Jobs /\ j \in Jobs
    BY DEF JobsOf, Jobs
  <2>1. PICK k \in Kinds, t \in Texts, limit \in 0 .. MaxLimit : ClaimDue(k, t, limit)
    BY DEF ClaimBatch
  <2> DEFINE claimed == Claimable(k, t, limit)
  <2>2. \A m \in Jobs : jobs'[m] = IF m \in claimed THEN Moved(jobs[m], "dispatching")
                                                   ELSE jobs[m]
    BY <2>1 DEF ClaimDue
  <2>3. j \in claimed
    BY <2>0, <2>2
  <2>4. i \notin claimed
    <3>1. SUFFICES ASSUME i \in claimed PROVE FALSE
      OBVIOUS
    <3>2. jobs'[i] = Moved(jobs[i], "dispatching")
      BY <2>0, <2>2, <3>1
    <3>3. QED
      BY <3>2 DEF Moved
  <2>5. queue = k
    <3>1. j \in JobsOf(k)
      BY <2>3 DEF Claimable, DueJobs
    <3>2. QED
      BY <3>1, StoreAssumption DEF StoreAssumption, Kinds, JobsOf
  <2>6. limit \in Nat
    BY QueueAssumption
  <2> HIDE DEF claimed
  <2>7. QED
    BY <2>3, <2>4, <2>5, <2>6, ClaimInOrder DEF claimed
<1>2. QED
  BY <1>1, QueueTypes, PTL DEF ClaimsInOrder, InOrder
=============================================================================
