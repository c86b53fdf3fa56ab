--------------------------- MODULE SchedulerProofs ---------------------------
(***************************************************************************)
(* Proofs about the scheduler for any number of daemons, jobs, platforms,  *)
(* faults and crashes.  Type correctness comes first; every later theorem  *)
(* adds its invariant to the ones already proved.                          *)
(***************************************************************************)
EXTENDS Scheduler, PublicationStoreProofs, FunctionTheorems

\* The clock, the tick variables and the counters alone.
LoopTypeOK ==
    /\ now \in Time
    /\ step \in [Daemons -> Step]
    /\ kind \in [Daemons -> Kinds]
    /\ through \in [Daemons -> Texts]
    /\ held \in [Daemons -> SUBSET Claim]
    /\ room \in [Daemons -> Nat]
    /\ report \in [Daemons -> [Platforms -> Answer \cup {"none"}]]
    /\ faults \in 0 .. MaxFaults
    /\ crashes \in 0 .. MaxCrashes
    /\ deliveries \in [Jobs -> [Platforms -> Nat]]
    /\ lost \in [Jobs -> Nat]
    /\ dropped \subseteq Claim

LEMMA TypeParts == TypeOK <=> StoreTypeOK /\ LoopTypeOK
BY DEF TypeOK, LoopTypeOK

LEMMA TimeFacts == 0 \in Time /\ Time \subseteq Nat
BY ClockAssumption DEF ClockAssumption, Time

LEMMA TextFacts ==
    /\ 0 \in Texts /\ Texts \subseteq Nat
    /\ \A t \in Time : ClockText[t] \in Texts /\ ClockText[t] \in Nat
BY StoreAssumption, ClockAssumption DEF StoreAssumption, ClockAssumption, Texts

\* The clock's texts sort as its instants do.
LEMMA ClockOrder ==
    ASSUME NEW t \in Time, NEW u \in Time
    PROVE  t <= u <=> ClockText[t] <= ClockText[u]
<1>1. t \in Nat /\ u \in Nat /\ ClockText[t] \in Nat /\ ClockText[u] \in Nat
  BY TimeFacts, TextFacts
<1>2. /\ t < u => ClockText[t] < ClockText[u]
      /\ u < t => ClockText[u] < ClockText[t]
  BY ClockAssumption DEF ClockAssumption
<1>3. QED
  BY <1>1, <1>2

LEMMA NoReportType == NoReport \in [Platforms -> Answer \cup {"none"}]
BY DEF NoReport

\* The outcome of an attempt is always terminal.
LEMMA VerdictTerminal ==
    ASSUME NEW d, NEW c PROVE Verdict(d, c) \in Terminal /\ Verdict(d, c) \in PublishState
BY DEF Verdict, TerminalState, Terminal, PublishState

\* A batch is finite: there are finitely many jobs.
LEMMA BatchFinite ==
    ASSUME NEW queue \in Kinds, NEW t, NEW limit
    PROVE  Cardinality(Claimable(queue, t, limit)) \in Nat
<1>1. IsFiniteSet(Jobs)
  BY StoreAssumption DEF StoreAssumption
<1>2. IsFiniteSet(Claimable(queue, t, limit))
  BY <1>1, ClaimableDue, FS_Subset
<1>3. QED
  BY <1>2, FS_CardinalityType

LEMMA EndTickType ==
    ASSUME LoopTypeOK, NEW d \in Daemons, EndTick(d)
    PROVE  /\ step' \in [Daemons -> Step]
           /\ kind' \in [Daemons -> Kinds]
           /\ through' \in [Daemons -> Texts]
           /\ held' \in [Daemons -> SUBSET Claim]
           /\ room' \in [Daemons -> Nat]
           /\ report' \in [Daemons -> [Platforms -> Answer \cup {"none"}]]
<1>1. "idle" \in Step /\ "video" \in Kinds
  BY DEF Step, Kinds
<1>2. QED
  BY <1>1, TextFacts, NoReportType DEF EndTick, LoopTypeOK

LEMMA FaultType ==
    ASSUME LoopTypeOK, NEW point, StorageFault(point) PROVE faults' \in 0 .. MaxFaults
BY SchedulerAssumption DEF SchedulerAssumption, StorageFault, LoopTypeOK

LEMMA DropType ==
    ASSUME LoopTypeOK, NEW d \in Daemons, NEW c, Drop(d, c)
    PROVE  /\ held' \in [Daemons -> SUBSET Claim]
           /\ report' \in [Daemons -> [Platforms -> Answer \cup {"none"}]]
BY NoReportType DEF Drop, LoopTypeOK

THEOREM TypeCorrect == Spec => []TypeOK
<1>1. Init => TypeOK
  <2> SUFFICES ASSUME Init PROVE TypeOK
    OBVIOUS
  <2>1. StoreTypeOK
    BY InitType DEF Init
  <2>2. LoopTypeOK
    BY TimeFacts, TextFacts, NoReportType, SchedulerAssumption
    DEF Init, LoopTypeOK, Step, Kinds, SchedulerAssumption
  <2>3. QED
    BY <2>1, <2>2, TypeParts
<1>2. TypeOK /\ [Next]_vars => TypeOK'
  <2> SUFFICES ASSUME TypeOK, [Next]_vars PROVE StoreTypeOK' /\ LoopTypeOK'
    BY DEF TypeOK, LoopTypeOK
  <2> USE DEF envVars, seenVars
  <2>0. StoreTypeOK /\ LoopTypeOK
    BY TypeParts
  <2>1. ASSUME NEW d \in Daemons, StartTick(d) PROVE StoreTypeOK' /\ LoopTypeOK'
    <3>1. "claim" \in Step /\ BatchSize \in Nat
      BY SchedulerAssumption, StoreAssumption DEF SchedulerAssumption, StoreAssumption, Step
    <3>2. CurrentLocalSchedule \in Texts
      BY <2>0, TextFacts DEF LoopTypeOK, CurrentLocalSchedule
    <3>3. QED
      BY <2>0, <2>1, <3>1, <3>2 DEF StartTick, LoopTypeOK, StoreTypeOK, storeVars
  <2>2. ASSUME NEW d \in Daemons, ClaimBatch(d) PROVE StoreTypeOK' /\ LoopTypeOK'
    <3> DEFINE claimed == Claimable(kind[d], through[d], room[d])
    <3>1. kind[d] \in Kinds /\ room[d] \in Nat
      BY <2>0 DEF LoopTypeOK
    <3>2. StoreTypeOK'
      BY <2>0, <2>2, <3>1, ClaimType DEF ClaimBatch
    <3>3. {[job |-> j, revision |-> jobs[j].revision + 1] : j \in claimed} \subseteq Claim
      BY <2>0, <3>1, ClaimableDue DEF Claim, StoreTypeOK, JobRow
    <3>4. SaturatingSub(room[d], Cardinality(claimed)) \in Nat
      BY <3>1, BatchFinite DEF SaturatingSub
    <3>5. "dispatch" \in Step
      BY DEF Step
    <3>6. QED
      BY <2>0, <2>2, <3>2, <3>3, <3>4, <3>5 DEF ClaimBatch, LoopTypeOK
  <2>3. ASSUME NEW d \in Daemons, ClaimFails(d) PROVE StoreTypeOK' /\ LoopTypeOK'
    BY <2>0, <2>3, EndTickType, FaultType DEF ClaimFails, LoopTypeOK, StoreTypeOK, storeVars
  <2>4. ASSUME NEW d \in Daemons, NEW c \in held[d], DispatchTarget(d, c)
        PROVE  StoreTypeOK' /\ LoopTypeOK'
    <3>1. PICK p \in TargetsOf[c.job], answer \in Answer, took \in BOOLEAN :
             /\ report' = [report EXCEPT ![d][p] = answer]
             /\ deliveries' = IF took THEN [deliveries EXCEPT ![c.job][p] = @ + 1]
                                      ELSE deliveries
      BY <2>4 DEF DispatchTarget
    <3>2. c.job \in Jobs
      BY <2>0 DEF LoopTypeOK, Claim
    <3>3. p \in Platforms
      BY <3>2, SchedulerAssumption DEF SchedulerAssumption
    <3>4. deliveries' \in [Jobs -> [Platforms -> Nat]]
      BY <2>0, <3>1, <3>2, <3>3 DEF LoopTypeOK
    <3>5. report' \in [Daemons -> [Platforms -> Answer \cup {"none"}]]
      BY <2>0, <3>1, <3>3 DEF LoopTypeOK
    <3>6. QED
      BY <2>0, <2>4, <3>4, <3>5 DEF DispatchTarget, LoopTypeOK, StoreTypeOK, storeVars
  <2>5. ASSUME NEW d \in Daemons, NEW c \in held[d], CompleteJob(d, c)
        PROVE  StoreTypeOK' /\ LoopTypeOK'
    <3>1. c.job \in Jobs
      BY <2>0 DEF LoopTypeOK, Claim
    <3>2. StoreTypeOK'
      BY <2>0, <2>5, <3>1, VerdictTerminal, CompleteType DEF CompleteJob
    <3>3. QED
      BY <2>0, <2>5, <3>2, DropType DEF CompleteJob, LoopTypeOK
  <2>6. ASSUME NEW d \in Daemons, NEW c \in held[d], CompleteFails(d, c)
        PROVE  StoreTypeOK' /\ LoopTypeOK'
    <3>1. c.job \in Jobs /\ "requeue" \in Step
      BY <2>0 DEF LoopTypeOK, Claim, Step
    <3>2. faults' \in 0 .. MaxFaults
      BY <2>0, <2>6, FaultType DEF CompleteFails, LoopTypeOK
    <3>3. lost' \in [Jobs -> Nat]
      BY <2>0, <2>6, <3>1 DEF CompleteFails, LoopTypeOK
    <3>4. QED
      BY <2>0, <2>6, <3>1, <3>2, <3>3 DEF CompleteFails, LoopTypeOK, StoreTypeOK, storeVars
  <2>7. ASSUME NEW d \in Daemons, NEW c \in held[d], RequeueJob(d, c)
        PROVE  StoreTypeOK' /\ LoopTypeOK'
    <3>1. c.job \in Jobs /\ "dispatch" \in Step
      BY <2>0 DEF LoopTypeOK, Claim, Step
    <3>2. StoreTypeOK'
      BY <2>0, <2>7, <3>1, RequeueType DEF RequeueJob
    <3>3. QED
      BY <2>0, <2>7, <3>1, <3>2, DropType DEF RequeueJob, LoopTypeOK
  <2>8. ASSUME NEW d \in Daemons, NEW c \in held[d], RequeueFails(d, c)
        PROVE  StoreTypeOK' /\ LoopTypeOK'
    <3>1. "dispatch" \in Step
      BY DEF Step
    <3>2. faults' \in 0 .. MaxFaults
      BY <2>0, <2>8, FaultType DEF RequeueFails, LoopTypeOK
    <3>3. QED
      BY <2>0, <2>8, <3>1, <3>2, DropType DEF RequeueFails, LoopTypeOK, StoreTypeOK, storeVars
  <2>9. ASSUME NEW d \in Daemons, TurnToArticles(d) PROVE StoreTypeOK' /\ LoopTypeOK'
    BY <2>0, <2>9 DEF TurnToArticles, LoopTypeOK, StoreTypeOK, storeVars, Step, Kinds
  <2>10. ASSUME NEW d \in Daemons, FinishTick(d) PROVE StoreTypeOK' /\ LoopTypeOK'
    BY <2>0, <2>10, EndTickType DEF FinishTick, LoopTypeOK, StoreTypeOK, storeVars
  <2>11. ASSUME NEW d \in Daemons, Crash(d) PROVE StoreTypeOK' /\ LoopTypeOK'
    <3>1. crashes' \in 0 .. MaxCrashes
      BY <2>0, <2>11, SchedulerAssumption DEF Crash, SchedulerAssumption, LoopTypeOK
    <3>2. dropped' \subseteq Claim
      BY <2>0, <2>11 DEF Crash, LoopTypeOK
    <3>3. QED
      BY <2>0, <2>11, <3>1, <3>2, EndTickType DEF Crash, LoopTypeOK, StoreTypeOK, storeVars
  <2>12. CASE Enqueue
    <3>1. StoreTypeOK'
      BY <2>0, <2>12, AllocateType, InsertJobType DEF Enqueue
    <3>2. QED
      BY <2>0, <2>12, <3>1 DEF Enqueue, LoopTypeOK, tickVars
  <2>13. CASE RecordDispatch
    <3>1. StoreTypeOK'
      BY <2>0, <2>13, RecordDispatchType DEF RecordDispatch, Terminal, PublishState
    <3>2. QED
      BY <2>0, <2>13, <3>1 DEF RecordDispatch, LoopTypeOK, tickVars
  <2>14. CASE Import
    <3>1. StoreTypeOK'
      BY <2>0, <2>14, SchedulerAssumption, AppendHistoryType
      DEF SchedulerAssumption, Import, Terminal, PublishState
    <3>2. QED
      BY <2>0, <2>14, <3>1 DEF Import, LoopTypeOK, tickVars
  <2>15. CASE ClockTick
    BY <2>0, <2>15, ClockAssumption
    DEF ClockTick, LoopTypeOK, StoreTypeOK, storeVars, tickVars, ClockAssumption, Time
  <2>16. CASE UNCHANGED vars
    BY <2>0, <2>16 DEF vars, LoopTypeOK, StoreTypeOK, storeVars, tickVars
  <2>17. QED
    BY <2>1, <2>2, <2>3, <2>4, <2>5, <2>6, <2>7, <2>8, <2>9, <2>10, <2>11, <2>12,
       <2>13, <2>14, <2>15, <2>16
    DEF Next, TickStep, JobStep
<1>3. QED
  BY <1>1, <1>2, PTL DEF Spec
-----------------------------------------------------------------------------
(* Who changes a job. *)

\* Every step leaves the jobs and what is recorded about them alone, or inserts a
\* new job, or is a claim, a completion or a requeue by some daemon.
LEMMA StoreSteps ==
    ASSUME TypeOK, [Next]_vars
    PROVE  \/ UNCHANGED jobs /\ \A j \in Jobs : HistoryOf(j)' = HistoryOf(j)
           \/ /\ \E j \in Jobs, draft \in BOOLEAN, due \in Texts \cup {NoDue} :
                    InsertJob(j, draft, due)
              /\ UNCHANGED <<now, tickVars, envVars, seenVars>>
           \/ \E d \in Daemons : ClaimBatch(d)
           \/ \E d \in Daemons : \E c \in held[d] : CompleteJob(d, c)
           \/ \E d \in Daemons : \E c \in held[d] : RequeueJob(d, c)
<1> USE DEF storeVars
<1>0. StoreTypeOK /\ NoJob \notin Jobs
  BY StoreAssumption DEF TypeOK, StoreAssumption
<1>1. ASSUME UNCHANGED storeVars
      PROVE  UNCHANGED jobs /\ \A j \in Jobs : HistoryOf(j)' = HistoryOf(j)
  BY <1>1 DEF HistoryOf
<1>2. CASE RecordDispatch
  <2>1. PICK state \in Terminal : RecordProviderDispatchHistory(state)
    BY <1>2 DEF RecordDispatch
  <2>2. \E id \in HistoryId :
           history' = history \cup {[id |-> id, request |-> NoJob, state |-> state]}
    <3>1. "dispatch-history" \in Prefixes /\ state \in PublishState
      BY DEF Prefixes, Terminal, PublishState
    <3>2. InsertTerminalHistory("dispatch-history", NoJob, state)
      BY <2>1 DEF RecordProviderDispatchHistory
    <3>3. QED
      BY <1>0, <3>1, <3>2, InsertedRow
  <2>3. \A j \in Jobs : HistoryOf(j)' = HistoryOf(j)
    BY <1>0, <2>2 DEF HistoryOf
  <2>4. QED
    BY <2>1, <2>3 DEF RecordProviderDispatchHistory
<1>3. CASE Import
  <2>1. PICK id \in ImportableIds, state \in Terminal : AppendHistory(id, state)
    BY <1>3 DEF Import
  <2>2. \A j \in Jobs : HistoryOf(j)' = HistoryOf(j)
    BY <1>0, <2>1 DEF AppendHistory, HistoryOf
  <2>3. QED
    BY <2>1, <2>2 DEF AppendHistory
<1>4. CASE Enqueue
  <2>1. CASE \E j \in Jobs : AllocateJobId(j)
    BY <2>1 DEF AllocateJobId, HistoryOf
  <2>2. QED
    BY <1>4, <2>1 DEF Enqueue
<1>5. CASE ClockTick \/ UNCHANGED vars
  BY <1>1, <1>5 DEF ClockTick, vars
<1>6. ASSUME NEW d \in Daemons, TickStep(d) \/ Crash(d),
             ~ClaimBatch(d),
             \A c \in held[d] : ~CompleteJob(d, c) /\ ~RequeueJob(d, c)
      PROVE  UNCHANGED storeVars
  BY <1>6 DEF TickStep, JobStep, Crash, StartTick, ClaimFails, DispatchTarget,
              CompleteFails, RequeueFails, TurnToArticles, FinishTick
<1>7. QED
  BY <1>1, <1>2, <1>3, <1>4, <1>5, <1>6 DEF Next

\* What is left of a daemon's claims after a step that is no claim.
LEMMA HeldShrinks ==
    ASSUME TypeOK, [Next]_vars, \A d \in Daemons : ~ClaimBatch(d)
    PROVE  \A d \in Daemons : held'[d] \subseteq held[d]
<1>0. held \in [Daemons -> SUBSET Claim]
  BY DEF TypeOK
<1>1. ASSUME NEW d \in Daemons, TickStep(d) \/ Crash(d)
      PROVE  \A e \in Daemons : held'[e] \subseteq held[e]
  BY <1>0, <1>1 DEF TickStep, JobStep, Crash, StartTick, ClaimFails, DispatchTarget,
      CompleteJob, CompleteFails, RequeueJob, RequeueFails, TurnToArticles, FinishTick,
      EndTick, Drop
<1>2. CASE Enqueue \/ RecordDispatch \/ Import \/ ClockTick \/ UNCHANGED vars
  BY <1>2 DEF Enqueue, RecordDispatch, Import, ClockTick, vars, tickVars
<1>3. QED
  BY <1>1, <1>2 DEF Next

\* The claim invariant is inductive as it stands: a claim takes only queued jobs,
\* and only the holder of a dispatching job moves it.
THEOREM ClaimExclusivity == Spec => []ClaimsAreExclusive
<1>1. Init => ClaimsAreExclusive
  BY DEF Init, ClaimsAreExclusive
<1>2. TypeOK /\ ClaimsAreExclusive /\ [Next]_vars => ClaimsAreExclusive'
  <2> SUFFICES ASSUME TypeOK, ClaimsAreExclusive, [Next]_vars PROVE ClaimsAreExclusive'
    OBVIOUS
  <2>0. /\ jobs \in [Jobs -> JobRow]
        /\ held \in [Daemons -> SUBSET Claim]
        /\ \A d \in Daemons : \A c \in held[d] : c.job \in Jobs
    BY DEF TypeOK, StoreTypeOK, Claim
  <2>1. ASSUME NEW d \in Daemons, ClaimBatch(d) PROVE ClaimsAreExclusive'
    <3> DEFINE claimed == Claimable(kind[d], through[d], room[d])
               new == {[job |-> j, revision |-> jobs[j].revision + 1] : j \in claimed}
    <3>1. \A j \in claimed : j \in Jobs /\ jobs[j].state = "queued"
      BY ClaimableDue DEF TypeOK
    <3>2. held' = [held EXCEPT ![d] = new]
      BY <2>1 DEF ClaimBatch
    <3>3. \A j \in Jobs : jobs'[j] = IF j \in claimed THEN Moved(jobs[j], "dispatching")
                                                     ELSE jobs[j]
      BY <2>1 DEF ClaimBatch, ClaimDue
    <3>4. \A e \in Daemons : \A c \in held[e] : c.job \notin claimed
      BY <3>1 DEF ClaimsAreExclusive
    <3>5. \A c \in new : /\ jobs'[c.job].state = "dispatching"
                         /\ jobs'[c.job].revision = c.revision
                         /\ c.job \in claimed
      <4> SUFFICES ASSUME NEW j \in claimed
                   PROVE  /\ jobs'[j].state = "dispatching"
                          /\ jobs'[j].revision = jobs[j].revision + 1
        OBVIOUS
      <4>1. jobs'[j] = Moved(jobs[j], "dispatching")
        BY <3>1, <3>3
      <4>2. QED
        BY <4>1 DEF Moved
    <3>6. \A c, f \in new : c.job = f.job => c = f
      OBVIOUS
    <3>7. \A e \in Daemons : held'[e] = IF e = d THEN new ELSE held[e]
      BY <2>0, <3>2
    <3> HIDE DEF new, claimed
    <3>8. QED
      BY <2>0, <3>3, <3>4, <3>5, <3>6, <3>7 DEF ClaimsAreExclusive
  <2>2. ASSUME NEW d \in Daemons, NEW c \in held[d], CompleteJob(d, c) \/ RequeueJob(d, c)
        PROVE  ClaimsAreExclusive'
    <3>1. \A e \in Daemons : held'[e] = IF e = d THEN held[d] \ {c} ELSE held[e]
      BY <2>0, <2>2 DEF CompleteJob, RequeueJob, Drop
    <3>2. \A j \in Jobs : j # c.job => jobs'[j] = jobs[j]
      BY <2>0, <2>2 DEF CompleteJob, CompleteJobWithHistory, RequeueJob, RequeueClaim
    <3>3. \A e \in Daemons : \A f \in held'[e] : f \in held[e] /\ f.job # c.job
      BY <3>1 DEF ClaimsAreExclusive
    <3>4. QED
      BY <2>0, <3>2, <3>3 DEF ClaimsAreExclusive
  <2>3. ASSUME NEW j \in Jobs, NEW draft \in BOOLEAN, NEW due \in Texts \cup {NoDue},
               InsertJob(j, draft, due), UNCHANGED held
        PROVE  ClaimsAreExclusive'
    <3>1. \A i \in Jobs : i # j => jobs'[i] = jobs[i]
      BY <2>0, <2>3 DEF InsertJob
    <3>2. \A e \in Daemons : \A c \in held[e] : c.job # j
      BY <2>0, <2>3 DEF InsertJob, Absent, ClaimsAreExclusive
    <3>3. QED
      BY <2>0, <2>3, <3>1, <3>2 DEF ClaimsAreExclusive
  <2>4. CASE UNCHANGED jobs /\ \A d \in Daemons : held'[d] \subseteq held[d]
    BY <2>0, <2>4 DEF ClaimsAreExclusive
  <2>5. QED
    BY <2>1, <2>2, <2>3, <2>4, StoreSteps, HeldShrinks DEF tickVars
<1>3. QED
  BY <1>1, <1>2, TypeCorrect, PTL DEF Spec
-----------------------------------------------------------------------------
(* What is recorded. *)

\* A completion by the tick settles a claimed job: until then nothing was
\* recorded about it, if RecordedOnce held.
LEMMA CompletionRecords ==
    ASSUME TypeOK, ClaimsAreExclusive, NEW d \in Daemons, NEW c \in held[d],
           CompleteJob(d, c)
    PROVE  /\ c.job \in Jobs
           /\ jobs[c.job].state = "dispatching"
           /\ jobs'[c.job].state = Verdict(d, c)
           /\ \A j \in Jobs : j # c.job => jobs'[j] = jobs[j]
           /\ \E row : /\ row.request = c.job
                       /\ row.state = Verdict(d, c)
                       /\ history' = history \cup {row}
<1> DEFINE next == Verdict(d, c)
<1>1. c.job \in Jobs /\ jobs \in [Jobs -> JobRow] /\ StoreTypeOK
  BY DEF TypeOK, StoreTypeOK, Claim
<1>2. jobs[c.job].state = "dispatching"
  BY DEF ClaimsAreExclusive
<1>3. CompleteJobWithHistory(c.job, c.revision, next)
  BY DEF CompleteJob
<1>4. jobs' = [jobs EXCEPT ![c.job] = Moved(jobs[c.job], next)]
  BY <1>3 DEF CompleteJobWithHistory
<1>5. InsertTerminalHistory(ScheduledPrefix(c.job), c.job, next)
  BY <1>3 DEF CompleteJobWithHistory
<1>6. PICK id \in HistoryId :
         history' = history \cup {[id |-> id, request |-> c.job, state |-> next]}
  BY <1>1, <1>5, PrefixType, VerdictTerminal, InsertedRow
<1>7. jobs'[c.job].state = next
  BY <1>1, <1>4 DEF Moved
<1>8. \A j \in Jobs : j # c.job => jobs'[j] = jobs[j]
  BY <1>1, <1>4
<1> HIDE DEF next
<1>9. \E row : row.request = c.job /\ row.state = next /\ history' = history \cup {row}
  <2>1. WITNESS [id |-> id, request |-> c.job, state |-> next]
  <2>2. QED
    BY <1>6
<1>10. QED
  BY <1>1, <1>2, <1>7, <1>8, <1>9 DEF next

\* Exactly the terminal jobs have a record, one each, that agrees with the job:
\* inductive together with the exclusiveness of claims.
THEOREM OneRecordPerOutcome == Spec => []RecordedOnce
<1>1. Init => RecordedOnce
  BY DEF Init, StoreInit, Absent, RecordedOnce, HistoryOf, Terminal
<1>2. TypeOK /\ ClaimsAreExclusive /\ RecordedOnce /\ [Next]_vars => RecordedOnce'
  <2> SUFFICES ASSUME TypeOK, ClaimsAreExclusive, RecordedOnce, [Next]_vars
               PROVE  RecordedOnce'
    OBVIOUS
  <2>0. StoreTypeOK /\ jobs \in [Jobs -> JobRow]
    BY DEF TypeOK, StoreTypeOK
  <2>1. ASSUME UNCHANGED history,
               \A j \in Jobs : jobs'[j].state \in Terminal <=> jobs[j].state \in Terminal,
               \A j \in Jobs : jobs[j].state \in Terminal => jobs'[j] = jobs[j]
        PROVE  RecordedOnce'
    BY <2>1 DEF RecordedOnce, HistoryOf
  <2>2. CASE UNCHANGED jobs /\ \A j \in Jobs : HistoryOf(j)' = HistoryOf(j)
    BY <2>2 DEF RecordedOnce
  <2>3. ASSUME NEW j \in Jobs, NEW draft \in BOOLEAN, NEW due \in Texts \cup {NoDue},
               InsertJob(j, draft, due)
        PROVE  RecordedOnce'
    <3>1. jobs[j].state = "absent" /\ jobs'[j].state \in {"draft", "queued"}
      BY <2>0, <2>3 DEF InsertJob, Absent
    <3>2. \A i \in Jobs : i # j => jobs'[i] = jobs[i]
      BY <2>0, <2>3 DEF InsertJob
    <3>3. UNCHANGED history
      BY <2>3 DEF InsertJob
    <3>4. QED
      BY <2>1, <3>1, <3>2, <3>3 DEF Terminal
  <2>4. ASSUME NEW d \in Daemons, ClaimBatch(d) PROVE RecordedOnce'
    <3> DEFINE claimed == Claimable(kind[d], through[d], room[d])
    <3>1. \A j \in claimed : jobs[j].state = "queued"
      BY ClaimableDue DEF TypeOK
    <3>2. \A j \in Jobs : jobs'[j] = IF j \in claimed THEN Moved(jobs[j], "dispatching")
                                                     ELSE jobs[j]
      BY <2>4 DEF ClaimBatch, ClaimDue
    <3>3. UNCHANGED history
      BY <2>4 DEF ClaimBatch, ClaimDue
    <3> HIDE DEF claimed
    <3>4. ASSUME NEW j \in Jobs, j \in claimed PROVE jobs'[j].state = "dispatching"
      <4>1. jobs'[j] = Moved(jobs[j], "dispatching")
        BY <3>2, <3>4
      <4>2. QED
        BY <4>1 DEF Moved
    <3>5. QED
      BY <2>1, <3>1, <3>2, <3>3, <3>4 DEF Terminal
  <2>5. ASSUME NEW d \in Daemons, NEW c \in held[d], RequeueJob(d, c) PROVE RecordedOnce'
    <3>1. /\ jobs[c.job].state = "dispatching"
          /\ jobs' = [jobs EXCEPT ![c.job] = Moved(jobs[c.job], "queued")]
          /\ UNCHANGED history
      BY <2>5 DEF RequeueJob, RequeueClaim, CanRequeue
    <3>2. jobs'[c.job].state \in {jobs[c.job].state, "queued"}
      BY <2>0, <3>1 DEF Moved
    <3>3. \A i \in Jobs : i # c.job => jobs'[i] = jobs[i]
      BY <2>0, <3>1
    <3>4. QED
      BY <2>1, <3>1, <3>2, <3>3 DEF Terminal
  <2>6. ASSUME NEW d \in Daemons, NEW c \in held[d], CompleteJob(d, c) PROVE RecordedOnce'
    <3>1. PICK row : /\ row.request = c.job
                     /\ row.state = Verdict(d, c)
                     /\ history' = history \cup {row}
      BY <2>6, CompletionRecords
    <3>2. /\ c.job \in Jobs
          /\ jobs[c.job].state = "dispatching"
          /\ jobs'[c.job].state = row.state
          /\ \A j \in Jobs : j # c.job => jobs'[j] = jobs[j]
      BY <2>6, <3>1, CompletionRecords
    <3>3. HistoryOf(c.job) = {}
      BY <3>2 DEF RecordedOnce, Terminal
    <3>4. HistoryOf(c.job)' = {row}
      BY <3>1, <3>3 DEF HistoryOf
    <3>5. \A j \in Jobs : j # c.job => HistoryOf(j)' = HistoryOf(j)
      BY <3>1 DEF HistoryOf
    <3>6. row.state \in Terminal
      BY <3>1, VerdictTerminal
    <3>7. QED
      BY <3>2, <3>4, <3>5, <3>6 DEF RecordedOnce
  <2>7. QED
    BY <2>2, <2>3, <2>4, <2>5, <2>6, StoreSteps
<1>3. QED
  BY <1>1, <1>2, TypeCorrect, ClaimExclusivity, PTL DEF Spec

\* No step of any process touches a settled job or what is recorded about it: a
\* claim takes queued jobs, and completions and requeues hold dispatching ones.
THEOREM SettledIsFinal == Spec => OutcomeIsFinal
<1> DEFINE Kept == \A j \in Jobs : jobs[j].state \in Terminal =>
                      jobs'[j] = jobs[j] /\ HistoryOf(j)' = HistoryOf(j)
<1>1. TypeOK /\ ClaimsAreExclusive /\ [Next]_vars => Kept
  <2> SUFFICES ASSUME TypeOK, ClaimsAreExclusive, [Next]_vars,
                      NEW j \in Jobs, jobs[j].state \in Terminal
               PROVE  jobs'[j] = jobs[j] /\ HistoryOf(j)' = HistoryOf(j)
    OBVIOUS
  <2>0. jobs \in [Jobs -> JobRow] /\ jobs[j].state \notin {"absent", "queued", "dispatching"}
    BY DEF TypeOK, StoreTypeOK, Terminal
  <2>1. CASE UNCHANGED jobs /\ HistoryOf(j)' = HistoryOf(j)
    BY <2>1
  <2>2. ASSUME NEW i \in Jobs, NEW draft \in BOOLEAN, NEW due \in Texts \cup {NoDue},
               InsertJob(i, draft, due)
        PROVE  jobs'[j] = jobs[j] /\ HistoryOf(j)' = HistoryOf(j)
    BY <2>0, <2>2 DEF InsertJob, Absent, HistoryOf
  <2>3. ASSUME NEW d \in Daemons, ClaimBatch(d)
        PROVE  jobs'[j] = jobs[j] /\ HistoryOf(j)' = HistoryOf(j)
    <3>1. j \notin Claimable(kind[d], through[d], room[d])
      BY <2>0, ClaimableDue DEF TypeOK
    <3>2. QED
      BY <2>3, <3>1 DEF ClaimBatch, ClaimDue, HistoryOf
  <2>4. ASSUME NEW d \in Daemons, NEW c \in held[d], RequeueJob(d, c)
        PROVE  jobs'[j] = jobs[j] /\ HistoryOf(j)' = HistoryOf(j)
    BY <2>0, <2>4 DEF RequeueJob, RequeueClaim, CanRequeue, HistoryOf
  <2>5. ASSUME NEW d \in Daemons, NEW c \in held[d], CompleteJob(d, c)
        PROVE  jobs'[j] = jobs[j] /\ HistoryOf(j)' = HistoryOf(j)
    BY <2>0, <2>5, CompletionRecords DEF HistoryOf
  <2>6. QED
    BY <2>1, <2>2, <2>3, <2>4, <2>5, StoreSteps
<1>2. QED
  BY <1>1, TypeCorrect, ClaimExclusivity, PTL DEF Spec, OutcomeIsFinal, Kept

\* A step adds at most one history row, under an id no row had.
LEMMA HistorySteps ==
    ASSUME TypeOK, [Next]_vars
    PROVE  \/ UNCHANGED history
           \/ \E row : ~Recorded(row.id) /\ history' = history \cup {row}
<1>0. StoreTypeOK
  BY DEF TypeOK
<1>1. ASSUME NEW prefix \in Prefixes, NEW request \in Jobs \cup {NoJob},
             NEW state \in PublishState, InsertTerminalHistory(prefix, request, state)
      PROVE  \E row : ~Recorded(row.id) /\ history' = history \cup {row}
  <2>1. PICK id \in HistoryId :
           /\ ~Recorded(id)
           /\ history' = history \cup {[id |-> id, request |-> request, state |-> state]}
    BY <1>0, <1>1, InsertedRow
  <2>2. WITNESS [id |-> id, request |-> request, state |-> state]
  <2>3. QED
    BY <2>1
<1>2. CASE RecordDispatch
  <2>1. PICK state \in Terminal : InsertTerminalHistory("dispatch-history", NoJob, state)
    BY <1>2 DEF RecordDispatch, RecordProviderDispatchHistory
  <2>2. "dispatch-history" \in Prefixes /\ state \in PublishState
    BY DEF Prefixes, Terminal, PublishState
  <2>3. QED
    BY <1>1, <2>1, <2>2
<1>3. CASE Import
  <2>1. PICK id \in ImportableIds, state \in Terminal : AppendHistory(id, state)
    BY <1>3 DEF Import
  <2>2. ~Recorded(id) /\ history' = history \cup {[id |-> id, request |-> NoJob, state |-> state]}
    BY <2>1 DEF AppendHistory
  <2>3. \E row : ~Recorded(row.id) /\ history' = history \cup {row}
    <3>1. WITNESS [id |-> id, request |-> NoJob, state |-> state]
    <3>2. QED
      BY <2>2
  <2>4. QED
    BY <2>3
<1>4. ASSUME NEW d \in Daemons, NEW c \in held[d], CompleteJob(d, c)
      PROVE  \E row : ~Recorded(row.id) /\ history' = history \cup {row}
  <2>1. c.job \in Jobs
    BY DEF TypeOK, Claim
  <2>2. InsertTerminalHistory(ScheduledPrefix(c.job), c.job, Verdict(d, c))
    BY <1>4 DEF CompleteJob, CompleteJobWithHistory
  <2>3. QED
    BY <1>1, <2>1, <2>2, PrefixType, VerdictTerminal
<1>5. ASSUME NEW d \in Daemons, TickStep(d) \/ Crash(d), \A c \in held[d] : ~CompleteJob(d, c)
      PROVE  UNCHANGED history
  BY <1>5 DEF TickStep, JobStep, Crash, StartTick, ClaimBatch, ClaimDue, ClaimFails,
      DispatchTarget, CompleteFails, RequeueJob, RequeueClaim, RequeueFails,
      TurnToArticles, FinishTick, storeVars
<1>6. CASE Enqueue \/ ClockTick \/ UNCHANGED vars
  BY <1>6 DEF Enqueue, AllocateJobId, InsertJob, ClockTick, vars, storeVars
<1>7. QED
  BY <1>2, <1>3, <1>4, <1>5, <1>6 DEF Next

\* Generated and imported ids never meet: a generated id is skipped while a row
\* has it, and an import is refused.
THEOREM UniqueHistoryIds == Spec => []HistoryIdsUnique
<1>1. Init => HistoryIdsUnique
  BY DEF Init, StoreInit, HistoryIdsUnique
<1>2. TypeOK /\ HistoryIdsUnique /\ [Next]_vars => HistoryIdsUnique'
  BY HistorySteps DEF HistoryIdsUnique, Recorded
<1>3. QED
  BY <1>1, <1>2, TypeCorrect, PTL DEF Spec

\* Records are one to an outcome, and ids one to a record.
THEOREM RecordsStaySound == Spec => []RecordsAreSound
  BY OneRecordPerOutcome, UniqueHistoryIds, PTL DEF RecordsAreSound

-----------------------------------------------------------------------------
(* The order of dispatch. *)

\* No claim of any daemon leaves a job of its queue behind whose schedule sorts earlier
\* than one it takes, or the same with a smaller id.
THEOREM ClaimsKeepOrder == Spec => NoOvertaking
<1> DEFINE InOrder ==
      \A queue \in Kinds : \A i, j \in JobsOf(queue) :
         /\ jobs[i].state = "queued" /\ jobs'[i].state = "queued"
         /\ jobs[j].state = "queued" /\ jobs'[j].state = "dispatching"
         /\ jobs[i].due \in Texts
         => Precedes(j, i)
<1>1. TypeOK /\ ClaimsAreExclusive /\ [Next]_vars => InOrder
  <2> SUFFICES ASSUME TypeOK, ClaimsAreExclusive, [Next]_vars,
                      NEW queue \in Kinds, NEW i \in JobsOf(queue), NEW j \in JobsOf(queue),
                      jobs[i].state = "queued", jobs'[i].state = "queued",
                      jobs[j].state = "queued", jobs'[j].state = "dispatching",
                      jobs[i].due \in Texts
               PROVE  Precedes(j, i)
    BY Zenon DEF InOrder
  <2>0. i \in Jobs /\ j \in Jobs /\ jobs \in [Jobs -> JobRow] /\ StoreTypeOK
    BY DEF JobsOf, Jobs, TypeOK, StoreTypeOK
  <2>1. CASE UNCHANGED jobs
    BY <2>1
  <2>2. ASSUME NEW k \in Jobs, NEW draft \in BOOLEAN, NEW due \in Texts \cup {NoDue},
               InsertJob(k, draft, due)
        PROVE  FALSE
    BY <2>0, <2>2 DEF InsertJob, Absent
  <2>3. ASSUME NEW d \in Daemons, NEW c \in held[d], RequeueJob(d, c) \/ CompleteJob(d, c)
        PROVE  FALSE
    <3>1. jobs[c.job].state = "dispatching"
      BY DEF ClaimsAreExclusive
    <3>2. jobs'[j] = jobs[j]
      BY <2>0, <2>3, <3>1 DEF RequeueJob, RequeueClaim, CompleteJob, CompleteJobWithHistory
    <3>3. QED
      BY <3>2
  <2>4. ASSUME NEW d \in Daemons, ClaimBatch(d) PROVE Precedes(j, i)
    <3> DEFINE claimed == Claimable(kind[d], through[d], room[d])
    <3>1. kind[d] \in Kinds /\ through[d] \in Texts /\ room[d] \in Nat
      BY DEF TypeOK
    <3>2. \A k \in Jobs : jobs'[k] = IF k \in claimed THEN Moved(jobs[k], "dispatching")
                                                     ELSE jobs[k]
      BY <2>4 DEF ClaimBatch, ClaimDue
    <3>3. j \in claimed
      BY <2>0, <3>2
    <3>4. i \notin claimed
      <4>1. SUFFICES ASSUME i \in claimed PROVE FALSE
        OBVIOUS
      <4>2. jobs'[i] = Moved(jobs[i], "dispatching")
        BY <2>0, <3>2, <4>1
      <4>3. QED
        BY <4>2 DEF Moved
    <3>5. queue = kind[d]
      <4>1. j \in JobsOf(kind[d])
        BY <3>3 DEF Claimable, DueJobs
      <4>2. QED
        BY <3>1, <4>1, StoreAssumption DEF StoreAssumption, Kinds, JobsOf
    <3> HIDE DEF claimed
    <3>6. QED
      BY <2>0, <3>1, <3>3, <3>4, <3>5, ClaimInOrder DEF claimed
  <2>5. QED
    BY <2>1, <2>2, <2>3, <2>4, StoreSteps
<1>2. QED
  BY <1>1, TypeCorrect, ClaimExclusivity, PTL DEF Spec, NoOvertaking, InOrder
-----------------------------------------------------------------------------
(* What a batch holds, and what is left behind. *)

\* A tick holds nothing before its claim, finitely much after it, and never more than
\* its batch.
BatchInv ==
    \A d \in Daemons :
       /\ IsFiniteSet(held[d])
       /\ step[d] \in {"idle", "claim"} => held[d] = {}
       /\ Cardinality(held[d]) + room[d] <= BatchSize

\* The claims of a batch are as many as its jobs.
LEMMA ClaimedCount ==
    ASSUME NEW S, IsFiniteSet(S)
    PROVE  LET new == {[job |-> j, revision |-> jobs[j].revision + 1] : j \in S}
           IN  IsFiniteSet(new) /\ Cardinality(new) <= Cardinality(S)
<1> DEFINE claim == [j \in S |-> [job |-> j, revision |-> jobs[j].revision + 1]]
           new == {[job |-> j, revision |-> jobs[j].revision + 1] : j \in S}
<1>1. claim \in Surjection(S, new)
  <2>1. claim \in [S -> new] /\ \A c \in new : \E j \in S : claim[j] = c
    OBVIOUS
  <2> HIDE DEF claim, new
  <2>2. QED
    BY <2>1, Fun_IsSurj
<1> HIDE DEF claim, new
<1>2. IsFiniteSet(new) /\ Cardinality(new) <= Cardinality(S)
  BY <1>1, FS_Surjection
<1>3. QED
  BY <1>2 DEF new

LEMMA BatchSizeType == BatchSize \in Nat
BY SchedulerAssumption, StoreAssumption DEF SchedulerAssumption, StoreAssumption

\* A daemon that gives up a claim, or all of them, holds less.
LEMMA BatchShrinks ==
    ASSUME NEW S, IsFiniteSet(S), NEW T \in SUBSET S, NEW m \in Nat, NEW n \in Nat,
           Cardinality(S) + m <= n
    PROVE  IsFiniteSet(T) /\ Cardinality(T) + m <= n
<1>1. IsFiniteSet(T) /\ Cardinality(T) <= Cardinality(S)
  BY FS_Subset
<1>2. Cardinality(S) \in Nat /\ Cardinality(T) \in Nat
  BY <1>1, FS_CardinalityType
<1>3. QED
  BY <1>1, <1>2

LEMMA BatchHolds == Spec => []BatchInv
<1>1. Init => BatchInv
  BY FS_EmptySet, BatchSizeType DEF Init, BatchInv
<1>2. TypeOK /\ BatchInv /\ [Next]_vars => BatchInv'
  <2> SUFFICES ASSUME TypeOK, BatchInv, [Next]_vars PROVE BatchInv'
    OBVIOUS
  <2>0. /\ StoreTypeOK
        /\ held \in [Daemons -> SUBSET Claim] /\ room \in [Daemons -> Nat]
        /\ step \in [Daemons -> Step] /\ kind \in [Daemons -> Kinds]
    BY DEF TypeOK
  <2>1. CASE UNCHANGED <<held, step, room>>
    BY <2>1 DEF BatchInv
  <2>2. ASSUME NEW d \in Daemons,
               held'[d] \subseteq held[d], room'[d] = room[d],
               step'[d] \in {"idle", "claim"} => held'[d] = {},
               \A e \in Daemons : e # d => /\ held'[e] = held[e] /\ room'[e] = room[e]
                                           /\ step'[e] = step[e]
        PROVE  BatchInv'
    <3>1. IsFiniteSet(held'[d]) /\ Cardinality(held'[d]) + room[d] <= BatchSize
      BY <2>0, <2>2, BatchSizeType, BatchShrinks DEF BatchInv
    <3>2. QED
      BY <2>2, <3>1 DEF BatchInv
  <2>3. ASSUME NEW d \in Daemons, EndTick(d) PROVE BatchInv'
    <3>1. /\ held'[d] = {} /\ room'[d] = 0
          /\ \A e \in Daemons : e # d => /\ held'[e] = held[e] /\ room'[e] = room[e]
                                         /\ step'[e] = step[e]
      BY <2>0, <2>3 DEF EndTick
    <3>2. IsFiniteSet(held'[d]) /\ Cardinality(held'[d]) + room'[d] <= BatchSize
      <4>1. IsFiniteSet({}) /\ Cardinality({}) = 0
        BY FS_EmptySet
      <4>2. QED
        BY <3>1, <4>1, BatchSizeType
    <3>3. QED
      BY <3>1, <3>2 DEF BatchInv
  <2>4. ASSUME NEW d \in Daemons, StartTick(d) PROVE BatchInv'
    <3>1. /\ held' = held /\ held[d] = {} /\ room'[d] = BatchSize
          /\ \A e \in Daemons : e # d => room'[e] = room[e] /\ step'[e] = step[e]
      BY <2>0, <2>4 DEF StartTick, BatchInv
    <3>2. IsFiniteSet(held'[d]) /\ Cardinality(held'[d]) + room'[d] <= BatchSize
      <4>1. IsFiniteSet({}) /\ Cardinality({}) = 0
        BY FS_EmptySet
      <4>2. QED
        BY <3>1, <4>1, BatchSizeType
    <3>3. QED
      BY <3>1, <3>2 DEF BatchInv
  <2>5. ASSUME NEW d \in Daemons, ClaimBatch(d) PROVE BatchInv'
    <3> DEFINE claimed == Claimable(kind[d], through[d], room[d])
               new == {[job |-> j, revision |-> jobs[j].revision + 1] : j \in claimed}
    <3>1. /\ held'[d] = new
          /\ room'[d] = SaturatingSub(room[d], Cardinality(claimed))
          /\ step'[d] = "dispatch"
          /\ \A e \in Daemons : e # d => /\ held'[e] = held[e] /\ room'[e] = room[e]
                                         /\ step'[e] = step[e]
      BY <2>0, <2>5 DEF ClaimBatch
    <3>2. IsFiniteSet(claimed) /\ Cardinality(claimed) <= room[d]
      BY <2>0, ClaimFits
    <3>3. IsFiniteSet(new) /\ Cardinality(new) <= Cardinality(claimed)
      BY <3>2, ClaimedCount
    <3>4. held[d] = {} /\ Cardinality(held[d]) + room[d] <= BatchSize
      BY <2>5 DEF ClaimBatch, BatchInv
    <3>5. Cardinality(new) \in Nat /\ Cardinality(claimed) \in Nat /\ room[d] \in Nat
      BY <2>0, <3>2, <3>3, FS_CardinalityType
    <3> HIDE DEF claimed, new
    <3>6. Cardinality(new) + (room[d] - Cardinality(claimed)) <= BatchSize
      BY <3>3, <3>4, <3>5, FS_EmptySet, BatchSizeType
    <3>7. Cardinality(held'[d]) + room'[d] <= BatchSize
      BY <3>1, <3>2, <3>5, <3>6 DEF SaturatingSub
    <3>8. QED
      BY <3>1, <3>3, <3>7 DEF BatchInv
  <2>6. ASSUME NEW d \in Daemons, NEW c \in held[d], JobStep(d, c) PROVE BatchInv'
    <3>1. /\ held'[d] \subseteq held[d] /\ room' = room
          /\ step'[d] \in {"dispatch", "requeue"}
          /\ \A e \in Daemons : e # d => held'[e] = held[e] /\ step'[e] = step[e]
      BY <2>0, <2>6 DEF JobStep, DispatchTarget, CompleteJob, CompleteFails, RequeueJob,
                        RequeueFails, Drop, Reported
    <3>2. QED
      BY <2>2, <3>1
  <2>7. ASSUME NEW d \in Daemons, TurnToArticles(d) PROVE BatchInv'
    BY <2>0, <2>2, <2>7 DEF TurnToArticles
  <2>8. CASE Enqueue \/ RecordDispatch \/ Import \/ ClockTick \/ UNCHANGED vars
    BY <2>1, <2>8 DEF Enqueue, RecordDispatch, Import, ClockTick, vars, tickVars
  <2>9. QED
    BY <2>3, <2>4, <2>5, <2>6, <2>7, <2>8
       DEF Next, TickStep, Crash, ClaimFails, FinishTick
<1>3. QED
  BY <1>1, <1>2, TypeCorrect, PTL DEF Spec

\* run_scheduler_tick_at gives the articles what the videos have left of the batch: a
\* tick never has more jobs in hand, or still to claim, than scheduler_batch_size.
THEOREM OneBatchForBoth == Spec => []BatchIsShared
<1>1. BatchInv => BatchIsShared
  BY DEF BatchInv, BatchIsShared
<1>2. QED
  BY <1>1, BatchHolds, PTL

\* A job becomes an orphan only when a daemon lets go of it while it is claimed.
LEMMA OrphansFrom ==
    ASSUME TypeOK, NEW lose,
           \A j \in Jobs : jobs'[j].state = "dispatching" =>
              \/ jobs[j].state = "dispatching"
              \/ \E d \in Daemons : \E c \in held'[d] : c.job = j,
           \A d \in Daemons : \A c \in held[d] :
              c \in held'[d] \/ jobs'[c.job].state # "dispatching" \/ c.job \in lose
    PROVE  Orphans' \subseteq Orphans \cup lose
<1> SUFFICES ASSUME NEW j \in Orphans', j \notin lose PROVE j \in Orphans
  OBVIOUS
<1>1. /\ j \in Jobs /\ jobs'[j].state = "dispatching"
      /\ \A d \in Daemons : \A c \in held'[d] : c.job # j
  BY DEF Orphans
<1>2. \A d \in Daemons : \A c \in held[d] : c.job # j
  BY <1>1
<1>3. QED
  BY <1>1, <1>2 DEF Orphans

\* No other step than a death or a failed requeue makes orphans.
LEMMA OrphanSteps ==
    ASSUME TypeOK, ClaimsAreExclusive, BatchInv, [Next]_vars,
           \A d \in Daemons : ~Crash(d) /\ \A c \in held[d] : ~RequeueFails(d, c)
    PROVE  Orphans' \subseteq Orphans
<1>0. /\ jobs \in [Jobs -> JobRow] /\ held \in [Daemons -> SUBSET Claim]
      /\ step \in [Daemons -> Step]
      /\ \A d \in Daemons : \A c \in held[d] : c.job \in Jobs
  BY DEF TypeOK, StoreTypeOK, Claim
<1>1. ASSUME UNCHANGED <<jobs, held>> PROVE Orphans' = Orphans
  BY <1>1 DEF Orphans
<1>2. CASE Enqueue
  <2>1. CASE \E j \in Jobs : AllocateJobId(j)
    BY <1>1, <1>2, <2>1 DEF Enqueue, AllocateJobId, tickVars
  <2>2. ASSUME NEW j \in Jobs, NEW draft \in BOOLEAN, NEW due \in Texts \cup {NoDue},
               InsertJob(j, draft, due)
        PROVE  Orphans' \subseteq Orphans
    BY <1>0, <1>2, <2>2 DEF Enqueue, InsertJob, Orphans, tickVars
  <2>3. QED
    BY <1>2, <2>1, <2>2 DEF Enqueue
<1>3. CASE RecordDispatch \/ Import \/ ClockTick \/ UNCHANGED vars
  <2>1. UNCHANGED <<jobs, held>>
    BY <1>3 DEF RecordDispatch, RecordProviderDispatchHistory, Import, AppendHistory,
                ClockTick, vars, tickVars, storeVars
  <2>2. QED
    BY <1>1, <2>1
<1>4. ASSUME NEW d \in Daemons, StartTick(d) \/ TurnToArticles(d)
             \/ \E c \in held[d] : DispatchTarget(d, c) \/ CompleteFails(d, c)
      PROVE  Orphans' = Orphans
  BY <1>1, <1>4 DEF StartTick, TurnToArticles, DispatchTarget, CompleteFails, storeVars
<1>5. ASSUME NEW d \in Daemons, ClaimFails(d) \/ FinishTick(d) PROVE Orphans' = Orphans
  <2>1. held' = held
    BY <1>0, <1>5 DEF ClaimFails, FinishTick, EndTick, BatchInv
  <2>2. QED
    BY <1>1, <1>5, <2>1 DEF ClaimFails, FinishTick, storeVars
<1>6. ASSUME NEW d \in Daemons, ClaimBatch(d) PROVE Orphans' \subseteq Orphans
  <2> DEFINE claimed == Claimable(kind[d], through[d], room[d])
             claimOf(j) == [job |-> j, revision |-> jobs[j].revision + 1]
  <2>1. /\ held[d] = {}
        /\ held'[d] = {claimOf(j) : j \in claimed}
        /\ \A e \in Daemons : e # d => held'[e] = held[e]
    BY <1>0, <1>6 DEF ClaimBatch, BatchInv
  <2>2. \A j \in Jobs : j \notin claimed => jobs'[j] = jobs[j]
    BY <1>6 DEF ClaimBatch, ClaimDue
  <2>3. \A j \in claimed : claimOf(j) \in held'[d] /\ claimOf(j).job = j
    BY <2>1
  <2> HIDE DEF claimed, claimOf
  <2>4. \A e \in Daemons : \A c \in held[e] : c \in held'[e]
    BY <2>1
  <2>5. Orphans' \subseteq Orphans \cup {}
    BY <2>2, <2>3, <2>4, OrphansFrom
  <2>6. QED
    BY <2>5
<1>7. ASSUME NEW d \in Daemons, NEW c \in held[d], CompleteJob(d, c) \/ RequeueJob(d, c)
      PROVE  Orphans' \subseteq Orphans
  <2>1. \A e \in Daemons : \A f \in held[e] : f \in held'[e] \/ f = c
    BY <1>0, <1>7 DEF CompleteJob, RequeueJob, Drop
  <2>2. \A j \in Jobs : j # c.job => jobs'[j] = jobs[j]
    BY <1>0, <1>7 DEF CompleteJob, CompleteJobWithHistory, RequeueJob, RequeueClaim
  <2>3. jobs'[c.job].state # "dispatching"
    <3>1. CASE CompleteJob(d, c)
      BY <3>1, VerdictTerminal, CompletionRecords DEF Terminal
    <3>2. CASE RequeueJob(d, c)
      BY <1>0, <3>2 DEF RequeueJob, RequeueClaim, Moved
    <3>3. QED
      BY <1>7, <3>1, <3>2
  <2>4. Orphans' \subseteq Orphans \cup {}
    BY <1>0, <2>1, <2>2, <2>3, OrphansFrom
  <2>5. QED
    BY <2>4
<1>8. QED
  BY <1>2, <1>3, <1>4, <1>5, <1>6, <1>7 DEF Next, TickStep, JobStep

\* Orphans no dead daemon held.
Strays == Orphans \ {c.job : c \in dropped}

\* Daemons whose completion has failed and whose requeue is to come.
Requeuing == {d \in Daemons : step[d] = "requeue"}

\* What a step adds to the strays, and what it costs: a daemon comes to a requeue, and
\* leaves a stray behind, by a storage failure each time.
LEMMA StraySteps ==
    ASSUME TypeOK, ClaimsAreExclusive, BatchInv, [Next]_vars
    PROVE  \/ /\ Strays' \subseteq Strays /\ Requeuing' \subseteq Requeuing
              /\ faults' \in {faults, faults + 1}
           \/ /\ Strays' \subseteq Strays /\ faults' = faults + 1
              /\ \E d \in Daemons : Requeuing' \subseteq Requeuing \cup {d}
           \/ /\ faults' = faults + 1
              /\ \E j \in Jobs, d \in Requeuing :
                    Strays' \subseteq Strays \cup {j} /\ Requeuing' \subseteq Requeuing \ {d}
<1>0. /\ held \in [Daemons -> SUBSET Claim] /\ step \in [Daemons -> Step]
      /\ \A d \in Daemons : \A c \in held[d] : c.job \in Jobs
  BY DEF TypeOK, Claim
<1>1. ASSUME NEW d \in Daemons, NEW c \in held[d], RequeueFails(d, c)
      PROVE  /\ faults' = faults + 1 /\ c.job \in Jobs /\ d \in Requeuing
             /\ Requeuing' \subseteq Requeuing \ {d}
             /\ Strays' \subseteq Strays \cup {c.job}
  <2>1. CanRequeue(c.job, c.revision)
    BY DEF ClaimsAreExclusive, CanRequeue, AtRevision
  <2>2. faults' = faults + 1 /\ dropped' = dropped
    BY <1>1, <2>1 DEF RequeueFails, StorageFault, seenVars
  <2>3. d \in Requeuing /\ Requeuing' \subseteq Requeuing \ {d}
    BY <1>0, <1>1 DEF RequeueFails, Requeuing
  <2>4. Orphans' \subseteq Orphans \cup {c.job}
    <3>1. \A e \in Daemons : \A f \in held[e] : f \in held'[e] \/ f.job \in {c.job}
      BY <1>0, <1>1 DEF RequeueFails, Drop
    <3>2. UNCHANGED jobs
      BY <1>1 DEF RequeueFails, storeVars
    <3>3. QED
      BY <3>1, <3>2, OrphansFrom
  <2>5. QED
    BY <1>0, <2>2, <2>3, <2>4 DEF Strays
<1>2. ASSUME NEW d \in Daemons, Crash(d)
      PROVE  /\ faults' = faults /\ Requeuing' \subseteq Requeuing /\ Strays' \subseteq Strays
  <2>1. faults' = faults /\ dropped' = dropped \cup held[d]
    BY <1>2 DEF Crash
  <2>2. Requeuing' \subseteq Requeuing
    BY <1>0, <1>2 DEF Crash, EndTick, Requeuing
  <2>3. Orphans' \subseteq Orphans \cup {c.job : c \in held[d]}
    <3> DEFINE lose == {c.job : c \in held[d]}
    <3>1. \A e \in Daemons : \A f \in held[e] : f \in held'[e] \/ f.job \in lose
      BY <1>0, <1>2 DEF Crash, EndTick
    <3>2. UNCHANGED jobs
      BY <1>2 DEF Crash, storeVars
    <3> HIDE DEF lose
    <3>3. Orphans' \subseteq Orphans \cup lose
      BY <3>1, <3>2, OrphansFrom
    <3>4. QED
      BY <3>3 DEF lose
  <2>4. QED
    BY <2>1, <2>2, <2>3 DEF Strays
<1>3. CASE /\ \A d \in Daemons : ~Crash(d)
           /\ \A d \in Daemons : \A c \in held[d] : ~RequeueFails(d, c)
  <2>1. Orphans' \subseteq Orphans
    BY <1>3, OrphanSteps
  <2>2. ASSUME NEW d \in Daemons, NEW c \in held[d], CompleteFails(d, c)
        PROVE  /\ faults' = faults + 1 /\ dropped' = dropped
               /\ Requeuing' \subseteq Requeuing \cup {d}
    <3>1. CanComplete(c.job, c.revision, Verdict(d, c))
      BY VerdictTerminal
      DEF ClaimsAreExclusive, CanComplete, AtRevision, CanTransitionTo, TransitionGraph
    <3>2. QED
      BY <1>0, <2>2, <3>1 DEF CompleteFails, StorageFault, Requeuing
  <2>3. ASSUME NEW d \in Daemons, TickStep(d), \A c \in held[d] : ~CompleteFails(d, c)
        PROVE  /\ faults' \in {faults, faults + 1} /\ dropped' = dropped
               /\ Requeuing' \subseteq Requeuing
    <3>1. faults' \in {faults, faults + 1} /\ dropped' = dropped
      BY <1>3, <2>3 DEF TickStep, JobStep, StartTick, ClaimBatch, ClaimFails, DispatchTarget,
         CompleteJob, RequeueJob, TurnToArticles, FinishTick, StorageFault, envVars, seenVars
    <3>2. \A e \in Daemons : step'[e] = "requeue" => step[e] = "requeue"
      BY <1>0, <1>3, <2>3
      DEF TickStep, JobStep, StartTick, ClaimBatch, ClaimFails, DispatchTarget, CompleteJob,
          RequeueJob, TurnToArticles, FinishTick, EndTick
    <3>3. QED
      BY <3>1, <3>2 DEF Requeuing
  <2>4. CASE Enqueue \/ RecordDispatch \/ Import \/ ClockTick \/ UNCHANGED vars
    <3>1. UNCHANGED <<faults, dropped, step>>
      BY <2>4 DEF Enqueue, RecordDispatch, Import, ClockTick, vars, tickVars, envVars, seenVars
    <3>2. QED
      BY <2>1, <3>1 DEF Strays, Requeuing
  <2>5. QED
    BY <1>3, <2>1, <2>2, <2>3, <2>4 DEF Next, Strays
<1>4. QED
  BY <1>1, <1>2, <1>3

\* The claims that died with their daemons come in batches.
DroppedInv == IsFiniteSet(dropped) /\ Cardinality(dropped) <= BatchSize * crashes

\* Each stray has cost two storage failures, and each daemon about to requeue one.
StrayInv ==
    /\ IsFiniteSet(Requeuing)
    /\ 2 * Cardinality(Strays) + Cardinality(Requeuing) <= faults

LEMMA DroppedStays ==
    ASSUME TypeOK, BatchInv, DroppedInv, [Next]_vars PROVE DroppedInv'
<1>0. /\ crashes \in Nat /\ BatchSize \in Nat /\ room \in [Daemons -> Nat]
      /\ Cardinality(dropped) \in Nat /\ Cardinality(dropped) <= BatchSize * crashes
  BY BatchSizeType, SchedulerAssumption, FS_CardinalityType
  DEF TypeOK, SchedulerAssumption, DroppedInv
<1>1. ASSUME NEW d \in Daemons, Crash(d) PROVE DroppedInv'
  <2> DEFINE had == BatchSize * crashes
             n == Cardinality(dropped)
             m == Cardinality(held[d])
             both == Cardinality(dropped \cap held[d])
             total == Cardinality(dropped \cup held[d])
  <2>1. IsFiniteSet(held[d]) /\ m + room[d] <= BatchSize /\ m \in Nat /\ room[d] \in Nat
    BY <1>0, FS_CardinalityType DEF BatchInv
  <2>2. dropped' = dropped \cup held[d] /\ crashes' = crashes + 1
    BY <1>1 DEF Crash
  <2>3. IsFiniteSet(dropped \cup held[d]) /\ total = n + m - both
    BY <2>1, FS_Union DEF DroppedInv
  <2>4. both \in Nat
    BY <2>1, FS_Intersection, FS_CardinalityType DEF DroppedInv
  <2>5. had \in Nat /\ BatchSize * (crashes + 1) = had + BatchSize
    BY <1>0
  <2>6. n \in Nat /\ n <= had
    BY <1>0
  <2> HIDE DEF had, n, m, both, total
  <2>7. total <= had + BatchSize
    BY <1>0, <2>1, <2>3, <2>4, <2>5, <2>6
  <2>8. QED
    BY <2>2, <2>3, <2>5, <2>7 DEF DroppedInv, total
<1>2. CASE \A d \in Daemons : ~Crash(d)
  <2>1. UNCHANGED <<dropped, crashes>>
    BY <1>2 DEF Next, TickStep, JobStep, StartTick, ClaimBatch, ClaimFails, DispatchTarget,
       CompleteJob, CompleteFails, RequeueJob, RequeueFails, TurnToArticles, FinishTick,
       Enqueue, RecordDispatch, Import, ClockTick, vars, envVars, seenVars
  <2>2. QED
    BY <2>1 DEF DroppedInv
<1>3. QED
  BY <1>1, <1>2

\* A finite set that gains at most one element.
LEMMA GainsOne ==
    ASSUME NEW S, IsFiniteSet(S), NEW x, NEW T, T \subseteq S \cup {x}
    PROVE  /\ IsFiniteSet(T) /\ Cardinality(T) \in Nat /\ Cardinality(S) \in Nat
           /\ Cardinality(T) <= Cardinality(S) + 1
<1>1. /\ IsFiniteSet(S \cup {x}) /\ Cardinality(S) \in Nat
      /\ Cardinality(S \cup {x}) <= Cardinality(S) + 1
  <2>1. Cardinality(S) \in Nat
    BY FS_CardinalityType
  <2>2. /\ IsFiniteSet(S \cup {x})
        /\ Cardinality(S \cup {x}) = IF x \in S THEN Cardinality(S) ELSE Cardinality(S) + 1
    BY FS_AddElement
  <2>3. QED
    BY <2>1, <2>2
<1>2. IsFiniteSet(T) /\ Cardinality(T) <= Cardinality(S \cup {x})
  BY <1>1, FS_Subset
<1>3. Cardinality(T) \in Nat /\ Cardinality(S \cup {x}) \in Nat
  BY <1>1, <1>2, FS_CardinalityType
<1>4. QED
  BY <1>1, <1>2, <1>3

LEMMA StrayStays ==
    ASSUME TypeOK, ClaimsAreExclusive, BatchInv, StrayInv, [Next]_vars PROVE StrayInv'
<1> DEFINE s == Cardinality(Strays)
           t == Cardinality(Strays')
           r == Cardinality(Requeuing)
           q == Cardinality(Requeuing')
<1>1. /\ faults \in Nat
      /\ IsFiniteSet(Strays) /\ s \in Nat
      /\ IsFiniteSet(Requeuing) /\ r \in Nat
      /\ 2 * s + r <= faults
  <2>1. IsFiniteSet(Jobs) /\ Strays \subseteq Jobs
    BY StoreAssumption DEF StoreAssumption, Strays, Orphans
  <2>2. IsFiniteSet(Strays)
    BY <2>1, FS_Subset
  <2>3. QED
    BY <2>2, SchedulerAssumption, FS_CardinalityType DEF TypeOK, SchedulerAssumption, StrayInv
<1>2. ASSUME Strays' \subseteq Strays PROVE t \in Nat /\ t <= s
  BY <1>1, <1>2, FS_Subset, FS_CardinalityType
<1>3. CASE /\ Strays' \subseteq Strays /\ Requeuing' \subseteq Requeuing
           /\ faults' \in {faults, faults + 1}
  <2>1. IsFiniteSet(Requeuing') /\ q \in Nat /\ q <= r
    BY <1>1, <1>3, FS_Subset, FS_CardinalityType
  <2>2. t \in Nat /\ t <= s
    BY <1>2, <1>3
  <2> HIDE DEF s, t, r, q
  <2>3. 2 * t + q <= faults'
    BY <1>1, <1>3, <2>1, <2>2
  <2>4. QED
    BY <2>1, <2>3 DEF StrayInv, t, q
<1>4. ASSUME Strays' \subseteq Strays, faults' = faults + 1,
             NEW d \in Daemons, Requeuing' \subseteq Requeuing \cup {d}
      PROVE  StrayInv'
  <2>1. IsFiniteSet(Requeuing') /\ q \in Nat /\ q <= r + 1
    BY <1>1, <1>4, GainsOne
  <2>2. t \in Nat /\ t <= s
    BY <1>2, <1>4
  <2> HIDE DEF s, t, r, q
  <2>3. 2 * t + q <= faults'
    BY <1>1, <1>4, <2>1, <2>2
  <2>4. QED
    BY <2>1, <2>3 DEF StrayInv, t, q
<1>5. ASSUME faults' = faults + 1, NEW j \in Jobs, NEW d \in Requeuing,
             Strays' \subseteq Strays \cup {j}, Requeuing' \subseteq Requeuing \ {d}
      PROVE  StrayInv'
  <2>1. IsFiniteSet(Requeuing') /\ q \in Nat /\ q <= r - 1
    <3>1. IsFiniteSet(Requeuing \ {d}) /\ Cardinality(Requeuing \ {d}) = r - 1
      BY <1>1, FS_RemoveElement
    <3>2. QED
      BY <1>5, <3>1, FS_Subset, FS_CardinalityType
  <2>2. t \in Nat /\ t <= s + 1
    BY <1>1, <1>5, GainsOne
  <2> HIDE DEF s, t, r, q
  <2>3. 2 * t + q <= faults'
    BY <1>1, <1>5, <2>1, <2>2
  <2>4. QED
    BY <2>1, <2>3 DEF StrayInv, t, q
<1>6. QED
  BY <1>3, <1>4, <1>5, StraySteps

\* A claimed job has no owner only because its daemon died, which costs at most a batch
\* ("nothing recovers claims"), or because its completion and its requeue both failed.
THEOREM OrphansNeedFaults == Spec => []OnlyFaultsOrphan
<1>1. Init => DroppedInv /\ StrayInv
  <2> SUFFICES ASSUME Init PROVE DroppedInv /\ StrayInv
    OBVIOUS
  <2>1. Strays = {} /\ Requeuing = {} /\ dropped = {} /\ crashes = 0 /\ faults = 0
    BY DEF Init, StoreInit, Absent, Orphans, Strays, Requeuing
  <2>2. IsFiniteSet({}) /\ Cardinality({}) = 0
    BY FS_EmptySet
  <2>3. QED
    BY <2>1, <2>2, BatchSizeType DEF DroppedInv, StrayInv
<1>2. TypeOK /\ ClaimsAreExclusive /\ BatchInv /\ DroppedInv /\ StrayInv /\ [Next]_vars
         => DroppedInv' /\ StrayInv'
  BY DroppedStays, StrayStays
<1>3. TypeOK /\ DroppedInv /\ StrayInv => OnlyFaultsOrphan
  <2> SUFFICES ASSUME TypeOK, DroppedInv, StrayInv PROVE OnlyFaultsOrphan
    OBVIOUS
  <2> DEFINE s == Cardinality(Strays)
             r == Cardinality(Requeuing)
  <2>1. IsFiniteSet(Jobs) /\ Strays \subseteq Jobs
    BY StoreAssumption DEF StoreAssumption, Strays, Orphans
  <2>2. s \in Nat /\ r \in Nat /\ faults \in Nat /\ 2 * s + r <= faults
    BY <2>1, FS_Subset, FS_CardinalityType, SchedulerAssumption
    DEF StrayInv, TypeOK, SchedulerAssumption
  <2> HIDE DEF s, r
  <2>3. 2 * s <= faults
    BY <2>2
  <2>4. QED
    BY <2>3 DEF s, Strays, OnlyFaultsOrphan, DroppedInv
<1>4. QED
  BY <1>1, <1>2, <1>3, TypeCorrect, ClaimExclusivity, BatchHolds, PTL DEF Spec
-----------------------------------------------------------------------------
(* The work runners take: nothing early, no duplicate without a failed
   completion, nothing published that was not taken.  Each property is
   strengthened to an inductive invariant that also says what holds in the
   middle of a tick. *)

\* A row moves only along the edges the scheduler uses, and keeps its schedule; a
\* row that becomes claimed was due by its text at some daemon's reading of the clock.
RowStep(j) ==
    \/ jobs'[j] = jobs[j]
    \/ /\ jobs[j].state = "absent"
       /\ jobs'[j].state \in {"draft", "queued"}
    \/ /\ jobs[j].state = "queued"
       /\ jobs'[j].state = "dispatching"
       /\ jobs'[j].due = jobs[j].due
       /\ jobs[j].due # NoDue
       /\ \E d \in Daemons : jobs[j].due <= through[d]
    \/ /\ jobs[j].state = "dispatching"
       /\ jobs'[j].state \in {"queued", "published", "failed", "unavailable"}
       /\ jobs'[j].due = jobs[j].due

LEMMA RowSteps ==
    ASSUME TypeOK, ClaimsAreExclusive, [Next]_vars
    PROVE  \A j \in Jobs : RowStep(j)
<1>0. jobs \in [Jobs -> JobRow]
  BY DEF TypeOK, StoreTypeOK
<1>1. CASE UNCHANGED jobs
  BY <1>1 DEF RowStep
<1>2. ASSUME NEW i \in Jobs, NEW draft \in BOOLEAN, NEW due \in Texts \cup {NoDue},
             InsertJob(i, draft, due)
      PROVE  \A j \in Jobs : RowStep(j)
  <2>1. jobs[i].state = "absent" /\ jobs'[i].state \in {"draft", "queued"}
    BY <1>0, <1>2 DEF InsertJob, Absent
  <2>2. \A j \in Jobs : j # i => jobs'[j] = jobs[j]
    BY <1>0, <1>2 DEF InsertJob
  <2>3. QED
    BY <2>1, <2>2 DEF RowStep
<1>3. ASSUME NEW d \in Daemons, ClaimBatch(d), NEW j \in Jobs PROVE RowStep(j)
  <2>1. CASE j \in Claimable(kind[d], through[d], room[d])
    <3>1. jobs'[j] = Moved(jobs[j], "dispatching")
      BY <1>3, <2>1 DEF ClaimBatch, ClaimDue
    <3>2. jobs'[j].state = "dispatching" /\ jobs'[j].due = jobs[j].due
      BY <3>1 DEF Moved
    <3>3. jobs[j].state = "queued" /\ jobs[j].due # NoDue /\ jobs[j].due <= through[d]
      BY <2>1, ClaimableDue DEF TypeOK
    <3>4. QED
      BY <3>2, <3>3 DEF RowStep
  <2>2. CASE j \notin Claimable(kind[d], through[d], room[d])
    BY <1>3, <2>2 DEF ClaimBatch, ClaimDue, RowStep
  <2>3. QED
    BY <2>1, <2>2
<1>4. ASSUME NEW d \in Daemons, NEW c \in held[d], RequeueJob(d, c), NEW j \in Jobs
      PROVE  RowStep(j)
  <2>1. /\ jobs[c.job].state = "dispatching"
        /\ jobs' = [jobs EXCEPT ![c.job] = Moved(jobs[c.job], "queued")]
    BY <1>4 DEF RequeueJob, RequeueClaim, CanRequeue
  <2>2. CASE j = c.job
    <3>1. jobs'[j] = Moved(jobs[j], "queued")
      BY <1>0, <2>1, <2>2
    <3>2. jobs'[j].state = "queued" /\ jobs'[j].due = jobs[j].due
      BY <3>1 DEF Moved
    <3>3. QED
      BY <2>1, <2>2, <3>2 DEF RowStep
  <2>3. CASE j # c.job
    BY <1>0, <2>1, <2>3 DEF RowStep
  <2>4. QED
    BY <2>2, <2>3
<1>5. ASSUME NEW d \in Daemons, NEW c \in held[d], CompleteJob(d, c), NEW j \in Jobs
      PROVE  RowStep(j)
  <2>1. jobs' = [jobs EXCEPT ![c.job] = Moved(jobs[c.job], Verdict(d, c))]
    BY <1>5 DEF CompleteJob, CompleteJobWithHistory
  <2>2. CASE j = c.job
    <3>1. jobs'[j] = Moved(jobs[j], Verdict(d, c))
      BY <1>0, <2>1, <2>2
    <3>2. jobs'[j].state = Verdict(d, c) /\ jobs'[j].due = jobs[j].due
      BY <3>1 DEF Moved
    <3>3. jobs[j].state = "dispatching"
      BY <1>5, <2>2, CompletionRecords
    <3>4. QED
      BY <3>2, <3>3, VerdictTerminal DEF RowStep, Terminal
  <2>3. CASE j # c.job
    BY <1>5, <2>3, CompletionRecords DEF RowStep
  <2>4. QED
    BY <2>2, <2>3
<1>6. QED
  BY <1>1, <1>2, <1>3, <1>4, <1>5, StoreSteps

\* Only a dispatch makes a runner take work.
LEMMA DeliverySteps ==
    ASSUME TypeOK, [Next]_vars
    PROVE  \/ UNCHANGED deliveries
           \/ \E d \in Daemons : \E c \in held[d] : DispatchTarget(d, c)
<1>1. ASSUME NEW d \in Daemons, TickStep(d) \/ Crash(d),
             \A c \in held[d] : ~DispatchTarget(d, c)
      PROVE  UNCHANGED deliveries
  BY <1>1 DEF TickStep, JobStep, Crash, StartTick, ClaimBatch, ClaimFails, CompleteJob,
      CompleteFails, RequeueJob, RequeueFails, TurnToArticles, FinishTick, seenVars
<1>2. QED
  BY <1>1 DEF Next, Enqueue, RecordDispatch, Import, ClockTick, vars, seenVars

\* What a dispatch changes.
LEMMA DispatchEffect ==
    ASSUME TypeOK, NEW d \in Daemons, NEW c \in held[d], DispatchTarget(d, c)
    PROVE  /\ c.job \in Jobs
           /\ IsCurrent(d, c)
           /\ step[d] = "dispatch"
           /\ UNCHANGED <<storeVars, now, step, kind, through, held, lost>>
           /\ \E p \in Platforms, answer \in Answer, took \in BOOLEAN :
                 /\ report[d][p] = "none"
                 /\ answer = "queued" => took
                 /\ report' = [report EXCEPT ![d][p] = answer]
                 /\ deliveries' = IF took THEN [deliveries EXCEPT ![c.job][p] = @ + 1]
                                          ELSE deliveries
<1>1. c.job \in Jobs
  BY DEF TypeOK, Claim
<1>2. TargetsOf[c.job] \subseteq Platforms
  BY <1>1, SchedulerAssumption DEF SchedulerAssumption
<1>3. \E p \in TargetsOf[c.job], answer \in Answer, took \in BOOLEAN :
         /\ report[d][p] = "none"
         /\ answer = "queued" => took
         /\ report' = [report EXCEPT ![d][p] = answer]
         /\ deliveries' = IF took THEN [deliveries EXCEPT ![c.job][p] = @ + 1]
                                  ELSE deliveries
  BY DEF DispatchTarget, MayAnswer
<1>4. QED
  BY <1>1, <1>2, <1>3 DEF DispatchTarget

LEMMA DeliveryTypes ==
    ASSUME TypeOK
    PROVE  /\ deliveries \in [Jobs -> [Platforms -> Nat]]
           /\ lost \in [Jobs -> Nat]
           /\ report \in [Daemons -> [Platforms -> Answer \cup {"none"}]]
           /\ held \in [Daemons -> SUBSET Claim]
           /\ step \in [Daemons -> Step]
           /\ \A d \in Daemons : \A c \in held[d] : c.job \in Jobs
BY DEF TypeOK, Claim

-----------------------------------------------------------------------------
(* Nothing is dispatched whose schedule comes after the clock. *)

DueReached(j) == jobs[j].due \in Texts /\ jobs[j].due <= CurrentLocalSchedule

\* Readings of the clock are in the past, so what is claimed is due by its text.
EarlyInv ==
    /\ \A d \in Daemons : through[d] <= CurrentLocalSchedule
    /\ \A j \in Jobs : jobs[j].state = "dispatching" => DueReached(j)
    /\ NothingEarly

\* A schedule the clock has reached stays reached.
LEMMA DueStays ==
    ASSUME NEW j \in Jobs, DueReached(j), jobs'[j].due = jobs[j].due,
           CurrentLocalSchedule \in Nat, CurrentLocalSchedule' \in Nat,
           CurrentLocalSchedule <= CurrentLocalSchedule'
    PROVE  DueReached(j)'
<1>1. /\ jobs[j].due \in Nat /\ jobs[j].due \in Texts
      /\ jobs[j].due <= CurrentLocalSchedule
  BY TextFacts DEF DueReached
<1> DEFINE due == jobs[j].due
<1>2. due <= CurrentLocalSchedule'
  <2>1. due \in Nat /\ due <= CurrentLocalSchedule
    BY <1>1
  <2> HIDE DEF due
  <2>2. QED
    BY <2>1
<1>3. QED
  BY <1>1, <1>2 DEF DueReached

LEMMA ClockSteps ==
    ASSUME TypeOK, TypeOK', [Next]_vars,
           \A d \in Daemons : through[d] <= CurrentLocalSchedule
    PROVE  /\ CurrentLocalSchedule \in Nat /\ CurrentLocalSchedule' \in Nat
           /\ CurrentLocalSchedule <= CurrentLocalSchedule'
           /\ \A d \in Daemons : through'[d] <= CurrentLocalSchedule'
<1> DEFINE clock == CurrentLocalSchedule
<1>0. /\ now \in Time /\ now' \in Time /\ now \in Nat
      /\ clock \in Nat /\ clock' \in Nat
      /\ through \in [Daemons -> Nat]
  BY TimeFacts, TextFacts DEF TypeOK, CurrentLocalSchedule
<1>1. ASSUME NEW d \in Daemons, TickStep(d) \/ Crash(d)
      PROVE  now' = now /\ \A e \in Daemons : through'[e] <= clock
  <2>1. CASE EndTick(d) /\ now' = now
    BY <1>0, <2>1 DEF EndTick
  <2>2. CASE UNCHANGED <<through, now>>
    BY <2>2
  <2>3. CASE StartTick(d)
    BY <1>0, <2>3 DEF StartTick
  <2>4. QED
    BY <1>1, <2>1, <2>2, <2>3
    DEF TickStep, JobStep, Crash, ClaimBatch, ClaimFails, DispatchTarget, CompleteJob,
        CompleteFails, RequeueJob, RequeueFails, TurnToArticles, FinishTick
<1>2. CASE ClockTick
  <2>1. through' = through /\ now <= now'
    BY <1>0, <1>2 DEF ClockTick, tickVars
  <2>2. clock <= clock'
    BY <1>0, <2>1, ClockOrder DEF CurrentLocalSchedule
  <2> HIDE DEF clock
  <2>3. \A e \in Daemons : through[e] <= clock'
    <3>1. \A e \in Daemons : through[e] \in Nat /\ through[e] <= clock
      BY <1>0 DEF clock
    <3>2. QED
      BY <1>0, <2>2, <3>1
  <2>4. QED
    BY <1>0, <2>1, <2>2, <2>3 DEF clock
<1>3. CASE Enqueue \/ RecordDispatch \/ Import \/ UNCHANGED vars
  BY <1>0, <1>3 DEF Enqueue, RecordDispatch, Import, vars, tickVars, CurrentLocalSchedule
<1>4. ASSUME now' = now PROVE clock' = clock
  BY <1>4 DEF CurrentLocalSchedule
<1>5. QED
  BY <1>0, <1>1, <1>2, <1>3, <1>4 DEF Next

\* The strengthening of NothingEarly is inductive.
LEMMA EarlyHolds == Spec => []EarlyInv
<1>1. Init => EarlyInv
  BY TimeFacts, TextFacts DEF Init, StoreInit, Absent, EarlyInv, NothingEarly,
                              CurrentLocalSchedule
<1>2. TypeOK /\ TypeOK' /\ ClaimsAreExclusive /\ EarlyInv /\ [Next]_vars => EarlyInv'
  <2> SUFFICES ASSUME TypeOK, TypeOK', ClaimsAreExclusive, EarlyInv, [Next]_vars
               PROVE  EarlyInv'
    OBVIOUS
  <2>0. /\ jobs \in [Jobs -> JobRow]
        /\ now' \in Time
        /\ through \in [Daemons -> Nat]
        /\ deliveries \in [Jobs -> [Platforms -> Nat]]
    BY TextFacts DEF TypeOK, StoreTypeOK
  <2>1. /\ CurrentLocalSchedule \in Nat /\ CurrentLocalSchedule' \in Nat
        /\ CurrentLocalSchedule <= CurrentLocalSchedule'
        /\ \A d \in Daemons : through'[d] <= CurrentLocalSchedule'
    BY ClockSteps DEF EarlyInv
  <2>2. ASSUME NEW j \in Jobs, jobs[j].state # "absent"
        PROVE  jobs'[j].due = jobs[j].due
    BY <2>2, RowSteps DEF RowStep
  <2>3. ASSUME NEW j \in Jobs, jobs'[j].state = "dispatching" PROVE DueReached(j)'
    <3>1. CASE jobs[j].state = "dispatching"
      BY <2>0, <2>1, <2>2, <3>1, DueStays DEF EarlyInv
    <3>2. CASE jobs[j].state # "dispatching"
      <4>1. /\ jobs[j].state = "queued"
            /\ jobs[j].due # NoDue
            /\ \E d \in Daemons : jobs[j].due <= through[d]
        BY <2>3, <3>2, RowSteps DEF RowStep
      <4>2. jobs[j].due \in Texts
        BY <2>0, <4>1 DEF JobRow
      <4>3. DueReached(j)
        <5>1. PICK d \in Daemons : jobs[j].due <= through[d]
          BY <4>1
        <5>2. /\ through[d] \in Nat /\ jobs[j].due \in Nat
              /\ through[d] <= CurrentLocalSchedule
          BY <2>0, <4>2, TextFacts DEF EarlyInv
        <5> DEFINE due == jobs[j].due
                   read == through[d]
        <5>3. due <= CurrentLocalSchedule
          <6>1. /\ due \in Nat /\ read \in Nat
                /\ due <= read /\ read <= CurrentLocalSchedule
            BY <5>1, <5>2
          <6> HIDE DEF due, read
          <6>2. QED
            BY <2>1, <6>1
        <5>4. QED
          BY <4>2, <5>3 DEF DueReached
      <4>4. QED
        BY <2>0, <2>1, <2>2, <4>1, <4>3, DueStays
    <3>3. QED
      BY <3>1, <3>2
  <2>4. ASSUME NEW j \in Jobs, NEW p \in Platforms, deliveries'[j][p] > 0
        PROVE  jobs'[j].state \notin {"absent", "draft"} /\ DueReached(j)'
    <3>1. jobs[j].state \notin {"absent", "draft"} /\ DueReached(j)
      <4>1. CASE deliveries[j][p] > 0
        BY <4>1 DEF EarlyInv, NothingEarly, DueReached
      <4>2. ASSUME NEW d \in Daemons, NEW c \in held[d], DispatchTarget(d, c),
                   ~(deliveries[j][p] > 0)
            PROVE  jobs[j].state \notin {"absent", "draft"} /\ DueReached(j)
        <5>1. j = c.job
          <6>1. PICK q \in Platforms, took \in BOOLEAN :
                   deliveries' = IF took THEN [deliveries EXCEPT ![c.job][q] = @ + 1]
                                         ELSE deliveries
            BY <4>2, DispatchEffect
          <6>2. j # c.job => deliveries'[j] = deliveries[j]
            BY <2>0, <6>1
          <6>3. QED
            BY <2>4, <4>2, <6>2
        <5>2. jobs[j].state = "dispatching"
          BY <5>1 DEF ClaimsAreExclusive
        <5>3. QED
          BY <5>2 DEF EarlyInv
      <4>3. QED
        BY <2>4, <4>1, <4>2, DeliverySteps
    <3>2. jobs'[j].state \notin {"absent", "draft"}
      BY <3>1, RowSteps DEF RowStep
    <3>3. jobs[j].state # "absent"
      BY <3>1
    <3>4. QED
      BY <2>0, <2>1, <2>2, <3>1, <3>2, <3>3, DueStays
  <2>5. ASSUME NEW j \in Jobs, DueReached(j)', NEW t \in Time, jobs'[j].due = ClockText[t]
        PROVE  t <= now'
    <3>1. ClockText[t] <= ClockText[now']
      BY <2>5 DEF DueReached, CurrentLocalSchedule
    <3>2. QED
      BY <2>0, <3>1, ClockOrder
  <2>6. QED
    BY <2>1, <2>3, <2>4, <2>5 DEF EarlyInv, NothingEarly, DueReached
<1>3. QED
  BY <1>1, <1>2, TypeCorrect, ClaimExclusivity, PTL DEF Spec

\* No runner takes work for a draft, for an unscheduled job, or for one whose schedule
\* comes after the clock's text: one written as the clock writes is never early.
THEOREM NoEarlyDelivery == Spec => []NothingEarly
<1>1. EarlyInv => NothingEarly
  BY DEF EarlyInv
<1>2. QED
  BY <1>1, EarlyHolds, PTL

-----------------------------------------------------------------------------
(* The job a tick is working on. *)

\* A claimed batch has at most one current job: schedules and ids order it.
LEMMA CurrentUnique ==
    ASSUME TypeOK, ClaimsAreExclusive, EarlyInv, NEW d \in Daemons,
           NEW c, IsCurrent(d, c), NEW f, IsCurrent(d, f)
    PROVE  c = f
<1>1. c \in held[d] /\ f \in held[d] /\ c.job \in Jobs /\ f.job \in Jobs
  BY DeliveryTypes DEF IsCurrent
<1>2. jobs[c.job].due \in Nat /\ jobs[f.job].due \in Nat
  BY <1>1, TextFacts DEF ClaimsAreExclusive, EarlyInv, DueReached
<1>3. IdRank[c.job] \in Nat /\ IdRank[f.job] \in Nat
  BY <1>1, StoreAssumption DEF StoreAssumption
<1>4. c # f => Precedes(c.job, f.job) /\ Precedes(f.job, c.job)
  BY <1>1 DEF IsCurrent
<1>5. ~(Precedes(c.job, f.job) /\ Precedes(f.job, c.job))
  BY <1>2, <1>3 DEF Precedes
<1>6. QED
  BY <1>4, <1>5

\* While a batch stays the same, so does its current job: the schedules of claimed
\* jobs do not change.
LEMMA CurrentStable ==
    ASSUME TypeOK, ClaimsAreExclusive, [Next]_vars, NEW d \in Daemons,
           held'[d] = held[d], NEW c \in held[d]
    PROVE  IsCurrent(d, c)' <=> IsCurrent(d, c)
<1>1. ASSUME NEW f \in held[d] PROVE jobs'[f.job].due = jobs[f.job].due
  <2>1. f.job \in Jobs /\ jobs[f.job].state = "dispatching"
    BY DeliveryTypes DEF ClaimsAreExclusive
  <2>2. QED
    BY <2>1, RowSteps DEF RowStep
<1>2. ASSUME NEW f \in held[d], NEW g \in held[d]
      PROVE  Precedes(f.job, g.job)' <=> Precedes(f.job, g.job)
  BY <1>1 DEF Precedes
<1>3. QED
  BY <1>2 DEF IsCurrent

\* A daemon drops its current job: what is left was not being worked on.
LEMMA AfterDrop ==
    ASSUME TypeOK, ClaimsAreExclusive, EarlyInv, NEW d \in Daemons, NEW c \in held[d],
           IsCurrent(d, c), Drop(d, c)
    PROVE  /\ \A e \in Daemons \ {d} : held'[e] = held[e] /\ report'[e] = report[e]
           /\ report'[d] = NoReport
           /\ held'[d] = held[d] \ {c}
           /\ \A f \in held'[d] : f \in held[d] /\ ~IsCurrent(d, f)
<1>1. /\ held \in [Daemons -> SUBSET Claim]
      /\ report \in [Daemons -> [Platforms -> Answer \cup {"none"}]]
  BY DeliveryTypes
<1>2. held'[d] = held[d] \ {c} /\ report'[d] = NoReport
  BY <1>1 DEF Drop
<1>3. \A e \in Daemons \ {d} : held'[e] = held[e] /\ report'[e] = report[e]
  BY <1>1 DEF Drop
<1>4. \A f \in held'[d] : f \in held[d] /\ ~IsCurrent(d, f)
  BY <1>2, CurrentUnique
<1>5. QED
  BY <1>2, <1>3, <1>4

\* A step of daemon d leaves the batches and answers of the others alone.
LEMMA OthersKeep ==
    ASSUME TypeOK, NEW d \in Daemons, TickStep(d) \/ Crash(d), NEW e \in Daemons, e # d
    PROVE  held'[e] = held[e] /\ report'[e] = report[e] /\ step'[e] = step[e]
<1>1. /\ held \in [Daemons -> SUBSET Claim]
      /\ report \in [Daemons -> [Platforms -> Answer \cup {"none"}]]
      /\ step \in [Daemons -> Step]
  BY DeliveryTypes
<1>2. held'[e] = held[e]
  BY <1>1 DEF TickStep, JobStep, Crash, StartTick, ClaimBatch, ClaimFails, DispatchTarget,
     CompleteJob, CompleteFails, RequeueJob, RequeueFails, TurnToArticles, FinishTick,
     EndTick, Drop
<1>3. step'[e] = step[e]
  BY <1>1 DEF TickStep, JobStep, Crash, StartTick, ClaimBatch, ClaimFails, DispatchTarget,
     CompleteJob, CompleteFails, RequeueJob, RequeueFails, TurnToArticles, FinishTick,
     EndTick
<1>4. report'[e] = report[e]
  <2>1. CASE EndTick(d) \/ UNCHANGED report \/ \E c \in held[d] : Drop(d, c)
    BY <1>1, <2>1 DEF EndTick, Drop
  <2>2. ASSUME NEW c \in held[d], DispatchTarget(d, c) PROVE report'[e] = report[e]
    BY <1>1, <2>2 DEF DispatchTarget
  <2>3. QED
    BY <2>1, <2>2
    DEF TickStep, JobStep, Crash, StartTick, ClaimBatch, ClaimFails, CompleteJob,
        CompleteFails, RequeueJob, RequeueFails, TurnToArticles, FinishTick
<1>5. QED
  BY <1>2, <1>3, <1>4
-----------------------------------------------------------------------------
(* A duplicate needs a failed completion. *)

\* The states of a job nobody is working on and whose work is still to do.
Open == {"absent", "draft", "queued"}

\* The attempt of claim c has heard from platform p.
Answered(d, c, p) == step[d] = "dispatch" /\ IsCurrent(d, c) /\ report[d][p] # "none"

\* Every delivery of an open job was paid for by a failed completion, and so was
\* every delivery of a claimed job except the ones of the attempt under way.
AttemptInv ==
    /\ \A j \in Jobs, p \in Platforms : jobs[j].state \in Open => deliveries[j][p] <= lost[j]
    /\ \A d \in Daemons : \A c \in held[d], p \in Platforms :
          ~Answered(d, c, p) => deliveries[c.job][p] <= lost[c.job]
    /\ DuplicatesNeedLoss

\* Only a requeue reopens a job.
LEMMA Reopens ==
    ASSUME TypeOK, ClaimsAreExclusive, [Next]_vars,
           NEW j \in Jobs, jobs'[j].state \in Open
    PROVE  \/ jobs[j].state \in Open
           \/ \E d \in Daemons : \E c \in held[d] : RequeueJob(d, c) /\ c.job = j
<1>0. jobs \in [Jobs -> JobRow]
  BY DEF TypeOK, StoreTypeOK
<1>1. CASE UNCHANGED jobs
  BY <1>1
<1>2. ASSUME NEW i \in Jobs, NEW draft \in BOOLEAN, NEW due \in Texts \cup {NoDue},
             InsertJob(i, draft, due)
      PROVE  jobs[j].state \in Open
  BY <1>0, <1>2 DEF InsertJob, Absent, Open
<1>3. ASSUME NEW d \in Daemons, ClaimBatch(d) PROVE jobs[j].state \in Open
  <2>1. CASE j \in Claimable(kind[d], through[d], room[d])
    BY <2>1, ClaimableDue DEF TypeOK, Open
  <2>2. CASE j \notin Claimable(kind[d], through[d], room[d])
    BY <1>3, <2>2 DEF ClaimBatch, ClaimDue
  <2>3. QED
    BY <2>1, <2>2
<1>4. ASSUME NEW d \in Daemons, NEW c \in held[d], RequeueJob(d, c), c.job # j
      PROVE  jobs[j].state \in Open
  BY <1>0, <1>4 DEF RequeueJob, RequeueClaim
<1>5. ASSUME NEW d \in Daemons, NEW c \in held[d], CompleteJob(d, c)
      PROVE  jobs[j].state \in Open
  <2>1. j # c.job
    BY <1>5, CompletionRecords, VerdictTerminal DEF Open, Terminal
  <2>2. QED
    BY <1>5, <2>1, CompletionRecords
<1>6. QED
  BY <1>1, <1>2, <1>3, <1>4, <1>5, StoreSteps

\* The invariant survives a step without deliveries if a claim that was being
\* attempted is dropped, or goes on being attempted.
LEMMA AttemptStays ==
    ASSUME TypeOK, ClaimsAreExclusive, AttemptInv, UNCHANGED <<deliveries, lost>>,
           \A j \in Jobs : jobs'[j].state \in Open =>
              \/ jobs[j].state \in Open
              \/ \E d \in Daemons : \E c \in held[d] : c.job = j /\ step[d] = "requeue",
           \A d \in Daemons : \A c \in held'[d] :
              \/ c.job \in Jobs /\ jobs[c.job].state \in Open
              \/ c \in held[d] /\ \A p \in Platforms : Answered(d, c, p) => Answered(d, c, p)'
    PROVE  AttemptInv'
<1>1. ASSUME NEW j \in Jobs, NEW p \in Platforms, jobs'[j].state \in Open
      PROVE  deliveries[j][p] <= lost[j]
  <2>1. CASE jobs[j].state \in Open
    BY <2>1 DEF AttemptInv
  <2>2. ASSUME NEW d \in Daemons, NEW c \in held[d], c.job = j, step[d] = "requeue"
        PROVE  deliveries[j][p] <= lost[j]
    BY <2>2 DEF AttemptInv, Answered
  <2>3. QED
    BY <1>1, <2>1, <2>2
<1>2. ASSUME NEW d \in Daemons, NEW c \in held'[d], NEW p \in Platforms, ~Answered(d, c, p)'
      PROVE  deliveries[c.job][p] <= lost[c.job]
  BY <1>2 DEF AttemptInv
<1>3. QED
  BY <1>1, <1>2 DEF AttemptInv, DuplicatesNeedLoss

\* What goes on being attempted when batch, answers and step do not change.
LEMMA AnsweredStays ==
    ASSUME TypeOK, ClaimsAreExclusive, [Next]_vars, NEW d \in Daemons, NEW c \in held[d],
           NEW p \in Platforms,
           held'[d] = held[d], report'[d] = report[d],
           step'[d] = step[d] \/ (step[d] # "dispatch" /\ step'[d] # "dispatch")
    PROVE  Answered(d, c, p)' <=> Answered(d, c, p)
BY CurrentStable DEF Answered

LEMMA AttemptDispatch ==
    ASSUME TypeOK, ClaimsAreExclusive, EarlyInv, AttemptInv, [Next]_vars,
           NEW d \in Daemons, NEW c \in held[d], DispatchTarget(d, c)
    PROVE  AttemptInv'
<1>0. /\ deliveries \in [Jobs -> [Platforms -> Nat]]
      /\ lost \in [Jobs -> Nat]
      /\ report \in [Daemons -> [Platforms -> Answer \cup {"none"}]]
      /\ \A e \in Daemons : \A f \in held[e] : f.job \in Jobs
  BY DeliveryTypes
<1>1. /\ c.job \in Jobs /\ IsCurrent(d, c) /\ step[d] = "dispatch"
      /\ UNCHANGED <<jobs, step, held, lost>>
  BY DispatchEffect DEF storeVars
<1>2. PICK p \in Platforms, answer \in Answer, took \in BOOLEAN :
         /\ report[d][p] = "none"
         /\ report' = [report EXCEPT ![d][p] = answer]
         /\ deliveries' = IF took THEN [deliveries EXCEPT ![c.job][p] = @ + 1]
                                  ELSE deliveries
  BY DispatchEffect
<1>3. deliveries[c.job][p] <= lost[c.job]
  BY <1>2 DEF AttemptInv, Answered
<1>4. \A j \in Jobs, q \in Platforms :
         \/ deliveries'[j][q] = deliveries[j][q]
         \/ j = c.job /\ q = p /\ deliveries'[j][q] = deliveries[j][q] + 1
  BY <1>0, <1>1, <1>2
<1>5. jobs[c.job].state \notin Open
  BY DEF ClaimsAreExclusive, Open
<1>6. \A j \in Jobs, q \in Platforms : jobs'[j].state \in Open => deliveries'[j][q] <= lost'[j]
  BY <1>1, <1>4, <1>5 DEF AttemptInv
<1>7. ASSUME NEW e \in Daemons, NEW f \in held'[e], NEW q \in Platforms, ~Answered(e, f, q)'
      PROVE  deliveries'[f.job][q] <= lost'[f.job]
  <2>1. f \in held[e] /\ f.job \in Jobs /\ (IsCurrent(e, f)' <=> IsCurrent(e, f))
    BY <1>0, <1>1, <1>7, CurrentStable
  <2>2. CASE f.job = c.job
    <3>1. e = d /\ f = c
      BY <2>1, <2>2 DEF ClaimsAreExclusive
    <3>2. report'[d][q] = "none"
      BY <1>1, <1>7, <2>1, <3>1 DEF Answered
    <3>3. p # q
      BY <1>0, <1>2, <3>2 DEF Answer
    <3>4. report[d][q] = "none"
      BY <1>0, <1>2, <3>2, <3>3
    <3>5. deliveries[c.job][q] <= lost[c.job]
      BY <3>4 DEF AttemptInv, Answered
    <3>6. QED
      BY <1>1, <1>4, <3>1, <3>3, <3>5
  <2>3. CASE f.job # c.job
    <3>1. ~Answered(e, f, q)
      <4>1. CASE e = d
        BY <1>1, <2>3, <4>1, CurrentUnique DEF Answered
      <4>2. CASE e # d
        BY <1>0, <1>1, <1>2, <1>7, <2>1, <4>2 DEF Answered
      <4>3. QED
        BY <4>1, <4>2
    <3>2. deliveries[f.job][q] <= lost[f.job]
      BY <2>1, <3>1 DEF AttemptInv
    <3>3. QED
      BY <1>1, <1>4, <2>1, <2>3, <3>2
  <2>4. QED
    BY <2>2, <2>3
<1>8. DuplicatesNeedLoss'
  <2> SUFFICES ASSUME NEW j \in Jobs, NEW q \in Platforms
               PROVE  deliveries'[j][q] <= 1 + lost'[j]
    BY DEF DuplicatesNeedLoss
  <2>1. deliveries[j][q] <= 1 + lost[j] /\ deliveries[j][q] \in Nat /\ lost[j] \in Nat
    BY <1>0 DEF AttemptInv, DuplicatesNeedLoss
  <2>2. QED
    BY <1>0, <1>1, <1>3, <1>4, <2>1
<1>9. QED
  BY <1>6, <1>7, <1>8 DEF AttemptInv

\* A failed completion pays for the attempt it ends.
LEMMA AttemptFails ==
    ASSUME TypeOK, ClaimsAreExclusive, EarlyInv, AttemptInv, [Next]_vars,
           NEW d \in Daemons, NEW c \in held[d], CompleteFails(d, c)
    PROVE  AttemptInv'
<1>0. /\ deliveries \in [Jobs -> [Platforms -> Nat]]
      /\ lost \in [Jobs -> Nat]
      /\ step \in [Daemons -> Step]
      /\ \A e \in Daemons : \A f \in held[e] : f.job \in Jobs
  BY DeliveryTypes
<1>1. /\ IsCurrent(d, c)
      /\ UNCHANGED <<jobs, held, report, deliveries>>
      /\ lost' = [lost EXCEPT ![c.job] = @ + 1]
      /\ step' = [step EXCEPT ![d] = "requeue"]
  BY DEF CompleteFails, Reported, storeVars
<1>2. c.job \in Jobs /\ lost'[c.job] = lost[c.job] + 1
  BY <1>0, <1>1
<1>3. \A j \in Jobs : j # c.job => lost'[j] = lost[j]
  BY <1>0, <1>1
<1>4. ASSUME NEW j \in Jobs, NEW q \in Platforms
      PROVE  /\ deliveries[j][q] <= lost[j] => deliveries[j][q] <= lost'[j]
             /\ j = c.job => deliveries[j][q] <= lost'[j]
             /\ deliveries[j][q] <= 1 + lost'[j]
  <2>1. /\ deliveries[j][q] \in Nat /\ lost[j] \in Nat
        /\ deliveries[j][q] <= 1 + lost[j]
    BY <1>0 DEF AttemptInv, DuplicatesNeedLoss
  <2>2. lost'[j] = lost[j] \/ (j = c.job /\ lost'[j] = lost[j] + 1)
    BY <1>2, <1>3
  <2>3. QED
    BY <1>2, <2>1, <2>2
<1>5. ASSUME NEW e \in Daemons, NEW f \in held[e], NEW q \in Platforms, ~Answered(e, f, q)'
      PROVE  deliveries[f.job][q] <= lost'[f.job]
  <2>1. CASE f.job = c.job
    BY <1>2, <1>4, <2>1
  <2>2. CASE f.job # c.job
    <3>1. ~Answered(e, f, q)
      <4>1. CASE e = d
        BY <1>1, <2>2, <4>1, CurrentUnique DEF Answered
      <4>2. CASE e # d
        <5>1. step'[e] = step[e]
          BY <1>0, <1>1, <4>2
        <5>2. QED
          BY <1>1, <1>5, <5>1, AnsweredStays
      <4>3. QED
        BY <4>1, <4>2
    <3>2. QED
      BY <1>0, <1>4, <3>1 DEF AttemptInv
  <2>3. QED
    BY <2>1, <2>2
<1>6. \A j \in Jobs, q \in Platforms : jobs'[j].state \in Open => deliveries'[j][q] <= lost'[j]
  BY <1>1, <1>4 DEF AttemptInv
<1>7. DuplicatesNeedLoss'
  BY <1>1, <1>4 DEF DuplicatesNeedLoss
<1>8. QED
  BY <1>1, <1>5, <1>6, <1>7 DEF AttemptInv

\* A job is done with, or put back, or given up: no new delivery is possible.
LEMMA AttemptDrop ==
    ASSUME TypeOK, ClaimsAreExclusive, EarlyInv, AttemptInv, [Next]_vars,
           NEW d \in Daemons, NEW c \in held[d],
           CompleteJob(d, c) \/ RequeueJob(d, c) \/ RequeueFails(d, c)
    PROVE  AttemptInv'
<1>1. IsCurrent(d, c) /\ Drop(d, c) /\ UNCHANGED <<deliveries, lost>>
  BY DEF CompleteJob, Reported, RequeueJob, RequeueFails, seenVars
<1>2. ASSUME NEW j \in Jobs, jobs'[j].state \in Open
      PROVE  \/ jobs[j].state \in Open
             \/ \E e \in Daemons : \E f \in held[e] : f.job = j /\ step[e] = "requeue"
  BY <1>2, Reopens DEF RequeueJob
<1>3. ASSUME NEW e \in Daemons, NEW f \in held'[e]
      PROVE  f \in held[e] /\ \A p \in Platforms : Answered(e, f, p) => Answered(e, f, p)'
  <2>1. CASE e = d
    BY <1>1, <1>3, <2>1, AfterDrop DEF Answered
  <2>2. CASE e # d
    <3>1. held'[e] = held[e] /\ report'[e] = report[e] /\ step'[e] = step[e]
      BY <2>2, OthersKeep DEF TickStep, JobStep
    <3>2. QED
      BY <1>3, <3>1, AnsweredStays
  <2>3. QED
    BY <2>1, <2>2
<1>4. QED
  BY <1>1, <1>2, <1>3, AttemptStays

\* A claim starts attempts on jobs whose earlier deliveries are all paid for.
LEMMA AttemptClaim ==
    ASSUME TypeOK, ClaimsAreExclusive, AttemptInv, [Next]_vars,
           NEW d \in Daemons, ClaimBatch(d)
    PROVE  AttemptInv'
<1>1. UNCHANGED <<deliveries, lost>>
  BY DEF ClaimBatch, seenVars
<1>2. ASSUME NEW j \in Jobs, jobs'[j].state \in Open
      PROVE  \/ jobs[j].state \in Open
             \/ \E e \in Daemons : \E f \in held[e] : f.job = j /\ step[e] = "requeue"
  BY <1>2, Reopens DEF RequeueJob
<1>3. ASSUME NEW e \in Daemons, NEW f \in held'[e]
      PROVE  \/ f.job \in Jobs /\ jobs[f.job].state \in Open
             \/ f \in held[e] /\ \A p \in Platforms : Answered(e, f, p) => Answered(e, f, p)'
  <2>1. CASE e = d
    <3>1. held'[d] = {[job |-> j, revision |-> jobs[j].revision + 1] :
                         j \in Claimable(kind[d], through[d], room[d])}
      BY DeliveryTypes DEF ClaimBatch
    <3>2. f.job \in Claimable(kind[d], through[d], room[d])
      BY <1>3, <2>1, <3>1
    <3>3. QED
      BY <3>2, ClaimableDue DEF TypeOK, Open
  <2>2. CASE e # d
    <3>1. held'[e] = held[e] /\ report'[e] = report[e] /\ step'[e] = step[e]
      BY <2>2, OthersKeep DEF TickStep
    <3>2. QED
      BY <1>3, <3>1, AnsweredStays
  <2>3. QED
    BY <2>1, <2>2
<1>4. QED
  BY <1>1, <1>2, <1>3, AttemptStays

\* Steps that claim, dispatch and finish nothing: a tick starts, turns to articles
\* or ends, a daemon crashes, another process acts, time passes.
LEMMA AttemptIdle ==
    ASSUME TypeOK, ClaimsAreExclusive, AttemptInv, [Next]_vars, UNCHANGED <<deliveries, lost>>,
           \A d \in Daemons : \A c \in held[d] : ~RequeueJob(d, c),
           \A d \in Daemons :
              \/ held'[d] = {}
              \/ /\ held'[d] = held[d] /\ report'[d] = report[d]
                 /\ step'[d] = step[d] \/ (step[d] # "dispatch" /\ step'[d] # "dispatch")
    PROVE  AttemptInv'
<1>1. \A j \in Jobs : jobs'[j].state \in Open => jobs[j].state \in Open
  BY Reopens
<1>2. ASSUME NEW e \in Daemons, NEW f \in held'[e]
      PROVE  f \in held[e] /\ \A p \in Platforms : Answered(e, f, p) => Answered(e, f, p)'
  BY <1>2, AnsweredStays
<1>3. QED
  BY <1>1, <1>2, AttemptStays

LEMMA AttemptHolds == Spec => []AttemptInv
<1>1. Init => AttemptInv
  BY DEF Init, AttemptInv, DuplicatesNeedLoss
<1>2. TypeOK /\ ClaimsAreExclusive /\ EarlyInv /\ AttemptInv /\ [Next]_vars => AttemptInv'
  <2> SUFFICES ASSUME TypeOK, ClaimsAreExclusive, EarlyInv, AttemptInv, [Next]_vars
               PROVE  AttemptInv'
    OBVIOUS
  <2>1. ASSUME NEW d \in Daemons, NEW c \in held[d], JobStep(d, c) PROVE AttemptInv'
    BY <2>1, AttemptDispatch, AttemptFails, AttemptDrop DEF JobStep
  <2>2. ASSUME NEW d \in Daemons, ClaimBatch(d) PROVE AttemptInv'
    BY <2>2, AttemptClaim
  <2>3. ASSUME NEW d \in Daemons,
               StartTick(d) \/ ClaimFails(d) \/ TurnToArticles(d) \/ FinishTick(d) \/ Crash(d),
               \A e \in Daemons : \A c \in held[e] : ~RequeueJob(e, c)
        PROVE  AttemptInv'
    <3>1. UNCHANGED <<deliveries, lost>>
      BY <2>3 DEF StartTick, ClaimFails, TurnToArticles, FinishTick, Crash, seenVars
    <3>2. \/ held'[d] = {}
          \/ /\ held'[d] = held[d] /\ report'[d] = report[d]
             /\ step[d] # "dispatch" /\ step'[d] # "dispatch"
      BY <2>3, DeliveryTypes
      DEF StartTick, ClaimFails, TurnToArticles, FinishTick, Crash, EndTick
    <3>3. ASSUME NEW e \in Daemons, e # d
          PROVE  held'[e] = held[e] /\ report'[e] = report[e] /\ step'[e] = step[e]
      BY <2>3, <3>3, OthersKeep DEF TickStep
    <3>4. QED
      BY <2>3, <3>1, <3>2, <3>3, AttemptIdle
  <2>4. ASSUME Enqueue \/ RecordDispatch \/ Import \/ ClockTick \/ UNCHANGED vars,
               \A e \in Daemons : \A c \in held[e] : ~RequeueJob(e, c)
        PROVE  AttemptInv'
    <3>1. UNCHANGED <<deliveries, lost, held, report, step>>
      BY <2>4 DEF Enqueue, RecordDispatch, Import, ClockTick, vars, tickVars, seenVars
    <3>2. QED
      BY <2>4, <3>1, AttemptIdle
  <2>5. ASSUME NEW e \in Daemons, NEW c \in held[e], RequeueJob(e, c) PROVE AttemptInv'
    BY <2>1, <2>5 DEF JobStep
  <2>6. QED
    BY <2>1, <2>2, <2>3, <2>4, <2>5 DEF Next, TickStep
<1>3. QED
  BY <1>1, <1>2, TypeCorrect, ClaimExclusivity, EarlyHolds, PTL DEF Spec

\* However daemons interleave, crash and restart, a runner takes the same work
\* again only after a completion of that job failed.
THEOREM DuplicatesAreLosses == Spec => []DuplicatesNeedLoss
<1>1. AttemptInv => DuplicatesNeedLoss
  BY DEF AttemptInv
<1>2. QED
  BY <1>1, AttemptHolds, PTL

-----------------------------------------------------------------------------
(* What is published was taken. *)

\* Answers belong to the job being worked on: there are none between batches, and
\* a "queued" answer about the current job stands for a delivery.
TakenInv ==
    /\ \A d \in Daemons : step[d] \in {"idle", "claim"} => held[d] = {}
    /\ \A d \in Daemons : held[d] = {} => report[d] = NoReport
    /\ \A d \in Daemons : \A c \in held[d], p \in Platforms :
          IsCurrent(d, c) /\ report[d][p] = "queued" => deliveries[c.job][p] > 0
    /\ PublishedWasTaken

\* A delivery is never taken back.
LEMMA DeliveriesGrow ==
    ASSUME TypeOK, [Next]_vars, NEW j \in Jobs, NEW p \in Platforms, deliveries[j][p] > 0
    PROVE  deliveries'[j][p] > 0
<1>0. deliveries \in [Jobs -> [Platforms -> Nat]]
  BY DeliveryTypes
<1>1. ASSUME NEW d \in Daemons, NEW c \in held[d], DispatchTarget(d, c)
      PROVE  deliveries'[j][p] > 0
  <2>1. PICK q \in Platforms, took \in BOOLEAN :
           deliveries' = IF took THEN [deliveries EXCEPT ![c.job][q] = @ + 1] ELSE deliveries
    BY <1>1, DispatchEffect
  <2>2. deliveries'[j][p] = deliveries[j][p] \/ deliveries'[j][p] = deliveries[j][p] + 1
    BY <1>0, <2>1
  <2>3. QED
    BY <1>0, <2>2
<1>2. QED
  BY <1>1, DeliverySteps

\* A step that leaves no job newly published, that keeps or clears the answers of
\* each daemon, and starts no job with answers left over, keeps the invariant.
LEMMA TakenStays ==
    ASSUME TypeOK, ClaimsAreExclusive, TakenInv, [Next]_vars,
           \A j \in Jobs : jobs'[j].state = "published" => jobs[j].state = "published",
           \A d \in Daemons : step'[d] \in {"idle", "claim"} => held'[d] = {},
           \A d \in Daemons : \/ report'[d] = NoReport
                              \/ held'[d] = held[d] /\ report'[d] = report[d]
    PROVE  TakenInv'
<1>1. ASSUME NEW j \in Jobs, NEW p \in Platforms, deliveries[j][p] > 0
      PROVE  deliveries'[j][p] > 0
  BY <1>1, DeliveriesGrow
<1>2. ASSUME NEW d \in Daemons, NEW c \in held'[d], NEW p \in Platforms,
             IsCurrent(d, c)', report'[d][p] = "queued"
      PROVE  deliveries'[c.job][p] > 0
  <2>1. held'[d] = held[d] /\ report'[d] = report[d]
    BY <1>2 DEF NoReport
  <2>2. IsCurrent(d, c) /\ c \in held[d] /\ c.job \in Jobs
    BY <1>2, <2>1, CurrentStable, DeliveryTypes
  <2>3. QED
    BY <1>1, <1>2, <2>1, <2>2 DEF TakenInv
<1>3. PublishedWasTaken'
  <2>1. \A j \in Jobs : TargetsOf[j] \subseteq Platforms
    BY SchedulerAssumption DEF SchedulerAssumption
  <2>2. QED
    BY <1>1, <2>1 DEF TakenInv, PublishedWasTaken
<1>4. \A d \in Daemons : held'[d] = {} => report'[d] = NoReport
  BY DEF TakenInv
<1>5. QED
  BY <1>2, <1>3, <1>4 DEF TakenInv

\* No step but a completion publishes a job.
LEMMA Publishes ==
    ASSUME TypeOK, ClaimsAreExclusive, [Next]_vars,
           \A d \in Daemons : \A c \in held[d] : ~CompleteJob(d, c)
    PROVE  \A j \in Jobs : jobs'[j].state = "published" => jobs[j].state = "published"
<1>0. jobs \in [Jobs -> JobRow]
  BY DEF TypeOK, StoreTypeOK
<1>1. ASSUME NEW d \in Daemons, NEW c \in held[d], RequeueJob(d, c),
             NEW j \in Jobs, jobs'[j].state = "published"
      PROVE  jobs[j].state = "published"
  <2>1. jobs' = [jobs EXCEPT ![c.job] = Moved(jobs[c.job], "queued")]
    BY <1>1 DEF RequeueJob, RequeueClaim
  <2>2. CASE j = c.job
    <3>1. jobs'[j] = Moved(jobs[j], "queued")
      BY <1>0, <2>1, <2>2
    <3>2. QED
      BY <1>1, <3>1 DEF Moved
  <2>3. CASE j # c.job
    BY <1>0, <1>1, <2>1, <2>3
  <2>4. QED
    BY <2>2, <2>3
<1>2. ASSUME NEW j \in Jobs, jobs'[j].state = "published", jobs[j].state # "published"
      PROVE  jobs[j].state = "dispatching"
  BY <1>2, RowSteps DEF RowStep
<1>3. ASSUME NEW j \in Jobs, jobs'[j].state = "published", jobs[j].state = "dispatching"
      PROVE  jobs[j].state = "published"
  <2>1. CASE UNCHANGED jobs
    BY <1>3, <2>1
  <2>2. ASSUME NEW i \in Jobs, NEW draft \in BOOLEAN, NEW due \in Texts \cup {NoDue},
               InsertJob(i, draft, due)
        PROVE  FALSE
    BY <1>0, <1>3, <2>2 DEF InsertJob, Absent
  <2>3. ASSUME NEW d \in Daemons, ClaimBatch(d) PROVE FALSE
    <3>1. j \notin Claimable(kind[d], through[d], room[d])
      BY <1>3, ClaimableDue DEF TypeOK
    <3>2. QED
      BY <1>3, <2>3, <3>1 DEF ClaimBatch, ClaimDue
  <2>4. QED
    BY <1>1, <1>3, <2>1, <2>2, <2>3, StoreSteps
<1>4. QED
  BY <1>2, <1>3

\* A job is completed as published when each of its targets answered "queued".
LEMMA TakenComplete ==
    ASSUME TypeOK, ClaimsAreExclusive, EarlyInv, TakenInv, [Next]_vars,
           NEW d \in Daemons, NEW c \in held[d], CompleteJob(d, c)
    PROVE  TakenInv'
<1>1. /\ IsCurrent(d, c) /\ step[d] = "dispatch" /\ Drop(d, c)
      /\ UNCHANGED <<step, deliveries>>
  BY DEF CompleteJob, Reported, seenVars
<1>2. /\ c.job \in Jobs
      /\ jobs'[c.job].state = Verdict(d, c)
      /\ \A j \in Jobs : j # c.job => jobs'[j] = jobs[j]
  BY CompletionRecords
<1>3. ASSUME Verdict(d, c) = "published", NEW p \in TargetsOf[c.job]
      PROVE  deliveries[c.job][p] > 0
  <2>1. Answers(d, c.job) = {"queued"}
    BY <1>3 DEF Verdict, TerminalState
  <2>2. p \in Platforms /\ report[d][p] = "queued"
    BY <1>2, <2>1, SchedulerAssumption DEF Answers, SchedulerAssumption
  <2>3. QED
    BY <1>1, <2>2 DEF TakenInv
<1>4. PublishedWasTaken'
  BY <1>1, <1>2, <1>3 DEF TakenInv, PublishedWasTaken
<1>5. \A e \in Daemons : \/ report'[e] = NoReport
                         \/ held'[e] = held[e] /\ report'[e] = report[e]
  BY <1>1, AfterDrop
<1>6. ASSUME NEW e \in Daemons, NEW f \in held'[e], NEW p \in Platforms,
             IsCurrent(e, f)', report'[e][p] = "queued"
      PROVE  deliveries'[f.job][p] > 0
  <2>1. held'[e] = held[e] /\ report'[e] = report[e]
    BY <1>5, <1>6 DEF NoReport
  <2>2. IsCurrent(e, f) /\ f \in held[e]
    BY <1>6, <2>1, CurrentStable
  <2>3. QED
    BY <1>1, <1>6, <2>1, <2>2 DEF TakenInv
<1>7. \A e \in Daemons : step'[e] \in {"idle", "claim"} => held'[e] = {}
  BY <1>1, AfterDrop DEF TakenInv
<1>8. \A e \in Daemons : held'[e] = {} => report'[e] = NoReport
  BY <1>5 DEF TakenInv
<1>9. QED
  BY <1>4, <1>6, <1>7, <1>8 DEF TakenInv

LEMMA TakenDispatch ==
    ASSUME TypeOK, ClaimsAreExclusive, EarlyInv, TakenInv, [Next]_vars,
           NEW d \in Daemons, NEW c \in held[d], DispatchTarget(d, c)
    PROVE  TakenInv'
<1>0. /\ deliveries \in [Jobs -> [Platforms -> Nat]]
      /\ report \in [Daemons -> [Platforms -> Answer \cup {"none"}]]
      /\ \A e \in Daemons : \A f \in held[e] : f.job \in Jobs
  BY DeliveryTypes
<1>1. c.job \in Jobs /\ IsCurrent(d, c) /\ UNCHANGED <<jobs, step, held>>
  BY DispatchEffect DEF storeVars
<1>2. PICK p \in Platforms, answer \in Answer, took \in BOOLEAN :
         /\ answer = "queued" => took
         /\ report' = [report EXCEPT ![d][p] = answer]
         /\ deliveries' = IF took THEN [deliveries EXCEPT ![c.job][p] = @ + 1]
                                  ELSE deliveries
  BY DispatchEffect
<1>3. ASSUME NEW e \in Daemons, NEW f \in held'[e], NEW q \in Platforms,
             IsCurrent(e, f)', report'[e][q] = "queued"
      PROVE  deliveries'[f.job][q] > 0
  <2>1. f \in held[e] /\ f.job \in Jobs /\ IsCurrent(e, f)
    BY <1>0, <1>1, <1>3, CurrentStable
  <2>2. CASE e = d /\ q = p
    <3>1. f = c
      BY <1>1, <2>1, <2>2, CurrentUnique
    <3>2. took
      BY <1>0, <1>2, <1>3, <2>2
    <3>3. deliveries'[c.job][p] = deliveries[c.job][p] + 1
      BY <1>0, <1>1, <1>2, <3>2
    <3>4. QED
      BY <1>0, <1>1, <2>2, <3>1, <3>3
  <2>3. CASE e # d \/ q # p
    <3>1. report[e][q] = "queued"
      BY <1>0, <1>2, <1>3, <2>3
    <3>2. QED
      BY <2>1, <3>1, DeliveriesGrow DEF TakenInv
  <2>4. QED
    BY <2>2, <2>3
<1>4. PublishedWasTaken'
  <2>1. \A j \in Jobs : TargetsOf[j] \subseteq Platforms
    BY SchedulerAssumption DEF SchedulerAssumption
  <2>2. QED
    BY <1>1, <2>1, DeliveriesGrow DEF TakenInv, PublishedWasTaken
<1>5. \A e \in Daemons : held'[e] = {} => report'[e] = NoReport
  <2>1. held'[d] # {}
    BY <1>1
  <2>2. \A e \in Daemons : e # d => report'[e] = report[e]
    BY <1>0, <1>2
  <2>3. QED
    BY <1>1, <2>1, <2>2 DEF TakenInv
<1>6. QED
  BY <1>1, <1>3, <1>4, <1>5 DEF TakenInv

LEMMA TakenHolds == Spec => []TakenInv
<1>1. Init => TakenInv
  BY DEF Init, StoreInit, Absent, TakenInv, PublishedWasTaken
<1>2. TypeOK /\ ClaimsAreExclusive /\ EarlyInv /\ TakenInv /\ [Next]_vars => TakenInv'
  <2> SUFFICES ASSUME TypeOK, ClaimsAreExclusive, EarlyInv, TakenInv, [Next]_vars
               PROVE  TakenInv'
    OBVIOUS
  <2>0. /\ step \in [Daemons -> Step]
        /\ held \in [Daemons -> SUBSET Claim]
        /\ report \in [Daemons -> [Platforms -> Answer \cup {"none"}]]
    BY DeliveryTypes
  <2>1. ASSUME NEW d \in Daemons, NEW c \in held[d], CompleteJob(d, c) PROVE TakenInv'
    BY <2>1, TakenComplete
  <2>2. ASSUME NEW d \in Daemons, NEW c \in held[d], DispatchTarget(d, c) PROVE TakenInv'
    BY <2>2, TakenDispatch
  <2>3. ASSUME NEW d \in Daemons, TickStep(d) \/ Crash(d),
               \A e \in Daemons : \A c \in held[e] : ~CompleteJob(e, c),
               \/ report'[d] = NoReport
               \/ held'[d] = held[d] /\ report'[d] = report[d],
               step'[d] \in {"idle", "claim"} => held'[d] = {}
        PROVE  TakenInv'
    <3>1. \A j \in Jobs : jobs'[j].state = "published" => jobs[j].state = "published"
      BY <2>3, Publishes
    <3>2. \A e \in Daemons :
             e # d => held'[e] = held[e] /\ report'[e] = report[e] /\ step'[e] = step[e]
      BY <2>3, OthersKeep
    <3>3. \A e \in Daemons : step'[e] \in {"idle", "claim"} => held'[e] = {}
      BY <2>3, <3>2 DEF TakenInv
    <3>4. \A e \in Daemons : \/ report'[e] = NoReport
                             \/ held'[e] = held[e] /\ report'[e] = report[e]
      BY <2>3, <3>2
    <3>5. QED
      BY <3>1, <3>3, <3>4, TakenStays
  <2>4. ASSUME NEW d \in Daemons, ClaimBatch(d)
        PROVE  step'[d] = "dispatch" /\ report'[d] = NoReport
    BY <2>0, <2>4 DEF ClaimBatch, TakenInv
  <2>5. ASSUME NEW d \in Daemons, NEW c \in held[d], RequeueJob(d, c) \/ RequeueFails(d, c)
        PROVE  step'[d] = "dispatch" /\ report'[d] = NoReport
    BY <2>0, <2>5 DEF RequeueJob, RequeueFails, Drop
  <2>6. ASSUME NEW d \in Daemons, NEW c \in held[d], CompleteFails(d, c)
        PROVE  step'[d] = "requeue" /\ UNCHANGED <<held, report>>
    BY <2>0, <2>6 DEF CompleteFails
  <2>7. ASSUME NEW d \in Daemons, ClaimFails(d) \/ FinishTick(d) \/ Crash(d)
        PROVE  held'[d] = {} /\ report'[d] = NoReport
    BY <2>0, <2>7 DEF ClaimFails, FinishTick, Crash, EndTick
  <2>8. ASSUME NEW d \in Daemons, StartTick(d) \/ TurnToArticles(d)
        PROVE  held'[d] = {} /\ UNCHANGED <<held, report>>
    BY <2>0, <2>8 DEF StartTick, TurnToArticles, TakenInv
  <2>9. ASSUME NEW d \in Daemons, TickStep(d) \/ Crash(d),
               \A e \in Daemons : \A c \in held[e] : ~CompleteJob(e, c),
               \A c \in held[d] : ~DispatchTarget(d, c)
        PROVE  TakenInv'
    BY <2>3, <2>4, <2>5, <2>6, <2>7, <2>8, <2>9 DEF TickStep, JobStep
  <2>10. ASSUME Enqueue \/ RecordDispatch \/ Import \/ ClockTick \/ UNCHANGED vars,
                \A e \in Daemons : \A c \in held[e] : ~CompleteJob(e, c)
         PROVE  TakenInv'
    <3>1. UNCHANGED <<held, report, step>>
      BY <2>10 DEF Enqueue, RecordDispatch, Import, ClockTick, vars, tickVars
    <3>2. \A j \in Jobs : jobs'[j].state = "published" => jobs[j].state = "published"
      BY <2>10, Publishes
    <3>3. \A e \in Daemons : step'[e] \in {"idle", "claim"} => held'[e] = {}
      BY <3>1 DEF TakenInv
    <3>4. QED
      BY <3>1, <3>2, <3>3, TakenStays
  <2>11. QED
    BY <2>1, <2>2, <2>9, <2>10 DEF Next
<1>3. QED
  BY <1>1, <1>2, TypeCorrect, ClaimExclusivity, EarlyHolds, PTL DEF Spec

\* "published" is only ever recorded of a job that every target's runner took.
THEOREM PublishedMeansTaken == Spec => []PublishedWasTaken
<1>1. TakenInv => PublishedWasTaken
  BY DEF TakenInv
<1>2. QED
  BY <1>1, TakenHolds, PTL
-----------------------------------------------------------------------------
(* The scheduler implements the publication ledger: the first state maps to a
   first state of the ledger, and every step, fault and crash included, to a
   ledger step or a stutter. *)

\* The refinement mapping of Scheduler!Ledger, by name.
Stage == [j \in Jobs |-> IF jobs[j].state = "absent" THEN "unknown" ELSE jobs[j].state]
EntriesOf == [j \in Jobs |-> HistoryOf(j)]

LEMMA MapsInit == Init => Ledger!Init
<1> SUFFICES ASSUME Init PROVE Ledger!Init
  OBVIOUS
<1>1. \A j \in Jobs : jobs[j].state = "absent" /\ HistoryOf(j) = {}
  BY DEF Init, StoreInit, Absent, HistoryOf
<1>2. QED
  BY <1>1 DEF Ledger!Init

\* Nothing about any job changed.
LEMMA MapsStutter ==
    ASSUME UNCHANGED jobs, \A j \in Jobs : HistoryOf(j)' = HistoryOf(j)
    PROVE  UNCHANGED Ledger!vars
BY DEF Ledger!vars

LEMMA MapsInsert ==
    ASSUME TypeOK, NEW j \in Jobs, NEW draft \in BOOLEAN, NEW due \in Texts \cup {NoDue},
           InsertJob(j, draft, due)
    PROVE  Ledger!Next
<1>0. jobs \in [Jobs -> JobRow]
  BY DEF TypeOK, StoreTypeOK
<1> DEFINE s == IF draft THEN "draft" ELSE "queued"
<1>1. jobs[j].state = "absent" /\ jobs'[j].state = s
  BY <1>0 DEF InsertJob, Absent
<1>2. \A i \in Jobs : i # j => jobs'[i] = jobs[i]
  BY <1>0 DEF InsertJob
<1>3. \A i \in Jobs : HistoryOf(i)' = HistoryOf(i)
  BY DEF InsertJob, HistoryOf
<1>4. Stage' = [Stage EXCEPT ![j] = s]
  BY <1>1, <1>2 DEF Stage
<1>5. Ledger!Accept(j)
  BY <1>1, <1>3, <1>4 DEF Ledger!Accept, Stage
<1>6. QED
  BY <1>5 DEF Ledger!Next

LEMMA MapsClaim ==
    ASSUME TypeOK, NEW d \in Daemons, ClaimBatch(d)
    PROVE  Ledger!Next
<1>1. PICK batch \in SUBSET Jobs : batch = Claimable(kind[d], through[d], room[d])
  BY ClaimableDue DEF TypeOK
<1>2. \A j \in batch : jobs[j].state = "queued"
  BY <1>1, ClaimableDue DEF TypeOK
<1>3. \A j \in Jobs : jobs'[j] = IF j \in batch THEN Moved(jobs[j], "dispatching")
                                               ELSE jobs[j]
  BY <1>1 DEF ClaimBatch, ClaimDue
<1>4. \A j \in Jobs : HistoryOf(j)' = HistoryOf(j)
  BY DEF ClaimBatch, ClaimDue, HistoryOf
<1>5. ASSUME NEW j \in Jobs
      PROVE  jobs'[j].state = IF j \in batch THEN "dispatching" ELSE jobs[j].state
  <2>1. CASE j \in batch
    <3>1. jobs'[j] = Moved(jobs[j], "dispatching")
      BY <1>3, <2>1
    <3>2. QED
      BY <2>1, <3>1 DEF Moved
  <2>2. CASE j \notin batch
    BY <1>3, <2>2
  <2>3. QED
    BY <2>1, <2>2
<1>6. Ledger!TakeUp(batch)
  <2>1. \A j \in batch : Stage[j] = "queued"
    BY <1>2 DEF Stage
  <2>2. Stage' = [j \in Jobs |-> IF j \in batch THEN "dispatching" ELSE Stage[j]]
    BY <1>5 DEF Stage
  <2>3. QED
    BY <1>4, <2>1, <2>2 DEF Ledger!TakeUp, Stage
<1>7. QED
  BY <1>6 DEF Ledger!Next

LEMMA MapsRequeue ==
    ASSUME TypeOK, NEW d \in Daemons, NEW c \in held[d], RequeueJob(d, c)
    PROVE  Ledger!Next
<1>0. c.job \in Jobs /\ jobs \in [Jobs -> JobRow]
  BY DEF TypeOK, StoreTypeOK, Claim
<1>1. /\ jobs[c.job].state = "dispatching"
      /\ jobs' = [jobs EXCEPT ![c.job] = Moved(jobs[c.job], "queued")]
      /\ UNCHANGED history
  BY DEF RequeueJob, RequeueClaim, CanRequeue
<1>2. jobs'[c.job].state = "queued"
  BY <1>0, <1>1 DEF Moved
<1>3. \A i \in Jobs : i # c.job => jobs'[i] = jobs[i]
  BY <1>0, <1>1
<1>4. \A i \in Jobs : HistoryOf(i)' = HistoryOf(i)
  BY <1>1 DEF HistoryOf
<1>5. Stage' = [Stage EXCEPT ![c.job] = "queued"]
  BY <1>2, <1>3 DEF Stage
<1>6. Ledger!PutBack(c.job)
  BY <1>0, <1>1, <1>4, <1>5 DEF Ledger!PutBack, Stage
<1>7. QED
  BY <1>0, <1>6 DEF Ledger!Next

\* A completion settles: RecordedOnce says that the ledger has no entry yet.
LEMMA MapsComplete ==
    ASSUME TypeOK, ClaimsAreExclusive, RecordedOnce, TypeOK',
           NEW d \in Daemons, NEW c \in held[d], CompleteJob(d, c)
    PROVE  Ledger!Next
<1>1. PICK row : /\ row.request = c.job
                 /\ row.state = Verdict(d, c)
                 /\ history' = history \cup {row}
  BY CompletionRecords
<1>2. /\ c.job \in Jobs
      /\ jobs[c.job].state = "dispatching"
      /\ jobs'[c.job].state = row.state
      /\ \A j \in Jobs : j # c.job => jobs'[j] = jobs[j]
  BY <1>1, CompletionRecords
<1>3. row.state \in Terminal /\ row \in HistoryRow
  BY <1>1, VerdictTerminal DEF TypeOK, StoreTypeOK
<1>4. HistoryOf(c.job) = {}
  BY <1>2 DEF RecordedOnce, Terminal
<1>5. /\ HistoryOf(c.job)' = {row}
      /\ \A j \in Jobs : j # c.job => HistoryOf(j)' = HistoryOf(j)
  BY <1>1, <1>4 DEF HistoryOf
<1>6. Stage' = [Stage EXCEPT ![c.job] = row.state]
  BY <1>2, <1>3 DEF Stage, Terminal
<1>7. EntriesOf' = [EntriesOf EXCEPT ![c.job] = {row}]
  BY <1>5 DEF EntriesOf
<1>8. Ledger!Settle(c.job, row)
  <2>1. Stage[c.job] = "dispatching" /\ EntriesOf[c.job] = {}
    BY <1>2, <1>4 DEF Stage, EntriesOf
  <2>2. QED
    BY <1>3, <1>6, <1>7, <2>1
    DEF Ledger!Settle, Ledger!Terminal, Terminal, Stage, EntriesOf
<1>9. QED
  BY <1>2, <1>3, <1>8 DEF Ledger!Next

\* Every behaviour of the scheduler is a behaviour of the ledger: people who only
\* look at states and records cannot tell the daemons from one careful clerk.
THEOREM SchedulerImplementsLedger == Spec => ImplementsLedger
<1>1. TypeOK /\ ClaimsAreExclusive /\ RecordedOnce /\ TypeOK' /\ [Next]_vars
         => [Ledger!Next]_(Ledger!vars)
  BY StoreSteps, MapsStutter, MapsInsert, MapsClaim, MapsRequeue, MapsComplete
<1>2. QED
  BY <1>1, MapsInit, TypeCorrect, ClaimExclusivity, OneRecordPerOutcome, PTL
  DEF Spec, ImplementsLedger, Ledger!Spec
=============================================================================
