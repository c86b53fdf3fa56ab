----------------------------- MODULE Scheduler -----------------------------
(***************************************************************************)
(* matrixpostd's publication scheduler: any number of daemon processes on  *)
(* one SQLite state file, each repeating run_scheduler_tick_at, beside the *)
(* processes that enqueue work (CLI, MCP server, desktop).  A tick claims  *)
(* due video jobs, dispatches each to its local runners target by target,  *)
(* completes or requeues it, then does the same for due articles with what *)
(* is left of the batch.  A daemon may crash between any two steps and any *)
(* storage call of a tick may fail; both are bounded by constants.         *)
(***************************************************************************)
EXTENDS PublicationStore

CONSTANTS
    MaxTime,      \* bound: the last instant of the modelled local clock
    ClockText,    \* the text the daemon writes for each instant of that clock
    Daemons,      \* matrixpostd processes
    Platforms,    \* publication targets
    TargetsOf,    \* the targets of each job's request; one for an article
    Registered,   \* the platforms each daemon has a local runner for
    BatchSize,    \* scheduler_batch_size
    FaultPoints,  \* the storage calls that may fail
    MaxFaults,    \* bound: storage failures in a behaviour
    MaxCrashes,   \* bound: daemon crashes in a behaviour
    MaxDispatches,\* bound: immediate dispatches recorded by other processes
    ImportableIds \* ids a history import may use

Time == 0 .. MaxTime

\* The clock is always written with the same padding, so its texts sort by time.
ASSUME ClockAssumption ==
    /\ MaxTime \in Nat
    /\ ClockText \in [Time -> Texts]
    /\ \A t, u \in Time : t < u => ClockText[t] < ClockText[u]

ASSUME SchedulerAssumption ==
    /\ TargetsOf \in [Jobs -> SUBSET Platforms]
    /\ \A j \in Jobs : TargetsOf[j] # {}
    /\ Registered \in [Daemons -> SUBSET Platforms]
    /\ BatchSize \in 1 .. MaxClaimBatch
    /\ FaultPoints \subseteq {"claim", "complete", "requeue"}
    /\ MaxFaults \in Nat
    /\ MaxCrashes \in Nat
    /\ MaxDispatches \in Nat
    /\ ImportableIds \subseteq HistoryId

VARIABLES
    now,          \* the local clock
    step,         \* where each daemon's tick is
    kind,         \* the queue that part of the tick works on
    through,      \* due_through, the clock's text as the tick read it
    held,         \* claims of this tick not yet completed or requeued
    room,         \* what the tick's batch still leaves for articles
    report,       \* answers so far to the job being dispatched
    faults,       \* storage failures so far
    crashes,      \* daemon crashes so far
    deliveries,   \* history: how often a runner took a job's work, per target
    lost,         \* history: completions of each job that failed
    dropped       \* history: claims in the hands of daemons that died

tickVars == <<step, kind, through, held, room, report>>
envVars  == <<faults, crashes>>
seenVars == <<deliveries, lost, dropped>>
vars     == <<storeVars, now, tickVars, envVars, seenVars>>

-----------------------------------------------------------------------------
(* Data of a tick. *)

Step   == {"idle", "claim", "dispatch", "requeue"}
Claim  == [job : Jobs, revision : Nat]
Answer == {"queued", "unavailable", "rejected"}
NoReport == [p \in Platforms |-> "none"]

\* A claimed batch is worked off in the order the claim returned it.
IsCurrent(d, c) == c \in held[d] /\ \A other \in held[d] \ {c} : Precedes(c.job, other.job)

\* Only an unregistered platform is unavailable without contact; a runner may
\* also answer so.  A rejection can hide work the runner did take: its answer
\* was late, lost or malformed.
MayAnswer(d, p, answer, took) ==
    \/ answer = "unavailable" /\ ~took
    \/ answer = "queued"      /\ took /\ p \in Registered[d]
    \/ answer = "rejected"            /\ p \in Registered[d]

\* Variant: one runner's success is enough.
TerminalState_Any(answers) ==
    IF "queued" \in answers THEN "published"
    ELSE IF answers = {"unavailable"} THEN "unavailable"
    ELSE "failed"

\* all queued, all unavailable, anything else
TerminalState(answers) ==
    IF answers = {"queued"} THEN "published"
    ELSE IF answers = {"unavailable"} THEN "unavailable"
    ELSE "failed"

Answers(d, j) == {report[d][p] : p \in TargetsOf[j]}

TypeOK ==
    /\ StoreTypeOK
    /\ now \in Time
    /\ step \in [Daemons -> Step]
    /\ kind \in [Daemons -> Kinds]
    /\ through \in [Daemons -> Texts]
    /\ held \in [Daemons -> SUBSET Claim]
    /\ room \in [Daemons -> Nat]
    /\ report \in [Daemons -> [Platforms -> Answer \cup {"none"}]]
    /\ faults \in 0 .. MaxFaults
    /\ crashes \in 0 .. MaxCrashes
    /\ deliveries \in [Jobs -> [Platforms -> Nat]]
    /\ lost \in [Jobs -> Nat]
    /\ dropped \subseteq Claim

Init ==
    /\ StoreInit
    /\ now = 0
    /\ step = [d \in Daemons |-> "idle"]
    /\ kind = [d \in Daemons |-> "video"]
    /\ through = [d \in Daemons |-> 0]
    /\ held = [d \in Daemons |-> {}]
    /\ room = [d \in Daemons |-> 0]
    /\ report = [d \in Daemons |-> NoReport]
    /\ faults = 0
    /\ crashes = 0
    /\ deliveries = [j \in Jobs |-> [p \in Platforms |-> 0]]
    /\ lost = [j \in Jobs |-> 0]
    /\ dropped = {}

\* A storage call of a tick fails: nothing of its transaction remains.
StorageFault(point) ==
    /\ point \in FaultPoints
    /\ faults < MaxFaults
    /\ faults' = faults + 1

\* The tick's task ends; the loop waits for the next interval.
EndTick(d) ==
    /\ step' = [step EXCEPT ![d] = "idle"]
    /\ kind' = [kind EXCEPT ![d] = "video"]
    /\ through' = [through EXCEPT ![d] = 0]
    /\ held' = [held EXCEPT ![d] = {}]
    /\ room' = [room EXCEPT ![d] = 0]
    /\ report' = [report EXCEPT ![d] = NoReport]

-----------------------------------------------------------------------------
(* One tick. *)

CurrentLocalSchedule == ClockText[now]

\* The tick reads the clock once; both claims of the tick use that reading.
StartTick(d) ==
    /\ step[d] = "idle"
    /\ step' = [step EXCEPT ![d] = "claim"]
    /\ through' = [through EXCEPT ![d] = CurrentLocalSchedule]
    /\ room' = [room EXCEPT ![d] = BatchSize]
    /\ UNCHANGED <<storeVars, now, kind, held, report, envVars, seenVars>>

\* Variant: the articles get a batch of their own.
SaturatingSub_Kept(m, n) == m

SaturatingSub(m, n) == IF n <= m THEN m - n ELSE 0

\* The claim's transaction commits; the tick then owns what it returned.
ClaimBatch(d) ==
    /\ step[d] = "claim"
    /\ LET claimed == Claimable(kind[d], through[d], room[d])
       IN  /\ ClaimDue(kind[d], through[d], room[d])
           /\ held' = [held EXCEPT ![d] =
                          {[job |-> j, revision |-> jobs[j].revision + 1] : j \in claimed}]
           /\ room' = [room EXCEPT ![d] = SaturatingSub(@, Cardinality(claimed))]
    /\ step' = [step EXCEPT ![d] = "dispatch"]
    /\ UNCHANGED <<now, kind, through, report, envVars, seenVars>>

\* A failed claim ends the tick, for articles too.
ClaimFails(d) ==
    /\ step[d] = "claim"
    /\ StorageFault("claim")
    /\ EndTick(d)
    /\ UNCHANGED <<storeVars, now, crashes, seenVars>>

\* One target of the current job: ask its runner, note the answer.
DispatchTarget(d, c) ==
    /\ step[d] = "dispatch"
    /\ IsCurrent(d, c)
    /\ \E p \in TargetsOf[c.job], answer \in Answer, took \in BOOLEAN :
          /\ report[d][p] = "none"
          /\ MayAnswer(d, p, answer, took)
          /\ report' = [report EXCEPT ![d][p] = answer]
          /\ deliveries' = IF took THEN [deliveries EXCEPT ![c.job][p] = @ + 1]
                                  ELSE deliveries
    /\ UNCHANGED <<storeVars, now, step, kind, through, held, room, envVars, lost, dropped>>

\* Every target of the current job has answered.
Reported(d, c) ==
    /\ step[d] = "dispatch"
    /\ IsCurrent(d, c)
    /\ "none" \notin Answers(d, c.job)

\* Variant: the loop over the batch is left after its first job.
Drop_Rest(d, c) ==
    /\ held' = [held EXCEPT ![d] = {}]
    /\ report' = [report EXCEPT ![d] = NoReport]

\* Done with the current job, one way or another.
Drop(d, c) ==
    /\ held' = [held EXCEPT ![d] = @ \ {c}]
    /\ report' = [report EXCEPT ![d] = NoReport]

Verdict(d, c) == TerminalState(Answers(d, c.job))

CompleteJob(d, c) ==
    /\ Reported(d, c)
    /\ CompleteJobWithHistory(c.job, c.revision, Verdict(d, c))
    /\ Drop(d, c)
    /\ UNCHANGED <<now, step, kind, through, room, envVars, seenVars>>

\* The completion fails: storage does, or the row is not as claimed.
CompleteFails(d, c) ==
    /\ Reported(d, c)
    /\ IF CanComplete(c.job, c.revision, Verdict(d, c))
       THEN StorageFault("complete")
       ELSE UNCHANGED faults
    /\ step' = [step EXCEPT ![d] = "requeue"]
    /\ lost' = [lost EXCEPT ![c.job] = @ + 1]
    /\ UNCHANGED <<storeVars, now, kind, through, held, room, report, crashes, deliveries, dropped>>

\* Variant: after a failed completion the tick goes on without the requeue.
RequeueJob_Skipped(d, c) ==
    /\ step[d] = "requeue"
    /\ IsCurrent(d, c)
    /\ Drop(d, c)
    /\ step' = [step EXCEPT ![d] = "dispatch"]
    /\ UNCHANGED <<storeVars, now, kind, through, room, envVars, seenVars>>

RequeueJob(d, c) ==
    /\ step[d] = "requeue"
    /\ IsCurrent(d, c)
    /\ RequeueClaim(c.job, c.revision)
    /\ Drop(d, c)
    /\ step' = [step EXCEPT ![d] = "dispatch"]
    /\ UNCHANGED <<now, kind, through, room, envVars, seenVars>>

\* "could not recover a claimed job": the tick goes on, the row stays claimed.
RequeueFails(d, c) ==
    /\ step[d] = "requeue"
    /\ IsCurrent(d, c)
    /\ IF CanRequeue(c.job, c.revision)
       THEN StorageFault("requeue")
       ELSE UNCHANGED faults
    /\ Drop(d, c)
    /\ step' = [step EXCEPT ![d] = "dispatch"]
    /\ UNCHANGED <<storeVars, now, kind, through, room, crashes, seenVars>>

\* No video job left in the batch: articles get the room that remains.
TurnToArticles(d) ==
    /\ step[d] = "dispatch"
    /\ kind[d] = "video"
    /\ held[d] = {}
    /\ step' = [step EXCEPT ![d] = "claim"]
    /\ kind' = [kind EXCEPT ![d] = "article"]
    /\ UNCHANGED <<storeVars, now, through, held, room, report, envVars, seenVars>>

FinishTick(d) ==
    /\ step[d] = "dispatch"
    /\ kind[d] = "article"
    /\ held[d] = {}
    /\ EndTick(d)
    /\ UNCHANGED <<storeVars, now, envVars, seenVars>>

JobStep(d, c) ==
    \/ DispatchTarget(d, c)
    \/ CompleteJob(d, c)
    \/ CompleteFails(d, c)
    \/ RequeueJob(d, c)
    \/ RequeueFails(d, c)

TickStep(d) ==
    \/ StartTick(d)
    \/ ClaimBatch(d)
    \/ ClaimFails(d)
    \/ \E c \in held[d] : JobStep(d, c)
    \/ TurnToArticles(d)
    \/ FinishTick(d)

\* Variant: a starting daemon requeues every job it finds dispatching.
Crash_RecoverAll(d) ==
    /\ step[d] # "idle"
    /\ crashes < MaxCrashes
    /\ crashes' = crashes + 1
    /\ EndTick(d)
    /\ jobs' = [j \in Jobs |-> IF jobs[j].state = "dispatching"
                               THEN Moved(jobs[j], "queued") ELSE jobs[j]]
    /\ dropped' = dropped \cup held[d]
    /\ UNCHANGED <<issued, history, historySeq, now, faults, deliveries, lost>>

\* The process dies and starts again: main opens the store and the loop, and
\* nothing looks for jobs an earlier run had claimed.
Crash(d) ==
    /\ step[d] # "idle"
    /\ crashes < MaxCrashes
    /\ crashes' = crashes + 1
    /\ dropped' = dropped \cup held[d]
    /\ EndTick(d)
    /\ UNCHANGED <<storeVars, now, faults, deliveries, lost>>

-----------------------------------------------------------------------------
(* The other processes on the same state file, and time. *)

Enqueue ==
    /\ \/ \E j \in Jobs : AllocateJobId(j)
       \/ \E j \in Jobs, draft \in BOOLEAN, due \in Texts \cup {NoDue} :
             InsertJob(j, draft, due)
    /\ UNCHANGED <<now, tickVars, envVars, seenVars>>

RecordDispatch ==
    /\ Cardinality({row \in history : row.id.prefix = "dispatch-history"}) < MaxDispatches
    /\ \E state \in Terminal : RecordProviderDispatchHistory(state)
    /\ UNCHANGED <<now, tickVars, envVars, seenVars>>

Import ==
    /\ \E id \in ImportableIds, state \in Terminal : AppendHistory(id, state)
    /\ UNCHANGED <<now, tickVars, envVars, seenVars>>

ClockTick ==
    /\ now < MaxTime
    /\ now' = now + 1
    /\ UNCHANGED <<storeVars, tickVars, envVars, seenVars>>

Next ==
    \/ \E d \in Daemons : TickStep(d) \/ Crash(d)
    \/ Enqueue
    \/ RecordDispatch
    \/ Import
    \/ ClockTick

Spec == Init /\ [][Next]_vars

\* A running daemon's loop keeps ticking, its storage calls and runner requests
\* return (both have timeouts), so its next step is never put off for ever.
FairSpec == Spec /\ \A d \in Daemons : WF_vars(TickStep(d))
-----------------------------------------------------------------------------
(* What the scheduler promises. *)

HistoryOf(j) == {row \in history : row.request = j}

\* A job is terminal exactly when one history row reports on it, and the row has
\* the job's state: whatever fails or dies in between, complete_job_with_history
\* leaves neither a terminal job without a record nor a record of a retry.
RecordedOnce ==
    \A j \in Jobs :
       /\ jobs[j].state \in Terminal <=> HistoryOf(j) # {}
       /\ \A row, other \in HistoryOf(j) : row = other
       /\ \A row \in HistoryOf(j) : row.state = jobs[j].state

\* Generated and imported history ids never collide.
HistoryIdsUnique ==
    \A row, other \in history : row.id = other.id => row = other

\* The histories under faults, retries, other writers and imports: one record for
\* each outcome, and one id for each record.
RecordsAreSound == RecordedOnce /\ HistoryIdsUnique

\* A claim in a daemon's hands is the job's present revision, and no other
\* daemon holds the job: "each claimed job is owned by this pass".
ClaimsAreExclusive ==
    /\ \A d \in Daemons : \A c \in held[d] :
          jobs[c.job].state = "dispatching" /\ jobs[c.job].revision = c.revision
    /\ \A d, e \in Daemons : \A c \in held[d], f \in held[e] :
          c.job = f.job => d = e /\ c = f

\* No runner takes work for a draft, an unscheduled job, or one whose schedule comes
\* after the clock as a text.  So a job whose schedule is written as the daemon writes
\* its clock is not dispatched before its time; one written otherwise may be.
NothingEarly ==
    \A j \in Jobs, p \in Platforms :
       deliveries[j][p] > 0 =>
          /\ jobs[j].state \notin {"absent", "draft"}
          /\ jobs[j].due \in Texts
          /\ jobs[j].due <= CurrentLocalSchedule
          /\ \A t \in Time : jobs[j].due = ClockText[t] => t <= now

\* At-least-once costs a duplicate only when a completion failed: no interleaving
\* of daemons, crash or restart alone makes a runner take the same work twice.
DuplicatesNeedLoss ==
    \A j \in Jobs, p \in Platforms : deliveries[j][p] <= 1 + lost[j]

\* A job recorded as published was taken by the runner of every target.
PublishedWasTaken ==
    \A j \in Jobs :
       jobs[j].state = "published" => \A p \in TargetsOf[j] : deliveries[j][p] > 0

\* Claimed jobs that no daemon holds any more.
Orphans == {j \in Jobs : /\ jobs[j].state = "dispatching"
                         /\ \A d \in Daemons : \A c \in held[d] : c.job # j}

\* A claimed job is left without an owner only if its daemon died holding it, which costs
\* at most a batch for each death, or if storage failed twice, for its completion and
\* again for its requeue.
OnlyFaultsOrphan ==
    /\ Cardinality(dropped) <= BatchSize * crashes
    /\ 2 * Cardinality(Orphans \ {c.job : c \in dropped}) <= faults

\* Both queues share one batch: what a tick holds and what it may still claim
\* never exceed scheduler_batch_size.
BatchIsShared == \A d \in Daemons : Cardinality(held[d]) + room[d] <= BatchSize

\* A terminal job and the record about it never change again.
OutcomeIsFinal ==
    [][\A j \in Jobs : jobs[j].state \in Terminal =>
          jobs'[j] = jobs[j] /\ HistoryOf(j)' = HistoryOf(j)]_vars

\* Due as claim_due sees it: by the texts.
IsDue(j) ==
    /\ jobs[j].state = "queued"
    /\ jobs[j].due \in Texts
    /\ jobs[j].due <= CurrentLocalSchedule

\* Every due job is settled in the end, however often storage makes a completion
\* fail, as long as requeues work and no daemon crashes.
DueJobsSettle == \A j \in Jobs : IsDue(j) ~> jobs[j].state \in Terminal

\* "A claimed task is an at-least-once local workflow": a claim is followed by an
\* outcome or by a retry.
ClaimsAreResolved ==
    \A j \in Jobs : jobs[j].state = "dispatching" ~> jobs[j].state # "dispatching"

-----------------------------------------------------------------------------
(* The scheduler implements the ledger. *)

Ledger ==
    INSTANCE PublicationLedger
        WITH Jobs    <- Jobs,
             Entries <- HistoryRow,
             stage   <- [j \in Jobs |-> IF jobs[j].state = "absent" THEN "unknown"
                                        ELSE jobs[j].state],
             entries <- [j \in Jobs |-> HistoryOf(j)]

\* Through every interleaving, fault and crash the tables behave as the ledger:
\* claims are batches taken up, completions settle a job and its record at once.
ImplementsLedger == Ledger!Spec
=============================================================================
