------------------------- MODULE PublicationStore -------------------------
(***************************************************************************)
(* The durable half of MatriXpost's publication queues: the tables that    *)
(* matrixpost-core's SqliteRepository keeps for video jobs and for article *)
(* jobs, and each queue operation as one atomic change of them.  An        *)
(* operation is one SQLite transaction, so one action; enqueue, which is   *)
(* two statements committed one after the other, is two actions.           *)
(*                                                                         *)
(* The operators below constrain only this module's variables.  Modules    *)
(* that EXTEND it say who calls them and when.                             *)
(***************************************************************************)
EXTENDS PublishStates, Naturals, FiniteSets

CONSTANTS
    VideoJobs,      \* ids the job_sequence table can hand out
    ArticleJobs,    \* ids the article_job_sequence table can hand out
    IdRank,         \* position of an id in SQLite's text order of ids
    MaxClaimBatch,  \* MAX_CLAIM_BATCH, the cap of one claim transaction
    MaxText,        \* bound: the last schedule text, in SQLite's order of texts
    MaxHistory,     \* bound: the last number of a history sequence
    NoDue,          \* a row whose due_at is NULL
    NoJob           \* a history row that reports on no queued job

Jobs == VideoJobs \cup ArticleJobs

\* LocalSchedule keeps a schedule as the text it was given in, and the queue never
\* reads it: a text is its position in the order SQLite compares texts in.
Texts == 0 .. MaxText

ASSUME StoreAssumption ==
    /\ VideoJobs \cap ArticleJobs = {}
    /\ IsFiniteSet(Jobs)
    /\ IdRank \in [Jobs -> Nat]
    /\ \A i, j \in Jobs : IdRank[i] = IdRank[j] => i = j
    /\ MaxClaimBatch \in Nat
    /\ MaxText \in Nat
    /\ MaxHistory \in Nat
    /\ NoDue \notin Nat
    /\ NoJob \notin Jobs

VARIABLES
    jobs,        \* the jobs and article_jobs tables
    issued,      \* ids the two job sequences have given out
    history,     \* the history and article_history tables
    historySeq   \* history_sequence and article_history_sequence

storeVars == <<jobs, issued, history, historySeq>>

-----------------------------------------------------------------------------
(* The two queues and their rows. *)

Kinds == {"video", "article"}
JobsOf(kind) == IF kind = "video" THEN VideoJobs ELSE ArticleJobs

Absent == [state |-> "absent", due |-> NoDue, revision |-> 0]

JobRow == [state    : PublishState \cup {"absent"},
           due      : Texts \cup {NoDue},
           revision : Nat]

\* Who generated a history id.  Article rows have a table of their own.
Prefixes == {"scheduled-history", "dispatch-history", "article-scheduled-history"}
TableOf(prefix) == IF prefix = "article-scheduled-history" THEN "article" ELSE "video"
ScheduledPrefix(j) ==
    IF j \in VideoJobs THEN "scheduled-history" ELSE "article-scheduled-history"

HistoryId == [prefix : Prefixes, number : 1 .. MaxHistory]

\* request stands for the redacted request of the job the row reports on.
HistoryRow ==
    [id : HistoryId, request : Jobs \cup {NoJob}, state : PublishState]

StoreTypeOK ==
    /\ jobs \in [Jobs -> JobRow]
    /\ issued \subseteq Jobs
    /\ history \subseteq HistoryRow
    /\ historySeq \in [Kinds -> Nat]

StoreInit ==
    /\ jobs = [j \in Jobs |-> Absent]
    /\ issued = {}
    /\ history = {}
    /\ historySeq = [kind \in Kinds |-> 0]

-----------------------------------------------------------------------------
(* History rows. *)

Recorded(id) == \E row \in history : row.id = id

\* Variant: the conflict retry is missing.
FirstFree_NextNumber(prefix, n) == n = historySeq[TableOf(prefix)] + 1

\* The number the next generated id of this prefix gets.  In the video table the
\* sequence moves on past ids that imported rows already use; the article table
\* has no import and takes the next number as it is.
FirstFree(prefix, n) ==
    /\ n > historySeq[TableOf(prefix)]
    /\ TableOf(prefix) = "article" => n = historySeq["article"] + 1
    /\ ~Recorded([prefix |-> prefix, number |-> n])
    /\ \A m \in 1 .. MaxHistory :
          historySeq[TableOf(prefix)] < m /\ m < n
             => Recorded([prefix |-> prefix, number |-> m])

\* Variant: an insert the id conflict made the database ignore counts as done.
InsertTerminalHistory_Ignored(prefix, request, state) ==
    LET n  == historySeq[TableOf(prefix)] + 1
        id == [prefix |-> prefix, number |-> n]
    IN  /\ history' = IF Recorded(id) THEN history
                      ELSE history \cup {[id |-> id, request |-> request, state |-> state]}
        /\ historySeq' = [historySeq EXCEPT ![TableOf(prefix)] = n]

InsertTerminalHistory(prefix, request, state) ==
    \E n \in 1 .. MaxHistory :
       /\ FirstFree(prefix, n)
       /\ history' = history \cup {[id      |-> [prefix |-> prefix, number |-> n],
                                    request |-> request,
                                    state   |-> state]}
       /\ historySeq' = [historySeq EXCEPT ![TableOf(prefix)] = n]

\* The outcome of an immediate dispatch, recorded outside the queue.
RecordProviderDispatchHistory(state) ==
    /\ InsertTerminalHistory("dispatch-history", NoJob, state)
    /\ UNCHANGED <<jobs, issued>>

\* History import: any unused id, at the caller's choice.
AppendHistory(id, state) ==
    /\ TableOf(id.prefix) = "video"
    /\ ~Recorded(id)
    /\ history' = history \cup {[id |-> id, request |-> NoJob, state |-> state]}
    /\ UNCHANGED <<jobs, issued, historySeq>>

-----------------------------------------------------------------------------
(* Enqueue: the id is committed first, the row afterwards. *)

AllocateJobId(j) ==
    /\ j \notin issued
    /\ issued' = issued \cup {j}
    /\ UNCHANGED <<jobs, history, historySeq>>

\* Variant: a scheduled job is stored in a state of its own.
InsertJob_Scheduled(j, draft, due) ==
    /\ j \in issued
    /\ jobs[j] = Absent
    /\ jobs' = [jobs EXCEPT ![j] = [state    |-> IF draft THEN "draft" ELSE "scheduled",
                                    due      |-> due,
                                    revision |-> 0]]
    /\ UNCHANGED <<issued, history, historySeq>>

\* An article must carry a schedule and is never a draft.
InsertJob(j, draft, due) ==
    /\ j \in issued
    /\ jobs[j] = Absent
    /\ j \in ArticleJobs => ~draft /\ due # NoDue
    /\ jobs' = [jobs EXCEPT ![j] = [state    |-> IF draft THEN "draft" ELSE "queued",
                                    due      |-> due,
                                    revision |-> 0]]
    /\ UNCHANGED <<issued, history, historySeq>>

-----------------------------------------------------------------------------
(* Claim, complete, requeue, advance. *)

\* ORDER BY due_at, id
Precedes(i, j) ==
    \/ jobs[i].due < jobs[j].due
    \/ jobs[i].due = jobs[j].due /\ IdRank[i] < IdRank[j]

\* Variant: the query also selects jobs that are being dispatched.
DueJobs_Open(kind, through) ==
    {j \in JobsOf(kind) : /\ jobs[j].state \in {"queued", "dispatching"}
                          /\ jobs[j].due # NoDue
                          /\ jobs[j].due <= through}

\* Variant: the query forgets to compare the schedule.
DueJobs_AnyTime(kind, through) ==
    {j \in JobsOf(kind) : jobs[j].state = "queued" /\ jobs[j].due # NoDue}

\* WHERE state='queued' AND due_at IS NOT NULL AND due_at <= through
DueJobs(kind, through) ==
    {j \in JobsOf(kind) : /\ jobs[j].state = "queued"
                          /\ jobs[j].due # NoDue
                          /\ jobs[j].due <= through}

\* Variant: the query orders by due_at DESC.
Claimable_Latest(kind, through, limit) ==
    LET due == DueJobs(kind, through)
        cap == IF limit < MaxClaimBatch THEN limit ELSE MaxClaimBatch
    IN  {j \in due : Cardinality({i \in due : Precedes(j, i)}) < cap}

\* The first rows of that query, at most limit of them.
Claimable(kind, through, limit) ==
    LET due == DueJobs(kind, through)
        cap == IF limit < MaxClaimBatch THEN limit ELSE MaxClaimBatch
    IN  {j \in due : Cardinality({i \in due : Precedes(i, j)}) < cap}

\* A row that changes state also moves to its next revision.
Moved(row, next) ==
    [state |-> next, due |-> row.due, revision |-> row.revision + 1]

\* One immediate transaction moves every selected row, or none.
ClaimDue(kind, through, limit) ==
    LET claimed == Claimable(kind, through, limit)
    IN  /\ jobs' = [j \in Jobs |-> IF j \in claimed
                                   THEN Moved(jobs[j], "dispatching")
                                   ELSE jobs[j]]
        /\ UNCHANGED <<issued, history, historySeq>>

\* The optimistic check every later write of a job starts with.
AtRevision(j, revision) == jobs[j].state # "absent" /\ jobs[j].revision = revision

\* Variant: the transition graph is not consulted.
CanComplete_AnyState(j, revision, next) == AtRevision(j, revision)

CanComplete(j, revision, next) ==
    /\ AtRevision(j, revision)
    /\ CanTransitionTo(jobs[j].state, next)
    /\ j \in ArticleJobs => jobs[j].state = "dispatching"

\* The terminal state and its history row are one transaction.
CompleteJobWithHistory(j, revision, next) ==
    /\ CanComplete(j, revision, next)
    /\ jobs' = [jobs EXCEPT ![j] = Moved(@, next)]
    /\ InsertTerminalHistory(ScheduledPrefix(j), j, next)
    /\ UNCHANGED issued

CanRequeue(j, revision) ==
    /\ AtRevision(j, revision)
    /\ jobs[j].state = "dispatching"

\* Variant: putting a claim back restores the revision it was claimed from.
RequeueClaim_OldRevision(j, revision) ==
    /\ CanRequeue(j, revision)
    /\ jobs' = [jobs EXCEPT ![j].state = "queued", ![j].revision = @ - 1]
    /\ UNCHANGED <<issued, history, historySeq>>

\* Variant: the failed attempt is recorded as an outcome.
RequeueClaim_Recorded(j, revision) ==
    /\ CanRequeue(j, revision)
    /\ jobs' = [jobs EXCEPT ![j] = Moved(@, "queued")]
    /\ InsertTerminalHistory(ScheduledPrefix(j), j, "failed")
    /\ UNCHANGED issued

RequeueClaim(j, revision) ==
    /\ CanRequeue(j, revision)
    /\ jobs' = [jobs EXCEPT ![j] = Moved(@, "queued")]
    /\ UNCHANGED <<issued, history, historySeq>>

\* The queue trait's general transition; it writes no history row.
Advance(j, revision, next) ==
    /\ j \in VideoJobs
    /\ AtRevision(j, revision)
    /\ CanTransitionTo(jobs[j].state, next)
    /\ jobs' = [jobs EXCEPT ![j] = Moved(@, next)]
    /\ UNCHANGED <<issued, history, historySeq>>

-----------------------------------------------------------------------------
\* A claim never takes a job and leaves one behind whose schedule comes first (or is
\* the same, with a smaller id).
NoOvertaking ==
    [][\A queue \in Kinds : \A i, j \in JobsOf(queue) :
          /\ jobs[i].state = "queued" /\ jobs'[i].state = "queued"
          /\ jobs[j].state = "queued" /\ jobs'[j].state = "dispatching"
          /\ jobs[i].due \in Texts
          => Precedes(j, i)]_storeVars
=============================================================================
