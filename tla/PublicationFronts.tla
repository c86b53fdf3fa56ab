------------------------- MODULE PublicationFronts -------------------------
(***************************************************************************)
(* The programs that take a publication: the daemon's POST /publish, the   *)
(* command line's publish, its directory batches and publish-article, the  *)
(* MCP server's two publish tools and the desktop application's draft and  *)
(* dispatch.  Each keeps what is deferred for the scheduler or goes through*)
(* its targets, one local runner after the other, then records one line of *)
(* terminal history, and then answers.  A runner may be slower than its    *)
(* caller waits, a reply may be lost, the record may fail, a file of a     *)
(* batch may go away while earlier rows are published, and a program may   *)
(* die anywhere.                                                           *)
(***************************************************************************)
EXTENDS Sequences, Naturals, FiniteSets

CONSTANTS
    Invocations,  \* calls of these programs, each made once
    Requests,     \* what they may ask for
    Platforms,    \* video platforms, and the one of the articles
    Files,        \* the files a batch may find in its directory
    MaxRows       \* bound: rows of a request

Videos   == {"http", "cli", "batch", "mcp_video", "desktop_draft", "desktop_dispatch"}
Articles == {"cli_article", "mcp_article"}
Calls    == Videos \cup Articles

\* A row of a request: a batch has one for each line of its workbook, every other
\* call one.  The runners are those its program was given.
RequestRow   == [file : Files, targets : Seq(Platforms)]
RequestSpace == [call : Calls, rows : Seq(RequestRow), runners : SUBSET Platforms,
                 draft : BOOLEAN, scheduled : BOOLEAN, valid : BOOLEAN]

\* Every call has a row and every row a target; validate lets no target come twice.
ASSUME FrontsAssumption ==
    /\ MaxRows \in Nat
    /\ Requests \subseteq RequestSpace
    /\ Requests # {}
    /\ \A r \in Requests :
        /\ Len(r.rows) \in 1 .. MaxRows
        /\ r.call # "batch" => Len(r.rows) = 1
        /\ r.call \in {"batch", "mcp_video"} \cup Articles =>
             \A n \in DOMAIN r.rows : Len(r.rows[n].targets) = 1
        /\ \A n \in DOMAIN r.rows :
             /\ r.rows[n].targets # <<>>
             /\ r.valid => \A k, l \in DOMAIN r.rows[n].targets :
                  r.rows[n].targets[k] = r.rows[n].targets[l] => k = l

VARIABLES
    at,       \* where an invocation is
    request,  \* what it was asked for
    ready,    \* the rows of its plan that name a file
    pending,  \* targets of the current row still to be tried
    reported, \* what became of the others
    results,  \* what became of the rows before
    answer,   \* what the caller was told
    history,  \* terminal history: the row it is about and its state
    jobs,     \* invocations that left a job for the scheduler
    media,    \* the files that are there
    stale,    \* rows whose file went away before their turn
    work      \* what the runners make of each target of each row

callVars == <<at, request, ready, pending, reported, results, answer>>
vars     == <<callVars, history, jobs, media, stale, work>>

Targets == Invocations \X (1 .. MaxRows) \X Platforms

\* The row an invocation is at, and the target it tries.
Current(i)   == Len(results[i]) + 1
Row(i)       == request[i].rows[Current(i)]
WorkOn(i, p) == <<i, Current(i), p>>

Init ==
    /\ at = [i \in Invocations |-> "idle"]
    /\ request = [i \in Invocations |-> CHOOSE r \in Requests : TRUE]
    /\ ready = [i \in Invocations |-> {}]
    /\ pending = [i \in Invocations |-> <<>>]
    /\ reported = [i \in Invocations |-> {}]
    /\ results = [i \in Invocations |-> <<>>]
    /\ answer = [i \in Invocations |-> "none"]
    /\ history = {}
    /\ jobs = {}
    /\ media = Files
    /\ stale = {}
    /\ work = [t \in Targets |-> "none"]

-----------------------------------------------------------------------------
Answer(i, told) ==
    /\ at' = [at EXCEPT ![i] = "answered"]
    /\ answer' = [answer EXCEPT ![i] = told]

\* The desktop takes exactly one loopback runner for every target, and no schedule.
DesktopRefuses(r) ==
    /\ r.call = "desktop_dispatch"
    /\ \/ r.scheduled
       \/ r.runners # {r.rows[1].targets[k] : k \in DOMAIN r.rows[1].targets}

Refuses(r) == ~r.valid \/ DesktopRefuses(r)

\* What is kept for the scheduler.  The daemon and the command line send a draft or a
\* scheduled video to its runner like any other.
Keeps(r) ==
    \/ r.call = "mcp_video" /\ (r.draft \/ r.scheduled)
    \/ r.call = "desktop_draft"
    \/ r.call \in Articles /\ r.scheduled

\* The rows of a batch whose file name one file of the directory has.
Resolved(r) ==
    {n \in DOMAIN r.rows : r.call = "batch" => r.rows[n].file \in media}

Begin(i) ==
    /\ at[i] = "idle"
    /\ \E r \in Requests :
        /\ request' = [request EXCEPT ![i] = r]
        /\ ready' = [ready EXCEPT ![i] = Resolved(r)]
        /\ \/ Refuses(r) /\ Answer(i, "input")
           \/ /\ ~Refuses(r)
              /\ at' = [at EXCEPT ![i] = IF Keeps(r) THEN "keep" ELSE "row"]
              /\ UNCHANGED answer
    /\ UNCHANGED <<pending, reported, results, history, jobs, media, stale, work>>

\* A failure of the repository as each program tells it: the MCP server has one code
\* for whatever its publish tools return, and the desktop takes any error behind a draft
\* for one of the draft.
Failure(i) ==
    IF request[i].call \in {"mcp_video", "mcp_article", "desktop_draft"}
    THEN "input" ELSE "failed"

Keep(i) ==
    /\ at[i] = "keep"
    /\ jobs' = jobs \cup {i}
    /\ Answer(i, "stored")
    /\ UNCHANGED <<request, ready, pending, reported, results, history, media, stale,
                   work>>

KeepFails(i) ==
    /\ at[i] = "keep"
    /\ Answer(i, Failure(i))
    /\ UNCHANGED <<request, ready, pending, reported, results, history, jobs, media,
                   stale, work>>

\* The command line opens the database for each of its publications.
OpenFails(i) ==
    /\ at[i] = "row"
    /\ results[i] = <<>>
    /\ request[i].call \in {"cli", "batch"}
    /\ Answer(i, "failed")
    /\ UNCHANGED <<request, ready, pending, reported, results, history, jobs, media,
                   stale, work>>

-----------------------------------------------------------------------------
(* One row after the other. *)

\* Mutant: the plan of a batch is not checked again.
Sendable_AsPlanned(i) == Current(i) \in ready[i]

\* A file of the plan is looked at again when its row comes.
Sendable(i) ==
    /\ Current(i) \in ready[i]
    /\ request[i].call = "batch" => Row(i).file \in media

\* On to the next row, or to the end.
Finish(i, result) ==
    /\ results' = [results EXCEPT ![i] = Append(@, result)]
    /\ at' = [at EXCEPT ![i] =
         IF Current(i) = Len(request[i].rows) THEN "answer" ELSE "row"]
    /\ pending' = [pending EXCEPT ![i] = <<>>]
    /\ reported' = [reported EXCEPT ![i] = {}]

StartRow(i) ==
    /\ at[i] = "row"
    /\ \/ /\ Sendable(i)
          /\ at' = [at EXCEPT ![i] = "target"]
          /\ pending' = [pending EXCEPT ![i] = Row(i).targets]
          /\ UNCHANGED <<reported, results>>
       \/ ~Sendable(i) /\ Finish(i, "skipped")
    /\ UNCHANGED <<request, ready, answer, history, jobs, media, stale, work>>

\* A target is done with: the next one, the record, or for an article, which has
\* none, the end.
Report(i, outcome) ==
    LET rest == Tail(pending[i]) IN
    /\ pending' = [pending EXCEPT ![i] = rest]
    /\ reported' = [reported EXCEPT ![i] =
         @ \cup {[platform |-> Head(pending[i]), outcome |-> outcome]}]
    /\ at' = [at EXCEPT ![i] = IF rest = <<>> THEN "record" ELSE "target"]

\* A target without a runner is unavailable, and nobody is asked.
NoRunner(i) ==
    /\ at[i] = "target"
    /\ Head(pending[i]) \notin request[i].runners
    /\ Report(i, "unavailable")
    /\ UNCHANGED <<request, ready, results, answer, history, jobs, media, stale, work>>

\* The request reaches the runner of its platform.
Ask(i) ==
    /\ at[i] = "target"
    /\ Head(pending[i]) \in request[i].runners
    /\ at' = [at EXCEPT ![i] = "asked"]
    /\ work' = [work EXCEPT ![WorkOn(i, Head(pending[i]))] = "working"]
    /\ UNCHANGED <<request, ready, pending, reported, results, answer, history, jobs,
                   media, stale>>

\* No connection: a rejection like any other.
Unreachable(i) ==
    /\ at[i] = "target"
    /\ Head(pending[i]) \in request[i].runners
    /\ Report(i, "rejected")
    /\ UNCHANGED <<request, ready, results, answer, history, jobs, media, stale, work>>

\* What a caller may hear of a target: a runner that has published says so, unless the
\* reply is lost or a later step failed; one that has not says why; and a caller that
\* does not wait any longer hears nothing, which is a rejection.
Outcome(status) ==
    IF status = "performed" THEN {"queued", "rejected"}
    ELSE IF status = "refused" THEN {"unavailable", "rejected"} ELSE {"rejected"}

Hear(i) ==
    /\ at[i] = "asked"
    /\ \E outcome \in Outcome(work[WorkOn(i, Head(pending[i]))]) : Report(i, outcome)
    /\ UNCHANGED <<request, ready, results, answer, history, jobs, media, stale, work>>

-----------------------------------------------------------------------------
(* What a row comes to. *)

Outcomes(i) == {entry.outcome : entry \in reported[i]}

\* Mutant: what is not wholly unavailable counts as published.
HistoryState_Any(i) ==
    IF "queued" \in Outcomes(i) THEN "published"
    ELSE IF Outcomes(i) = {"unavailable"} THEN "unavailable" ELSE "failed"

HistoryState(i) ==
    IF Outcomes(i) = {"queued"} THEN "published"
    ELSE IF Outcomes(i) = {"unavailable"} THEN "unavailable" ELSE "failed"

\* dispatch_response, emit_dispatch, row_outcome and video_dispatch_result agree, and
\* so do their counterparts for articles; the desktop lists its targets.
RowResult(i) ==
    IF Outcomes(i) = {"unavailable"} THEN "unavailable"
    ELSE IF Outcomes(i) = {"queued"} THEN "queued" ELSE "rejected"

Record(i) ==
    /\ at[i] = "record"
    /\ history' = IF request[i].call \in Articles THEN history
                  ELSE history \cup {[row |-> <<i, Current(i)>>, state |-> HistoryState(i)]}
    /\ Finish(i, RowResult(i))
    /\ UNCHANGED <<request, ready, answer, jobs, media, stale, work>>

\* Mutant: the result is told although it was not recorded.
RecordFails_Ignored(i) ==
    /\ at[i] = "record"
    /\ request[i].call \in Videos
    /\ Finish(i, RowResult(i))
    /\ UNCHANGED <<request, ready, answer, history, jobs, media, stale, work>>

\* The transaction fails: a batch goes on, every other call ends.
RecordFails(i) ==
    /\ at[i] = "record"
    /\ request[i].call \in Videos
    /\ \/ /\ request[i].call = "batch"
          /\ Finish(i, "rejected")
          /\ UNCHANGED answer
       \/ /\ request[i].call # "batch"
          /\ Answer(i, Failure(i))
          /\ UNCHANGED <<pending, reported, results>>
    /\ UNCHANGED <<request, ready, history, jobs, media, stale, work>>

\* Mutant: a batch ends as well as its last row.
Summary_Last(rows) == rows[Len(rows)]

\* The exit code of a batch: one row that is not like the others makes it a failure.
Summary(rows) ==
    IF \A n \in DOMAIN rows : rows[n] = "queued" THEN "queued"
    ELSE IF \A n \in DOMAIN rows : rows[n] = "unavailable" THEN "unavailable"
    ELSE "rejected"

Conclude(i) ==
    /\ at[i] = "answer"
    /\ Answer(i, Summary(results[i]))
    /\ UNCHANGED <<request, ready, pending, reported, results, history, jobs, media,
                   stale, work>>

-----------------------------------------------------------------------------
(* The world around the programs. *)

\* A runner publishes, or gives up before it has touched the site, whether its caller
\* still waits or not.
Perform ==
    /\ \E t \in Targets :
        /\ work[t] = "working"
        /\ \E status \in {"performed", "refused"} : work' = [work EXCEPT ![t] = status]
    /\ UNCHANGED <<callVars, history, jobs, media, stale>>

\* A file of the directory goes away, or is replaced by something that is not a video
\* of the directory.
Vanish ==
    /\ \E f \in media :
        /\ media' = media \ {f}
        /\ stale' = stale \cup
             {t \in Invocations \X (1 .. MaxRows) :
                LET r == request[t[1]] IN
                /\ at[t[1]] # "idle"
                /\ r.call = "batch"
                /\ t[2] \in DOMAIN r.rows
                /\ r.rows[t[2]].file = f
                /\ t[2] > IF at[t[1]] = "row" THEN Len(results[t[1]]) ELSE Current(t[1])}
    /\ UNCHANGED <<callVars, history, jobs, work>>

Crash(i) ==
    /\ at[i] \notin {"idle", "answered", "dead"}
    /\ at' = [at EXCEPT ![i] = "dead"]
    /\ UNCHANGED <<request, ready, pending, reported, results, answer, history, jobs,
                   media, stale, work>>

Step(i) ==
    \/ Begin(i) \/ Keep(i) \/ KeepFails(i) \/ OpenFails(i) \/ StartRow(i) \/ NoRunner(i)
    \/ Ask(i) \/ Unreachable(i) \/ Hear(i) \/ Record(i) \/ RecordFails(i) \/ Conclude(i)

Next == Perform \/ Vanish \/ \E i \in Invocations : Step(i) \/ Crash(i)

Spec == Init /\ [][Next]_vars

-----------------------------------------------------------------------------
(* Properties. *)

TargetsOf(i, n) ==
    {request[i].rows[n].targets[k] : k \in DOMAIN request[i].rows[n].targets}
Status(i, n)   == {work[<<i, n, p>>] : p \in TargetsOf(i, n)}
RowsOf(i)      == DOMAIN request[i].rows
Recorded(i, n) == \E entry \in history : entry.row = <<i, n>>

TypeOK ==
    /\ at \in [Invocations -> {"idle", "keep", "row", "target", "asked", "record",
                               "answer", "answered", "dead"}]
    /\ request \in [Invocations -> Requests]
    /\ ready \in [Invocations -> SUBSET (1 .. MaxRows)]
    /\ pending \in [Invocations -> Seq(Platforms)]
    /\ reported \in [Invocations -> SUBSET
         [platform : Platforms, outcome : {"queued", "unavailable", "rejected"}]]
    /\ results \in
         [Invocations -> Seq({"queued", "unavailable", "rejected", "skipped"})]
    /\ answer \in [Invocations -> {"none", "input", "queued", "unavailable", "rejected",
                                   "failed", "stored"}]
    /\ history \subseteq [row : Invocations \X (1 .. MaxRows),
                          state : {"published", "unavailable", "failed"}]
    /\ jobs \subseteq Invocations
    /\ media \subseteq Files
    /\ stale \subseteq Invocations \X (1 .. MaxRows)
    /\ work \in [Targets -> {"none", "working", "performed", "refused"}]

\* The recorded state is true of the runners, now and for ever: published only if every
\* target was published, unavailable only if none was or still can be, although a
\* runner may publish after its caller has stopped waiting; and a row has one record.
HistoryTellsTheWork ==
    \A entry \in history :
        LET status == Status(entry.row[1], entry.row[2]) IN
        /\ entry.state = "published" => status = {"performed"}
        /\ entry.state = "unavailable" => status \subseteq {"none", "refused"}
        /\ \A other \in history : other.row = entry.row => other = entry

\* A caller is told of a success only when every target of every row was published and
\* recorded, of unavailable runners only when none was or can be published, and that a
\* publication waits for the scheduler only when it does and no runner has seen it;
\* nothing that was kept for the scheduler is ever sent.
AnswersAreEarned ==
    \A i \in Invocations :
        /\ answer[i] = "queued" => \A n \in RowsOf(i) :
             /\ Status(i, n) = {"performed"}
             /\ request[i].call \in Videos =>
                  [row |-> <<i, n>>, state |-> "published"] \in history
        /\ answer[i] = "unavailable" =>
             \A n \in RowsOf(i) : Status(i, n) \subseteq {"none", "refused"}
        /\ answer[i] = "stored" => i \in jobs
        /\ i \in jobs => \A n \in RowsOf(i) : Status(i, n) = {"none"} /\ ~Recorded(i, n)
        /\ (request[i].call = "mcp_video" /\ request[i].scheduled) =>
             \A n \in RowsOf(i) : Status(i, n) = {"none"}

\* Work on a video that left no record is not passed over: the caller is told of a
\* failure, in a batch for that row and for the whole.
UnrecordedIsTold ==
    \A i \in Invocations : at[i] = "answered" /\ request[i].call \in Videos =>
        \A n \in RowsOf(i) : Status(i, n) # {"none"} /\ ~Recorded(i, n) =>
            \/ answer[i] \in {"failed", "input"}
            \/ answer[i] = "rejected" /\ results[i][n] = "rejected"

\* A file that went away while earlier rows were published is not sent: its row is
\* skipped, without a record, and the batch does not end as a success.
StaleFilesAreSkipped ==
    \A t \in stale :
        /\ Status(t[1], t[2]) = {"none"}
        /\ ~Recorded(t[1], t[2])
        /\ answer[t[1]] \notin {"queued", "unavailable"}
=============================================================================
