# MatriXpost: specifications, model checking and proofs

MatriXpost publishes videos and articles to several platforms through runners on
the local machine.  Requests come in through a command line, an MCP server, a
desktop application or the daemon's HTTP API; scheduled ones wait in a SQLite
file until the daemon `matrixpostd` finds them due and hands them to a runner,
which drives a browser.  This directory holds TLA+ specifications of that
system, the TLC configurations that check them on small instances, and TLAPS
proofs of the results that matter most, for every value of the constants.
`PROJECT.json` maps every definition to the source lines it models.

Paths below are relative to `src/crates/`, but `README.md` is the repository's own.

## 1. Inventory

| component | where | state | operations | how it meets the others |
|---|---|---|---|---|
| publication queues | `matrixpost-core/src/storage.rs`, `storage/articles.rs`, `types/article.rs` | `jobs`, `article_jobs`, `history`, `article_history`, four sequences | enqueue, claim due, complete with history, requeue, advance, record an immediate dispatch, append (import) history | one SQLite file shared by every process |
| scheduler | `matrixpostd/src/scheduler.rs`, `main.rs` | the batch of one tick | one tick per interval: claim video jobs, dispatch, complete or requeue, then articles | queue operations; runner requests |
| registry and transport | `matrixpost-core/src/runner/` | configured runners (immutable) | dispatch one target, dispatch all, article dispatch | HTTP to a loopback runner, 30 s timeout |
| webdriver runner | `matrixpost-webdriver-runner/src/service.rs`, `webdriver/` | browser sessions, terminal QR attempts | publish, status, login QR: create, poll, refresh, cancel, expire | HTTP from registry, CLI, desktop; WebDriver to the browser |
| platform flows | `webdriver/<site>.rs`, `profiles/` | none | form steps of one site | called by the runner |
| business objects | `matrixpost-core/src/lifecycle.rs`, `storage/lifecycle.rs` | objects, relations, ledger entries, attributions | create, transition, append an entry, relate, attribute, list | same SQLite file; daemon, CLI, MCP, desktop |
| migrations | `storage.rs:138`, `storage/articles.rs:49` | `schema_migrations` | version 2 to 9 on open | every process that opens the file |
| accounts, configuration | `storage.rs` | rows by id | upsert, read, delete | CLI, MCP, desktop |
| requests and schedules | `types/` | none | parse, validate, redact | all callers |
| media staging | `matrixpost-core/src/media.rs` | a staging directory | stage, clean up | the runner's publish handler |
| daemon API | `matrixpostd/src/api.rs`, `metadata.rs` | none of its own | HTTP handlers | repository, registry |
| command line | `matrixpost-cli/src/` | none of its own | publish, batch, queries, QR login | repository, registry |
| MCP server, desktop | `matrixpost-mcp/src/`, `matrixpost-desktop/src/` | none of their own | enqueue, dispatch, read | repository, registry, runners |

What is hard: several processes on one file with optimistic revisions; work
handed to a runner whose answer can be late or lost; a completion that fails
after the work was taken; a daemon that dies between two transactions; two
queues sharing one batch; the lifetime of login attempts against expiry,
refresh and lost responses; browser workflows that fail after the click that
publishes.  `PROJECT.json` lists each hazard at its line.

What makes each part correct:

* *Queues*: a claim is exclusive; the terminal state and its one history row
  appear together; a settled job never changes; a revision names one value of a
  row; ids of history rows are unique; claims respect order and cap.
* *Scheduler*: nothing is dispatched before the text of its due time, which is its
  due time only when it is written as the daemon writes the clock; a duplicate
  delivery needs a failed completion; "published" means every target took the work;
  only crashes and failed requeues lose a claim; due jobs settle.
* *QR attempts*: every slot comes back; an attempt has one owner, so it is closed
  once and never while someone captures from it; the cap holds; an expiry task
  ends its own attempt only; only a lost request or a killed process can leave an
  attempt that nobody will cancel.
* *Runner publish*: the site is asked at most once, whatever the client was told;
  "queued" means every phase succeeded, cleanup included; media is on the site
  before the click; a draft stays a draft; an old success message acknowledges
  nothing; every way out of the handler asks for the end of the session and of the
  staged copy, and what remains all the same (the end failed, the session's creation
  was not answered, the runner died) is never told as success or as nothing done.
* *Business objects*: a transition replaces the row it has checked; an answered
  success is stored; what hangs off an object is appended once; a missing object is
  reported as missing, by every program.
* *Migrations*: the versions on record tell the schema, whoever opens the file and
  whatever fails; no recorded publication is lost; everybody opens in the end.
* *Publication calls* (API, command line, MCP, desktop): what is recorded and what
  the caller is told is true of what the runners did, also when they do it late.
* *Schedules*: a claim takes what is due and nothing else.  This does not hold, in
  either direction (section 3, disagreement 3).

## 2. Modules

| module | models | uses |
|---|---|---|
| `PublishStates` | `PublishState` and its transition graph | |
| `PublicationStore` | the tables and each queue operation as one atomic step | `PublishStates` |
| `PublicationQueue` | the operations as a library: any caller, any revision | `PublicationStore` |
| `Scheduler` | daemons, ticks, runners' answers, faults, crashes, clock, other processes | `PublicationStore`, `PublicationLedger` |
| `PublicationLedger` | the abstract promise: accept, take up, put back, settle once | `PublishStates` |
| `TerminalQrAttempts` | the runner's login attempts: slots, mutex, handlers, expiry tasks, driver | |
| `TerminalQrLogin` | command line logins over loopback HTTP on one runner | `TerminalQrAttempts` |
| `PublishExchange` | the abstract promise of one publication: asked at most once, answers that mean something | |
| `RunnerPublish` | one publication: client, handler, staged copy, session, page | `PublishExchange` |
| `BusinessStates` | the lifecycle and approval graphs | |
| `BusinessRecords` | the abstract promise: a versioned, append-only store | `BusinessStates` |
| `BusinessLifecycle` | every operation of `LifecycleRepository`, query by query, called by four programs | `BusinessRecords` |
| `Migration` | opening one state file, version by version, by several programs | |
| `PublicationFronts` | the calls that publish: from the request over the runners and the record to the answer | |
| `LocalSchedules` | due times as texts, and the claim that compares them | |
| `MCScheduler`, `MCPublicationQueue`, `MCTerminalQr`, `MCTerminalQrLogin`, `MCBusinessLifecycle`, `MCPublicationFronts` | instances for TLC | |
| `PublicationStoreProofs` | facts about the operations | `PublicationStore` |
| `PublicationQueueProofs` | types, revisions, settled jobs, records and order, for any caller | `PublicationQueue`, `PublicationStoreProofs` |
| `SchedulerProofs` | types, claims, batches, records, ids, finality, order; deliveries before the due text, duplicate and missing ones; orphans; the scheduler implements the ledger | `Scheduler`, `PublicationStoreProofs` |
| `TerminalQrProofs` | types and safety of attempts and of logins | `TerminalQrLogin` |
| `PublicationFrontsProofs` | types and safety of the publication calls | `PublicationFronts` |
| `RunnerPublishProofs` | types, safety and refinement of one publication | `RunnerPublish` |
| `BusinessLifecycleProofs` | types, safety and refinement of the business records | `BusinessLifecycle` |
| `MigrationProofs` | types and safety of the migrations | `Migration` |

A definition whose name has a suffix after an underscore (`DueJobs_Open`) is a
faulty variant of the definition of that name.  It is no part of a
specification; with it in place of the original, the property named in
`PROJECT.json` must fail, which shows the property is sensitive to that fault.

### State and actions against the code

`jobs[j]` is the row of `j` in `jobs` or `article_jobs`: state, due text and
revision (a job not yet inserted is `Absent`).  A due time is the text it was given
in, and claims compare texts: `Texts` are ranks in SQLite's order of them, and any of
them may be enqueued.  `CurrentLocalSchedule` is what the clock writes, `ClockText[now]`;
these texts are in the order of their times (`SchedulerAssumption`), other texts lie
anywhere between them.  `history` holds both history
tables; a row's `request` field stands for the redacted request of the job it
reports on, `NoJob` for an immediate dispatch or an import.  `issued` are the ids
the sequences have handed out; enqueue commits the id and the row separately, so
it is `AllocateJobId` followed by `InsertJob`.  For articles the two statements
share one lock but no transaction, so the same two actions model them.

Every other operation is one SQLite transaction and one action:
`ClaimDue` (immediate transaction: select, update every row, or roll back),
`CompleteJobWithHistory`, `RequeueClaim`, `Advance`,
`RecordProviderDispatchHistory`, `AppendHistory`.  The first two conjuncts of each
are the code's checks; `CanComplete` adds `state = 'dispatching'` for articles,
which only the article UPDATE has.  `FirstFree` is the conflict-retry loop of
`insert_terminal_history`: the sequence moves on until an id is unused.
`IdRank` is SQLite's text order of ids: any order, since `job-10` sorts before
`job-9`.

In `Scheduler` a daemon's `step` walks through `run_scheduler_tick_at`:

| code | action |
|---|---|
| interval fires, clock read once (`scheduler.rs:145-155`) | `StartTick` |
| `claim_due` / `claim_due_articles` (37-40, 90-94) | `ClaimBatch`, or `ClaimFails`, which ends the tick (`?`) |
| one target's exchange with its runner (`registry.rs:125-168`) | `DispatchTarget` |
| classification of the report (41-64, 97-117) | `TerminalState` |
| `complete_*_with_history` succeeds / fails (65-75, 118-126) | `CompleteJob` / `CompleteFails` |
| requeue succeeds / fails (76-88, 127-133) | `RequeueJob` / `RequeueFails` |
| `batch_size.saturating_sub(claimed)` (90) | `room`, `TurnToArticles` |
| the tick returns | `FinishTick` |
| the process dies and is restarted (`main.rs:27-76`) | `Crash` |

`MayAnswer` gives the outcomes of one exchange: an unregistered platform is
unavailable without contact; a registered runner may say so, may queue the work,
or the exchange may count as rejected with or without the work having been
taken (timeout, lost or malformed answer: `transport.rs:123-149`).  A registered
platform's targets may be asked in any order; the code goes through them in the
request's order.  `deliveries`, `lost` and `dropped` (what crashed daemons held) are
history variables.

Abstractions: requests are reduced to draft flag, due text and targets;
storage failures happen only at the calls in `FaultPoints`; the clock never goes
back; rows are never corrupt; no shipped program calls `advance` or
`transition_job`, so `Scheduler` has no such action (`PublicationQueue` has).  A
history import may use any id in `ImportableIds`.

In `TerminalQrAttempts` the processes are the threads that run handlers and one
expiry task per attempt (named like the attempt).  `service.rs` against actions:

| code | action |
|---|---|
| `remove_expired` (136-157) | `RemoveExpired`, then `Close` and `Release` for each |
| `reserve_slot` (110-126) | `LoadSlots`, `SwapSlots` once per round, `RefuseSlot` |
| `start` (190-222) | `OpenSession`, `Capture`, `InsertAttempt` |
| the spawn after the answer (592-594), the task (159-179) | `ScheduleExpiry`, `Wake` |
| `refresh` (237-282) | `RejectUnknown`, `RefreshExpired`, `RefreshFound` (takes `lock`), `Recapture` (returns it) |
| `cancel` (284-307) | `RejectUnknown`, `Cancel` |
| every `close()`, every `release_slot()` | `Close`, `Release` |

A section under the mutex is one action guarded by `Unlocked`, except the capture of
a refresh, during which driver requests run.  Time is kept as the elapsed times the code
compares (`age`, `slept`), which stop at the lifetime, so behaviours need no bound
on time.  `Attempts` are identities: one stands for a session, its record and its
task, and goes back to `Fresh` if no session came of it.  Tokens may be drawn again
once they have left the map, as in the code.  `session` is what the browser
knows: `left` means that the runner no longer tries to close it.  Left out: a
poisoned mutex, an executor that returns an attempt for another platform (the
only one does not), and requests refused before they reach the attempts.

`TerminalQrLogin` adds `run_terminal_qr_login` of the command line: `StartLogin`,
`Draw` (draw, wait, refresh or give up drawing), `Proceed` (the match on the
outcome), `GiveUp` (timeout or broken connection), `Kill`.  A request given up may
be dropped or still be served, and its answer goes nowhere.  The runner never
answers "pending", so that branch is left out.

`RunnerPublish` is one request from the client's call to the end of the handler.
`at` walks through `publish` / `publish_article` (`service.rs:392-534`), and in the
phase `form` the index `n` walks through `Flow`, of which each site takes the
steps `Takes` names:

| code | action |
|---|---|
| the article client refuses a schedule, else posts (`runner/article.rs:225-242`) | `Send` |
| 30 s without an answer, no connection, any malformed answer (`transport.rs:101-148`) | `GiveUp`, `Undelivered`, `ReplyLost` |
| version and shape, executor, staging support (`service.rs:396-463`) | `Receive` |
| `stage_with` (`media.rs:153-213`) | `Stage`, `StageFails` |
| checks before the session (`video.rs:7-36`, `article.rs:172-181`) | `Check`, `CheckFails` |
| `session()` | `OpenSession`, `OpenFails` |
| one step of the workflow (`video.rs:38-129`, `article.rs:183-220`) | `Step`; `Poll` for each repeated look at the page; `StepFails` |
| the look for a success message before the click | the step `unmarked`, with `Unseen` |
| the click on the publish or draft action | `Act`, `ActReplyLost` |
| `wait_for_success_transition`, `wait_for_fanqie_result` | `Acknowledge`, `AwaitAcknowledgement`, `Unacknowledged` |
| `delete_session` on every path (`video.rs:130-132`) | `CloseSession`, `CloseFails` |
| removal of the copy (`service.rs:470-477`) | `Unstage`, `UnstageFails` |
| the answer as the client reads it | `Reply` |
| the process dies | `Crash` |

A `Flow` step stands for one call of `publish`; the dialogs inside it (a chooser, a
declaration, chips) change nothing a property speaks of, and any of their requests
can fail, so they are `Poll`, `Step` or `StepFails`.  `fill` stands for all texts.
The page is the environment: the site finishes an upload (`FinishUpload`, never
before the file step), shows or hides a success message, changes Toutiao's footer,
or does nothing of it.  A message is `old` when it came before the last steps,
`late` when it came between the check and the click, `new` afterwards: the code
cannot tell the last two apart, and the model does not pretend that it can.  A lookup
misses a message that is there when its request fails, or when the first match on the
page is a hidden one, since `find_once` takes the first (`webdriver/primitives.rs:27-42`).  The
waits use one bound `MaxPolls` (3, 30 or 150 in the code, `profiles/`), Fanqie's
result shares `MaxChecks`.  `session` and `file` are `left` when the runner could not
end them, or does not know of them, and `abandoned` when it died: `ResourcesAreScoped`
says that the first is a rejection and that neither is ever told as a success.  Handlers do not wait for their client (no `await`
between request and answer), so `GiveUp` leaves the handler running.  Left out:
an executor that returns an empty job identifier, which the two never do; Baijiahao's signal
that an upload is going on (`profiles/baijiahao.rs:16`), so nothing is said of its order
of upload and click; the other handlers of the runner (login page, account and review status).

Towards the scheduler this module justifies `Scheduler!MayAnswer`, which is
one step for a whole exchange: `ImplementsExchange` says that "unavailable" comes
without the work being taken, "queued" with it, "rejected" with either.  What
`MayAnswer` shortens is time: the site may be asked after the client was told
"rejected", so a delivery there is counted at the answer, here at the click.

`BusinessLifecycle` has one connection per caller, as each program has; a program's
own connection is behind a mutex, so its calls do not interleave with each other.

| code | action |
|---|---|
| what a program refuses before it turns to the repository (`api.rs:104-124`, `matrixpost-cli/src/query.rs:57-132`, input types) | `Begin`, by `RefusesInput` |
| `require_business_object`, `object_or_not_found` | `LookUp` |
| the existence queries of an operation, in the code's order | `Queries`, one `Check` each; `Refused` says what each may end in |
| the INSERT, and the keys of its table | `Insert` |
| `transition_business_object`: SELECT and checks, UPDATE, COMMIT | `Load`, `Update`, `Commit` |
| a list or one object | `Read` |
| a statement refused by a lock, the end of a program | `Busy`, `Crash` |
| the error as each program tells it | `Told` |

Existence queries run in autocommit mode, so another program's insertion may come
between any two of them, and then the table's keys refuse the INSERT.  A transition
is one deferred transaction: from its SELECT it holds SQLite's shared lock, from its
UPDATE the reserved lock, and its COMMIT waits for all other readers.  The locks are
not variables: they follow from where the calls are (`Reading`, `Reserved`).  Two
transitions that have both read are a deadlock that SQLite resolves by refusing one,
which is `Busy`.  `ConcurrentBusinessObjectUpdate` cannot happen behind the shared
lock, and `CheckedRowIsCurrent` is why.
`checked_add` works on a `u64` (`lifecycle.rs:148-150`) and never refuses a revision
read from SQLite: the successor of the largest one is no SQLite integer, so binding it to
the UPDATE fails and is told as a database error (`Unbindable`).  Left out: names, amounts, attributes, times.

`Migration` follows `SqliteRepository::open` (`storage.rs:123-182`,
`articles.rs:49-125`): `Base` and `Commit` for the first batch, then for each version
`Check`, `Begin`, `Mark`, `Commit`, each a place where another program may do the same;
version 9 first reads the history it is about to rewrite (`ReadLegacy`), outside the
transaction that replaces it (`Begin`, `Rewrite`).  Nothing orders a program's look
for a version and another's commit of it: the second batch then meets tables, columns
or a version that are there, fails as a whole, and so does the open (`Fail`).
`OldBuildRecords` is a program of an earlier build that has opened the file and goes on
recording while its columns are there.

`PublicationFronts` is one call of `POST /publish`, `publish`, `publish --dir`,
`publish-article`, `publish_video`, `publish_article`, `save_local_draft` or
`dispatch_to_local_runner`:

| code | action |
|---|---|
| the request is parsed and refused, or a batch is planned (`batch.rs:385-415`) | `Begin`, by `Refuses` and `Resolved` |
| a draft or scheduled request is kept, or is not (`matrixpost-mcp/src/service.rs:438-500`, `app.rs:62-80`) | `Keep`, `KeepFails`, by `Keeps` |
| the command line opens the database | `OpenFails` |
| the next row of a batch, looked at again (`batch.rs:497-552`) | `StartRow`, by `Sendable` |
| one target: no runner, no connection, or a request and its answer (`registry.rs:125-168`) | `NoRunner`, `Unreachable`, `Ask` and `Hear` |
| one line of history, from all targets (`storage.rs:698-718`) | `Record`, `RecordFails` |
| the answer, of a batch from all rows (`batch.rs:451-476`) | `RowResult`, `Summary`, `Conclude` |

`Perform` is a runner's publication, which may come before or after its caller has
stopped waiting: the rest of what a runner does is `RunnerPublish`.  `Vanish` takes a
file out of the directory.  A request's data is its targets, its runners, whether it is
a draft or scheduled, and whether it passes validation.

`LocalSchedules` keeps of `LocalSchedule::parse` that a text chrono can read is kept as it
is, and of `claim_due` its comparison of texts.  `Written` are texts that all read as one
hour: padded or with one digit, after an extra space or none, the whole behind a space, a
sign, a no-break space or nothing.  All are of one day, so the date is one character.

## 3. Runs

| run | instance | question |
|---|---|---|
| `scheduler_contention` | 2 daemons (symmetric), 2 video jobs with 2 targets and 1, batch 2, 2 faults, 1 crash, a clock that stands | Can daemons, faults and a crash break exclusiveness, duplicate or lose work, also when a completion fails and then the requeue; was what was published taken? Is every step a ledger step? |
| `scheduler_records` | 1 daemon, a video job and an article with 1 target each, a clock of 2 instants, 3 due texts, batches of one, 1 failing claim or completion, an immediate dispatch and an import that uses `scheduled-history-1`, fairness | Is anything dispatched before its text, also the article claimed with the time the tick began at; do both queues share one batch; do records agree with states, are ids unique; does every due job settle? |
| `scheduler_crash` | 1 daemon, 1 crash, fairness | Violated: a claimed job may stay claimed for ever |
| `queue_library` | 2 video jobs, 1 article, cap 1, limits 0 to 2, revisions up to 3 | Do the optimistic checks suffice for any caller? Does a claim take what was due first? |
| `qr_attempts` | 2 threads, 3 attempts, 2 tokens, cap 2, a second platform nobody started for, 1 lost answer (symmetric) | Has each attempt one owner, each slot an attempt; is a session ever closed under a capture, or forgotten; does an expiry task end only what it should, and always that? |
| `qr_logins` | 2 logins, 1 thread, cap 1, 1 token, 1 refresh, 1 request given up, 1 kill, fairness | What can leave an attempt nobody will cancel; does every login end, and every slot come back? |
| `runner_publish` | each of 9 sites with every request, 2 looks per wait, 3 for the acknowledgement, 1 old message, 2 changes of the footer, 1 missed lookup, a crash, fairness | What does the answer mean, what is left behind, in which order does the workflow act; do client and handler end? |
| `runner_markers` | Fanqie, no missed lookup | Violated: a message visible before the click "is rejected" |
| `business` | 2 programs, 2 objects that want one external id, 12 calls that can collide, revisions 0 and 1 | Do the interleaved queries behave as a versioned, append-only store; is a checked row the one replaced, a success stored, a missing object told? |
| `migration` | 2 programs, a file at no version, at 4 or at 8, 3 history rows of which one cannot be parsed, an earlier build that goes on, 2 busy statements or deaths, fairness | Do versions tell the schema, is history kept, does everybody open in the end? |
| `fronts` | 2 calls (symmetric) of 14 kinds, up to 2 targets or 2 rows, 1 file | Is what is recorded and told true of the runners? |
| `local_schedules` | 2 jobs, hours 8 to 10, 16 ways to write one of them | Violated: a claim takes what is "due on or before `due_through`", and "future jobs" are excluded |

Bounds, and why they are enough: two jobs on one queue make order and batches
visible, an article makes the shared room visible; two daemons are the smallest
contention, and claims are pairwise; two faults and one crash reach each recovery
branch and the orphan bound: a completion that fails, a requeue that works or fails
after it, and a batch lost with its daemon.  `scheduler_records` has one fault and no
failing requeue, since a job it strands does not settle; two instants separate due from
not yet due, three texts are one before the clock and one for each instant; two
targets separate "all" from "any"; `MaxHistory` is never the reason a step of a
listed run is impossible other than for the retry loop's numbers.  Deadlock is
checked except in the `PublicationQueue` run, where the bound on revisions
stops every caller, and in those where programs may simply be done (runner,
business, migration, fronts, schedules); a daemon always has a next step, so the scheduler runs
check it.  In the QR runs `Tick` is always possible, so a deadlock of the threads
would show as a failure of `SlotsComeBack` or `LoginsEnd`.  Their bounds: two threads
race for one slot, a third attempt meets a full map of two, and takes a token that
an earlier one has left.  `qr_logins` has one handler thread: a handler that keeps the
mutex then blocks the next one and the expiry tasks, while the two threads' races belong to
`qr_attempts`, whose requests are arbitrary.

`ExchangeEnds` says that it stops only when both sides are done.  Two looks are a
first and a last one, three checks add one in between; one old message is enough
to be taken for a new one, and two footer changes take a footer away and bring
another.

Two programs are the smallest race, and locks, keys and versions are contended in
pairs; two revisions have one step between them
and one that cannot be bound.  A state file before
version 4, one in the middle and one before the redaction start every stretch of the
migration; one legacy row to be kept, one recorded meanwhile and one unreadable row
are the three fates a row has.  Two targets tell "all" from "any"; two rows of a batch
have one behind a slow runner, and one file for both can vanish between them
(`MaxRows` is 2).  Two
calls share a directory and the tables, and nothing else.

Fairness (`FairSpec`): each daemon's `TickStep` is weakly fair.  The loop ticks
for ever with an interval of at least one second (`config.rs:93`), errors only
end a tick, storage calls return, and every runner request has a timeout
(`transport.rs:103`), so a daemon's next step is never put off for ever.  Nothing
is assumed of crashes, faults, the clock, or callers.  `DueJobsSettle` is checked
without crashes and with requeues that work; the two findings on `scheduler_crash`
and the orphan bound say what happens otherwise.

For the attempts (`FairSpec`, `FairLoginSpec`) each thread and each expiry task is
weakly fair once it has something to do, since every driver request has a
timeout (`webdriver/transport.rs:13-15`), and time passes.  The mutex is not assumed
to be fair: whoever keeps winning it with refreshes of an expired attempt ends
that attempt.  `FairLoginSpec` adds that the runner reads requests.

For a publication `GiveUp` and `Handler` are weakly fair: the client's call has a
timeout (`transport.rs:103`), each of the handler's requests has one, and its
waits have a number of attempts.  Nothing is assumed of the page or the network.

`Migration!FairSpec` lets a program that is opening the file go on, and one that
failed or ended start again: `deploy/matrixpostd.service` restarts the daemon, users
the rest.  Busy statements and deaths are finitely many.

### Disagreements between code and documentation

1. `scheduler_crash`: nothing recovers a job claimed by a daemon that died,
   although a claimed task is called an "at-least-once local workflow"
   (`scheduler.rs:24`).  `OnlyFaultsOrphan` bounds how many jobs this can strand: a batch
   for each crash, and one for each two failed calls.
2. `runner_markers`: "a success marker already visible before the click [...] is
   rejected" (`README.md:141-142`).  Fanqie is published without that check
   (`video.rs:103-105`), and any visible success notice ends its wait.
   `OldMarkersAreCaught` bounds the damage elsewhere: a lookup must miss it.
3. `local_schedules`: a claim takes jobs "due on or before `due_through`" and "future
   jobs [...] are excluded" (`storage.rs:87-92`), but it compares texts, and a schedule is
   kept as it was written (`primitives.rs:15-19`).  Early, which the run shows: a text that
   begins with a space or a sign, or with a space for the hour's zero, comes before the
   clock's text and is claimed hours, or years, before its time.  Late, from the same
   model: "8:" is after "08:" and after "23:", so such a job waits for the next date, and
   one that begins with a no-break space waits for ever.

More, read in the code and modelled, but not made runs of their own:

* A retry that finds its runner unavailable is recorded with "no remote platform
  publication was attempted" (`scheduler.rs:12-13`), although the attempt before it,
  whose completion failed, may have been taken.
* The command line "cancels [an attempt] on timeout or local error"
  (`README.md:102-103`): a process that gives up its start request has no token to
  cancel with.  `OrphansWereMissed` counts such attempts, `SlotsComeBack` ends them.
* `complete_job_with_history` "completes a claimed job" (`storage.rs:46`), but for video
  jobs checks only graph and revision; `RecordsAgree` holds all the same.
* "Staging is not invoked by any provider" and "remote media staging is intentionally
  outside this runner" (`README.md:28-29`, `143-144`): the runner started
  with a staging directory fetches a publication's remote media itself, and removes the
  copy (`matrixpost-webdriver-runner/src/service.rs:452-478`).  The models follow the code;
  `ResourcesAreScoped` and `QueuedIsComplete` speak of that copy.
* A temporary session "is closed by the service on every terminal path"
  (`webdriver/terminal_qr.rs:4-5`), but the service asks once and does not know of a
  session whose creation was not answered; `EndedIsClosed` says that lost answers are
  the only cause of a session left behind.
* A history row that an earlier build commits between the read of a redaction and its
  transaction is dropped with the old table (`exposed` in `Migration`); one row that
  cannot be parsed keeps every program from opening the file.
* The MCP publish tools answer `invalid_input` also when the record failed after the
  runners had published (`service.rs:90`); `UnrecordedIsTold` accepts that as an answer.
* The daemon and the command line send drafts and scheduled videos to their runners at
  once, the MCP server and the desktop keep them (`Keeps`).  Immediate articles leave no
  history, from any program.
* The daemon answers an unknown history record as a bad request, the MCP server and the
  desktop as not found (`Told`).

## 4. Proofs

Every safety invariant and action property that a passing run checks, and each of the
three refinements, is a theorem for every value of the constants that the `ASSUME` of
its module admits; what is not proved is at the end of this section.  A theorem names
the run's property, so the run shows it on an instance small enough to be enumerated.

### Scheduler

The proofs hold for any number of daemons, jobs, platforms, faults, crashes and
any batch size, from `StoreAssumption` and `SchedulerAssumption` alone: finitely
many jobs, the two id spaces disjoint, a total order of ids, every job has a
target, batch size between 1 and the cap, and clock texts that are in the order of their
times.  Due texts are any.

| theorem | statement | argument |
|---|---|---|
| `TypeCorrect` | `Spec => []TypeOK` | one step per action; the operations' lemmas in `PublicationStoreProofs` |
| `ClaimExclusivity` | `Spec => []ClaimsAreExclusive` | inductive with `TypeOK`: a claim takes only queued rows, so never a held one; only the holder moves a dispatching row |
| `RecordsStaySound`: `OneRecordPerOutcome` and `UniqueHistoryIds` | `Spec => []RecordsAreSound` | needs `ClaimsAreExclusive`: what is completed was dispatching, so had no record; every insert uses an id no row had (`HistorySteps`) |
| `SettledIsFinal` | `Spec => OutcomeIsFinal` | same |
| `ClaimsKeepOrder` | `Spec => NoOvertaking` | `ClaimInOrder`: if `i` preceded `j`, everything before `i` would be before `j`, so `i` would be selected whenever `j` is |
| `OneBatchForBoth` | `Spec => []BatchIsShared` | `BatchInv`: a tick holds nothing before its claim, and finitely much after; `ClaimFits`: a claim takes at most the limit |
| `OrphansNeedFaults` | `Spec => []OnlyFaultsOrphan` | `DroppedInv`: a crash drops at most a batch, by `BatchIsShared`; `StrayInv`: every other orphan had a failed completion and a failed requeue |
| `NoEarlyDelivery` | `Spec => []NothingEarly` | `EarlyInv`: readings of the clock are in the past, so the text of a dispatching row is not after the clock's; of texts the clock writes it follows that their time has come, of others nothing does |
| `DuplicatesAreLosses` | `Spec => []DuplicatesNeedLoss` | `AttemptInv`: every delivery of an open job is paid for by a failed completion, and so is every delivery of a claimed one except the answers of the attempt under way |
| `PublishedMeansTaken` | `Spec => []PublishedWasTaken` | `TakenInv`: answers belong to the current job only, and a "queued" answer stands for a delivery |
| `SchedulerImplementsLedger` | `Spec => Ledger!Spec` | each store step maps to a ledger step (`MapsInsert`, `MapsClaim`, ...), the rest stutter; `RecordedOnce` gives the empty entry that settling needs |

`ClaimFits` is where the limit of a claim becomes a number of jobs: `Claimable` are the
due jobs with fewer than `limit` due jobs before them, and the number of jobs before each
numbers what is taken from 0 to `limit - 1`, no number twice since the order is total.  `BatchIsShared` is not inductive, as it does not say that a tick which
claims has nothing in hand.

`DuplicatesNeedLoss` is not inductive: it does not say that a job put back into
the queue has no unpaid delivery, nor that only the current job of a batch can
have one.  `AttemptInv` says both, and needs `CurrentUnique`, that a batch has one
current job, which follows from the total order of due texts and ids; that
there are due texts comes from `EarlyInv`.

### Queues as a library

From `StoreAssumption` and `QueueAssumption` alone, for any caller, revision and limit:

| theorem | statement | argument |
|---|---|---|
| `QueueTypes` | `Spec => []TypeOK` | one step per operation, from the lemmas of `PublicationStoreProofs` |
| `RevisionsNameRows` | `Spec => []RevisionNamesOneRow` | `RevisionInv`: whatever has been seen of a row is `Behind` it, an earlier revision or the row itself; alone the property says nothing of revisions still to come |
| `SettledJobsStay` | `Spec => SettledStaysSettled` | the graph has no way out of a terminal state, and a claim takes queued jobs |
| `RecordsKeepAgreeing` | `Spec => []RecordsAgree` | `HistorySteps`: a row about a job is added by the step that settles it, and by none after |
| `ClaimsStayInOrder` | `Spec => ClaimsInOrder` | `ClaimInOrder`, as for the scheduler |

### One publication by the runner

From `ExchangeAssumption` alone (known sites, at least one attempt per wait):

| theorem | statement | argument |
|---|---|---|
| `ExchangeTypes` | `Spec => []TypeOK` | one step per action |
| `QueuedMeansComplete`, `RefusedMeansUntouched` | what the answers mean | `Outcomes` says it of the verdict while it waits to be told, `Answers` of what was told |
| `ResourcesScoped` | `Spec => []ResourcesAreScoped` | `Phases` and `Copies`: session and copy as functions of the phase; `Outcomes` and `Answers`: what was left behind has been rejected, before and after it is told |
| `ActionsStayDue`: `UploadsComeFirst` | `Spec => []ActionsAreDue` | `Uploads`: the place where the site's workflow waits lies behind only if the media is there, and `StepPasses`: no step the request takes is jumped over |
| and `DraftsStayDrafts` | `Spec => []ActionsAreDue` | `Drafts`: no session for drafts of sites without them; behind the probe the layout is known |
| `OldMarkersFail` | `Spec => []OldMarkersAreCaught` | `Markers`: an old message behind the check was missed by it |
| `ExchangeImplemented` | `Spec => ImplementsExchange` | the clicks are `Ask`, what tells the client is `Tell`, the rest stutters; `Phases` gives at most one click |

None of the safety properties is inductive: they speak of the end of the exchange
and say nothing of the way there.  `ExchangeInvariant` is the conjunction of the
named parts; `Frame` says once which actions change what.

### Business records

From `LifecycleAssumption` alone, for any number of programs, calls and rows:

| theorem | statement | argument |
|---|---|---|
| `LifecycleTypes` | `Spec => []TypeOK` | one step per action; a revision is stored only if it can be bound to the UPDATE (`Unbindable`) |
| `KeysStayUnique` | `Spec => []OneRowPerKey` | the keys of the INSERT, and a move that keeps them |
| `TransitionsAreIsolated` | `Spec => []CheckedRowIsCurrent` | while a call is between its load and its commit no other INSERT or COMMIT is enabled |
| `SuccessIsDurable` | `Spec => []OkIsStored` | `Answered`: objects are only moved on, the rest only grows |
| `MissingIsReported` | `Spec => []MissingIsNotFound` | `Prepared`: what a call has still to ask, from where it is |
| `LifecycleImplementsRecords` | `Spec => ImplementsRecords` | a commit is one `Move` of the one row it has checked (`CheckedRowIsCurrent`, `OneRowPerKey`), an INSERT one append, all else stutters |

No property there is inductive without `Prepared`: that an operation's answer follows
from its queries needs to know which of them a call has behind it.

### Migrations

From `MigrationAssumption` alone, for any number of programs, history rows and faults:

| theorem | statement | argument |
|---|---|---|
| `MigrationTypes` | `Spec => []TypeOK` | one step per action |
| `VersionsAreTheSchema` | `Spec => []VersionsTellSchema` | `Sighted`: versions are never taken away, so what a program has seen stays true without a lock; `Worked`: the key of `schema_migrations` tells a transaction whether its version is still missing |
| `HistorySurvives` | `Spec => []HistoryIsKept` | `Gathered`: while the history is not redacted, only an earlier build adds to it; a program whose rows are stale finds version 9 and fails |

Neither is inductive: both need to know what is in a transaction before it commits.
The four parts of `Here` say it of each program, and `Undisturbed` says once what the
others may do behind its back.

### QR attempts and logins

From `AttemptsAssumption` alone (finitely many attempts and tokens, tokens enough for
the cap), for any number of threads, attempts, lost answers and any cap and lifetime:

| theorem | statement | argument |
|---|---|---|
| `SlotsNeverLeak` | `Spec => []SlotsAreAccounted` | `OwnerKinds`: each step keeps what is in the map and in hand, or moves one attempt from one owner to another, or takes a slot or gives one back with an attempt; so the count stays |
| `CapAndCapturesHold` | `Spec => []SessionsAreGuarded` | a slot is taken below the cap only, open sessions are held ones, and who captures has the mutex or the attempt in hand |
| `NoSessionForgotten` | `Spec => []EndedIsClosed` | `LeftInv`, and `Cancelling`: what a handler that cancels has in hand, at each of its places |
| `AttemptsEndForCause` | `Spec => EndedForCause` | `TimedAs`: an attempt in the map has the token that its task was told, or its start is about to tell it |

`AttemptsInv` is one invariant, since its parts need each other.  For each thread it
says what it may have in hand at each of its places (`Handling`, `Capturing`,
`Cancelling`), for each expiry task how it relates to its attempt (`Tasked`), and of the
whole that an attempt has one thread that starts it, one owner, and an open session exactly
while it is held (`OneStart`, `OneOwner`, `SessionsAreHeld`).  That a task may sleep on
while its attempt is cancelled and the token drawn again is why `EndedForCause` and
`SlotsAreAccounted` are not inductive: they do not say whose token a sleeping task has.

From `LoginAssumption` as well, for any number of logins, refreshes, requests given up
and kills:

| theorem | statement | argument |
|---|---|---|
| `OrphansAreMissed` | `LoginSpec => []OrphansWereMissed` | each attempt that nobody will cancel belongs to a process that has ended, no two to the same one, and a process that ends before its attempt is counted as missed or killed |

The runner does not know for which process an attempt was started, and the model does not
either.  `LoginInv` says that the attempts can be assigned to processes such that all goes
well (`\E own \in Owners : Owned(own)`): a step that starts an attempt extends the
assignment, every other keeps it.  `Charged` are the ended processes that may still own a
live attempt, and `ChargesInv` counts them; `WiresInv` says what travels between the
processes and the runner.

### Publication calls

From `FrontsAssumption` alone (requests have 1 to `MaxRows` rows, several only in a
batch, one target each where the program has only one), for any number of calls, requests,
platforms and files:

| theorem | statement | argument |
|---|---|---|
| `FrontsTypes` | `Spec => []TypeOK` | one step per action |
| `HistoryIsTrue` | `Spec => []HistoryTellsTheWork` | `Recounted` and `RowUnderway`: what was reported is true when it is reported, and what a runner may still do later does not undo it |
| `AnswersAreTrue` | `Spec => []AnswersAreEarned` | `RowsDone`: what the result of a row says of its runners and its record; `Told`: the answer is the summary of the results |
| `LostRecordsAreTold` | `Spec => []UnrecordedIsTold` | `InTurn`: no runner sees a row before its turn; `RowsDone` |
| `GoneFilesAreSkipped` | `Spec => []StaleFilesAreSkipped` | `StaleSkipped`: a file does not come back, so a row is skipped when its turn comes |

None is inductive: they speak of answers and records, not of the rows and targets that are
under way.  `Sound` describes one call in all its places and is inductive with the types;
another call's steps touch nothing it speaks of but the directory, where files only vanish.

### Only model-checked

Liveness under fairness: `DueJobsSettle`, `LoginsEnd`, `SlotsComeBack`, `ExchangeEnds` and
`EveryoneOpens`.  It rests on `ENABLED`, which the prover does not reason about.  The three
violations are counterexamples of TLC.  What `LocalSchedules` says of texts is
for the hours and the ways of writing of its run only.

## 5. Plan

Written: the queues, the scheduler, the ledger; the QR attempts and logins; one
publication by the runner; business records; migrations; publication calls; schedules;
and the proofs above.  Next:

1. The remaining handlers of the runner: login page, account readiness, review status.
2. A refinement between two detailed modules: `RunnerPublish` for `Scheduler!MayAnswer`,
   which is an argument in words so far.

## 6. Not modelled

* Accounts and configuration rows: single statements, each keyed by its id.
* `/changeData` and the daemon's read-only routes, the queries of the command line, the
  MCP server's and the desktop's listings: they read, and project one value.
* Parsing and validation of requests, the upstream import, wire formats, the workbook of
  a batch, media types: functions of one value, covered by the repository's tests.
  What follows from them (valid or not, resolved or not) is an input of the models.
* The sites' selectors and dialogs: page data.
* User interface, deployment and packaging: no state of the program; the service unit is
  why a restarted daemon is part of the models.
