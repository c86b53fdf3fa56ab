-------------------------- MODULE PublicationQueue --------------------------
(***************************************************************************)
(* The queue as a library: PublicationQueue, ArticlePublicationQueue and   *)
(* the Repository operations beside them are public, and nothing makes a   *)
(* caller pass the revision it last saw or complete only what it claimed.  *)
(* Here any caller invokes any operation with any revision; an operation   *)
(* whose check fails returns an error and changes nothing, so only the     *)
(* successful ones are steps.                                              *)
(***************************************************************************)
EXTENDS PublicationStore

CONSTANTS MaxRevision,   \* bound: the last revision a row is moved to
          MaxLimit       \* bound: the largest limit a caller asks for

ASSUME QueueAssumption == MaxRevision \in Nat /\ MaxLimit \in Nat

VARIABLE past      \* history: every value each row has had

vars == <<storeVars, past>>

Snapshot == [job : Jobs, row : JobRow]

TypeOK ==
    /\ StoreTypeOK
    /\ past \subseteq Snapshot

Init ==
    /\ StoreInit
    /\ past = {[job |-> j, row |-> jobs[j]] : j \in Jobs}

\* What an observer that reads every row after every step has seen.
Observe == past' = past \cup {[job |-> j, row |-> jobs'[j]] : j \in Jobs}

Revisions == 0 .. MaxRevision - 1

Enqueue ==
    \/ \E j \in Jobs : AllocateJobId(j)
    \/ \E j \in Jobs, draft \in BOOLEAN, due \in Texts \cup {NoDue} : InsertJob(j, draft, due)

ClaimBatch ==
    \E kind \in Kinds, through \in Texts, limit \in 0 .. MaxLimit :
       /\ \A j \in Claimable(kind, through, limit) : jobs[j].revision < MaxRevision
       /\ ClaimDue(kind, through, limit)

Complete ==
    \E j \in Jobs, revision \in Revisions, next \in PublishState :
       CompleteJobWithHistory(j, revision, next)

Requeue ==
    \E j \in Jobs, revision \in Revisions : RequeueClaim(j, revision)

AdvanceJob ==
    \E j \in Jobs, revision \in Revisions, next \in PublishState :
       Advance(j, revision, next)

Next == (Enqueue \/ ClaimBatch \/ Complete \/ Requeue \/ AdvanceJob) /\ Observe

Spec == Init /\ [][Next]_vars

-----------------------------------------------------------------------------
(* What the operations guarantee whoever calls them. *)

HistoryOf(j) == {row \in history : row.request = j}

\* A revision names one value of a row for ever: two callers that read a job at
\* the same revision read the same job, and a stale one can never pass the check.
RevisionNamesOneRow ==
    \A seen \in past :
       seen.row.revision = jobs[seen.job].revision /\ seen.row.state # "absent"
          => seen.row = jobs[seen.job]

Outcomes(j) == {row \in HistoryOf(j) : row.state \in Terminal}

\* However calls are mixed, at most one terminal record of a job is ever written,
\* and the job is and stays in the state it reports.
RecordsAgree ==
    \A j \in Jobs : \A row \in Outcomes(j) :
       row.state = jobs[j].state /\ Outcomes(j) = {row}

\* No call, with whatever revision, touches a settled job again.
SettledStaysSettled ==
    [][\A j \in Jobs : jobs[j].state \in Terminal => jobs'[j] = jobs[j]]_vars

\* A claim takes the jobs whose schedules come first as texts: whatever other calls have
\* moved before, and however many it may take, it leaves none behind that precedes one it
\* takes.
ClaimsInOrder ==
    [][\A queue \in Kinds : \A i, j \in JobsOf(queue) :
          /\ jobs[i].state = "queued" /\ jobs'[i].state = "queued"
          /\ jobs[j].state = "queued" /\ jobs'[j].state = "dispatching"
          /\ jobs[i].due \in Texts
          /\ ClaimBatch
          => Precedes(j, i)]_vars
=============================================================================
