------------------------- MODULE PublicationLedger -------------------------
(***************************************************************************)
(* What the publication queue promises the people who enqueue work, with   *)
(* daemons, revisions, transactions, faults and clocks left out: a job is  *)
(* accepted once, can be worked on and put back any number of times, and   *)
(* is settled at most once, by a single entry that appears together with   *)
(* the outcome it reports and stays the job's only entry.                  *)
(***************************************************************************)
EXTENDS PublishStates

CONSTANTS Jobs,    \* everything that can be enqueued
          Entries  \* the entries a ledger can hold; an entry has a .state

VARIABLES stage,   \* "unknown", or one of the states of a job
          entries  \* the ledger's entries about each job

vars == <<stage, entries>>

Init ==
    /\ stage = [j \in Jobs |-> "unknown"]
    /\ entries = [j \in Jobs |-> {}]

Accept(j) ==
    /\ stage[j] = "unknown"
    /\ \E s \in {"draft", "queued"} : stage' = [stage EXCEPT ![j] = s]
    /\ UNCHANGED entries

\* Work starts on a batch of waiting jobs at once.
TakeUp(batch) ==
    /\ \A j \in batch : stage[j] = "queued"
    /\ stage' = [j \in Jobs |-> IF j \in batch THEN "dispatching" ELSE stage[j]]
    /\ UNCHANGED entries

PutBack(j) ==
    /\ stage[j] = "dispatching"
    /\ stage' = [stage EXCEPT ![j] = "queued"]
    /\ UNCHANGED entries

Settle(j, entry) ==
    /\ stage[j] = "dispatching"
    /\ entry.state \in Terminal
    /\ entries[j] = {}
    /\ stage' = [stage EXCEPT ![j] = entry.state]
    /\ entries' = [entries EXCEPT ![j] = {entry}]

Next ==
    \/ \E j \in Jobs : Accept(j) \/ PutBack(j)
    \/ \E batch \in SUBSET Jobs : TakeUp(batch)
    \/ \E j \in Jobs, entry \in Entries : Settle(j, entry)

Spec == Init /\ [][Next]_vars

=============================================================================
