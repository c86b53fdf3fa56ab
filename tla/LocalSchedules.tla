--------------------------- MODULE LocalSchedules ---------------------------
(***************************************************************************)
(* The due times of jobs as the queue stores and compares them: a schedule *)
(* is kept as the text it was given in, as long as chrono can parse it, and*)
(* claim_due compares that text with the scheduler's own, which is always  *)
(* padded with zeros.  chrono skips whitespace before a number, takes an   *)
(* hour of one digit, and a sign before the year.  All jobs of the model   *)
(* are of one day, so its date is one character of the text.               *)
(***************************************************************************)
EXTENDS Naturals, Sequences

CONSTANTS
    Jobs,   \* jobs that may be enqueued
    Hours   \* hours they may be due at, of one day (0 .. 23)

VARIABLES
    now,     \* the hour of the local clock
    due,     \* the hour each enqueued job is due at
    text,    \* how its schedule was written
    state,   \* "none", "queued" or "dispatching"
    through  \* the hour the last claim was made for, or 24

vars == <<now, due, text, state, through>>

\* Bytes of a text.  A space and a sign come before the digits, the colon after them, and
\* the first byte of a no-break space after all of these.
Digit(d) == 48 + d
Space    == 32
Plus     == 43
Colon    == 58
NoBreak  == 194

Date      == <<Digit(2), Space>>
Padded(h) == <<Digit(h \div 10), Digit(h % 10), Colon>>
Short(h)  == IF h < 10 THEN <<Digit(h), Colon>> ELSE Padded(h)

\* What the daemon writes for an hour of its clock.
ClockText(h) == Date \o Padded(h)

\* LocalSchedule::parse checks a text and keeps it as it is: these all read as hour h.
Leads == {<<>>, <<Space>>, <<Plus>>, <<NoBreak>>}
Gaps  == {<<>>, <<Space>>}
Written(h) ==
    {lead \o Date \o gap \o hour : lead \in Leads, gap \in Gaps, hour \in {Padded(h), Short(h)}}

\* SQLite's order of two texts.
AtOrBefore(a, b) ==
    \/ a = b
    \/ \E n \in DOMAIN a \cap DOMAIN b :
        /\ \A m \in 1 .. n - 1 : a[m] = b[m]
        /\ a[n] < b[n]

Init ==
    /\ now = 0
    /\ due = [j \in Jobs |-> 0]
    /\ text = [j \in Jobs |-> ClockText(0)]
    /\ state = [j \in Jobs |-> "none"]
    /\ through = 24

Enqueue(j) ==
    /\ state[j] = "none"
    /\ \E h \in Hours : \E written \in Written(h) :
        /\ due' = [due EXCEPT ![j] = h]
        /\ text' = [text EXCEPT ![j] = written]
    /\ state' = [state EXCEPT ![j] = "queued"]
    /\ through' = 24
    /\ UNCHANGED now

Tick ==
    /\ now < 23
    /\ now' = now + 1
    /\ through' = 24
    /\ UNCHANGED <<due, text, state>>

\* A tick of the scheduler, whose batch has room for every job.
ClaimDue ==
    /\ state' = [j \in Jobs |->
         IF state[j] = "queued" /\ AtOrBefore(text[j], ClockText(now))
         THEN "dispatching" ELSE state[j]]
    /\ through' = now
    /\ UNCHANGED <<now, due, text>>

Next == Tick \/ ClaimDue \/ \E j \in Jobs : Enqueue(j)

Spec == Init /\ [][Next]_vars

\* claim_due claims the jobs due on or before the time it is given, and "future jobs ...
\* are excluded": after a claim no job that is due waits, and none was taken early.
ClaimsWhatIsDue ==
    \A j \in Jobs :
        /\ state[j] = "queued" /\ through # 24 => due[j] > through
        /\ state[j] = "dispatching" => due[j] <= now
=============================================================================
