---------------------- MODULE PublicationFrontsProofs ----------------------
(***************************************************************************)
(* Proofs about the programs that take a publication, for any number of    *)
(* invocations, requests, platforms and files.  An invocation is described *)
(* by an invariant of its own, Sound(i), which the steps of the others     *)
(* leave alone.                                                            *)
(***************************************************************************)
EXTENDS PublicationFronts, TLAPS

-----------------------------------------------------------------------------
(* What is true of one invocation. *)

Outset     == {"row", "target", "asked", "record"}  \* rows are left
Underway   == {"target", "asked", "record"}         \* a row is begun
RowNumbers == 1 .. MaxRows

\* No runner was asked, nothing was recorded, no row is done with.
Untouched(i) ==
    /\ results[i] = <<>>
    /\ \A m \in RowNumbers : /\ ~Recorded(i, m)
                             /\ \A p \in Platforms : work[<<i, m, p>>] = "none"

\* Only a plan that was not refused is gone through, and only one that is not kept for
\* the scheduler; the rows are as many as the request has.
Placed(i) ==
    /\ at[i] \in {"idle", "keep"} \/ Keeps(request[i]) => Untouched(i)
    /\ at[i] = "keep" => Keeps(request[i])
    /\ at[i] \in Outset \cup {"answer"} => ~Keeps(request[i]) /\ request[i].valid
    /\ Len(results[i]) <= Len(request[i].rows)
    /\ at[i] \in Outset => Len(results[i]) < Len(request[i].rows)
    /\ at[i] = "answer" => Len(results[i]) = Len(request[i].rows)
    /\ at[i] \in {"idle", "row"} => reported[i] = {}

\* Runners see no row before its turn, and history tells of none before its end.
InTurn(i) ==
    \A m \in RowNumbers :
        /\ Recorded(i, m) => m <= Len(results[i])
        /\ m > Len(results[i]) + 1 \/ (m > Len(results[i]) /\ at[i] = "row")
             => \A p \in Platforms : work[<<i, m, p>>] = "none"

\* The current row: its targets are those to be tried and those reported; nobody was
\* asked about the former, but for the first when its answer is awaited.
RowUnderway(i) ==
    at[i] \in Underway =>
        /\ pending[i] = <<>> <=> at[i] = "record"
        /\ \A k \in DOMAIN pending[i] :
            /\ k > 1 \/ at[i] # "asked" => work[WorkOn(i, pending[i][k])] = "none"
            /\ pending[i][k] \in TargetsOf(i, Current(i))
            /\ \A l \in DOMAIN pending[i] : pending[i][k] = pending[i][l] => k = l
            /\ \A entry \in reported[i] : entry.platform # pending[i][k]
        /\ \A entry \in reported[i] :
            /\ entry.platform \in TargetsOf(i, Current(i))
            /\ entry.outcome = "queued" =>
                 work[WorkOn(i, entry.platform)] = "performed"
            /\ entry.outcome = "unavailable" =>
                 work[WorkOn(i, entry.platform)] \in {"none", "refused"}
        /\ \A p \in TargetsOf(i, Current(i)) :
            \/ \E k \in DOMAIN pending[i] : pending[i][k] = p
            \/ \E entry \in reported[i] : entry.platform = p

\* A row that is done with: what it came to is true of its targets and of history.
RowDone(i, m, result) ==
    /\ result = "queued" =>
        /\ \A p \in TargetsOf(i, m) : work[<<i, m, p>>] = "performed"
        /\ request[i].call \in Videos =>
             [row |-> <<i, m>>, state |-> "published"] \in history
    /\ result = "unavailable" =>
        \A p \in TargetsOf(i, m) : work[<<i, m, p>>] \in {"none", "refused"}
    /\ result = "skipped" =>
        /\ \A p \in TargetsOf(i, m) : work[<<i, m, p>>] = "none"
        /\ ~Recorded(i, m)
    /\ request[i].call \in Videos /\ result \in {"queued", "unavailable"} => Recorded(i, m)

RowsDone(i) == \A m \in DOMAIN results[i] : RowDone(i, m, results[i][m])

\* What the caller was told.
Told(i) ==
    /\ at[i] = "answered" <=> answer[i] # "none"
    /\ answer[i] \in {"queued", "unavailable", "rejected"} =>
        /\ Len(results[i]) = Len(request[i].rows)
        /\ answer[i] = Summary(results[i])
    /\ answer[i] = "stored" => i \in jobs
    /\ i \in jobs => at[i] = "answered" /\ Keeps(request[i])

\* What history tells of the invocation.
Recounted(i) ==
    \A entry \in history : entry.row[1] = i =>
        /\ entry.state = "published" =>
             \A p \in TargetsOf(i, entry.row[2]) :
                work[<<i, entry.row[2], p>>] = "performed"
        /\ entry.state = "unavailable" =>
             \A p \in TargetsOf(i, entry.row[2]) :
                work[<<i, entry.row[2], p>>] \in {"none", "refused"}
        /\ \A other \in history : other.row = entry.row => other = entry

\* A row whose file went away is neither begun nor recorded.
StaleSkipped(i) ==
    \A n \in RowNumbers : <<i, n>> \in stale =>
        /\ at[i] # "idle"
        /\ request[i].call = "batch"
        /\ n \in DOMAIN request[i].rows
        /\ request[i].rows[n].file \notin media
        /\ \A p \in TargetsOf(i, n) : work[<<i, n, p>>] = "none"
        /\ ~Recorded(i, n)
        /\ n \in DOMAIN results[i] => results[i][n] = "skipped"
        /\ at[i] \in Underway => n # Current(i)

Sound(i) ==
    /\ Placed(i)
    /\ InTurn(i)
    /\ RowUnderway(i)
    /\ RowsDone(i)
    /\ Told(i)
    /\ Recounted(i)
    /\ StaleSkipped(i)

FrontsInv == \A i \in Invocations : Sound(i)

-----------------------------------------------------------------------------
(* Types. *)

LEMMA RequestFacts ==
    ASSUME NEW r \in Requests
    PROVE  /\ r.call \in Calls /\ r.runners \subseteq Platforms
           /\ r.valid \in BOOLEAN /\ r.draft \in BOOLEAN /\ r.scheduled \in BOOLEAN
           /\ r.rows \in Seq(RequestRow)
           /\ Len(r.rows) \in 1 .. MaxRows /\ MaxRows \in Nat
           /\ \A n \in DOMAIN r.rows : /\ r.rows[n].targets \in Seq(Platforms)
                                       /\ r.rows[n].targets # <<>>
                                       /\ r.rows[n].file \in Files
<1>1. r \in RequestSpace /\ Len(r.rows) \in 1 .. MaxRows /\ MaxRows \in Nat
      /\ \A n \in DOMAIN r.rows : r.rows[n].targets # <<>>
  BY FrontsAssumption DEF FrontsAssumption
<1>2. r.rows \in Seq(RequestRow)
  BY <1>1 DEF RequestSpace
<1>3. \A n \in DOMAIN r.rows : r.rows[n] \in RequestRow
  BY <1>2
<1>4. QED
  BY <1>1, <1>2, <1>3 DEF RequestSpace, RequestRow

\* The types, one variable after the other.
LEMMA Types ==
    ASSUME TypeOK, NEW i \in Invocations
    PROVE  /\ request[i] \in Requests
           /\ results[i] \in Seq({"queued", "unavailable", "rejected", "skipped"})
           /\ pending[i] \in Seq(Platforms)
           /\ Len(results[i]) \in Nat /\ Current(i) = Len(results[i]) + 1
           /\ DOMAIN results[i] = 1 .. Len(results[i])
           /\ DOMAIN request[i].rows = 1 .. Len(request[i].rows)
           /\ RowNumbers = 1 .. MaxRows /\ MaxRows \in Nat
           /\ Len(request[i].rows) \in RowNumbers
BY RequestFacts DEF TypeOK, Current, RowNumbers

\* An invocation that has rows left has a current one.
LEMMA CurrentRow ==
    ASSUME TypeOK, NEW i \in Invocations, Placed(i), at[i] \in Outset
    PROVE  /\ Current(i) \in RowNumbers /\ Current(i) \in DOMAIN request[i].rows
           /\ Row(i).targets \in Seq(Platforms) /\ Row(i).targets # <<>>
           /\ \A p \in Platforms : WorkOn(i, p) \in Targets
<1>1. request[i] \in Requests /\ Current(i) \in DOMAIN request[i].rows
      /\ Current(i) \in RowNumbers
  BY Types DEF Placed, RowNumbers
<1>2. Row(i).targets \in Seq(Platforms) /\ Row(i).targets # <<>>
  BY <1>1, RequestFacts DEF Row
<1>3. QED
  BY <1>1, <1>2 DEF WorkOn, Targets, RowNumbers

LEMMA TypeSteps == TypeOK /\ FrontsInv /\ [Next]_vars => TypeOK'
<1> SUFFICES ASSUME TypeOK, FrontsInv, [Next]_vars PROVE TypeOK'
  OBVIOUS
<1>1. CASE UNCHANGED vars
  BY <1>1 DEF TypeOK, vars, callVars
<1>2. CASE Perform
  BY <1>2 DEF Perform, TypeOK, callVars
<1>3. CASE Vanish
  BY <1>3 DEF Vanish, TypeOK, callVars
<1>4. ASSUME NEW i \in Invocations, Crash(i) PROVE TypeOK'
  BY <1>4 DEF Crash, TypeOK
<1>5. ASSUME NEW i \in Invocations, Begin(i) PROVE TypeOK'
  <2>1. PICK r \in Requests :
          /\ request' = [request EXCEPT ![i] = r]
          /\ ready' = [ready EXCEPT ![i] = Resolved(r)]
          /\ \/ Answer(i, "input")
             \/ /\ at' = [at EXCEPT ![i] = IF Keeps(r) THEN "keep" ELSE "row"]
                /\ UNCHANGED answer
    BY <1>5 DEF Begin
  <2>2. Resolved(r) \subseteq 1 .. MaxRows
    BY RequestFacts DEF Resolved
  <2>3. UNCHANGED <<pending, reported, results, history, jobs, media, stale, work>>
    BY <1>5 DEF Begin
  <2>4. QED
    BY <2>1, <2>2, <2>3 DEF Answer, TypeOK
<1>6. ASSUME NEW i \in Invocations, Keep(i) \/ KeepFails(i) \/ OpenFails(i) PROVE TypeOK'
  BY <1>6 DEF Keep, KeepFails, OpenFails, Answer, Failure, TypeOK
<1>7. ASSUME NEW i \in Invocations, Conclude(i) PROVE TypeOK'
  BY <1>7 DEF Conclude, Answer, Summary, TypeOK
<1>8. ASSUME NEW i \in Invocations,
             NEW x \in {"queued", "unavailable", "rejected", "skipped"}, Finish(i, x)
      PROVE  /\ results' \in
                  [Invocations -> Seq({"queued", "unavailable", "rejected", "skipped"})]
             /\ at' \in [Invocations -> {"idle", "keep", "row", "target", "asked", "record",
                                         "answer", "answered", "dead"}]
             /\ pending' \in [Invocations -> Seq(Platforms)]
             /\ reported' \in [Invocations -> SUBSET
                  [platform : Platforms, outcome : {"queued", "unavailable", "rejected"}]]
  BY <1>8 DEF Finish, TypeOK
<1>9. ASSUME NEW i \in Invocations, StartRow(i) PROVE TypeOK'
  <2>1. CASE Finish(i, "skipped")
    BY <1>8, <1>9, <2>1 DEF StartRow, TypeOK
  <2>2. CASE ~Finish(i, "skipped")
    <3>1. Row(i).targets \in Seq(Platforms)
      BY <1>9, CurrentRow DEF FrontsInv, Sound, StartRow, Outset
    <3>2. QED
      BY <1>9, <2>2, <3>1 DEF StartRow, TypeOK
  <2>3. QED
    BY <2>1, <2>2
<1>10. ASSUME NEW i \in Invocations, NEW x \in {"queued", "unavailable", "rejected"},
              Report(i, x), at[i] \in {"target", "asked"},
              UNCHANGED <<request, ready, results, answer, history, jobs, media, stale,
                          work>>
       PROVE  TypeOK'
  <2>1. pending[i] # <<>> /\ pending[i] \in Seq(Platforms)
    BY <1>10, Types DEF FrontsInv, Sound, RowUnderway, Underway
  <2>2. Head(pending[i]) \in Platforms /\ Tail(pending[i]) \in Seq(Platforms)
    BY <2>1
  <2>3. QED
    BY <1>10, <2>2 DEF Report, TypeOK
<1>11. ASSUME NEW i \in Invocations, NoRunner(i) \/ Unreachable(i) \/ Hear(i)
       PROVE  TypeOK'
  BY <1>10, <1>11 DEF NoRunner, Unreachable, Hear, Outcome
<1>12. ASSUME NEW i \in Invocations, Ask(i) PROVE TypeOK'
  BY <1>12 DEF Ask, TypeOK
<1>13. ASSUME NEW i \in Invocations, Record(i) PROVE TypeOK'
  <2>1. Current(i) \in 1 .. MaxRows
    BY <1>13, CurrentRow DEF FrontsInv, Sound, Record, Outset, RowNumbers
  <2>2. RowResult(i) \in {"queued", "unavailable", "rejected"}
    BY DEF RowResult
  <2>3. HistoryState(i) \in {"published", "unavailable", "failed"}
    BY DEF HistoryState
  <2>4. history' \subseteq [row : Invocations \X (1 .. MaxRows),
                            state : {"published", "unavailable", "failed"}]
    BY <1>13, <2>1, <2>3 DEF Record, TypeOK
  <2>5. Finish(i, RowResult(i))
        /\ UNCHANGED <<request, ready, answer, jobs, media, stale, work>>
    BY <1>13 DEF Record
  <2>6. QED
    BY <1>8, <2>2, <2>4, <2>5 DEF TypeOK
<1>14. ASSUME NEW i \in Invocations, RecordFails(i) PROVE TypeOK'
  <2>1. CASE Finish(i, "rejected") /\ UNCHANGED answer
    BY <1>8, <1>14, <2>1 DEF RecordFails, TypeOK
  <2>2. CASE Answer(i, Failure(i)) /\ UNCHANGED <<pending, reported, results>>
    BY <1>14, <2>2 DEF RecordFails, Answer, Failure, TypeOK
  <2>3. QED
    BY <1>14, <2>1, <2>2 DEF RecordFails
<1>15. QED
  BY <1>1, <1>2, <1>3, <1>4, <1>5, <1>6, <1>7, <1>9, <1>11, <1>12, <1>13, <1>14
     DEF Next, Step

-----------------------------------------------------------------------------
(* What a step leaves alone. *)

\* Work that is started settles; nothing else becomes of it.
Settles(t) == \/ work'[t] = work[t]
              \/ work[t] = "working" /\ work'[t] \in {"performed", "refused"}

\* The step is not about this invocation's rows: its request, its results and its
\* history stay, no runner is asked for it, and no file of it comes or goes.
Still(i) ==
    /\ request'[i] = request[i] /\ results'[i] = results[i]
    /\ \A m \in RowNumbers : \A p \in Platforms : Settles(<<i, m, p>>)
    /\ \A entry : entry.row[1] = i => (entry \in history' <=> entry \in history)
    /\ \A n : <<i, n>> \in stale' <=> <<i, n>> \in stale
    /\ media' \subseteq media

LEMMA TargetsTyped ==
    ASSUME TypeOK, NEW i \in Invocations, NEW n \in DOMAIN request[i].rows
    PROVE  TargetsOf(i, n) \subseteq Platforms /\ TargetsOf(i, n) # {}
<1>1. request[i].rows[n].targets \in Seq(Platforms) /\ request[i].rows[n].targets # <<>>
  BY RequestFacts DEF TypeOK
<1>2. 1 \in DOMAIN request[i].rows[n].targets
  BY <1>1
<1>3. \A k \in DOMAIN request[i].rows[n].targets :
        request[i].rows[n].targets[k] \in Platforms
  BY <1>1
<1>4. QED
  BY <1>2, <1>3 DEF TargetsOf

\* What is said of a row that is done with stays true when work settles.
LEMMA RowStaysDone ==
    ASSUME TypeOK, NEW i \in Invocations, NEW m \in DOMAIN request[i].rows, NEW result,
           RowDone(i, m, result), request'[i] = request[i],
           \A p \in Platforms : Settles(<<i, m, p>>),
           \A entry : entry.row = <<i, m>> => (entry \in history' <=> entry \in history)
    PROVE  RowDone(i, m, result)'
<1>1. TargetsOf(i, m)' = TargetsOf(i, m) /\ TargetsOf(i, m) \subseteq Platforms
  BY TargetsTyped DEF TargetsOf
<1>2. Recorded(i, m)' <=> Recorded(i, m)
  BY DEF Recorded
<1>3. [row |-> <<i, m>>, state |-> "published"] \in history'
        <=> [row |-> <<i, m>>, state |-> "published"] \in history
  OBVIOUS
<1>4. QED
  BY <1>1, <1>2, <1>3 DEF RowDone, Settles

\* An invocation that a step is not about stays sound, whether the invocation stands
\* still or comes to its end.
LEMMA StillSound ==
    ASSUME TypeOK, NEW i \in Invocations, Sound(i), Still(i), Told(i)',
           \/ at'[i] = at[i] /\ pending'[i] = pending[i] /\ reported'[i] = reported[i]
           \/ at[i] # "idle" /\ at'[i] \in {"answered", "dead"}
    PROVE  Sound(i)'
<1>0. /\ request'[i] = request[i] /\ results'[i] = results[i]
      /\ DOMAIN results[i] = 1 .. Len(results[i])
      /\ DOMAIN request[i].rows = 1 .. Len(request[i].rows)
      /\ Len(results[i]) <= Len(request[i].rows) /\ Len(request[i].rows) \in RowNumbers
      /\ RowNumbers = 1 .. MaxRows /\ MaxRows \in Nat /\ Len(results[i]) \in Nat
  BY Types DEF Still, Sound, Placed
<1>1. /\ \A m \in RowNumbers : Recorded(i, m)' <=> Recorded(i, m)
      /\ \A n : TargetsOf(i, n)' = TargetsOf(i, n)
      /\ Current(i)' = Current(i)
  BY DEF Recorded, TargetsOf, Still, Current
<1>2. \A m \in RowNumbers : \A p \in Platforms :
        /\ work[<<i, m, p>>] = "none" => work'[<<i, m, p>>] = "none"
        /\ work[<<i, m, p>>] = "performed" => work'[<<i, m, p>>] = "performed"
        /\ work[<<i, m, p>>] \in {"none", "refused"}
             => work'[<<i, m, p>>] \in {"none", "refused"}
  BY DEF Still, Settles
<1>3. Keeps(request[i])' = Keeps(request[i])
  BY <1>0 DEF Keeps
<1>4. Placed(i)'
  BY <1>0, <1>1, <1>2, <1>3 DEF Sound, Placed, Untouched, Outset
<1>5. InTurn(i)'
  BY <1>0, <1>1, <1>2 DEF Sound, InTurn
<1>6. RowUnderway(i)'
  <2>1. SUFFICES ASSUME at'[i] \in Underway PROVE RowUnderway(i)'
    BY DEF RowUnderway
  <2>2. /\ at'[i] = at[i] /\ pending'[i] = pending[i] /\ reported'[i] = reported[i]
        /\ at[i] \in Underway
    BY <2>1 DEF Underway
  <2>3. Current(i) \in RowNumbers /\ Current(i) \in DOMAIN request[i].rows
    BY <2>2, CurrentRow DEF Sound, Outset, Underway
  <2>4. TargetsOf(i, Current(i)) \subseteq Platforms
    BY <2>3, TargetsTyped
  <2>5. QED
    BY <1>1, <1>2, <2>2, <2>3, <2>4 DEF Sound, RowUnderway, WorkOn
<1>7. RowsDone(i)'
  <2>1. ASSUME NEW m \in DOMAIN results[i], NEW result, result = results[i][m]
        PROVE  RowDone(i, m, result)'
    <3>1. m \in DOMAIN request[i].rows /\ m \in RowNumbers
      BY <1>0
    <3>2. RowDone(i, m, result)
      BY <2>1 DEF Sound, RowsDone
    <3>3. \A entry : entry.row = <<i, m>> => (entry \in history' <=> entry \in history)
      BY DEF Still
    <3>4. QED
      BY <3>1, <3>2, <3>3, RowStaysDone DEF Still
  <2>2. QED
    BY <1>0, <2>1 DEF RowsDone, RowDone
<1>8. Recounted(i)'
  <2>1. SUFFICES ASSUME NEW entry \in history', entry.row[1] = i
                 PROVE  /\ entry.state = "published" =>
                             \A p \in TargetsOf(i, entry.row[2]) :
                                work'[<<i, entry.row[2], p>>] = "performed"
                        /\ entry.state = "unavailable" =>
                             \A p \in TargetsOf(i, entry.row[2]) :
                                work'[<<i, entry.row[2], p>>] \in {"none", "refused"}
                        /\ \A other \in history' : other.row = entry.row => other = entry
    BY <1>1 DEF Recounted
  <2>2. entry \in history /\ entry.row = <<i, entry.row[2]>> /\ entry.row[2] \in RowNumbers
    BY <2>1 DEF Still, TypeOK, RowNumbers
  <2>3. entry.row[2] \in DOMAIN request[i].rows
    BY <1>0, <2>2 DEF Sound, InTurn, Recorded
  <2>4. TargetsOf(i, entry.row[2]) \subseteq Platforms
    BY <2>3, TargetsTyped
  <2>5. QED
    BY <1>2, <2>1, <2>2, <2>4 DEF Sound, Recounted, Still
<1>9. StaleSkipped(i)'
  <2>1. SUFFICES ASSUME NEW n \in RowNumbers, <<i, n>> \in stale
                 PROVE  /\ at'[i] # "idle"
                        /\ request[i].call = "batch"
                        /\ n \in DOMAIN request[i].rows
                        /\ request[i].rows[n].file \notin media'
                        /\ \A p \in TargetsOf(i, n) : work'[<<i, n, p>>] = "none"
                        /\ ~Recorded(i, n)
                        /\ n \in DOMAIN results[i] => results[i][n] = "skipped"
                        /\ at'[i] \in Underway => n # Current(i)
    BY <1>0, <1>1 DEF StaleSkipped, Still
  <2>2. n \in DOMAIN request[i].rows
    BY <2>1 DEF Sound, StaleSkipped
  <2>3. TargetsOf(i, n) \subseteq Platforms
    BY <2>2, TargetsTyped
  <2>4. QED
    BY <1>2, <2>1, <2>3 DEF Sound, StaleSkipped, Still, Underway
<1>10. QED
  BY <1>4, <1>5, <1>6, <1>7, <1>8, <1>9 DEF Sound

\* A step of one invocation leaves every other one as it is.
OnlyAbout(i) ==
    \A j \in Invocations \ {i} :
        /\ Still(j)
        /\ at'[j] = at[j] /\ pending'[j] = pending[j] /\ reported'[j] = reported[j]
        /\ answer'[j] = answer[j]
        /\ j \in jobs' <=> j \in jobs

LEMMA OthersStaySound ==
    ASSUME TypeOK, FrontsInv, NEW i \in Invocations, OnlyAbout(i), Sound(i)'
    PROVE  FrontsInv'
<1> SUFFICES ASSUME NEW j \in Invocations, j # i PROVE Sound(j)'
  BY DEF FrontsInv
<1>1. Told(j)'
  <2>1. Summary(results[j])' = Summary(results[j])
    BY DEF Summary, OnlyAbout, Still
  <2>2. Keeps(request[j])' = Keeps(request[j])
    BY DEF Keeps, OnlyAbout, Still
  <2>3. QED
    BY <2>1, <2>2 DEF FrontsInv, Sound, Told, OnlyAbout, Still
<1>2. QED
  BY <1>1, StillSound DEF OnlyAbout, FrontsInv

LEMMA StepsAreOwn ==
    ASSUME TypeOK, NEW i \in Invocations, Step(i) \/ Crash(i)
    PROVE  OnlyAbout(i)
<1> SUFFICES ASSUME NEW j \in Invocations, j # i
             PROVE  /\ Still(j)
                    /\ at'[j] = at[j] /\ pending'[j] = pending[j]
                    /\ reported'[j] = reported[j]
                    /\ answer'[j] = answer[j]
                    /\ j \in jobs' <=> j \in jobs
  BY DEF OnlyAbout
<1>1. UNCHANGED <<media, stale>>
  BY DEF Step, Crash, Begin, Keep, KeepFails, OpenFails, StartRow, NoRunner, Ask,
         Unreachable, Hear, Record, RecordFails, Conclude
<1>2. /\ at'[j] = at[j] /\ pending'[j] = pending[j] /\ reported'[j] = reported[j]
      /\ answer'[j] = answer[j] /\ request'[j] = request[j] /\ results'[j] = results[j]
  <2>1. CASE Begin(i)
    BY <2>1 DEF Begin, Answer, TypeOK
  <2>2. CASE Keep(i) \/ KeepFails(i) \/ OpenFails(i) \/ Conclude(i) \/ Crash(i)
    BY <2>2 DEF Keep, KeepFails, OpenFails, Conclude, Crash, Answer, TypeOK
  <2>3. CASE StartRow(i) \/ Ask(i)
    BY <2>3 DEF StartRow, Finish, Ask, TypeOK
  <2>4. CASE NoRunner(i) \/ Unreachable(i) \/ Hear(i)
    BY <2>4 DEF NoRunner, Unreachable, Hear, Report, TypeOK
  <2>5. CASE Record(i) \/ RecordFails(i)
    BY <2>5 DEF Record, RecordFails, Finish, Answer, TypeOK
  <2>6. QED
    BY <2>1, <2>2, <2>3, <2>4, <2>5 DEF Step
<1>3. \A m \in RowNumbers : \A p \in Platforms : Settles(<<j, m, p>>)
  <2>1. CASE Ask(i)
    BY <2>1 DEF Ask, WorkOn, Settles, TypeOK, Targets, RowNumbers
  <2>2. CASE ~Ask(i)
    BY <2>2 DEF Step, Crash, Begin, Keep, KeepFails, OpenFails, StartRow, NoRunner,
                Unreachable, Hear, Record, RecordFails, Conclude, Settles
  <2>3. QED
    BY <2>1, <2>2
<1>4. \A entry : entry.row[1] = j => (entry \in history' <=> entry \in history)
  <2>1. CASE Record(i)
    BY <2>1 DEF Record
  <2>2. CASE ~Record(i)
    BY <2>2 DEF Step, Crash, Begin, Keep, KeepFails, OpenFails, StartRow, NoRunner, Ask,
                Unreachable, Hear, RecordFails, Conclude
  <2>3. QED
    BY <2>1, <2>2
<1>5. j \in jobs' <=> j \in jobs
  <2>1. CASE Keep(i)
    BY <2>1 DEF Keep
  <2>2. CASE ~Keep(i)
    BY <2>2 DEF Step, Crash, Begin, KeepFails, OpenFails, StartRow, NoRunner, Ask,
                Unreachable, Hear, Record, RecordFails, Conclude
  <2>3. QED
    BY <2>1, <2>2
<1>6. QED
  BY <1>1, <1>2, <1>3, <1>4, <1>5 DEF Still

-----------------------------------------------------------------------------
(* The steps of an invocation. *)

\* Before its call an invocation has done nothing, whatever it will be asked for.
LEMMA BeginSound ==
    ASSUME TypeOK, NEW i \in Invocations, Sound(i), Begin(i)
    PROVE  Sound(i)'
<1>1. PICK r \in Requests :
        /\ request' = [request EXCEPT ![i] = r]
        /\ \/ Refuses(r) /\ Answer(i, "input")
           \/ /\ ~Refuses(r)
              /\ at' = [at EXCEPT ![i] = IF Keeps(r) THEN "keep" ELSE "row"]
              /\ UNCHANGED answer
  BY DEF Begin
<1>2. /\ at[i] = "idle" /\ request'[i] = r
      /\ UNCHANGED <<reported, results, history, jobs, media, stale, work>>
  BY <1>1 DEF Begin, TypeOK
<1>3. \/ at'[i] = "answered" /\ answer'[i] = "input"
      \/ at'[i] = "keep" /\ Keeps(r) /\ answer'[i] = answer[i]
      \/ at'[i] = "row" /\ ~Keeps(r) /\ r.valid /\ answer'[i] = answer[i]
  BY <1>1 DEF Answer, Refuses, TypeOK
<1>4. Untouched(i) /\ reported[i] = {}
  BY <1>2 DEF Sound, Placed
<1>5. /\ results[i] = <<>> /\ Len(results[i]) = 0 /\ i \notin jobs /\ answer[i] = "none"
      /\ \A n \in RowNumbers : <<i, n>> \notin stale
  BY <1>2, <1>4 DEF Untouched, Sound, Told, StaleSkipped
<1>6. /\ \A m \in RowNumbers : Recorded(i, m)' <=> Recorded(i, m)
      /\ Keeps(request[i])' = Keeps(r)
  BY <1>2 DEF Recorded, Keeps
<1>7. Untouched(i)'
  BY <1>2, <1>4, <1>6 DEF Untouched
<1>8. Placed(i)'
  BY <1>2, <1>3, <1>4, <1>5, <1>6, <1>7, RequestFacts DEF Placed, Outset
<1>9. InTurn(i)' /\ RowUnderway(i)' /\ RowsDone(i)' /\ StaleSkipped(i)'
  BY <1>2, <1>3, <1>5, <1>7 DEF Untouched, InTurn, RowUnderway, Underway, RowsDone,
                                StaleSkipped
<1>10. Told(i)'
  BY <1>2, <1>3, <1>5 DEF Told
<1>11. Recounted(i)'
  <2>1. \A entry \in history : entry.row[1] # i
    <3>1. SUFFICES ASSUME NEW entry \in history, entry.row[1] = i PROVE FALSE
      OBVIOUS
    <3>2. entry.row = <<i, entry.row[2]>> /\ entry.row[2] \in RowNumbers
      BY <3>1 DEF TypeOK, RowNumbers
    <3>3. QED
      BY <1>4, <3>2 DEF Untouched, Recorded
  <2>2. QED
    BY <1>2, <2>1 DEF Recounted
<1>12. QED
  BY <1>8, <1>9, <1>10, <1>11 DEF Sound

\* The steps that end an invocation, and its death.
LEMMA EndSound ==
    ASSUME TypeOK, NEW i \in Invocations, Sound(i),
           \/ Keep(i) \/ KeepFails(i) \/ OpenFails(i) \/ Conclude(i) \/ Crash(i)
           \/ RecordFails(i) /\ request[i].call # "batch"
    PROVE  Sound(i)'
<1>1. UNCHANGED <<request, results, history, media, stale, work>>
  BY DEF Keep, KeepFails, OpenFails, Conclude, Crash, RecordFails
<1>2. at[i] \notin {"idle", "answered"} /\ at'[i] \in {"answered", "dead"}
  BY DEF Keep, KeepFails, OpenFails, Conclude, Crash, RecordFails, Answer, TypeOK
<1>3. answer[i] = "none" /\ i \notin jobs
  BY <1>2 DEF Sound, Told
<1>4. Told(i)'
  <2>1. CASE Crash(i)
    BY <1>3, <2>1 DEF Crash, Told, TypeOK
  <2>2. CASE Keep(i)
    BY <1>1, <2>2 DEF Keep, Answer, Keeps, Sound, Placed, Told, TypeOK
  <2>3. CASE Conclude(i)
    <3>1. /\ at'[i] = "answered" /\ answer'[i] = Summary(results[i]) /\ jobs' = jobs
          /\ Len(results[i]) = Len(request[i].rows)
      BY <2>3 DEF Conclude, Answer, Sound, Placed, TypeOK
    <3>2. Summary(results[i]) \in {"queued", "unavailable", "rejected"}
          /\ Summary(results[i])' = Summary(results[i])
      BY <1>1 DEF Summary
    <3>3. QED
      BY <1>1, <1>3, <3>1, <3>2 DEF Told
  <2>4. CASE \/ KeepFails(i) \/ OpenFails(i)
             \/ RecordFails(i) /\ request[i].call # "batch"
    <3>1. at'[i] = "answered" /\ answer'[i] \in {"failed", "input"} /\ jobs' = jobs
      BY <2>4 DEF KeepFails, OpenFails, RecordFails, Answer, Failure, TypeOK
    <3>2. QED
      BY <1>3, <3>1 DEF Told
  <2>5. QED
    BY <2>1, <2>2, <2>3, <2>4
<1>5. Still(i)
  BY <1>1 DEF Still, Settles
<1>6. QED
  BY <1>2, <1>4, <1>5, StillSound

\* A row that comes to its end: what is said of it has to hold of what it came to.
LEMMA FinishSound ==
    ASSUME TypeOK, NEW i \in Invocations, Sound(i), at[i] \in {"row", "record"},
           NEW x, Finish(i, x),
           NEW n, n = Current(i), RowDone(i, n, x)',
           UNCHANGED <<request, answer, jobs, media, stale, work>>,
           at[i] = "row" => x = "skipped" /\ history' = history,
           \A entry : entry.row # <<i, n>> => (entry \in history' <=> entry \in history),
           Recounted(i)'
    PROVE  Sound(i)'
<1>0. /\ n \in RowNumbers /\ n = Len(results[i]) + 1 /\ Len(results[i]) \in Nat
      /\ RowNumbers = 1 .. MaxRows /\ MaxRows \in Nat
      /\ DOMAIN request[i].rows = 1 .. Len(request[i].rows)
      /\ n \in DOMAIN request[i].rows /\ Len(request[i].rows) \in RowNumbers
  BY Types, CurrentRow DEF Sound, Outset
<1>1. /\ Len(results'[i]) = n /\ DOMAIN results'[i] = 1 .. n
      /\ results'[i][n] = x
      /\ \A m \in DOMAIN results[i] : m < n /\ results'[i][m] = results[i][m]
      /\ DOMAIN results[i] = 1 .. Len(results[i])
  BY <1>0, Types DEF Finish, TypeOK
<1>2. /\ at'[i] = (IF n = Len(request[i].rows) THEN "answer" ELSE "row")
      /\ reported'[i] = {}
      /\ request'[i] = request[i] /\ UNCHANGED <<request, answer, jobs, media, stale, work>>
  BY DEF Finish, TypeOK
<1>3. \A m \in RowNumbers : m # n => (Recorded(i, m)' <=> Recorded(i, m))
  BY DEF Recorded
<1>4. ~Keeps(request[i]) /\ request[i].valid /\ i \notin jobs /\ answer[i] = "none"
  BY DEF Sound, Placed, Told, Outset
<1>5. Placed(i)'
  <2>1. Keeps(request[i])' = Keeps(request[i])
    BY <1>2 DEF Keeps
  <2>2. QED
    BY <1>0, <1>1, <1>2, <1>4, <2>1 DEF Placed, Outset
<1>6. InTurn(i)'
  <2>1. \A m \in RowNumbers : m > n => \A p \in Platforms : work[<<i, m, p>>] = "none"
    BY <1>0 DEF Sound, InTurn
  <2>2. \A m \in RowNumbers : Recorded(i, m)' => m <= n
    BY <1>0, <1>3 DEF Sound, InTurn
  <2>3. QED
    BY <1>0, <1>1, <1>2, <2>1, <2>2 DEF InTurn
<1>7. RowUnderway(i)'
  BY <1>2 DEF RowUnderway, Underway
<1>8. RowsDone(i)'
  <2>1. ASSUME NEW m \in DOMAIN results[i], NEW result, result = results[i][m]
        PROVE  RowDone(i, m, result)'
    <3>1. m \in DOMAIN request[i].rows /\ m # n
      BY <1>0, <1>1
    <3>2. RowDone(i, m, result)
      BY <2>1 DEF Sound, RowsDone
    <3>3. \A entry : entry.row = <<i, m>> => (entry \in history' <=> entry \in history)
      BY <3>1
    <3>4. QED
      BY <1>2, <3>1, <3>2, <3>3, RowStaysDone DEF Settles
  <2>2. RowDone(i, n, x)'
    OBVIOUS
  <2>3. ASSUME NEW m \in DOMAIN results'[i], NEW result, result = results'[i][m]
        PROVE  RowDone(i, m, result)'
    <3>1. CASE m = n
      BY <1>1, <2>2, <2>3, <3>1
    <3>2. CASE m # n
      <4>1. m \in DOMAIN results[i] /\ result = results[i][m]
        BY <1>0, <1>1, <2>3, <3>2
      <4>2. QED
        BY <2>1, <4>1
    <3>3. QED
      BY <3>1, <3>2
  <2>4. QED
    BY <2>3 DEF RowsDone, RowDone
<1>9. Told(i)'
  BY <1>2, <1>4 DEF Told
<1>10. StaleSkipped(i)'
  <2>1. SUFFICES ASSUME NEW m \in RowNumbers, <<i, m>> \in stale
                 PROVE  /\ ~Recorded(i, m)'
                        /\ m \in DOMAIN results'[i] => results'[i][m] = "skipped"
    <3>1. \A m : TargetsOf(i, m)' = TargetsOf(i, m)
      BY <1>2 DEF TargetsOf
    <3>2. QED
      BY <1>2, <3>1 DEF Sound, StaleSkipped, Underway
  <2>2. m = n => at[i] = "row"
    BY <2>1 DEF Sound, StaleSkipped, Underway
  <2>3. ~Recorded(i, m)'
    BY <1>3, <2>1, <2>2 DEF Sound, StaleSkipped, Recorded
  <2>4. QED
    BY <1>0, <1>1, <2>1, <2>2, <2>3 DEF Sound, StaleSkipped
<1>11. QED
  BY <1>5, <1>6, <1>7, <1>8, <1>9, <1>10 DEF Sound

LEMMA StartRowSound ==
    ASSUME TypeOK, NEW i \in Invocations, Sound(i), StartRow(i)
    PROVE  Sound(i)'
<1>1. /\ at[i] = "row" /\ reported[i] = {}
      /\ UNCHANGED <<request, ready, answer, history, jobs, media, stale, work>>
  BY DEF StartRow, Sound, Placed
<1>2. /\ Current(i) \in RowNumbers /\ Current(i) \in DOMAIN request[i].rows
      /\ Row(i).targets \in Seq(Platforms) /\ Row(i).targets # <<>>
      /\ Current(i) = Len(results[i]) + 1 /\ Len(results[i]) \in Nat
  BY <1>1, Types, CurrentRow DEF Sound, Outset
<1>3. TargetsOf(i, Current(i)) \subseteq Platforms
  BY <1>2, TargetsTyped
<1>4. /\ \A p \in Platforms : work[<<i, Current(i), p>>] = "none"
      /\ ~Recorded(i, Current(i))
  BY <1>1, <1>2 DEF Sound, InTurn
<1>5. /\ \A m : TargetsOf(i, m)' = TargetsOf(i, m)
      /\ \A m : Recorded(i, m)' <=> Recorded(i, m)
  BY <1>1 DEF TargetsOf, Recorded
<1>6. Recounted(i)'
  BY <1>1, <1>5 DEF Sound, Recounted
<1>7. CASE Finish(i, "skipped")
  <2>1. PICK n : n = Current(i)
    OBVIOUS
  <2>2. RowDone(i, n, "skipped")'
    BY <1>1, <1>3, <1>4, <1>5, <2>1 DEF RowDone
  <2>3. QED
    BY <1>1, <1>6, <1>7, <2>1, <2>2, FinishSound
<1>8. CASE /\ Sendable(i)
           /\ at' = [at EXCEPT ![i] = "target"]
           /\ pending' = [pending EXCEPT ![i] = Row(i).targets]
           /\ UNCHANGED <<reported, results>>
  <2>1. /\ at'[i] = "target" /\ pending'[i] = Row(i).targets /\ reported'[i] = {}
        /\ Current(i)' = Current(i) /\ UNCHANGED results
    BY <1>1, <1>8 DEF TypeOK, Current
  <2>2. Keeps(request[i])' = Keeps(request[i])
    BY <1>1 DEF Keeps
  <2>3. Placed(i)'
    BY <1>1, <2>1, <2>2 DEF Sound, Placed, Outset
  <2>4. InTurn(i)' /\ RowsDone(i)' /\ Told(i)'
    BY <1>1, <1>5, <2>1, <2>2 DEF Sound, InTurn, RowsDone, RowDone, Told, Summary
  <2>5. RowUnderway(i)'
    <3> DEFINE targets == request[i].rows[Current(i)].targets
    <3>1. /\ pending'[i] = targets /\ targets \in Seq(Platforms) /\ targets # <<>>
      BY <1>2, <2>1 DEF Row
    <3>2. \A k, l \in DOMAIN targets : targets[k] = targets[l] => k = l
      BY <1>1, <1>2, FrontsAssumption DEF FrontsAssumption, Sound, Placed, Outset, TypeOK
    <3>3. TargetsOf(i, Current(i)) = {targets[k] : k \in DOMAIN targets}
      BY DEF TargetsOf
    <3>4. TargetsOf(i, Current(i))' = TargetsOf(i, Current(i))
      BY <1>1, <2>1 DEF TargetsOf
    <3>5. \A k \in DOMAIN targets : work[<<i, Current(i), targets[k]>>] = "none"
      BY <1>4, <3>1
    <3> HIDE DEF targets
    <3>6. QED
      BY <1>1, <2>1, <3>1, <3>2, <3>3, <3>4, <3>5 DEF RowUnderway, WorkOn
  <2>6. StaleSkipped(i)'
    <3>1. ASSUME <<i, Current(i)>> \in stale PROVE FALSE
      BY <1>1, <1>2, <1>8, <3>1 DEF Sound, StaleSkipped, Sendable, Row
    <3>2. QED
      BY <1>1, <1>5, <2>1, <3>1 DEF Sound, StaleSkipped
  <2>7. QED
    BY <1>6, <2>3, <2>4, <2>5, <2>6 DEF Sound
<1>9. QED
  BY <1>7, <1>8 DEF StartRow

\* The record of a row: when every target was reported the same way, that is what
\* became of every target.
LEMMA RecordSound ==
    ASSUME TypeOK, NEW i \in Invocations, Sound(i),
           \/ Record(i)
           \/ RecordFails(i) /\ request[i].call = "batch"
    PROVE  Sound(i)'
<1>1. PICK n : n = Current(i)
  OBVIOUS
<1>2. PICK x : x = IF Record(i) THEN RowResult(i) ELSE "rejected"
  OBVIOUS
<1>3. /\ at[i] = "record" /\ Finish(i, x)
      /\ UNCHANGED <<request, ready, answer, jobs, media, stale, work>>
  BY <1>2 DEF Record, RecordFails
<1>4. /\ n \in RowNumbers /\ n \in DOMAIN request[i].rows
      /\ n = Len(results[i]) + 1 /\ Len(results[i]) \in Nat
  BY <1>1, <1>3, Types, CurrentRow DEF Sound, Outset
<1>5. TargetsOf(i, n) \subseteq Platforms /\ TargetsOf(i, n) # {}
  BY <1>4, TargetsTyped
<1>6. \A m : TargetsOf(i, m)' = TargetsOf(i, m)
  BY <1>3 DEF TargetsOf
<1>7. ~Recorded(i, n)
  BY <1>4 DEF Sound, InTurn
<1>8. \A p \in TargetsOf(i, n) : \E entry \in reported[i] : entry.platform = p
  BY <1>1, <1>3 DEF Sound, RowUnderway, Underway
<1>9. ASSUME Outcomes(i) = {"queued"}
      PROVE  \A p \in TargetsOf(i, n) : work[<<i, n, p>>] = "performed"
  <2>1. \A entry \in reported[i] : entry.outcome = "queued"
    BY <1>9 DEF Outcomes
  <2>2. QED
    BY <1>1, <1>3, <1>8, <2>1 DEF Sound, RowUnderway, Underway, WorkOn
<1>10. ASSUME Outcomes(i) = {"unavailable"}
       PROVE  \A p \in TargetsOf(i, n) : work[<<i, n, p>>] \in {"none", "refused"}
  <2>1. \A entry \in reported[i] : entry.outcome = "unavailable"
    BY <1>10 DEF Outcomes
  <2>2. QED
    BY <1>1, <1>3, <1>8, <2>1 DEF Sound, RowUnderway, Underway, WorkOn
<1> DEFINE line == [row |-> <<i, n>>, state |-> HistoryState(i)]
<1>11. history' = history \/ (Record(i) /\ history' = history \cup {line})
  BY <1>1 DEF Record, RecordFails
<1>12. \A entry : entry.row # <<i, n>> => (entry \in history' <=> entry \in history)
  BY <1>11
<1>13. RowDone(i, n, x)'
  <2>1. CASE Record(i)
    <3>1. x = RowResult(i)
      BY <1>2, <2>1
    <3>2. request[i].call \in Videos => history' = history \cup {line}
      BY <1>1, <2>1 DEF Record, Videos, Articles
    <3>3. x = "queued" => Outcomes(i) = {"queued"} /\ HistoryState(i) = "published"
      BY <3>1 DEF RowResult, HistoryState
    <3>4. x = "unavailable" => Outcomes(i) = {"unavailable"}
      BY <3>1 DEF RowResult
    <3>5. x # "skipped"
      BY <3>1 DEF RowResult
    <3>6. request[i].call \in Videos => Recorded(i, n)'
      <4>1. line.row = <<i, n>>
        OBVIOUS
      <4>2. QED
        BY <3>2, <4>1 DEF Recorded
    <3>7. QED
      BY <1>3, <1>6, <1>9, <1>10, <3>2, <3>3, <3>4, <3>5, <3>6 DEF RowDone
  <2>2. CASE ~Record(i)
    BY <1>2, <2>2 DEF RowDone
  <2>3. QED
    BY <2>1, <2>2
<1>14. Recounted(i)'
  <2>1. \A entry \in history : entry.row # <<i, n>>
    BY <1>7 DEF Recorded
  <2>2. ASSUME NEW entry \in history', entry.row[1] = i
        PROVE  /\ entry.state = "published" =>
                    \A p \in TargetsOf(i, entry.row[2]) :
                       work[<<i, entry.row[2], p>>] = "performed"
               /\ entry.state = "unavailable" =>
                    \A p \in TargetsOf(i, entry.row[2]) :
                       work[<<i, entry.row[2], p>>] \in {"none", "refused"}
               /\ \A other \in history' : other.row = entry.row => other = entry
    <3>1. CASE entry \in history
      BY <1>11, <2>1, <2>2, <3>1 DEF Sound, Recounted
    <3>2. CASE entry \notin history
      <4>1. entry = line /\ \A other \in history' : other.row = entry.row => other = entry
        BY <1>11, <2>1, <2>2, <3>2
      <4>2. /\ entry.row[2] = n
            /\ entry.state = "published" => Outcomes(i) = {"queued"}
            /\ entry.state = "unavailable" => Outcomes(i) = {"unavailable"}
        BY <4>1 DEF HistoryState
      <4>3. QED
        BY <1>9, <1>10, <4>1, <4>2
    <3>3. QED
      BY <3>1, <3>2
  <2>3. QED
    BY <1>3, <1>6, <2>2 DEF Recounted
<1>15. QED
  BY <1>1, <1>3, <1>12, <1>13, <1>14, FinishSound

\* A runner is asked about the first target that is left, of a row nothing is told of.
LEMMA AskSound ==
    ASSUME TypeOK, NEW i \in Invocations, Sound(i), Ask(i)
    PROVE  Sound(i)'
<1>1. PICK n : n = Current(i)
  OBVIOUS
<1>2. PICK q : q = Head(pending[i])
  OBVIOUS
<1>3. /\ at[i] = "target" /\ at'[i] = "asked"
      /\ UNCHANGED <<request, ready, pending, reported, results, answer, history, jobs,
                     media, stale>>
  BY DEF Ask, TypeOK
<1>4. /\ n \in RowNumbers /\ n \in DOMAIN request[i].rows
      /\ n = Len(results[i]) + 1 /\ Len(results[i]) \in Nat
      /\ DOMAIN results[i] = 1 .. Len(results[i])
      /\ DOMAIN request[i].rows = 1 .. Len(request[i].rows)
      /\ Len(request[i].rows) \in RowNumbers /\ RowNumbers = 1 .. MaxRows /\ MaxRows \in Nat
  BY <1>1, <1>3, Types, CurrentRow DEF Sound, Outset
<1>5. /\ pending[i] # <<>> /\ pending[i] \in Seq(Platforms)
      /\ 1 \in DOMAIN pending[i] /\ q = pending[i][1]
  BY <1>2, <1>3, Types DEF Sound, RowUnderway, Underway
<1>6. q \in TargetsOf(i, n) /\ q \in Platforms
  BY <1>1, <1>3, <1>5 DEF Sound, RowUnderway, Underway
<1>7. /\ work'[<<i, n, q>>] = "working"
      /\ \A m \in RowNumbers : \A p \in Platforms :
            m # n \/ p # q => work'[<<i, m, p>>] = work[<<i, m, p>>]
  BY <1>1, <1>2, <1>4, <1>6 DEF Ask, WorkOn, Targets, RowNumbers, TypeOK
<1>8. /\ \A m : TargetsOf(i, m)' = TargetsOf(i, m)
      /\ \A m : Recorded(i, m)' <=> Recorded(i, m)
      /\ Current(i)' = Current(i) /\ (Keeps(request[i])' <=> Keeps(request[i]))
      /\ \A m \in DOMAIN request[i].rows : TargetsOf(i, m) \subseteq Platforms
  BY <1>3, TargetsTyped DEF TargetsOf, Recorded, Current, Keeps
<1>9. Placed(i)'
  BY <1>3, <1>8 DEF Sound, Placed, Outset
<1>10. InTurn(i)'
  BY <1>3, <1>4, <1>7, <1>8 DEF Sound, InTurn
<1>11. RowUnderway(i)'
  <2>1. /\ TargetsOf(i, Current(i))' = TargetsOf(i, n) /\ Current(i)' = n
        /\ TargetsOf(i, n) \subseteq Platforms
        /\ at'[i] = "asked" /\ pending'[i] = pending[i] /\ reported'[i] = reported[i]
    BY <1>1, <1>3, <1>4, <1>8 DEF TargetsOf
  <2>2. \A k \in DOMAIN pending[i] :
          /\ k > 1 => work'[<<i, n, pending[i][k]>>] = "none"
          /\ pending[i][k] \in TargetsOf(i, n)
          /\ \A l \in DOMAIN pending[i] : pending[i][k] = pending[i][l] => k = l
          /\ \A entry \in reported[i] : entry.platform # pending[i][k]
    <3>1. \A k \in DOMAIN pending[i] :
            /\ work[<<i, n, pending[i][k]>>] = "none"
            /\ pending[i][k] \in TargetsOf(i, n)
            /\ \A l \in DOMAIN pending[i] : pending[i][k] = pending[i][l] => k = l
            /\ \A entry \in reported[i] : entry.platform # pending[i][k]
      BY <1>1, <1>3 DEF Sound, RowUnderway, Underway, WorkOn
    <3>2. \A k \in DOMAIN pending[i] : k > 1 => pending[i][k] # q
      <4>1. SUFFICES ASSUME NEW k \in DOMAIN pending[i], k > 1, pending[i][k] = q
                     PROVE  FALSE
        OBVIOUS
      <4>2. k = 1
        BY <1>5, <3>1, <4>1
      <4>3. QED
        BY <4>1, <4>2
    <3>3. QED
      BY <1>4, <1>7, <2>1, <3>1, <3>2
  <2>3. /\ \A entry \in reported[i] :
            /\ entry.platform \in TargetsOf(i, n) /\ entry.platform # q
            /\ entry.outcome = "queued" => work[<<i, n, entry.platform>>] = "performed"
            /\ entry.outcome = "unavailable" =>
                 work[<<i, n, entry.platform>>] \in {"none", "refused"}
        /\ \A p \in TargetsOf(i, n) :
            \/ \E k \in DOMAIN pending[i] : pending[i][k] = p
            \/ \E entry \in reported[i] : entry.platform = p
    BY <1>1, <1>3, <1>5 DEF Sound, RowUnderway, Underway, WorkOn
  <2>4. \A entry \in reported[i] :
          work'[<<i, n, entry.platform>>] = work[<<i, n, entry.platform>>]
    BY <1>4, <1>7, <2>1, <2>3
  <2>5. \A k \in DOMAIN pending[i] :
          k > 1 \/ at'[i] # "asked" => work'[<<i, n, pending[i][k]>>] = "none"
    BY <2>1, <2>2
  <2>6. pending'[i] = <<>> <=> at'[i] = "record"
    BY <1>5, <2>1
  <2>7. QED
    BY <2>1, <2>2, <2>3, <2>4, <2>5, <2>6, SMTT(60) DEF RowUnderway, WorkOn
<1>12. RowsDone(i)'
  <2>1. \A m \in DOMAIN results[i] : m # n /\ m \in DOMAIN request[i].rows /\ m \in RowNumbers
    BY <1>4
  <2>2. QED
    BY <1>3, <1>7, <1>8, <2>1 DEF Sound, RowsDone, RowDone
<1>13. Told(i)'
  BY <1>3, <1>8 DEF Sound, Told, Summary
<1>14. Recounted(i)'
  <2>1. \A entry \in history : entry.row[1] = i =>
           /\ entry.row[2] # n /\ entry.row[2] \in RowNumbers
           /\ entry.row[2] \in DOMAIN request[i].rows
    <3>1. SUFFICES ASSUME NEW entry \in history, entry.row[1] = i
                   PROVE  /\ entry.row[2] # n /\ entry.row[2] \in RowNumbers
                          /\ entry.row[2] \in DOMAIN request[i].rows
      OBVIOUS
    <3>2. entry.row = <<i, entry.row[2]>> /\ entry.row[2] \in RowNumbers
      BY <3>1 DEF TypeOK, RowNumbers
    <3>3. entry.row[2] <= Len(results[i])
      BY <3>2 DEF Sound, InTurn, Recorded
    <3>4. QED
      BY <1>4, <3>2, <3>3
  <2>2. QED
    BY <1>3, <1>7, <1>8, <2>1 DEF Sound, Recounted
<1>15. StaleSkipped(i)'
  BY <1>1, <1>3, <1>7, <1>8 DEF Sound, StaleSkipped, Underway
<1>16. QED
  BY <1>9, <1>10, <1>11, <1>12, <1>13, <1>14, <1>15 DEF Sound

\* A target is reported as what the runner has made of it allows.
LEMMA ReportSound ==
    ASSUME TypeOK, NEW i \in Invocations, Sound(i), at[i] \in {"target", "asked"},
           NEW x, Report(i, x),
           UNCHANGED <<request, ready, results, answer, history, jobs, media, stale, work>>,
           x = "queued" => work[WorkOn(i, Head(pending[i]))] = "performed",
           x = "unavailable" => work[WorkOn(i, Head(pending[i]))] \in {"none", "refused"}
    PROVE  Sound(i)'
<1>1. PICK n : n = Current(i)
  OBVIOUS
<1>2. PICK q : q = Head(pending[i])
  OBVIOUS
<1>3. PICK todo : todo = pending[i]
  OBVIOUS
<1>4. /\ todo # <<>> /\ todo \in Seq(Platforms) /\ 1 \in DOMAIN todo /\ q = todo[1]
      /\ \A k \in DOMAIN Tail(todo) : k + 1 \in DOMAIN todo /\ Tail(todo)[k] = todo[k + 1]
                                      /\ k + 1 > 1 /\ k \in Nat
      /\ \A k \in DOMAIN todo : k # 1 => k - 1 \in DOMAIN Tail(todo)
                                         /\ Tail(todo)[k - 1] = todo[k]
  BY <1>2, <1>3, Types DEF Sound, RowUnderway, Underway
<1> DEFINE entry0 == [platform |-> q, outcome |-> x]
<1>5. /\ at'[i] = (IF Tail(todo) = <<>> THEN "record" ELSE "target")
      /\ pending'[i] = Tail(todo) /\ reported'[i] = reported[i] \cup {entry0}
      /\ UNCHANGED <<request, ready, results, answer, history, jobs, media, stale, work>>
  BY <1>2, <1>3 DEF Report, TypeOK
<1>6. /\ \A m : TargetsOf(i, m)' = TargetsOf(i, m)
      /\ \A m : Recorded(i, m)' <=> Recorded(i, m)
      /\ Current(i)' = n /\ (Keeps(request[i])' <=> Keeps(request[i]))
  BY <1>1, <1>5 DEF TargetsOf, Recorded, Current, Keeps
<1>7. Placed(i)'
  BY <1>5, <1>6 DEF Sound, Placed, Outset
<1>8. InTurn(i)' /\ RowsDone(i)' /\ Told(i)' /\ Recounted(i)' /\ StaleSkipped(i)'
  BY <1>1, <1>5, <1>6 DEF Sound, InTurn, RowsDone, RowDone, Told, Summary, Recounted,
                          StaleSkipped, Underway
<1>9. RowUnderway(i)'
  <2>1. /\ \A k \in DOMAIN todo :
            /\ k > 1 => work[<<i, n, todo[k]>>] = "none"
            /\ todo[k] \in TargetsOf(i, n)
            /\ \A l \in DOMAIN todo : todo[k] = todo[l] => k = l
            /\ \A entry \in reported[i] : entry.platform # todo[k]
        /\ \A entry \in reported[i] :
            /\ entry.platform \in TargetsOf(i, n)
            /\ entry.outcome = "queued" => work[<<i, n, entry.platform>>] = "performed"
            /\ entry.outcome = "unavailable" =>
                 work[<<i, n, entry.platform>>] \in {"none", "refused"}
        /\ \A p \in TargetsOf(i, n) :
            \/ \E k \in DOMAIN todo : todo[k] = p
            \/ \E entry \in reported[i] : entry.platform = p
    BY <1>1, <1>3 DEF Sound, RowUnderway, Underway, WorkOn
  <2> DEFINE rest == Tail(todo)
  <2>2. \A k \in DOMAIN rest :
            /\ work'[<<i, n, rest[k]>>] = "none"
            /\ rest[k] \in TargetsOf(i, n)
            /\ \A l \in DOMAIN rest : rest[k] = rest[l] => k = l
            /\ \A entry \in reported'[i] : entry.platform # rest[k]
    <3>1. SUFFICES ASSUME NEW k \in DOMAIN rest
                   PROVE  /\ work'[<<i, n, rest[k]>>] = "none"
                          /\ rest[k] \in TargetsOf(i, n)
                          /\ \A l \in DOMAIN rest : rest[k] = rest[l] => k = l
                          /\ \A entry \in reported'[i] : entry.platform # rest[k]
      OBVIOUS
    <3>2. k + 1 \in DOMAIN todo /\ rest[k] = todo[k + 1] /\ k + 1 > 1 /\ k \in Nat
      BY <1>4
    <3>3. work'[<<i, n, rest[k]>>] = "none" /\ rest[k] \in TargetsOf(i, n)
      BY <1>5, <2>1, <3>2
    <3>4. ASSUME NEW l \in DOMAIN rest, rest[k] = rest[l] PROVE k = l
      <4>1. l + 1 \in DOMAIN todo /\ rest[l] = todo[l + 1] /\ l \in Nat
        BY <1>4
      <4>2. k + 1 = l + 1
        BY <2>1, <3>2, <3>4, <4>1
      <4>3. QED
        BY <3>2, <4>1, <4>2
    <3>5. rest[k] # q
      <4>1. SUFFICES ASSUME todo[k + 1] = todo[1] PROVE FALSE
        BY <1>4, <3>2
      <4>2. k + 1 = 1
        BY <1>4, <2>1, <3>2, <4>1
      <4>3. QED
        BY <3>2, <4>2
    <3>6. \A entry \in reported[i] : entry.platform # rest[k]
      <4>1. \A l \in DOMAIN todo : \A entry \in reported[i] : entry.platform # todo[l]
        BY <2>1
      <4>2. QED
        BY <3>2, <4>1
    <3>7. QED
      BY <1>5, <3>3, <3>4, <3>5, <3>6
  <2>3. \A entry \in reported'[i] :
            /\ entry.platform \in TargetsOf(i, n)
            /\ entry.outcome = "queued" => work'[<<i, n, entry.platform>>] = "performed"
            /\ entry.outcome = "unavailable" =>
                 work'[<<i, n, entry.platform>>] \in {"none", "refused"}
    <3>1. /\ entry0.platform \in TargetsOf(i, n)
          /\ entry0.outcome = "queued" => work[<<i, n, q>>] = "performed"
          /\ entry0.outcome = "unavailable" => work[<<i, n, q>>] \in {"none", "refused"}
      BY <1>1, <1>2, <1>4, <2>1 DEF WorkOn
    <3>2. QED
      BY <1>5, <2>1, <3>1
  <2>4. \A p \in TargetsOf(i, n) :
            \/ \E k \in DOMAIN rest : rest[k] = p
            \/ \E entry \in reported'[i] : entry.platform = p
    <3>1. SUFFICES ASSUME NEW p \in TargetsOf(i, n)
                   PROVE  \/ \E k \in DOMAIN rest : rest[k] = p
                          \/ \E entry \in reported'[i] : entry.platform = p
      OBVIOUS
    <3>2. CASE p = q
      <4>1. entry0 \in reported'[i] /\ entry0.platform = p
        BY <1>5, <3>2
      <4>2. QED
        BY <4>1
    <3>3. CASE \E entry \in reported[i] : entry.platform = p
      BY <1>5, <3>3
    <3>4. ASSUME NEW k \in DOMAIN todo, todo[k] = p, p # q PROVE \E l \in DOMAIN rest : rest[l] = p
      <4>1. k # 1
        BY <1>4, <3>4
      <4>2. k - 1 \in DOMAIN rest /\ rest[k - 1] = p
        BY <1>4, <3>4, <4>1
      <4>3. QED
        BY <4>2
    <3>5. QED
      BY <2>1, <3>2, <3>3, <3>4
  <2>5. TargetsOf(i, Current(i))' = TargetsOf(i, n)
    BY <1>5, <1>6 DEF TargetsOf
  <2>6. /\ pending'[i] = rest /\ (rest = <<>> <=> at'[i] = "record") /\ Current(i)' = n
        /\ at'[i] # "asked"
    BY <1>5, <1>6
  <2> HIDE DEF rest
  <2>7. QED
    BY <2>2, <2>3, <2>4, <2>5, <2>6, SMTT(60) DEF RowUnderway, WorkOn
<1>10. QED
  BY <1>7, <1>8, <1>9 DEF Sound

LEMMA TargetSound ==
    ASSUME TypeOK, NEW i \in Invocations, Sound(i), NoRunner(i) \/ Unreachable(i) \/ Hear(i)
    PROVE  Sound(i)'
<1>1. CASE NoRunner(i)
  <2>1. work[WorkOn(i, Head(pending[i]))] = "none"
    <3>1. at[i] = "target" /\ pending[i] # <<>> /\ pending[i] \in Seq(Platforms)
      BY <1>1, Types DEF NoRunner, Sound, RowUnderway, Underway
    <3>2. 1 \in DOMAIN pending[i] /\ Head(pending[i]) = pending[i][1]
      BY <3>1
    <3>3. QED
      BY <3>1, <3>2 DEF Sound, RowUnderway, Underway
  <2>2. QED
    BY <1>1, <2>1, ReportSound DEF NoRunner
<1>2. CASE Unreachable(i)
  BY <1>2, ReportSound DEF Unreachable
<1>3. CASE Hear(i)
  BY <1>3, ReportSound DEF Hear, Outcome
<1>4. QED
  BY <1>1, <1>2, <1>3

-----------------------------------------------------------------------------
(* The world, and the whole. *)

LEMMA PerformSound ==
    ASSUME TypeOK, FrontsInv, Perform
    PROVE  FrontsInv'
<1> SUFFICES ASSUME NEW i \in Invocations PROVE Sound(i)'
  BY DEF FrontsInv
<1>1. UNCHANGED <<at, request, ready, pending, reported, results, answer, history, jobs,
                  media, stale>>
  BY DEF Perform, callVars
<1>2. PICK t \in Targets :
        /\ work[t] = "working"
        /\ \E status \in {"performed", "refused"} : work' = [work EXCEPT ![t] = status]
  BY DEF Perform
<1>3. \A m \in RowNumbers : \A p \in Platforms : Settles(<<i, m, p>>)
  BY <1>2 DEF Settles, TypeOK, Targets, RowNumbers
<1>4. Told(i)'
  BY <1>1 DEF FrontsInv, Sound, Told, Summary, Keeps
<1>5. QED
  BY <1>1, <1>3, <1>4, StillSound DEF Still, FrontsInv

LEMMA VanishSound ==
    ASSUME TypeOK, FrontsInv, Vanish
    PROVE  FrontsInv'
<1> SUFFICES ASSUME NEW i \in Invocations PROVE Sound(i)'
  BY DEF FrontsInv
<1>0. Sound(i)
  BY DEF FrontsInv
<1>1. UNCHANGED <<at, request, ready, pending, reported, results, answer, history, jobs,
                  work>>
  BY DEF Vanish, callVars
<1>2. /\ Placed(i)' /\ InTurn(i)' /\ RowUnderway(i)' /\ RowsDone(i)' /\ Told(i)'
      /\ Recounted(i)'
  <2>1. Placed(i)' /\ InTurn(i)' /\ Told(i)'
    BY <1>0, <1>1 DEF Sound, Placed, Untouched, InTurn, Told, Recorded, Summary, Keeps
  <2>2. RowUnderway(i)'
    <3>1. Current(i)' = Current(i) /\ \A n : TargetsOf(i, n)' = TargetsOf(i, n)
      BY <1>1 DEF Current, TargetsOf
    <3>2. QED
      BY <1>0, <1>1, <3>1 DEF Sound, RowUnderway, WorkOn
  <2>3. RowsDone(i)'
    BY <1>0, <1>1 DEF Sound, RowsDone, RowDone, TargetsOf, Recorded
  <2>4. Recounted(i)'
    BY <1>0, <1>1 DEF Sound, Recounted, TargetsOf
  <2>5. QED
    BY <2>1, <2>2, <2>3, <2>4
<1>3. PICK f \in media :
        /\ media' = media \ {f}
        /\ stale' = stale \cup
             {t \in Invocations \X RowNumbers :
                LET r == request[t[1]] IN
                /\ at[t[1]] # "idle"
                /\ r.call = "batch"
                /\ t[2] \in DOMAIN r.rows
                /\ r.rows[t[2]].file = f
                /\ t[2] > IF at[t[1]] = "row" THEN Len(results[t[1]]) ELSE Current(t[1])}
  BY DEF Vanish, RowNumbers
<1>4. StaleSkipped(i)'
  <2>1. SUFFICES ASSUME NEW n \in RowNumbers, <<i, n>> \in stale'
                 PROVE  /\ at[i] # "idle"
                        /\ request[i].call = "batch"
                        /\ n \in DOMAIN request[i].rows
                        /\ request[i].rows[n].file \notin media'
                        /\ \A p \in TargetsOf(i, n) : work[<<i, n, p>>] = "none"
                        /\ ~Recorded(i, n)
                        /\ n \in DOMAIN results[i] => results[i][n] = "skipped"
                        /\ at[i] \in Underway => n # Current(i)
    BY <1>1 DEF StaleSkipped, TargetsOf, Recorded, Current
  <2>2. CASE <<i, n>> \in stale
    BY <1>0, <1>3, <2>2 DEF Sound, StaleSkipped
  <2>3. CASE <<i, n>> \notin stale
    <3>1. /\ at[i] # "idle"
          /\ request[i].call = "batch"
          /\ n \in DOMAIN request[i].rows
          /\ request[i].rows[n].file = f
          /\ n > IF at[i] = "row" THEN Len(results[i]) ELSE Current(i)
      BY <1>3, <2>1, <2>3
    <3>2. /\ Current(i) = Len(results[i]) + 1 /\ Len(results[i]) \in Nat
          /\ DOMAIN results[i] = 1 .. Len(results[i]) /\ n \in Nat
      BY Types
    <3>3. /\ n > Len(results[i]) /\ n \notin DOMAIN results[i]
          /\ n > Len(results[i]) + 1 \/ at[i] = "row"
          /\ at[i] # "row" => n # Current(i)
      BY <3>1, <3>2
    <3>4. /\ ~Recorded(i, n)
          /\ \A p \in Platforms : work[<<i, n, p>>] = "none"
      BY <1>0, <3>2, <3>3 DEF Sound, InTurn
    <3>5. QED
      BY <1>3, <3>1, <3>3, <3>4, TargetsTyped DEF Underway
  <2>4. QED
    BY <2>2, <2>3
<1>5. QED
  BY <1>2, <1>4 DEF Sound

\* The inductive invariant of the programs: types, and every invocation's own.
LEMMA FrontsSound == Spec => [](TypeOK /\ FrontsInv)
<1>1. Init => TypeOK /\ FrontsInv
  <2> SUFFICES ASSUME Init PROVE TypeOK /\ FrontsInv
    OBVIOUS
  <2>1. (CHOOSE r \in Requests : TRUE) \in Requests
    BY FrontsAssumption DEF FrontsAssumption
  <2>2. TypeOK
    BY <2>1 DEF Init, TypeOK
  <2>3. ASSUME NEW i \in Invocations PROVE Sound(i)
    <3>1. /\ at[i] = "idle" /\ results[i] = <<>> /\ answer[i] = "none" /\ reported[i] = {}
          /\ history = {} /\ stale = {} /\ jobs = {}
      BY DEF Init
    <3>2. \A m \in RowNumbers : \A p \in Platforms : work[<<i, m, p>>] = "none"
      BY DEF Init, Targets, RowNumbers
    <3>3. Untouched(i)
      BY <3>1, <3>2 DEF Untouched, Recorded
    <3>4. Len(results[i]) = 0 /\ Len(request[i].rows) \in Nat
      BY <2>2, <3>1, Types DEF RowNumbers
    <3>5. Placed(i)
      BY <3>1, <3>3, <3>4 DEF Placed, Outset
    <3>6. QED
      BY <3>1, <3>2, <3>3, <3>5 DEF Sound, InTurn, Untouched, RowUnderway, Underway,
                                    RowsDone, Told, Recounted, StaleSkipped
  <2>4. QED
    BY <2>2, <2>3 DEF FrontsInv
<1>2. TypeOK /\ FrontsInv /\ [Next]_vars => TypeOK' /\ FrontsInv'
  <2> SUFFICES ASSUME TypeOK, FrontsInv, [Next]_vars PROVE FrontsInv'
    BY TypeSteps
  <2>1. ASSUME NEW i \in Invocations, Step(i) \/ Crash(i) PROVE FrontsInv'
    <3>1. Sound(i)
      BY DEF FrontsInv
    <3>2. Sound(i)'
      BY <2>1, <3>1, BeginSound, EndSound, StartRowSound, TargetSound, AskSound, RecordSound
         DEF Step
    <3>3. QED
      BY <2>1, <3>2, StepsAreOwn, OthersStaySound
  <2>2. CASE UNCHANGED vars
    <3>1. SUFFICES ASSUME NEW i \in Invocations PROVE Sound(i)'
      BY DEF FrontsInv
    <3>2. UNCHANGED <<at, request, pending, reported, results, answer, history, jobs, media,
                      stale, work>>
      BY <2>2 DEF vars, callVars
    <3>3. Still(i)
      BY <3>2 DEF Still, Settles
    <3>4. Told(i)'
      BY <3>2 DEF FrontsInv, Sound, Told, Summary, Keeps
    <3>5. QED
      BY <3>2, <3>3, <3>4, StillSound DEF FrontsInv
  <2>3. QED
    BY <2>1, <2>2, PerformSound, VanishSound DEF Next
<1>3. QED
  BY <1>1, <1>2, PTL DEF Spec

-----------------------------------------------------------------------------
(* What it comes to. *)

\* Types: the programs' places, the rows they have done and what they tell.
THEOREM FrontsTypes == Spec => []TypeOK
BY FrontsSound, PTL

\* provider_dispatch_history_outcome: what the daemon, the command line, the MCP server
\* and the desktop record of a video is true of the runners for ever, whatever a runner
\* does after its caller has stopped waiting; and a row has one record.
THEOREM HistoryIsTrue == Spec => []HistoryTellsTheWork
<1>1. TypeOK /\ FrontsInv => HistoryTellsTheWork
  <2> SUFFICES ASSUME TypeOK, FrontsInv, NEW entry \in history
               PROVE  LET status == Status(entry.row[1], entry.row[2]) IN
                      /\ entry.state = "published" => status = {"performed"}
                      /\ entry.state = "unavailable" => status \subseteq {"none", "refused"}
                      /\ \A other \in history : other.row = entry.row => other = entry
    BY DEF HistoryTellsTheWork
  <2> DEFINE i == entry.row[1]
             n == entry.row[2]
  <2>1. i \in Invocations /\ n \in RowNumbers /\ entry.row = <<i, n>> /\ Sound(i)
    BY DEF TypeOK, RowNumbers, FrontsInv
  <2>2. n \in DOMAIN request[i].rows
    BY <2>1, Types DEF Sound, InTurn, Placed, Recorded
  <2>3. TargetsOf(i, n) # {}
    BY <2>1, <2>2, TargetsTyped
  <2>4. /\ entry.state = "published" =>
             \A p \in TargetsOf(i, n) : work[<<i, n, p>>] = "performed"
        /\ entry.state = "unavailable" =>
             \A p \in TargetsOf(i, n) : work[<<i, n, p>>] \in {"none", "refused"}
        /\ \A other \in history : other.row = entry.row => other = entry
    BY <2>1 DEF Sound, Recounted
  <2> HIDE DEF i, n
  <2>5. QED
    BY <2>3, <2>4 DEF Status, i, n
<1>2. QED
  BY <1>1, FrontsSound, PTL

\* emit, emit_dispatch, classify and their counterparts: a success is told only when it
\* was published and recorded, an unavailable runner only when nothing was or can be
\* published, and what waits for the scheduler was shown to no runner.
THEOREM AnswersAreTrue == Spec => []AnswersAreEarned
<1>1. TypeOK /\ FrontsInv => AnswersAreEarned
  <2> SUFFICES ASSUME TypeOK, FrontsInv, NEW i \in Invocations
               PROVE
                 /\ answer[i] = "queued" => \A n \in RowsOf(i) :
                      /\ Status(i, n) = {"performed"}
                      /\ request[i].call \in Videos =>
                           [row |-> <<i, n>>, state |-> "published"] \in history
                 /\ answer[i] = "unavailable" =>
                      \A n \in RowsOf(i) : Status(i, n) \subseteq {"none", "refused"}
                 /\ answer[i] = "stored" => i \in jobs
                 /\ i \in jobs =>
                      \A n \in RowsOf(i) : Status(i, n) = {"none"} /\ ~Recorded(i, n)
                 /\ (request[i].call = "mcp_video" /\ request[i].scheduled) =>
                      \A n \in RowsOf(i) : Status(i, n) = {"none"}
    BY DEF AnswersAreEarned
  <2>0. Sound(i)
    BY DEF FrontsInv
  <2>1. /\ \A n \in RowsOf(i) : /\ n \in RowNumbers /\ TargetsOf(i, n) # {}
                                /\ TargetsOf(i, n) \subseteq Platforms
        /\ Len(results[i]) = Len(request[i].rows) => DOMAIN results[i] = RowsOf(i)
    BY Types, TargetsTyped DEF RowsOf, RowNumbers
  <2>2. ASSUME Keeps(request[i]), NEW n \in RowsOf(i)
        PROVE  Status(i, n) = {"none"} /\ ~Recorded(i, n)
    <3>1. /\ \A p \in TargetsOf(i, n) : work[<<i, n, p>>] = "none"
          /\ ~Recorded(i, n)
      BY <2>0, <2>1, <2>2 DEF Sound, Placed, Untouched
    <3>2. QED
      BY <2>1, <3>1 DEF Status
  <2>3. ASSUME answer[i] = "queued", NEW n \in RowsOf(i)
        PROVE  /\ Status(i, n) = {"performed"}
               /\ request[i].call \in Videos =>
                    [row |-> <<i, n>>, state |-> "published"] \in history
    <3>1. n \in DOMAIN results[i] /\ results[i][n] = "queued"
      BY <2>0, <2>1, <2>3 DEF Sound, Told, Summary
    <3>2. RowDone(i, n, "queued")
      BY <2>0, <3>1 DEF Sound, RowsDone
    <3>3. QED
      BY <2>1, <3>2 DEF RowDone, Status
  <2>4. ASSUME answer[i] = "unavailable", NEW n \in RowsOf(i)
        PROVE  Status(i, n) \subseteq {"none", "refused"}
    <3>1. n \in DOMAIN results[i] /\ results[i][n] = "unavailable"
      BY <2>0, <2>1, <2>4 DEF Sound, Told, Summary
    <3>2. RowDone(i, n, "unavailable")
      BY <2>0, <3>1 DEF Sound, RowsDone
    <3>3. QED
      BY <3>2 DEF RowDone, Status
  <2>5. /\ answer[i] = "stored" => i \in jobs
        /\ i \in jobs => Keeps(request[i])
        /\ request[i].call = "mcp_video" /\ request[i].scheduled => Keeps(request[i])
    BY <2>0 DEF Sound, Told, Keeps
  <2>6. QED
    BY <2>2, <2>3, <2>4, <2>5
<1>2. QED
  BY <1>1, FrontsSound, PTL

\* local_runner_dispatch_report and its counterparts: whoever had a video worked on and
\* has no record of it was told of a failure, in a batch for that row and for the whole.
THEOREM LostRecordsAreTold == Spec => []UnrecordedIsTold
<1>1. TypeOK /\ FrontsInv => UnrecordedIsTold
  <2> SUFFICES ASSUME TypeOK, FrontsInv, NEW i \in Invocations, at[i] = "answered",
                      request[i].call \in Videos, NEW n \in RowsOf(i),
                      Status(i, n) # {"none"}, ~Recorded(i, n),
                      answer[i] \notin {"failed", "input"}
               PROVE  answer[i] = "rejected" /\ results[i][n] = "rejected"
    BY DEF UnrecordedIsTold
  <2>0. Sound(i)
    BY DEF FrontsInv
  <2>1. /\ n \in RowNumbers /\ TargetsOf(i, n) # {} /\ TargetsOf(i, n) \subseteq Platforms
        /\ Len(results[i]) = Len(request[i].rows) => n \in DOMAIN results[i]
    BY Types, TargetsTyped DEF RowsOf, RowNumbers
  <2>2. ~\A p \in TargetsOf(i, n) : work[<<i, n, p>>] = "none"
    <3>1. SUFFICES ASSUME \A p \in TargetsOf(i, n) : work[<<i, n, p>>] = "none"
                   PROVE  Status(i, n) = {"none"}
      OBVIOUS
    <3>2. QED
      BY <2>1, <3>1 DEF Status
  <2>3. ~Keeps(request[i])
    BY <2>0, <2>1, <2>2 DEF Sound, Placed, Untouched
  <2>4. answer[i] \in {"queued", "unavailable", "rejected"}
    BY <2>0, <2>3 DEF Sound, Told, TypeOK
  <2>5. n \in DOMAIN results[i] /\ answer[i] = Summary(results[i])
    BY <2>0, <2>1, <2>4 DEF Sound, Told
  <2>6. results[i][n] = "rejected"
    <3>1. RowDone(i, n, results[i][n])
      BY <2>0, <2>5 DEF Sound, RowsDone
    <3>2. results[i][n] \in {"queued", "unavailable", "rejected", "skipped"}
      BY <2>5 DEF TypeOK
    <3>3. QED
      BY <2>2, <3>1, <3>2 DEF RowDone
  <2>7. QED
    BY <2>5, <2>6 DEF Summary
<1>2. QED
  BY <1>1, FrontsSound, PTL

\* revalidate_source: a row of a batch whose file went away before its turn is skipped,
\* leaves no record, and keeps the batch from ending as a success.
THEOREM GoneFilesAreSkipped == Spec => []StaleFilesAreSkipped
<1>1. TypeOK /\ FrontsInv => StaleFilesAreSkipped
  <2> SUFFICES ASSUME TypeOK, FrontsInv, NEW t \in stale
               PROVE  /\ Status(t[1], t[2]) = {"none"}
                      /\ ~Recorded(t[1], t[2])
                      /\ answer[t[1]] \notin {"queued", "unavailable"}
    BY DEF StaleFilesAreSkipped
  <2> DEFINE i == t[1]
             n == t[2]
  <2>1. i \in Invocations /\ n \in RowNumbers /\ <<i, n>> \in stale /\ Sound(i)
    <3>1. t \in Invocations \X RowNumbers
      BY DEF TypeOK, RowNumbers
    <3>2. i \in Invocations /\ n \in RowNumbers /\ t = <<i, n>>
      BY <3>1
    <3>3. QED
      BY <3>2 DEF FrontsInv
  <2> HIDE DEF i, n
  <2>2. /\ n \in DOMAIN request[i].rows
        /\ \A p \in TargetsOf(i, n) : work[<<i, n, p>>] = "none"
        /\ ~Recorded(i, n)
        /\ n \in DOMAIN results[i] => results[i][n] = "skipped"
    BY <2>1 DEF Sound, StaleSkipped
  <2>3. Status(i, n) = {"none"}
    <3>1. TargetsOf(i, n) # {}
      BY <2>1, <2>2, TargetsTyped
    <3>2. QED
      BY <2>2, <3>1 DEF Status
  <2>4. ASSUME answer[i] \in {"queued", "unavailable"} PROVE FALSE
    <3>1. n \in DOMAIN results[i] /\ answer[i] = Summary(results[i])
      BY <2>1, <2>2, <2>4, Types DEF Sound, Told
    <3>2. QED
      BY <2>2, <2>4, <3>1 DEF Summary
  <2>5. QED
    BY <2>2, <2>3, <2>4 DEF i, n
<1>2. QED
  BY <1>1, FrontsSound, PTL
=============================================================================
