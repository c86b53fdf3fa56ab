-------------------------- MODULE TerminalQrProofs --------------------------
(***************************************************************************)
(* Proofs about the terminal QR login attempts, for any number of threads, *)
(* attempts, tokens, platforms and lost answers and any cap and lifetime.  *)
(***************************************************************************)
EXTENDS TerminalQrLogin, FiniteSetTheorems, FunctionTheorems, TLAPS

-----------------------------------------------------------------------------
(* The inductive invariant. *)

\* A start that has no session yet, and one that is not yet over.
Sessionless == {"sweep", "load", "swap", "open"}
StartSteps  == Sessionless \cup {"capture", "insert", "schedule"}
Sweeping(w) == at[w] \in {"close", "release"} /\ answer[w] = "none"
Starting(w) == at[w] \in StartSteps \/ Sweeping(w)

\* A thread: which request brought it where it is, and what it has in hand there.
Handling(w) ==
    /\ at[w] # "asleep"
    /\ at[w] \in StartSteps \cup {"idle", "lookup", "recapture", "find"} => answer[w] = "none"
    /\ Starting(w) => asked[w].kind = "start" /\ subject[w] \in Attempts
    /\ at[w] \in {"lookup", "recapture"} => asked[w].kind = "refresh"
    /\ at[w] = "find" => asked[w].kind = "cancel"
    /\ at[w] \in {"lookup", "recapture", "find", "schedule"} => asked[w].token \in Tokens
    /\ at[w] \in {"open", "capture", "insert"} => owns[w] = {subject[w]}
    /\ at[w] \notin {"open", "capture", "insert", "close", "release"} => owns[w] = {}

\* Its session: none before it is opened, open while it is captured.
Capturing(w) ==
    /\ at[w] \in Sessionless \/ Sweeping(w) => session[subject[w]] = "none"
    /\ at[w] \in {"capture", "insert"} => session[subject[w]] = "open"
    /\ at[w] = "schedule" => session[subject[w]] # "none"
    /\ lock = w <=> at[w] = "recapture"
    /\ at[w] = "recapture" => /\ subject[w] \in Attempts
                              /\ attempts[asked[w].token] = subject[w]
                              /\ PlatformOf[subject[w]] = asked[w].platform

\* What its caller will hear of a cancelled attempt.
Cancelling(w) ==
    answer[w] = "cancelled" =>
        /\ asked[w].kind = "cancel"
        /\ subject[w] \in Attempts
        /\ at[w] \in {"close", "release", "reply"}
        /\ at[w] # "reply" => owns[w] = {subject[w]}
        /\ at[w] # "close" => session[subject[w]] = "closed"

\* The expiry task of an attempt runs after its start.
Tasked(a) ==
    /\ at[a] \in {"idle", "asleep", "close", "release"}
    /\ at[a] \in {"idle", "asleep"} => owns[a] = {}
    /\ at[a] = "asleep" => timed[a] \in Tokens
    /\ at[a] # "idle" => session[a] # "none"
    /\ \A w \in Workers : Starting(w) /\ subject[w] = a => at[a] = "idle"

\* Every attempt has one thread that starts it; only a start has one without a session.
OneStart ==
    \A v, w \in Workers : subject[v] = subject[w] /\ subject[v] \in Attempts =>
        \/ v = w
        \/ session[subject[v]] # "none" /\ ~(Starting(v) /\ Starting(w))

\* The sessions of the attempts in the map are open, all open ones are held, and only
\* a start has an attempt without one in hand.
SessionsAreHeld ==
    /\ \A t \in Tokens : attempts[t] # NoAttempt => session[attempts[t]] = "open"
    /\ \A a \in Attempts : session[a] = "open" => a \in Holding
    /\ \A p \in Processes : \A a \in owns[p] : session[a] = "none" =>
          p \in Workers /\ at[p] \in {"open", "release"} /\ owns[p] = {a} /\ subject[p] = a

\* An attempt whose token is not yet told to its expiry task has no other token.
TimedAs ==
    \A t \in Tokens : attempts[t] # NoAttempt =>
       \/ \E w \in Workers : /\ at[w] = "schedule" /\ subject[w] = attempts[t]
                             /\ asked[w].token = t
       \/ LET a == attempts[t]
          IN  at[a] = "asleep" /\ timed[a] = t /\ slept[a] <= age[a]

SlotsInv == SlotsAreOwned /\ slots <= MaxActive

LeftInv == Cardinality({a \in Attempts : session[a] = "left"}) <= lostAnswers

AttemptsInv ==
    /\ TypeOK
    /\ \A w \in Workers : Handling(w) /\ Capturing(w) /\ Cancelling(w)
    /\ \A a \in Attempts : Tasked(a)
    /\ OneStart
    /\ OneOwner
    /\ SessionsAreHeld
    /\ TimedAs
    /\ SlotsInv
    /\ LeftInv

-----------------------------------------------------------------------------
(* Types. *)

LEMMA Names ==
    /\ NoAttempt \notin Attempts /\ NoToken \notin Tokens /\ NoWorker \notin Workers
    /\ Workers \cap Attempts = {} /\ Processes = Workers \cup Attempts
    /\ IsFiniteSet(Attempts) /\ IsFiniteSet(Tokens)
    /\ MaxActive \in Nat /\ Lifetime \in Nat /\ MaxLostAnswers \in Nat
    /\ PlatformOf \in [Attempts -> Platforms]
BY AttemptsAssumption DEF AttemptsAssumption, Processes

\* A request reaches a thread that is idle.
LEMMA ReceiveFacts ==
    ASSUME TypeOK, NEW w \in Workers, NEW r \in AnyRequest, Receive(w, r)
    PROVE  /\ at[w] = "idle" /\ r \in Request
           /\ asked' = [asked EXCEPT ![w] = r]
           /\ \/ /\ r.kind = "start" /\ at' = [at EXCEPT ![w] = "sweep"]
                 /\ \E a \in Fresh : subject' = [subject EXCEPT ![w] = a]
              \/ /\ r.kind = "refresh" /\ at' = [at EXCEPT ![w] = "lookup"]
                 /\ r.token \in Tokens /\ subject' = subject
              \/ /\ r.kind = "cancel" /\ at' = [at EXCEPT ![w] = "find"]
                 /\ r.token \in Tokens /\ subject' = subject
           /\ UNCHANGED <<slots, mapVars, timeVars, driverVars, owns, seen, answer>>
<1>1. /\ r \in Request /\ r.kind \in {"start", "refresh", "cancel"}
      /\ r.kind # "start" => r.token \in Tokens
  BY DEF AnyRequest, Request
<1>2. CASE r.kind = "start"
  BY <1>1, <1>2 DEF Receive, Goto
<1>3. CASE r.kind = "refresh"
  BY <1>1, <1>3 DEF Receive, Goto
<1>4. CASE r.kind = "cancel"
  BY <1>1, <1>4 DEF Receive, Goto
<1>5. QED
  BY <1>1, <1>2, <1>3, <1>4

LEMMA QrTypeSteps ==
    ASSUME AttemptsInv, [Next]_vars
    PROVE  TypeOK'
<1>0. TypeOK /\ \A w \in Workers : Handling(w) /\ Capturing(w)
  BY DEF AttemptsInv
<1>1. CASE UNCHANGED vars
  BY <1>0, <1>1 DEF TypeOK, vars, mapVars, timeVars, driverVars, handlerVars
<1>2. ASSUME NEW w \in Workers, NEW r \in AnyRequest, Receive(w, r) PROVE TypeOK'
  <2>1. at' \in [Processes -> Step]
    BY <1>0, <1>2, ReceiveFacts DEF TypeOK, Step
  <2>2. subject' \in [Workers -> Attempts \cup {NoAttempt}]
    BY <1>0, <1>2, ReceiveFacts DEF TypeOK, Fresh
  <2>3. asked' \in [Workers -> Request \cup {NoRequest}]
        /\ UNCHANGED <<slots, mapVars, timeVars, driverVars, owns, seen, answer>>
    BY <1>0, <1>2, ReceiveFacts DEF TypeOK
  <2>4. QED
    BY <1>0, <2>1, <2>2, <2>3 DEF TypeOK, mapVars, timeVars, driverVars
<1>3. ASSUME NEW w \in Workers, Reply(w) PROVE TypeOK'
  BY <1>0, <1>3 DEF TypeOK, Reply, Goto, Answers, Step, mapVars, timeVars, driverVars
<1>4. ASSUME NEW w \in Workers, LoadSlots(w) \/ RefuseSlot(w) \/ SwapSlots(w) PROVE TypeOK'
  <2>1. CASE LoadSlots(w) \/ RefuseSlot(w)
    BY <1>0, <2>1 DEF TypeOK, LoadSlots, RefuseSlot, Goto, Answers, Step, mapVars, timeVars,
                      driverVars
  <2>2. CASE SwapSlots(w)
    <3>1. subject[w] \in Attempts
      BY <1>0, <2>2 DEF SwapSlots, Handling, Starting, StartSteps, Sessionless
    <3>2. QED
      BY <1>0, <2>2, <3>1 DEF TypeOK, SwapSlots, Goto, Step, mapVars, timeVars, driverVars
  <2>3. QED
    BY <1>4, <2>1, <2>2
<1>5. ASSUME NEW w \in Workers, OpenSession(w) \/ Capture(w) PROVE TypeOK'
  <2>1. MaxLostAnswers \in Nat
    BY Names
  <2>2. QED
    BY <1>0, <1>5, <2>1 DEF TypeOK, OpenSession, Capture, Goto, Answers, LosesAnswer, Step,
                            mapVars, timeVars, driverVars
<1>6. ASSUME NEW w \in Workers, InsertAttempt(w) PROVE TypeOK'
  <2>1. /\ subject[w] \in Attempts /\ asked[w].kind = "start" /\ Lifetime \in Nat
    BY <1>0, <1>6, Names DEF InsertAttempt, Handling, Starting, StartSteps, Sessionless
  <2>2. asked[w] \in Request
    BY <1>0, <2>1 DEF TypeOK, NoRequest
  <2>3. asked' \in [Workers -> Request \cup {NoRequest}]
    BY <1>0, <1>6, <2>2 DEF TypeOK, InsertAttempt, Request
  <2>4. at' \in [Processes -> Step] /\ owns' \in [Processes -> SUBSET Attempts]
    BY <1>0, <1>6 DEF TypeOK, InsertAttempt, Goto, Step
  <2>8. age' \in [Attempts -> 0 .. Lifetime]
    BY <1>0, <1>6, <2>1 DEF TypeOK, InsertAttempt
  <2>5. attempts' \in [Tokens -> Attempts \cup {NoAttempt}]
    BY <1>0, <1>6, <2>1 DEF TypeOK, InsertAttempt
  <2>6. UNCHANGED <<slots, lock, slept, timed, driverVars, subject, seen, answer>>
    BY <1>6 DEF InsertAttempt
  <2>7. QED
    BY <1>0, <2>3, <2>4, <2>5, <2>6, <2>8 DEF TypeOK, driverVars
<1>7. ASSUME NEW w \in Workers, ScheduleExpiry(w) PROVE TypeOK'
  <2>1. subject[w] \in Attempts /\ asked[w].token \in Tokens /\ Lifetime \in Nat
    BY <1>0, <1>7, Names DEF ScheduleExpiry, Handling, Starting, StartSteps, Sessionless
  <2>2. at' \in [Processes -> Step]
    BY <1>0, <1>7 DEF TypeOK, ScheduleExpiry, Step
  <2>3. QED
    BY <1>0, <1>7, <2>1, <2>2 DEF TypeOK, ScheduleExpiry, Answers, mapVars, driverVars
<1>8. ASSUME NEW w \in Workers, RejectUnknown(w) PROVE TypeOK'
  BY <1>0, <1>8 DEF TypeOK, RejectUnknown, Goto, Answers, Step, mapVars, timeVars, driverVars
<1>9. ASSUME NEW p \in Processes, NEW T \in SUBSET Tokens, TakeOut(p, T),
             \A t \in T : attempts[t] # NoAttempt
      PROVE  attempts' \in [Tokens -> Attempts \cup {NoAttempt}]
             /\ owns' \in [Processes -> SUBSET Attempts]
  BY <1>0, <1>9 DEF TypeOK, TakeOut
<1>10. ASSUME NEW w \in Workers, RemoveExpired(w) PROVE TypeOK'
  <2> DEFINE expired == {t \in Tokens : attempts[t] # NoAttempt
                                        /\ age[attempts[t]] >= Lifetime}
  <2>1. TakeOut(w, expired) /\ w \in Processes
        /\ Goto(w, IF expired = {} THEN "load" ELSE "close")
        /\ UNCHANGED <<slots, lock, timeVars, driverVars, handlerVars>>
    BY <1>10 DEF RemoveExpired, Processes
  <2>2. attempts' \in [Tokens -> Attempts \cup {NoAttempt}]
        /\ owns' \in [Processes -> SUBSET Attempts]
    BY <1>9, <2>1
  <2> HIDE DEF expired
  <2>3. QED
    BY <1>0, <2>1, <2>2 DEF TypeOK, Goto, Step, timeVars, driverVars, handlerVars
<1>11. ASSUME NEW w \in Workers, RefreshExpired(w) \/ Cancel(w) PROVE TypeOK'
  <2>1. asked[w].token \in Tokens /\ attempts[asked[w].token] # NoAttempt /\ w \in Processes
        /\ TakeOut(w, {asked[w].token})
    BY <1>0, <1>11 DEF RefreshExpired, Cancel, IsFound, Handling, Processes
  <2>2. attempts' \in [Tokens -> Attempts \cup {NoAttempt}]
        /\ owns' \in [Processes -> SUBSET Attempts]
    BY <1>9, <2>1
  <2>3. QED
    BY <1>0, <1>11, <2>1, <2>2 DEF TypeOK, RefreshExpired, Cancel, Goto, Answers, Step,
                                   timeVars, driverVars
<1>12. ASSUME NEW w \in Workers, RefreshFound(w) PROVE TypeOK'
  <2>1. asked[w].token \in Tokens /\ attempts[asked[w].token] # NoAttempt
    BY <1>0, <1>12 DEF RefreshFound, IsFound, Handling
  <2>2. QED
    BY <1>0, <1>12, <2>1 DEF TypeOK, RefreshFound, Goto, Step, timeVars, driverVars
<1>13. ASSUME NEW w \in Workers, Recapture(w) PROVE TypeOK'
  <2>1. asked[w].token \in Tokens /\ attempts[asked[w].token] # NoAttempt /\ w \in Processes
    BY <1>0, <1>13, Names DEF Recapture, Handling, Capturing, Processes
  <2>2. attempts' \in [Tokens -> Attempts \cup {NoAttempt}]
        /\ owns' \in [Processes -> SUBSET Attempts]
    BY <1>0, <1>9, <1>13, <2>1 DEF Recapture, TypeOK
  <2>3. QED
    BY <1>0, <1>13, <2>2 DEF TypeOK, Recapture, Goto, Answers, Step, timeVars, driverVars
<1>14. ASSUME NEW a \in Attempts, Wake(a) PROVE TypeOK'
  <2>1. timed[a] \in Tokens /\ a \in Processes
    BY <1>14 DEF AttemptsInv, Tasked, Wake, Processes
  <2>2. attempts' \in [Tokens -> Attempts \cup {NoAttempt}]
        /\ owns' \in [Processes -> SUBSET Attempts]
    BY <1>0, <1>9, <1>14, <2>1 DEF Wake, TypeOK
  <2>3. QED
    BY <1>0, <1>14, <2>2 DEF TypeOK, Wake, Goto, Step, driverVars, handlerVars
<1>15. ASSUME NEW p \in Processes, Close(p) PROVE TypeOK'
  <2>1. MaxLostAnswers \in Nat
    BY Names
  <2>2. PICK a \in owns[p] :
          \/ session' = [session EXCEPT ![a] = "closed"] /\ UNCHANGED <<lostAnswers, answer>>
          \/ /\ LosesAnswer
             /\ \E s \in {"closed", "left"} : session' = [session EXCEPT ![a] = s]
             /\ CloseUnconfirmed(p)
    BY <1>15 DEF Close
  <2>3. answer' = answer \/ (p \in Workers /\ answer' = [answer EXCEPT ![p] = "rejected"])
    BY <2>2 DEF CloseUnconfirmed, Answers
  <2>4. Goto(p, "release") /\ UNCHANGED <<slots, mapVars, timeVars, owns, asked, subject, seen>>
    BY <1>15 DEF Close
  <2>5. QED
    BY <1>0, <2>1, <2>2, <2>3, <2>4 DEF TypeOK, LosesAnswer, Goto, Step, mapVars, timeVars
<1>16. ASSUME NEW p \in Processes, Release(p) PROVE TypeOK'
  <2>1. PICK a \in owns[p] :
          /\ owns' = [owns EXCEPT ![p] = @ \ {a}]
          /\ Goto(p, IF owns[p] = {a} THEN AfterRelease(p) ELSE "close")
    BY <1>16 DEF Release
  <2>2. AfterRelease(p) \in Step
    BY DEF AfterRelease, Step
  <2>3. slots' \in Nat /\ UNCHANGED <<mapVars, timeVars, driverVars, handlerVars>>
    BY <1>0, <1>16 DEF Release, TypeOK
  <2>4. QED
    BY <1>0, <2>1, <2>2, <2>3 DEF TypeOK, Goto, Step, mapVars, timeVars, driverVars,
                                  handlerVars
<1>17. ASSUME Tick PROVE TypeOK'
  BY <1>0, <1>17, Names DEF TypeOK, Tick, Older, mapVars, driverVars, handlerVars
<1>18. QED
  BY <1>1, <1>2, <1>3, <1>4, <1>5, <1>6, <1>7, <1>8, <1>10, <1>11, <1>12, <1>13, <1>14,
     <1>15, <1>16, <1>17 DEF Next, ProcessStep, HandlerStep

-----------------------------------------------------------------------------
(* The threads. *)

Threaded(w) == Handling(w) /\ Capturing(w) /\ Cancelling(w)

\* Where another process acts, a thread keeps its place, its request and its hands.
Stays(v) ==
    /\ at'[v] = at[v] /\ asked'[v] = asked[v] /\ subject'[v] = subject[v]
    /\ answer'[v] = answer[v] /\ owns'[v] = owns[v]
    /\ lock' = v <=> lock = v

LEMMA ThreadStays ==
    ASSUME AttemptsInv, NEW v \in Workers, Stays(v),
           lock = v => attempts' = attempts,
           \A a \in Attempts : \/ session'[a] = session[a]
                               \/ session[a] = "none" /\ a # subject[v]
                               \/ /\ session[a] = "open" /\ a \notin owns[v]
                                  /\ session'[a] # "none"
    PROVE  Threaded(v)'
<1>0. Threaded(v) /\ TypeOK /\ SessionsAreHeld
  BY DEF AttemptsInv, Threaded
<1>1. Starting(v)' <=> Starting(v)
  BY DEF Stays, Starting, Sweeping
<1>2. Handling(v)'
  BY <1>0, <1>1 DEF Threaded, Handling, Stays
<1>3. Capturing(v)'
  <2>1. at[v] \in Sessionless \/ Sweeping(v) => session'[subject[v]] = "none"
    BY <1>0 DEF Threaded, Capturing, Handling, Starting, StartSteps
  <2>2. at[v] \in {"capture", "insert"} => session'[subject[v]] = "open"
    <3>1. SUFFICES ASSUME at[v] \in {"capture", "insert"} PROVE session'[subject[v]] = "open"
      OBVIOUS
    <3>2. subject[v] \in owns[v] /\ session[subject[v]] = "open" /\ subject[v] \in Attempts
      BY <1>0, <3>1 DEF Threaded, Capturing, Handling, Starting, StartSteps
    <3>3. QED
      BY <3>2
  <2>3. Sweeping(v)' <=> Sweeping(v)
    BY DEF Stays, Sweeping
  <2>4. at[v] = "schedule" => session'[subject[v]] # "none"
    BY <1>0 DEF Threaded, Capturing, Handling, Starting, StartSteps
  <2>5. QED
    BY <1>0, <2>1, <2>2, <2>3, <2>4 DEF Threaded, Capturing, Stays
<1>4. Cancelling(v)'
  BY <1>0 DEF Threaded, Cancelling, Stays
<1>5. QED
  BY <1>2, <1>3, <1>4 DEF Threaded

\* The steps of a thread that leave all sessions and the map as they are.
LEMMA QuietThread ==
    ASSUME AttemptsInv, NEW w \in Workers,
           \/ \E r \in AnyRequest : Receive(w, r)
           \/ Reply(w) \/ LoadSlots(w) \/ RefuseSlot(w) \/ SwapSlots(w) \/ Capture(w)
           \/ ScheduleExpiry(w) \/ RejectUnknown(w) \/ RefreshFound(w)
    PROVE  Threaded(w)'
<1>0. Threaded(w) /\ TypeOK /\ SessionsAreHeld /\ NoWorker \notin Workers
      /\ w \in Processes /\ w \notin Attempts
  BY Names DEF AttemptsInv, Threaded
<1>1. ASSUME NEW r \in AnyRequest, Receive(w, r) PROVE Threaded(w)'
  <2>1. at[w] = "idle" /\ asked'[w] = r /\ owns' = owns /\ answer' = answer /\ lock' = lock
        /\ session' = session
    BY <1>0, <1>1, ReceiveFacts DEF TypeOK, mapVars, driverVars
  <2>2. owns[w] = {} /\ answer[w] = "none" /\ lock # w
    BY <1>0, <2>1 DEF Threaded, Handling, Capturing
  <2>3. \/ /\ r.kind = "start" /\ at'[w] = "sweep"
           /\ subject'[w] \in Attempts /\ session[subject'[w]] = "none"
        \/ at'[w] = "lookup" /\ r.kind = "refresh" /\ r.token \in Tokens
        \/ at'[w] = "find" /\ r.kind = "cancel" /\ r.token \in Tokens
    BY <1>0, <1>1, ReceiveFacts DEF TypeOK, Fresh
  <2>4. QED
    BY <2>1, <2>2, <2>3 DEF Threaded, Handling, Capturing, Cancelling, Starting, Sweeping,
                            StartSteps, Sessionless
<1>2. CASE Reply(w)
  BY <1>0, <1>2 DEF Reply, Goto, Answers, TypeOK, mapVars, driverVars, Threaded, Handling,
                    Capturing, Cancelling, Starting, Sweeping, StartSteps, Sessionless
<1>3. CASE LoadSlots(w) \/ RefuseSlot(w)
  BY <1>0, <1>3 DEF LoadSlots, RefuseSlot, Goto, Answers, TypeOK, mapVars, driverVars,
                    Threaded, Handling, Capturing, Cancelling, Starting, Sweeping, StartSteps,
                    Sessionless
<1>4. CASE SwapSlots(w)
  BY <1>0, <1>4 DEF SwapSlots, Goto, TypeOK, mapVars, driverVars, Threaded, Handling,
                    Capturing, Cancelling, Starting, Sweeping, StartSteps, Sessionless
<1>5. CASE Capture(w)
  BY <1>0, <1>5 DEF Capture, Goto, Answers, TypeOK, mapVars, driverVars, Threaded, Handling,
                    Capturing, Cancelling, Starting, Sweeping, StartSteps, Sessionless
<1>6. CASE ScheduleExpiry(w)
  <2>1. subject[w] \in Attempts
    BY <1>0, <1>6 DEF ScheduleExpiry, Threaded, Handling, Starting, StartSteps
  <2>2. at'[w] = "reply" /\ answer'[w] = "qr"
        /\ UNCHANGED <<lock, attempts, session, owns, asked, subject>>
    BY <1>0, <1>6, <2>1 DEF ScheduleExpiry, Answers, TypeOK, mapVars, driverVars
  <2>3. QED
    BY <1>0, <1>6, <2>2 DEF ScheduleExpiry, Threaded, Handling, Capturing, Cancelling,
                            Starting, Sweeping, StartSteps, Sessionless
<1>7. CASE RejectUnknown(w)
  BY <1>0, <1>7 DEF RejectUnknown, Goto, Answers, TypeOK, mapVars, driverVars, Threaded,
                    Handling, Capturing, Cancelling, Starting, Sweeping, StartSteps,
                    Sessionless
<1>8. CASE RefreshFound(w)
  <2>1. /\ at[w] = "lookup" /\ asked[w].token \in Tokens /\ asked[w].kind = "refresh"
        /\ attempts[asked[w].token] \in Attempts
        /\ PlatformOf[attempts[asked[w].token]] = asked[w].platform
        /\ answer[w] = "none" /\ owns[w] = {}
    BY <1>0, <1>8 DEF RefreshFound, IsFound, Threaded, Handling, TypeOK
  <2>2. /\ at'[w] = "recapture" /\ lock' = w /\ subject'[w] = attempts[asked[w].token]
        /\ UNCHANGED <<attempts, session, owns, asked, answer>>
    BY <1>0, <1>8 DEF RefreshFound, Goto, TypeOK, driverVars
  <2>3. QED
    BY <2>1, <2>2 DEF Threaded, Handling, Capturing, Cancelling, Starting, Sweeping,
                      StartSteps, Sessionless
<1>9. QED
  BY <1>1, <1>2, <1>3, <1>4, <1>5, <1>6, <1>7, <1>8

\* The steps of a thread that open a session or change the map.
LEMMA MapThread ==
    ASSUME AttemptsInv, NEW w \in Workers,
           \/ RemoveExpired(w) \/ OpenSession(w) \/ InsertAttempt(w) \/ RefreshExpired(w)
           \/ Recapture(w) \/ Cancel(w)
    PROVE  Threaded(w)'
<1>0. Threaded(w) /\ TypeOK /\ SessionsAreHeld /\ NoWorker \notin Workers
      /\ w \in Processes /\ w \notin Attempts
  BY Names DEF AttemptsInv, Threaded
<1>1. CASE RemoveExpired(w)
  <2>1. /\ at[w] = "sweep" /\ lock = NoWorker /\ at'[w] \in {"load", "close"}
        /\ at'[w] = "load" => owns'[w] = {}
        /\ UNCHANGED <<lock, session, asked, subject, answer>>
    BY <1>0, <1>1 DEF RemoveExpired, Unlocked, TakeOut, Goto, TypeOK, driverVars, handlerVars
  <2>2. QED
    BY <1>0, <2>1 DEF Threaded, Handling, Capturing, Cancelling, Starting, Sweeping,
                      StartSteps, Sessionless
<1>2. CASE OpenSession(w)
  <2>1. /\ at[w] = "open" /\ subject[w] \in Attempts /\ answer[w] = "none" /\ lock # w
        /\ owns[w] = {subject[w]} /\ asked[w].kind = "start"
    BY <1>0, <1>2 DEF OpenSession, Threaded, Handling, Capturing, Starting, StartSteps,
                      Sessionless
  <2>2. /\ \/ at'[w] = "capture" /\ session'[subject[w]] = "open" /\ answer' = answer
           \/ at'[w] = "release" /\ answer'[w] = "rejected"
        /\ UNCHANGED <<lock, attempts, owns, asked, subject>>
    BY <1>0, <1>2, <2>1 DEF OpenSession, Goto, Answers, TypeOK, mapVars
  <2>3. QED
    BY <2>1, <2>2 DEF Threaded, Handling, Capturing, Cancelling, Starting, Sweeping,
                      StartSteps, Sessionless
<1>3. CASE InsertAttempt(w)
  <2>1. /\ at[w] = "insert" /\ subject[w] \in Attempts /\ answer[w] = "none"
        /\ asked[w].kind = "start" /\ lock = NoWorker
    BY <1>0, <1>3 DEF InsertAttempt, Unlocked, Threaded, Handling, Starting, StartSteps,
                      Sessionless
  <2>2. asked[w] \in Request
    BY <1>0, <2>1 DEF TypeOK, NoRequest
  <2>3. /\ at'[w] = "schedule" /\ owns'[w] = {}
        /\ asked'[w].kind = "start" /\ asked'[w].token \in Tokens
        /\ UNCHANGED <<lock, session, subject, answer>>
    BY <1>0, <1>3, <2>1, <2>2 DEF InsertAttempt, Goto, TypeOK, Request, driverVars
  <2>4. QED
    BY <1>0, <2>1, <2>3 DEF Threaded, Handling, Capturing, Cancelling, Starting, Sweeping,
                            StartSteps, Sessionless
<1>4. CASE RefreshExpired(w)
  <2>1. /\ at[w] = "lookup" /\ lock = NoWorker /\ at'[w] = "close" /\ answer'[w] = "timed_out"
        /\ UNCHANGED <<lock, session, asked, subject>>
    BY <1>0, <1>4 DEF RefreshExpired, Unlocked, Goto, Answers, TypeOK, driverVars
  <2>2. QED
    BY <1>0, <2>1 DEF Threaded, Handling, Capturing, Cancelling, Starting, Sweeping,
                      StartSteps, Sessionless
<1>5. CASE Recapture(w)
  <2>1. /\ at[w] = "recapture" /\ lock' = NoWorker /\ owns[w] = {}
        /\ \/ at'[w] = "reply" /\ answer'[w] = "qr" /\ owns' = owns
           \/ at'[w] = "close" /\ answer'[w] = "rejected"
        /\ UNCHANGED <<session, asked, subject>>
    BY <1>0, <1>5 DEF Recapture, Goto, Answers, TypeOK, driverVars, Threaded, Handling,
                      StartSteps, Sessionless
  <2>2. QED
    BY <1>0, <2>1 DEF Threaded, Handling, Capturing, Cancelling, Starting, Sweeping,
                      StartSteps, Sessionless
<1>6. CASE Cancel(w)
  <2>1. /\ at[w] = "find" /\ asked[w].token \in Tokens /\ asked[w].kind = "cancel"
        /\ attempts[asked[w].token] \in Attempts /\ lock = NoWorker
    BY <1>0, <1>6 DEF Cancel, Unlocked, IsFound, Threaded, Handling, TypeOK
  <2>2. /\ at'[w] = "close" /\ answer'[w] = "cancelled"
        /\ subject'[w] = attempts[asked[w].token]
        /\ owns'[w] = {attempts[asked[w].token]}
        /\ UNCHANGED <<lock, session, asked>>
    BY <1>0, <1>6, <2>1 DEF Cancel, TakeOut, Goto, Answers, TypeOK, driverVars
  <2>3. QED
    BY <1>0, <2>1, <2>2 DEF Threaded, Handling, Capturing, Cancelling, Starting, Sweeping,
                            StartSteps, Sessionless
<1>7. QED
  BY <1>1, <1>2, <1>3, <1>4, <1>5, <1>6

\* A thread closes the sessions it has in hand and gives their slots back.
LEMMA CloseThread ==
    ASSUME AttemptsInv, NEW w \in Workers, Close(w) \/ Release(w)
    PROVE  Threaded(w)'
<1>0. Threaded(w) /\ TypeOK /\ SessionsAreHeld /\ w \in Processes /\ w \notin Attempts
  BY Names DEF AttemptsInv, Threaded
<1>1. CASE Close(w)
  <2>1. PICK a \in owns[w] :
          /\ session[a] = "open"
          /\ \/ session' = [session EXCEPT ![a] = "closed"] /\ UNCHANGED <<lostAnswers, answer>>
             \/ /\ LosesAnswer
                /\ \E s \in {"closed", "left"} : session' = [session EXCEPT ![a] = s]
                /\ CloseUnconfirmed(w)
    BY <1>1 DEF Close
  <2>2. /\ at[w] = "close" /\ at'[w] = "release" /\ a \in Attempts
        /\ UNCHANGED <<lock, attempts, owns, asked, subject>>
    BY <1>0, <1>1, <2>1 DEF Close, Goto, TypeOK, mapVars
  <2>3. /\ \A b \in Attempts : b # a => session'[b] = session[b]
        /\ \/ session'[a] = "closed" /\ answer' = answer
           \/ session'[a] \in {"closed", "left"} /\ answer'[w] = answer[w]
              /\ asked[w].kind # "cancel"
           \/ answer'[w] = "rejected" /\ asked[w].kind = "cancel"
    BY <1>0, <2>1, <2>2 DEF CloseUnconfirmed, Answers, TypeOK
  <2>4. Handling(w)'
    BY <1>0, <2>2, <2>3 DEF Threaded, Handling, Starting, Sweeping, StartSteps, Sessionless
  <2>5. Capturing(w)'
    <3>1. Sweeping(w)' => Sweeping(w) /\ session[subject[w]] = "none" /\ subject[w] \in Attempts
      BY <1>0, <2>2, <2>3 DEF Threaded, Handling, Capturing, Starting, Sweeping
    <3>2. Sweeping(w)' => session'[subject[w]] = "none"
      BY <2>1, <2>3, <3>1
    <3>3. QED
      BY <1>0, <2>2, <3>2 DEF Threaded, Capturing, Sessionless
  <2>6. Cancelling(w)'
    <3>1. SUFFICES ASSUME answer'[w] = "cancelled" PROVE Cancelling(w)'
      BY DEF Cancelling
    <3>2. answer[w] = "cancelled" /\ asked[w].kind = "cancel" /\ owns[w] = {subject[w]}
      BY <1>0, <2>2, <2>3, <3>1 DEF Threaded, Cancelling
    <3>3. session'[a] = "closed" /\ a = subject[w]
      BY <2>1, <2>3, <3>1, <3>2
    <3>4. QED
      BY <1>0, <2>2, <3>2, <3>3 DEF Threaded, Cancelling
  <2>7. QED
    BY <2>4, <2>5, <2>6 DEF Threaded
<1>2. CASE Release(w)
  <2>1. PICK a \in owns[w] :
          /\ session[a] # "open"
          /\ owns' = [owns EXCEPT ![w] = @ \ {a}]
          /\ Goto(w, IF owns[w] = {a} THEN AfterRelease(w) ELSE "close")
    BY <1>2 DEF Release
  <2>2. /\ at[w] = "release" /\ owns'[w] = owns[w] \ {a}
        /\ \/ at'[w] = "load" /\ answer[w] = "none" /\ owns'[w] = {}
           \/ at'[w] = "reply" /\ answer[w] # "none" /\ owns'[w] = {}
           \/ at'[w] = "close" /\ owns[w] # {a}
        /\ UNCHANGED <<lock, attempts, session, asked, subject, answer>>
    BY <1>0, <1>2, <2>1 DEF Release, Goto, AfterRelease, TypeOK, mapVars, driverVars,
                            handlerVars
  <2>3. QED
    BY <1>0, <2>1, <2>2 DEF Threaded, Handling, Capturing, Cancelling, Starting, Sweeping,
                            StartSteps, Sessionless
<1>3. QED
  BY <1>1, <1>2

\* The steps of one process leave the other threads where they are.
LEMMA ThreadSteps ==
    ASSUME AttemptsInv, [Next]_vars
    PROVE  \A v \in Workers : Threaded(v)'
<1> SUFFICES ASSUME NEW v \in Workers PROVE Threaded(v)'
  OBVIOUS
<1>0. /\ TypeOK /\ OneOwner /\ OneStart /\ NoWorker \notin Workers
      /\ \A w \in Workers : Threaded(w)
      /\ v \in Processes /\ v \notin Attempts /\ Workers \subseteq Processes
      /\ Attempts \subseteq Processes
  BY Names DEF AttemptsInv, Threaded
<1>1. ASSUME NEW w \in Workers, w # v,
             \/ \E r \in AnyRequest : Receive(w, r)
             \/ Reply(w) \/ LoadSlots(w) \/ RefuseSlot(w) \/ SwapSlots(w) \/ Capture(w)
             \/ ScheduleExpiry(w) \/ RejectUnknown(w) \/ RefreshFound(w)
      PROVE  Threaded(v)'
  <2>1. attempts' = attempts /\ session' = session
    BY <1>0, <1>1, ReceiveFacts
       DEF Reply, LoadSlots, RefuseSlot, SwapSlots, Capture, ScheduleExpiry, RejectUnknown,
           RefreshFound, mapVars, driverVars
  <2>2. lock' = v <=> lock = v
    BY <1>0, <1>1, ReceiveFacts
       DEF Reply, LoadSlots, RefuseSlot, SwapSlots, Capture, ScheduleExpiry, RejectUnknown,
           RefreshFound, Unlocked, mapVars
  <2>3. at'[v] = at[v] /\ asked'[v] = asked[v] /\ subject'[v] = subject[v]
        /\ answer'[v] = answer[v] /\ owns'[v] = owns[v]
    <3>1. ASSUME NEW r \in AnyRequest, Receive(w, r)
          PROVE  at'[v] = at[v] /\ asked'[v] = asked[v] /\ subject'[v] = subject[v]
                 /\ answer'[v] = answer[v] /\ owns'[v] = owns[v]
      BY <1>0, <1>1, <3>1, ReceiveFacts DEF TypeOK
    <3>2. CASE Reply(w) \/ LoadSlots(w) \/ RefuseSlot(w) \/ SwapSlots(w)
      BY <1>0, <1>1, <3>2 DEF Reply, LoadSlots, RefuseSlot, SwapSlots, Goto, Answers, TypeOK
    <3>3. CASE Capture(w) \/ RejectUnknown(w) \/ RefreshFound(w)
      BY <1>0, <1>1, <3>3 DEF Capture, RejectUnknown, RefreshFound, Goto, Answers, TypeOK
    <3>4. CASE ScheduleExpiry(w)
      <4>1. subject[w] \in Attempts
        BY <1>0, <3>4 DEF ScheduleExpiry, Threaded, Handling, Starting, StartSteps
      <4>2. QED
        BY <1>0, <1>1, <3>4, <4>1 DEF ScheduleExpiry, Answers, TypeOK
    <3>5. QED
      BY <1>1, <3>1, <3>2, <3>3, <3>4
  <2>4. QED
    BY <2>1, <2>2, <2>3, ThreadStays DEF Stays
<1>2. ASSUME NEW w \in Workers, w # v,
             \/ RemoveExpired(w) \/ InsertAttempt(w) \/ RefreshExpired(w)
             \/ Recapture(w) \/ Cancel(w)
      PROVE  Threaded(v)'
  <2>1. session' = session /\ lock # v /\ lock' # v
    BY <1>0, <1>2 DEF RemoveExpired, InsertAttempt, RefreshExpired, Recapture, Cancel,
                      Unlocked, driverVars, Threaded, Capturing
  <2>2. at'[v] = at[v] /\ asked'[v] = asked[v] /\ subject'[v] = subject[v]
        /\ answer'[v] = answer[v] /\ owns'[v] = owns[v]
    BY <1>0, <1>2 DEF RemoveExpired, InsertAttempt, RefreshExpired, Recapture, Cancel,
                      TakeOut, Goto, Answers, handlerVars, TypeOK
  <2>3. QED
    BY <2>1, <2>2, ThreadStays DEF Stays
<1>3. ASSUME NEW w \in Workers, w # v, OpenSession(w) PROVE Threaded(v)'
  <2>1. subject[w] \in Attempts /\ session[subject[w]] = "none"
    BY <1>0, <1>3 DEF OpenSession, Threaded, Handling, Capturing, Starting, StartSteps,
                      Sessionless
  <2>2. \A a \in Attempts : session'[a] = session[a] \/ (session[a] = "none" /\ a # subject[v])
    BY <1>0, <1>3, <2>1 DEF OpenSession, OneStart, TypeOK
  <2>3. Stays(v) /\ attempts' = attempts
    BY <1>0, <1>3 DEF OpenSession, Goto, Answers, Stays, mapVars, TypeOK
  <2>4. QED
    BY <2>2, <2>3, ThreadStays
<1>4. ASSUME NEW p \in Processes, p # v, Close(p) PROVE Threaded(v)'
  <2>1. PICK a \in owns[p] :
          /\ session[a] = "open"
          /\ \E s \in {"closed", "left"} : session' = [session EXCEPT ![a] = s]
          /\ answer' = answer \/ (p \in Workers /\ answer' = [answer EXCEPT ![p] = "rejected"])
    BY <1>4 DEF Close, CloseUnconfirmed, Answers
  <2>2. a \in Attempts /\ a \notin owns[v] /\ a \notin Live
    BY <1>0, <1>4, <2>1 DEF TypeOK, OneOwner, InHand
  <2>3. Stays(v) /\ attempts' = attempts
    BY <1>0, <1>4, <2>1 DEF Close, Goto, Stays, mapVars, TypeOK
  <2>4. QED
    BY <1>0, <2>1, <2>2, <2>3, ThreadStays DEF TypeOK
<1>5. ASSUME NEW p \in Processes, p # v, Release(p) PROVE Threaded(v)'
  <2>1. Stays(v) /\ attempts' = attempts /\ session' = session
    BY <1>0, <1>5 DEF Release, Goto, Stays, mapVars, driverVars, handlerVars, TypeOK
  <2>2. QED
    BY <2>1, ThreadStays
<1>6. ASSUME NEW a \in Attempts, Wake(a) PROVE Threaded(v)'
  <2>1. Stays(v) /\ session' = session /\ lock # v
    BY <1>0, <1>6 DEF Wake, Unlocked, TakeOut, Goto, Stays, driverVars, handlerVars, TypeOK
  <2>2. QED
    BY <2>1, ThreadStays
<1>7. ASSUME Tick \/ UNCHANGED vars PROVE Threaded(v)'
  <2>1. Stays(v) /\ attempts' = attempts /\ session' = session
    BY <1>7 DEF Tick, Stays, vars, mapVars, driverVars, handlerVars
  <2>2. QED
    BY <2>1, ThreadStays
<1>8. QED
  BY <1>1, <1>2, <1>3, <1>4, <1>5, <1>6, <1>7, QuietThread, MapThread, CloseThread
     DEF Next, ProcessStep, HandlerStep

-----------------------------------------------------------------------------
(* Starts and expiry tasks. *)

\* An attempt that has had a session is not without one again.
LEMMA SessionsStay ==
    ASSUME AttemptsInv, [Next]_vars, NEW a \in Attempts, session[a] # "none"
    PROVE  session'[a] # "none"
<1>0. TypeOK /\ \A w \in Workers : Threaded(w)
  BY DEF AttemptsInv, Threaded
<1>1. ASSUME NEW w \in Workers, OpenSession(w) PROVE session'[a] # "none"
  <2>1. subject[w] # a
    BY <1>0, <1>1 DEF OpenSession, Threaded, Capturing, Sessionless
  <2>2. QED
    BY <1>0, <1>1, <2>1 DEF OpenSession, TypeOK
<1>2. ASSUME NEW p \in Processes, Close(p) PROVE session'[a] # "none"
  BY <1>0, <1>2 DEF Close, TypeOK
<1>3. ASSUME UNCHANGED session PROVE session'[a] # "none"
  BY <1>3
<1>4. ASSUME NEW w \in Workers, HandlerStep(w), ~OpenSession(w) PROVE UNCHANGED session
  BY <1>4 DEF HandlerStep, RemoveExpired, LoadSlots, RefuseSlot, SwapSlots, Capture,
     InsertAttempt, ScheduleExpiry, RejectUnknown, RefreshExpired, RefreshFound, Recapture,
     Cancel, driverVars
<1>5. ASSUME NEW w \in Workers, NEW r \in AnyRequest, Receive(w, r) PROVE UNCHANGED session
  BY <1>0, <1>5, ReceiveFacts DEF driverVars
<1>6. ASSUME NEW p \in Processes, Release(p) PROVE UNCHANGED session
  BY <1>6 DEF Release, driverVars
<1>7. ASSUME \/ \E w \in Workers : Reply(w)
             \/ \E b \in Attempts : Wake(b)
             \/ Tick \/ UNCHANGED vars
      PROVE  UNCHANGED session
  BY <1>7 DEF Reply, Wake, Tick, vars, driverVars
<1>8. QED
  BY <1>1, <1>2, <1>3, <1>4, <1>5, <1>6, <1>7 DEF Next, ProcessStep

\* What a step makes of a thread's subject: nothing, a fresh attempt to start, or
\* one that has a session and is not to be started.
Begins(w)  == /\ subject'[w] \in Fresh
              /\ at'[subject'[w]] = "idle"
Attends(w) == ~Starting(w)' /\ (subject'[w] \in Attempts => session[subject'[w]] # "none")
Goes(w)    == subject'[w] = subject[w] /\ (Starting(w)' => Starting(w))

LEMMA StartKinds ==
    ASSUME AttemptsInv, [Next]_vars
    PROVE  \/ \A v \in Workers : Goes(v)
           \/ \E w \in Workers : /\ Begins(w) \/ Attends(w)
                                 /\ \A v \in Workers \ {w} : Goes(v)
<1>0. /\ TypeOK /\ SessionsAreHeld /\ NoAttempt \notin Attempts
      /\ \A w \in Workers : Threaded(w) /\ w \in Processes /\ w \notin Attempts
      /\ \A a \in Attempts : Tasked(a) /\ a \in Processes
  BY Names DEF AttemptsInv, Threaded
<1>1. ASSUME NEW w \in Workers, NEW v \in Workers \ {w},
             HandlerStep(w) \/ Reply(w) \/ \E r \in AnyRequest : Receive(w, r)
      PROVE  Goes(v)
  <2>1. CASE \E r \in AnyRequest : Receive(w, r)
    BY <1>0, <2>1, ReceiveFacts DEF TypeOK, Goes, Starting, Sweeping
  <2>2. CASE ScheduleExpiry(w)
    <3>1. subject[w] \in Attempts
      BY <1>0, <2>2 DEF ScheduleExpiry, Threaded, Handling, Starting, StartSteps
    <3>2. QED
      BY <1>0, <2>2, <3>1 DEF ScheduleExpiry, Answers, TypeOK, Goes, Starting, Sweeping
  <2>3. CASE HandlerStep(w) /\ ~ScheduleExpiry(w)
    BY <1>0, <2>3 DEF HandlerStep, RemoveExpired, LoadSlots, RefuseSlot, SwapSlots,
       OpenSession, Capture, InsertAttempt, RejectUnknown, RefreshExpired, RefreshFound,
       Recapture, Cancel, Goto, Answers, handlerVars, TypeOK, Goes, Starting, Sweeping
  <2>4. CASE Reply(w)
    BY <1>0, <2>4 DEF Reply, Goto, Answers, TypeOK, Goes, Starting, Sweeping
  <2>5. QED
    BY <1>1, <2>1, <2>2, <2>3, <2>4
<1>2. ASSUME NEW w \in Workers, HandlerStep(w), ~RefreshFound(w), ~Cancel(w) PROVE Goes(w)
  <2>1. CASE RemoveExpired(w) \/ LoadSlots(w) \/ RefuseSlot(w) \/ SwapSlots(w)
    BY <1>0, <2>1 DEF RemoveExpired, LoadSlots, RefuseSlot, SwapSlots, Goto, Answers,
       handlerVars, TypeOK, Goes, Starting, Sweeping, StartSteps, Sessionless
  <2>2. CASE OpenSession(w) \/ Capture(w) \/ InsertAttempt(w)
    BY <1>0, <2>2 DEF OpenSession, Capture, InsertAttempt, Goto, Answers, TypeOK, Goes,
       Starting, Sweeping, StartSteps, Sessionless
  <2>3. CASE ScheduleExpiry(w)
    BY <1>0, <2>3 DEF ScheduleExpiry, Goes, Starting, StartSteps
  <2>4. CASE RejectUnknown(w) \/ RefreshExpired(w) \/ Recapture(w)
    BY <1>0, <2>4 DEF RejectUnknown, RefreshExpired, Recapture, Goto, Answers, TypeOK, Goes,
       Starting, Sweeping, StartSteps, Sessionless
  <2>5. QED
    BY <1>2, <2>1, <2>2, <2>3, <2>4 DEF HandlerStep
<1>3. ASSUME NEW w \in Workers, RefreshFound(w) \/ Cancel(w) PROVE Attends(w)
  <2>1. /\ asked[w].token \in Tokens
        /\ session[attempts[asked[w].token]] = "open"
        /\ subject'[w] = attempts[asked[w].token]
    BY <1>0, <1>3 DEF RefreshFound, Cancel, IsFound, Threaded, Handling, SessionsAreHeld,
                      TypeOK
  <2>2. ~Starting(w)'
    BY <1>0, <1>3 DEF RefreshFound, Cancel, Goto, Answers, TypeOK, Starting, Sweeping,
                      StartSteps, Sessionless
  <2>3. QED
    BY <2>1, <2>2 DEF Attends
<1>4. ASSUME NEW w \in Workers, Reply(w) PROVE Attends(w)
  BY <1>0, <1>4 DEF Reply, Goto, Answers, TypeOK, Attends, Starting, Sweeping, StartSteps,
                    Sessionless
<1>5. ASSUME NEW w \in Workers, NEW r \in AnyRequest, Receive(w, r)
      PROVE  Begins(w) \/ Goes(w)
  <2>1. CASE \E a \in Fresh : /\ subject' = [subject EXCEPT ![w] = a]
                              /\ at' = [at EXCEPT ![w] = "sweep"]
    <3>1. PICK a \in Fresh : /\ subject' = [subject EXCEPT ![w] = a]
                             /\ at' = [at EXCEPT ![w] = "sweep"]
      BY <2>1
    <3>2. a \in Attempts /\ at[a] = "idle"
      BY <1>0, <3>1 DEF Fresh, Tasked
    <3>3. QED
      BY <1>0, <3>1, <3>2 DEF Begins, TypeOK
  <2>2. CASE subject' = subject /\ at'[w] \in {"lookup", "find"}
    BY <2>2 DEF Goes, Starting, Sweeping, StartSteps, Sessionless
  <2>3. QED
    BY <1>0, <1>5, <2>1, <2>2, ReceiveFacts DEF TypeOK
<1>6. ASSUME NEW p \in Processes, Close(p) \/ Release(p), NEW v \in Workers PROVE Goes(v)
  <2>1. CASE Close(p)
    BY <1>0, <2>1 DEF Close, CloseUnconfirmed, Goto, Answers, TypeOK, Goes, Starting, Sweeping,
                      StartSteps, Sessionless
  <2>2. CASE Release(p)
    BY <1>0, <2>2 DEF Release, AfterRelease, Goto, handlerVars, TypeOK, Goes, Starting,
                      Sweeping, StartSteps, Sessionless
  <2>3. QED
    BY <1>6, <2>1, <2>2
<1>7. ASSUME \/ \E a \in Attempts : Wake(a)
             \/ Tick \/ UNCHANGED vars, NEW v \in Workers
      PROVE  Goes(v)
  <2>1. CASE \E a \in Attempts : Wake(a)
    BY <1>0, <2>1 DEF Wake, Goto, handlerVars, TypeOK, Goes, Starting, Sweeping
  <2>2. CASE Tick \/ UNCHANGED vars
    BY <2>2 DEF Tick, vars, handlerVars, Goes, Starting, Sweeping
  <2>3. QED
    BY <1>7, <2>1, <2>2
<1>8. QED
  <2>1. CASE \E w \in Workers : HandlerStep(w) \/ Reply(w) \/ \E r \in AnyRequest : Receive(w, r)
    BY <1>1, <1>2, <1>3, <1>4, <1>5, <2>1
  <2>2. QED
    BY <1>6, <1>7, <2>1 DEF Next, ProcessStep

LEMMA OneStartSteps ==
    ASSUME AttemptsInv, [Next]_vars
    PROVE  OneStart'
<1>0. TypeOK /\ OneStart
  BY DEF AttemptsInv
<1> SUFFICES ASSUME NEW v \in Workers, NEW w \in Workers, v # w,
                    subject'[v] = subject'[w], subject'[v] \in Attempts
             PROVE  session'[subject'[v]] # "none" /\ ~(Starting(v)' /\ Starting(w)')
  BY DEF OneStart
<1>1. PICK a \in Attempts : a = subject'[v]
  OBVIOUS
<1>2. ASSUME Goes(v), Goes(w) PROVE session'[a] # "none" /\ ~(Starting(v)' /\ Starting(w)')
  <2>1. session[a] # "none" /\ ~(Starting(v) /\ Starting(w))
    BY <1>0, <1>1, <1>2 DEF OneStart, Goes
  <2>2. QED
    BY <1>2, <2>1, SessionsStay DEF Goes
<1>3. ASSUME NEW x \in Workers, NEW y \in Workers, Goes(y), Begins(x),
             subject'[x] = subject'[y]
      PROVE  FALSE
  BY <1>3 DEF Begins, Goes, Fresh
<1>4. ASSUME NEW x \in Workers, Attends(x), subject'[x] = a
      PROVE  session'[a] # "none" /\ ~Starting(x)'
  BY <1>4, SessionsStay DEF Attends
<1>5. QED
  BY <1>1, <1>2, <1>3, <1>4, StartKinds

\* An attempt's expiry task is started once, by the thread that starts the attempt.
LEMMA TaskSteps ==
    ASSUME AttemptsInv, [Next]_vars
    PROVE  \A a \in Attempts : Tasked(a)'
<1> SUFFICES ASSUME NEW a \in Attempts PROVE Tasked(a)'
  OBVIOUS
<1>0. /\ TypeOK /\ Tasked(a) /\ NoAttempt \notin Attempts /\ OneStart
      /\ \A w \in Workers : Threaded(w) /\ w \in Processes /\ w \notin Attempts
      /\ a \in Processes /\ a \notin Workers
  BY Names DEF AttemptsInv, Threaded
<1>1. ASSUME at'[a] = at[a], owns'[a] = owns[a], timed'[a] = timed[a] PROVE Tasked(a)'
  <2>1. ASSUME NEW w \in Workers, Starting(w)', subject'[w] = a PROVE at'[a] = "idle"
    BY <1>0, <1>1, <2>1, StartKinds DEF Begins, Attends, Goes, Tasked
  <2>2. QED
    BY <1>0, <1>1, <2>1, SessionsStay DEF Tasked
<1>2. ASSUME NEW w \in Workers, HandlerStep(w), ~ScheduleExpiry(w) PROVE Tasked(a)'
  <2>1. at'[a] = at[a] /\ owns'[a] = owns[a] /\ timed'[a] = timed[a]
    BY <1>0, <1>2 DEF HandlerStep, RemoveExpired, LoadSlots, RefuseSlot, SwapSlots,
       OpenSession, Capture, InsertAttempt, RejectUnknown, RefreshExpired, RefreshFound,
       Recapture, Cancel, Goto, TakeOut, timeVars, TypeOK
  <2>2. QED
    BY <1>1, <2>1
<1>3. ASSUME NEW w \in Workers, ScheduleExpiry(w) PROVE Tasked(a)'
  <2>1. /\ at[w] = "schedule" /\ subject[w] \in Attempts /\ asked[w].token \in Tokens
        /\ session[subject[w]] # "none" /\ Starting(w)
    BY <1>0, <1>3 DEF ScheduleExpiry, Threaded, Handling, Capturing, Starting, StartSteps
  <2>2. CASE subject[w] # a
    BY <1>0, <1>1, <1>3, <2>1, <2>2 DEF ScheduleExpiry, TypeOK
  <2>3. CASE subject[w] = a
    <3>1. /\ at'[a] = "asleep" /\ timed'[a] \in Tokens /\ owns'[a] = {}
          /\ session'[a] # "none"
      BY <1>0, <1>3, <2>1, <2>3 DEF ScheduleExpiry, driverVars, TypeOK, Tasked
    <3>2. ASSUME NEW v \in Workers, Starting(v)', subject'[v] = a PROVE FALSE
      <4>1. CASE v = w
        BY <1>0, <1>3, <2>1, <3>2, <4>1 DEF ScheduleExpiry, TypeOK, Starting, Sweeping,
                                             StartSteps, Sessionless
      <4>2. CASE v # w
        <5>1. subject[v] = a /\ Starting(v)
          BY <1>0, <1>3, <2>1, <3>2, <4>2 DEF ScheduleExpiry, Answers, TypeOK, Starting,
                                               Sweeping
        <5>2. QED
          BY <1>0, <2>1, <2>3, <4>2, <5>1 DEF OneStart
      <4>3. QED
        BY <4>1, <4>2
    <3>3. QED
      BY <3>1, <3>2 DEF Tasked
  <2>4. QED
    BY <2>2, <2>3
<1>4. ASSUME NEW w \in Workers, Reply(w) \/ \E r \in AnyRequest : Receive(w, r)
      PROVE  Tasked(a)'
  <2>1. at'[a] = at[a] /\ owns'[a] = owns[a] /\ timed'[a] = timed[a]
    BY <1>0, <1>4, ReceiveFacts DEF Reply, Goto, timeVars, TypeOK
  <2>2. QED
    BY <1>1, <2>1
<1>5. ASSUME NEW p \in Processes, p # a, (p \in Attempts /\ Wake(p)) \/ Close(p) \/ Release(p)
      PROVE  Tasked(a)'
  <2>1. at'[a] = at[a] /\ owns'[a] = owns[a] /\ timed'[a] = timed[a]
    BY <1>0, <1>5 DEF Wake, Close, Release, TakeOut, Goto, timeVars, TypeOK
  <2>2. QED
    BY <1>1, <2>1
<1>6. ASSUME Wake(a) \/ Close(a) \/ Release(a) PROVE Tasked(a)'
  <2>1. at[a] # "idle" /\ session[a] # "none"
    BY <1>0, <1>6 DEF Wake, Close, Release, Tasked
  <2>2. ASSUME NEW w \in Workers, Starting(w)', subject'[w] = a PROVE FALSE
    <3>1. Goes(w)
      BY <1>0, <2>1, <2>2, StartKinds DEF Begins, Attends, Fresh
    <3>2. QED
      BY <1>0, <2>1, <2>2, <3>1 DEF Goes, Tasked
  <2>3. /\ at'[a] \in {"idle", "close", "release"}
        /\ at'[a] = "idle" => owns'[a] = {}
    <3>1. CASE Wake(a)
      BY <1>0, <3>1 DEF Wake, TakeOut, Goto, Tasked, TypeOK
    <3>2. CASE Close(a)
      BY <1>0, <3>2 DEF Close, Goto, TypeOK
    <3>3. CASE Release(a)
      BY <1>0, <3>3 DEF Release, AfterRelease, Goto, TypeOK
    <3>4. QED
      BY <1>6, <3>1, <3>2, <3>3
  <2>4. QED
    BY <2>1, <2>2, <2>3, SessionsStay DEF Tasked
<1>7. ASSUME Tick \/ UNCHANGED vars PROVE Tasked(a)'
  BY <1>1, <1>7 DEF Tick, vars, mapVars, timeVars
<1>8. CASE \E w \in Workers : \/ HandlerStep(w) \/ Reply(w)
                               \/ \E r \in AnyRequest : Receive(w, r)
  BY <1>2, <1>3, <1>4, <1>8
<1>9. CASE (\E b \in Attempts : Wake(b)) \/ (\E p \in Processes : Close(p) \/ Release(p))
  BY <1>5, <1>6, <1>9, Names
<1>10. QED
  BY <1>7, <1>8, <1>9 DEF Next, ProcessStep

-----------------------------------------------------------------------------
(* Owners and sessions. *)

\* What a step does to the map, the hands of the processes and the counter.
MapKept      == attempts' = attempts /\ owns' = owns /\ slots' = slots
TakesOut(p)  == /\ owns[p] = {} /\ slots' = slots
                /\ \E T \in SUBSET Tokens : /\ \A t \in T : attempts[t] # NoAttempt
                                            /\ TakeOut(p, T)
PutsIn(w)    == /\ subject[w] \in Attempts /\ owns[w] = {subject[w]} /\ slots' = slots
                /\ session[subject[w]] = "open"
                /\ owns' = [owns EXCEPT ![w] = {}]
                /\ \E t \in Tokens : /\ attempts[t] = NoAttempt
                                     /\ attempts' = [attempts EXCEPT ![t] = subject[w]]
Reserves(w)  == /\ subject[w] \in Attempts /\ owns[w] = {} /\ session[subject[w]] = "none"
                /\ owns' = [owns EXCEPT ![w] = {subject[w]}] /\ attempts' = attempts
                /\ slots < MaxActive /\ slots' = slots + 1
GivesBack(p) == \E a \in owns[p] : /\ session[a] # "open" /\ attempts' = attempts
                                   /\ owns' = [owns EXCEPT ![p] = @ \ {a}]
                                   /\ slots' = IF slots > 0 THEN slots - 1 ELSE 0

LEMMA OwnerKinds ==
    ASSUME AttemptsInv, [Next]_vars
    PROVE  \/ MapKept
           \/ \E p \in Processes : TakesOut(p)
           \/ \E w \in Workers : PutsIn(w)
           \/ \E w \in Workers : Reserves(w)
           \/ \E p \in Processes : GivesBack(p)
<1>0. /\ TypeOK /\ NoAttempt \notin Attempts
      /\ \A w \in Workers : Threaded(w) /\ w \in Processes
      /\ \A a \in Attempts : Tasked(a) /\ a \in Processes
  BY Names DEF AttemptsInv, Threaded
<1>1. ASSUME NEW w \in Workers,
             \/ \E r \in AnyRequest : Receive(w, r)
             \/ Reply(w) \/ LoadSlots(w) \/ RefuseSlot(w) \/ Capture(w)
             \/ ScheduleExpiry(w) \/ RejectUnknown(w) \/ RefreshFound(w) \/ OpenSession(w)
      PROVE  MapKept
  BY <1>0, <1>1, ReceiveFacts
     DEF Reply, LoadSlots, RefuseSlot, Capture, ScheduleExpiry, RejectUnknown, RefreshFound,
         OpenSession, mapVars, MapKept
<1>2. ASSUME NEW w \in Workers, SwapSlots(w) PROVE MapKept \/ Reserves(w)
  <2>1. subject[w] \in Attempts /\ owns[w] = {} /\ session[subject[w]] = "none"
    BY <1>0, <1>2 DEF SwapSlots, Threaded, Handling, Capturing, Starting, StartSteps,
                      Sessionless
  <2>2. QED
    BY <1>0, <1>2, <2>1, Names DEF SwapSlots, MapKept, Reserves, mapVars, TypeOK
<1>3. ASSUME NEW w \in Workers, InsertAttempt(w) PROVE PutsIn(w)
  BY <1>0, <1>3 DEF InsertAttempt, PutsIn, Threaded, Handling, Capturing, Starting, StartSteps
<1>4. ASSUME NEW w \in Workers,
             RemoveExpired(w) \/ RefreshExpired(w) \/ Recapture(w) \/ Cancel(w)
      PROVE  MapKept \/ TakesOut(w)
  <2>1. owns[w] = {}
    BY <1>0, <1>4 DEF RemoveExpired, RefreshExpired, Recapture, Cancel, Threaded, Handling
  <2>2. CASE RemoveExpired(w)
    <3>1. PICK T : T = {t \in Tokens : attempts[t] # NoAttempt
                                       /\ age[attempts[t]] >= Lifetime}
      OBVIOUS
    <3>2. T \in SUBSET Tokens /\ \A t \in T : attempts[t] # NoAttempt
      BY <3>1
    <3>3. TakeOut(w, T) /\ slots' = slots
      BY <2>2, <3>1 DEF RemoveExpired
    <3>4. QED
      BY <2>1, <3>2, <3>3 DEF TakesOut
  <2>3. CASE RefreshExpired(w) \/ Recapture(w) \/ Cancel(w)
    <3>1. asked[w].token \in Tokens /\ attempts[asked[w].token] # NoAttempt
      BY <1>0, <2>3 DEF RefreshExpired, Recapture, Cancel, IsFound, Threaded, Handling,
                        Capturing
    <3>2. slots' = slots /\ (MapKept \/ TakeOut(w, {asked[w].token}))
      BY <2>3 DEF RefreshExpired, Recapture, Cancel, MapKept
    <3>3. QED
      BY <2>1, <3>1, <3>2 DEF TakesOut
  <2>4. QED
    BY <1>4, <2>2, <2>3
<1>5. ASSUME NEW a \in Attempts, Wake(a) PROVE MapKept \/ TakesOut(a)
  <2>1. owns[a] = {} /\ timed[a] \in Tokens
    BY <1>0, <1>5 DEF Wake, Tasked
  <2>2. QED
    BY <1>5, <2>1 DEF Wake, MapKept, TakesOut
<1>6. ASSUME NEW p \in Processes, Release(p) PROVE GivesBack(p)
  BY <1>6 DEF Release, GivesBack, mapVars
<1>7. ASSUME (\E p \in Processes : Close(p)) \/ Tick \/ UNCHANGED vars PROVE MapKept
  BY <1>7 DEF Close, Tick, vars, mapVars, MapKept
<1>8. CASE \E w \in Workers : \/ HandlerStep(w) \/ Reply(w)
                               \/ \E r \in AnyRequest : Receive(w, r)
  BY <1>0, <1>1, <1>2, <1>3, <1>4, <1>8 DEF HandlerStep
<1>9. CASE (\E b \in Attempts : Wake(b)) \/ (\E p \in Processes : Close(p) \/ Release(p))
  BY <1>0, <1>5, <1>6, <1>7, <1>9
<1>10. QED
  BY <1>7, <1>8, <1>9 DEF Next, ProcessStep

\* Only an insertion puts an attempt under a token, only a swap takes a slot.
LEMMA InsertsOnly ==
    ASSUME AttemptsInv, [Next]_vars, NEW t \in Tokens, attempts'[t] # NoAttempt,
           attempts'[t] # attempts[t]
    PROVE  \E w \in Workers : InsertAttempt(w)
<1>1. TypeOK
  BY DEF AttemptsInv
<1>2. ASSUME NEW w \in Workers, HandlerStep(w), ~InsertAttempt(w) PROVE FALSE
  BY <1>1, <1>2 DEF HandlerStep, RemoveExpired, LoadSlots, RefuseSlot, SwapSlots, OpenSession,
     Capture, ScheduleExpiry, RejectUnknown, RefreshExpired, RefreshFound, Recapture, Cancel,
     TakeOut, mapVars, TypeOK
<1>3. ASSUME \/ \E w \in Workers : Reply(w) \/ \E r \in AnyRequest : Receive(w, r)
             \/ \E p \in Processes : Close(p) \/ Release(p)
             \/ \E a \in Attempts : Wake(a)
             \/ Tick \/ UNCHANGED vars
      PROVE  FALSE
  BY <1>1, <1>3, ReceiveFacts DEF Reply, Close, Release, Wake, Tick, TakeOut, vars, mapVars,
     TypeOK
<1>4. QED
  BY <1>2, <1>3 DEF Next, ProcessStep

LEMMA ReservesSwaps ==
    ASSUME AttemptsInv, [Next]_vars, NEW v \in Workers, Reserves(v)
    PROVE  \E w \in Workers : SwapSlots(w)
<1>1. TypeOK /\ slots' = slots + 1 /\ slots \in Nat
  BY DEF AttemptsInv, Reserves, TypeOK
<1>2. ASSUME NEW w \in Workers, HandlerStep(w), ~SwapSlots(w) PROVE FALSE
  BY <1>1, <1>2 DEF HandlerStep, RemoveExpired, LoadSlots, RefuseSlot, InsertAttempt,
     OpenSession, Capture, ScheduleExpiry, RejectUnknown, RefreshExpired, RefreshFound,
     Recapture, Cancel
<1>3. ASSUME NEW w \in Workers, Reply(w) \/ \E r \in AnyRequest : Receive(w, r)
      PROVE  FALSE
  BY <1>1, <1>3, ReceiveFacts DEF Reply
<1>4. ASSUME NEW p \in Processes, Close(p) \/ Release(p) PROVE FALSE
  BY <1>1, <1>4 DEF Close, Release
<1>5. ASSUME (\E a \in Attempts : Wake(a)) \/ Tick \/ UNCHANGED vars PROVE FALSE
  <2>1. slots' = slots
    <3>1. CASE \E a \in Attempts : Wake(a)
      BY <3>1 DEF Wake
    <3>2. CASE Tick \/ UNCHANGED vars
      BY <3>2 DEF Tick, vars
    <3>3. QED
      BY <1>5, <3>1, <3>2
  <2>2. QED
    BY <1>1, <2>1
<1>6. QED
  BY <1>2, <1>3, <1>4, <1>5 DEF Next, ProcessStep

\* What an operation does to the attempts held.
LEMMA OwnerSteps ==
    ASSUME AttemptsInv, [Next]_vars
    PROVE  /\ OneOwner'
           /\ \/ Holding' = Holding /\ slots' = slots
              \/ \E a \in Attempts \ Holding :
                    /\ Holding' = Holding \cup {a}
                    /\ slots < MaxActive /\ slots' = slots + 1
              \/ \E a \in Holding :
                    /\ session[a] # "open" /\ Holding' = Holding \ {a}
                    /\ slots' = IF slots > 0 THEN slots - 1 ELSE 0
<1>0. /\ TypeOK /\ SessionsAreHeld /\ OneOwner /\ OneStart /\ NoAttempt \notin Attempts
      /\ Workers \subseteq Processes
  BY Names DEF AttemptsInv
<1>1. CASE MapKept
  BY <1>0, <1>1 DEF MapKept, OneOwner, Holding, Live, InHand
<1>2. ASSUME NEW p \in Processes, TakesOut(p)
      PROVE  OneOwner' /\ Holding' = Holding /\ slots' = slots
  <2>1. PICK T \in SUBSET Tokens : TakeOut(p, T) /\ \A t \in T : attempts[t] # NoAttempt
    BY <1>2 DEF TakesOut
  <2>2. /\ owns[p] = {} /\ slots' = slots
        /\ \A t \in Tokens : attempts'[t] = IF t \in T THEN NoAttempt ELSE attempts[t]
        /\ owns'[p] = {attempts[t] : t \in T}
        /\ \A q \in Processes \ {p} : owns'[q] = owns[q]
    BY <1>0, <1>2, <2>1 DEF TakesOut, TakeOut, TypeOK
  <2>3. \A t, u \in Tokens : attempts'[t] = attempts'[u] /\ attempts'[t] # NoAttempt => t = u
    BY <1>0, <2>2 DEF OneOwner
  <2>4. \A q, r \in Processes : q # r => owns'[q] \cap owns'[r] = {}
    <3>1. ASSUME NEW q \in Processes, q # p PROVE owns'[p] \cap owns'[q] = {}
      <4>1. ASSUME NEW t \in T PROVE attempts[t] \notin owns'[q]
        BY <1>0, <2>1, <2>2, <3>1 DEF OneOwner, Live, InHand
      <4>2. QED
        BY <2>2, <4>1
    <3>2. QED
      BY <1>0, <2>2, <3>1 DEF OneOwner
  <2>5. ASSUME NEW a PROVE a \in Live' <=> a \in Live /\ a \notin owns'[p]
    <3>1. ASSUME NEW t \in Tokens, attempts'[t] # NoAttempt
          PROVE  attempts[t] # NoAttempt /\ attempts'[t] = attempts[t]
                 /\ attempts[t] \notin owns'[p]
      BY <1>0, <2>1, <2>2, <3>1 DEF OneOwner
    <3>2. ASSUME NEW t \in Tokens, attempts[t] # NoAttempt, attempts[t] \notin owns'[p]
          PROVE  attempts'[t] = attempts[t]
      BY <2>2, <3>2
    <3>3. QED
      BY <3>1, <3>2 DEF Live
  <2>6. ASSUME NEW a PROVE a \in InHand' <=> a \in InHand \/ a \in owns'[p]
    BY <2>2 DEF InHand
  <2>7. \A a \in owns'[p] : a \in Live /\ a \notin InHand
    <3>1. ASSUME NEW t \in T PROVE attempts[t] \in Live
      BY <2>1, <3>1 DEF Live
    <3>2. QED
      BY <1>0, <2>2, <3>1 DEF OneOwner
  <2>8. (Live \cap InHand)' = {}
    BY <1>0, <2>5, <2>6, <2>7 DEF OneOwner
  <2>9. Holding' = Holding
    BY <2>5, <2>6, <2>7 DEF Holding
  <2>10. QED
    BY <2>2, <2>3, <2>4, <2>8, <2>9 DEF OneOwner
<1>3. ASSUME NEW w \in Workers, PutsIn(w)
      PROVE  OneOwner' /\ Holding' = Holding /\ slots' = slots
  <2>1. PICK t \in Tokens : /\ attempts[t] = NoAttempt
                            /\ attempts' = [attempts EXCEPT ![t] = subject[w]]
    BY <1>3 DEF PutsIn
  <2>2. PICK a \in Attempts : a = subject[w]
    BY <1>3 DEF PutsIn
  <2>3. /\ owns[w] = {a} /\ owns'[w] = {} /\ slots' = slots
        /\ \A q \in Processes \ {w} : owns'[q] = owns[q] /\ a \notin owns[q]
        /\ attempts'[t] = a /\ \A u \in Tokens \ {t} : attempts'[u] = attempts[u]
        /\ \A u \in Tokens : attempts[u] # a
    <3>1. owns[w] = {a} /\ owns' = [owns EXCEPT ![w] = {}] /\ slots' = slots
      BY <1>3, <2>2 DEF PutsIn
    <3>2. a \notin Live /\ \A q \in Processes \ {w} : a \notin owns[q]
      BY <1>0, <3>1 DEF OneOwner, InHand
    <3>3. QED
      BY <1>0, <2>1, <2>2, <3>1, <3>2 DEF TypeOK, Live
  <2>4. \A u, v \in Tokens : attempts'[u] = attempts'[v] /\ attempts'[u] # NoAttempt => u = v
    BY <1>0, <2>3 DEF OneOwner
  <2>5. \A q, r \in Processes : q # r => owns'[q] \cap owns'[r] = {}
    BY <1>0, <2>3 DEF OneOwner
  <2>6. ASSUME NEW b PROVE b \in Live' <=> b \in Live \/ b = a
    BY <1>0, <2>1, <2>3 DEF Live
  <2>7. ASSUME NEW b PROVE b \in InHand' <=> b \in InHand /\ b # a
    BY <1>0, <2>3 DEF InHand
  <2>8. (Live \cap InHand)' = {} /\ a \in InHand
    BY <1>0, <2>3, <2>6, <2>7 DEF OneOwner, InHand
  <2>9. Holding' = Holding
    BY <2>6, <2>7, <2>8 DEF Holding
  <2>10. QED
    BY <2>3, <2>4, <2>5, <2>8, <2>9 DEF OneOwner
<1>4. ASSUME NEW w \in Workers, Reserves(w)
      PROVE  /\ OneOwner'
             /\ \E a \in Attempts \ Holding : Holding' = Holding \cup {a}
             /\ slots < MaxActive /\ slots' = slots + 1
  <2>1. PICK a \in Attempts : a = subject[w]
    BY <1>4 DEF Reserves
  <2>2. /\ owns[w] = {} /\ owns'[w] = {a} /\ attempts' = attempts /\ session[a] = "none"
        /\ \A q \in Processes \ {w} : owns'[q] = owns[q]
    BY <1>0, <1>4, <2>1 DEF Reserves, TypeOK
  <2>3. a \notin Live
    BY <1>0, <2>2 DEF SessionsAreHeld, Live
  <2>4. ASSUME NEW q \in Processes PROVE a \notin owns[q]
    <3>1. ASSUME a \in owns[q] PROVE q \in Workers /\ subject[q] = a
      BY <1>0, <2>2, <3>1 DEF SessionsAreHeld
    <3>2. ASSUME a \in owns[q] PROVE q = w
      BY <1>0, <2>1, <2>2, <3>1, <3>2 DEF OneStart
    <3>3. QED
      BY <2>2, <3>2
  <2>5. ASSUME NEW b PROVE b \in InHand' <=> b \in InHand \/ b = a
    BY <1>0, <2>2 DEF InHand
  <2>6. a \notin Holding /\ Live' = Live
    BY <2>2, <2>3, <2>4 DEF Holding, InHand, Live
  <2>7. Holding' = Holding \cup {a}
    BY <2>5, <2>6 DEF Holding
  <2>8. OneOwner'
    BY <1>0, <2>2, <2>3, <2>4, <2>5, <2>6 DEF OneOwner
  <2>9. QED
    BY <1>4, <2>6, <2>7, <2>8 DEF Reserves
<1>5. ASSUME NEW p \in Processes, GivesBack(p)
      PROVE  /\ OneOwner'
             /\ \E a \in Holding : session[a] # "open" /\ Holding' = Holding \ {a}
             /\ slots' = IF slots > 0 THEN slots - 1 ELSE 0
  <2>1. PICK a \in owns[p] : /\ session[a] # "open" /\ attempts' = attempts
                             /\ owns' = [owns EXCEPT ![p] = @ \ {a}]
                             /\ slots' = IF slots > 0 THEN slots - 1 ELSE 0
    BY <1>5 DEF GivesBack
  <2>2. /\ owns'[p] = owns[p] \ {a} /\ Live' = Live
        /\ \A q \in Processes \ {p} : owns'[q] = owns[q] /\ a \notin owns[q]
    BY <1>0, <2>1 DEF TypeOK, OneOwner, Live
  <2>3. ASSUME NEW b PROVE b \in InHand' <=> b \in InHand /\ b # a
    BY <2>1, <2>2 DEF InHand
  <2>4. a \in InHand /\ a \notin Live
    BY <1>0, <2>1 DEF OneOwner, InHand
  <2>5. Holding' = Holding \ {a} /\ a \in Holding
    BY <2>2, <2>3, <2>4 DEF Holding
  <2>6. OneOwner'
    <3>1. \A q, r \in Processes : q # r => owns'[q] \cap owns'[r] = {}
      BY <1>0, <2>2 DEF OneOwner
    <3>2. (Live \cap InHand)' = {}
      BY <1>0, <2>2, <2>3 DEF OneOwner
    <3>3. QED
      BY <1>0, <2>1, <3>1, <3>2 DEF OneOwner
  <2>7. QED
    BY <2>1, <2>5, <2>6
<1>6. QED
  <2>1. CASE MapKept
    BY <1>1, <2>1 DEF MapKept, Holding, Live, InHand
  <2>2. QED
    BY <1>2, <1>3, <1>4, <1>5, <2>1, OwnerKinds

LEMMA SlotsSteps ==
    ASSUME AttemptsInv, [Next]_vars
    PROVE  SlotsInv'
<1>0. /\ slots = Cardinality(Holding) /\ slots <= MaxActive /\ slots \in Nat
      /\ MaxActive \in Nat
  BY Names DEF AttemptsInv, SlotsInv, SlotsAreOwned, TypeOK
<1>1. IsFiniteSet(Holding)
  <2>1. Holding \subseteq Attempts
    BY DEF AttemptsInv, TypeOK, Holding, Live, InHand
  <2>2. QED
    BY <2>1, Names, FS_Subset
<1>2. CASE Holding' = Holding /\ slots' = slots
  BY <1>0, <1>2 DEF SlotsInv, SlotsAreOwned
<1>3. ASSUME NEW a \in Attempts \ Holding, Holding' = Holding \cup {a},
             slots < MaxActive, slots' = slots + 1
      PROVE  SlotsInv'
  <2>1. Cardinality(Holding \cup {a}) = Cardinality(Holding) + 1
    BY <1>1, FS_AddElement
  <2>2. QED
    BY <1>0, <1>3, <2>1 DEF SlotsInv, SlotsAreOwned
<1>4. ASSUME NEW a \in Holding, Holding' = Holding \ {a},
             slots' = IF slots > 0 THEN slots - 1 ELSE 0
      PROVE  SlotsInv'
  <2>1. Cardinality(Holding \ {a}) = Cardinality(Holding) - 1
    BY <1>1, FS_RemoveElement
  <2>2. Cardinality(Holding \ {a}) \in Nat
    BY <1>1, FS_RemoveElement, FS_CardinalityType
  <2>3. QED
    BY <1>0, <1>4, <2>1, <2>2 DEF SlotsInv, SlotsAreOwned
<1>5. QED
  BY <1>2, <1>3, <1>4, OwnerSteps

\* A thread moves by itself; the steps of others leave it where it is.
Rests(v) == /\ at'[v] = at[v] /\ asked'[v] = asked[v] /\ subject'[v] = subject[v]
            /\ owns'[v] = owns[v] /\ answer'[v] = answer[v]

LEMMA MovesOrRests ==
    ASSUME AttemptsInv, ProcessStep \/ Tick \/ UNCHANGED vars, NEW v \in Workers
    PROVE  HandlerStep(v) \/ Close(v) \/ Release(v) \/ Rests(v)
<1>0. /\ TypeOK /\ \A w \in Workers : Threaded(w) /\ w \in Processes /\ w \notin Attempts
      /\ Attempts \subseteq Processes
  BY Names DEF AttemptsInv, Threaded
<1>1. ASSUME NEW w \in Workers, w # v, ScheduleExpiry(w) PROVE Rests(v)
  <2>1. subject[w] \in Attempts
    BY <1>0, <1>1 DEF ScheduleExpiry, Threaded, Handling, Starting, StartSteps
  <2>2. QED
    BY <1>0, <1>1, <2>1 DEF ScheduleExpiry, Answers, Rests, TypeOK
<1>2. ASSUME NEW w \in Workers, w # v, HandlerStep(w), ~ScheduleExpiry(w) PROVE Rests(v)
  BY <1>0, <1>2 DEF HandlerStep, RemoveExpired, LoadSlots, RefuseSlot, SwapSlots, OpenSession,
     Capture, InsertAttempt, RejectUnknown, RefreshExpired, RefreshFound, Recapture, Cancel,
     Goto, Answers, TakeOut, handlerVars, Rests, TypeOK
<1>3. ASSUME NEW p \in Processes, p # v, Release(p) PROVE Rests(v)
  BY <1>0, <1>3 DEF Release, Goto, handlerVars, Rests, TypeOK
<1>4. ASSUME NEW p \in Processes, p # v, Close(p) PROVE Rests(v)
  BY <1>0, <1>4 DEF Close, CloseUnconfirmed, Goto, Answers, Rests, TypeOK
<1>5. ASSUME NEW a \in Attempts, Wake(a) PROVE Rests(v)
  BY <1>0, <1>5 DEF Wake, TakeOut, Goto, handlerVars, Rests, TypeOK
<1>6. ASSUME Tick \/ UNCHANGED vars PROVE Rests(v)
  BY <1>6 DEF Tick, vars, handlerVars, Rests
<1>7. QED
  BY <1>1, <1>2, <1>3, <1>4, <1>5, <1>6 DEF ProcessStep

\* A thread that is about to open, to give back or to schedule does that next.
LEMMA StaysPut ==
    ASSUME AttemptsInv, [Next]_vars, NEW v \in Workers, at[v] \in {"open", "release", "schedule"}
    PROVE  \/ OpenSession(v) \/ Release(v) \/ ScheduleExpiry(v)
           \/ Rests(v)
<1>0. TypeOK
  BY DEF AttemptsInv
<1>1. CASE HandlerStep(v)
  BY <1>1 DEF HandlerStep, RemoveExpired, LoadSlots, RefuseSlot, SwapSlots, Capture,
     InsertAttempt, RejectUnknown, RefreshExpired, RefreshFound, Recapture, Cancel
<1>2. ASSUME NEW w \in Workers, NEW r \in AnyRequest, Receive(w, r) PROVE Rests(v)
  BY <1>0, <1>2, ReceiveFacts, Names DEF Rests, TypeOK
<1>3. ASSUME NEW w \in Workers, Reply(w) PROVE Rests(v)
  BY <1>0, <1>3, Names DEF Reply, Goto, Answers, Rests, TypeOK
<1>4. ~Close(v)
  BY DEF Close
<1>5. QED
  BY <1>1, <1>2, <1>3, <1>4, MovesOrRests DEF Next

\* What a step does to the sessions: opens, or gives up, one that a start has in
\* hand, or ends one that its owner has in hand.
Opens(w)  == /\ subject[w] \in owns[w] /\ session[subject[w]] = "none"
             /\ \E s \in {"none", "open", "closed", "left"} :
                   /\ session' = [session EXCEPT ![subject[w]] = s]
                   /\ s = "left" => lostAnswers' = lostAnswers + 1
Closes(p) == \E a \in owns[p] : /\ session[a] = "open"
                                /\ \E s \in {"closed", "left"} :
                                      /\ session' = [session EXCEPT ![a] = s]
                                      /\ s = "left" => lostAnswers' = lostAnswers + 1

LEMMA SessionKinds ==
    ASSUME AttemptsInv, [Next]_vars
    PROVE  /\ lostAnswers <= lostAnswers'
           /\ \/ session' = session
              \/ /\ MapKept
                 /\ \/ \E w \in Workers : Opens(w)
                    \/ \E p \in Processes : Closes(p)
<1>0. TypeOK /\ \A w \in Workers : Threaded(w)
  BY DEF AttemptsInv, Threaded
<1> DEFINE Kept == session' = session /\ lostAnswers' = lostAnswers
<1>1. ASSUME NEW w \in Workers, OpenSession(w)
      PROVE  lostAnswers <= lostAnswers' /\ MapKept /\ Opens(w)
  <2>1. subject[w] \in owns[w] /\ session[subject[w]] = "none"
    BY <1>0, <1>1 DEF OpenSession, Threaded, Handling, Capturing, Sessionless
  <2>2. QED
    BY <1>0, <1>1, <2>1 DEF OpenSession, LosesAnswer, MapKept, Opens, mapVars, TypeOK
<1>2. ASSUME NEW p \in Processes, Close(p)
      PROVE  lostAnswers <= lostAnswers' /\ MapKept /\ Closes(p)
  BY <1>0, <1>2 DEF Close, LosesAnswer, MapKept, Closes, mapVars, TypeOK
<1>3. ASSUME NEW w \in Workers, HandlerStep(w), ~OpenSession(w) PROVE Kept
  BY <1>3 DEF HandlerStep, RemoveExpired, LoadSlots, RefuseSlot, SwapSlots, Capture,
     InsertAttempt, ScheduleExpiry, RejectUnknown, RefreshExpired, RefreshFound, Recapture,
     Cancel, driverVars
<1>4. ASSUME NEW w \in Workers, NEW r \in AnyRequest, Receive(w, r) PROVE Kept
  BY <1>0, <1>4, ReceiveFacts DEF driverVars
<1>5. ASSUME NEW p \in Processes, Release(p) PROVE Kept
  BY <1>5 DEF Release, driverVars
<1>6. ASSUME \/ \E w \in Workers : Reply(w)
             \/ \E b \in Attempts : Wake(b)
             \/ Tick \/ UNCHANGED vars
      PROVE  Kept
  BY <1>6 DEF Reply, Wake, Tick, vars, driverVars
<1>7. Kept => lostAnswers <= lostAnswers'
  BY <1>0 DEF TypeOK
<1>8. QED
  BY <1>1, <1>2, <1>3, <1>4, <1>5, <1>6, <1>7 DEF Next, ProcessStep

LEMMA LeftSteps ==
    ASSUME AttemptsInv, [Next]_vars
    PROVE  LeftInv'
<1>0. TypeOK /\ LeftInv /\ lostAnswers \in Nat /\ TypeOK'
  BY QrTypeSteps DEF AttemptsInv, TypeOK
<1> DEFINE Left == {a \in Attempts : session[a] = "left"}
<1>1. IsFiniteSet(Left) /\ IsFiniteSet(Left')
  BY Names, FS_Subset
<1>2. Cardinality(Left) \in Nat /\ Cardinality(Left') \in Nat /\ lostAnswers' \in Nat
  BY <1>0, <1>1, FS_CardinalityType DEF TypeOK
<1>3. ASSUME Left' \subseteq Left PROVE LeftInv'
  <2>1. Cardinality(Left') <= Cardinality(Left)
    BY <1>1, <1>3, FS_Subset
  <2>2. lostAnswers <= lostAnswers'
    BY SessionKinds
  <2> HIDE DEF Left
  <2>3. Cardinality(Left') <= lostAnswers'
    BY <1>0, <1>2, <2>1, <2>2 DEF LeftInv, Left
  <2>4. QED
    BY <2>3 DEF LeftInv, Left
<1>4. ASSUME NEW a \in Attempts, session' = [session EXCEPT ![a] = "left"],
             lostAnswers' = lostAnswers + 1
      PROVE  LeftInv'
  <2>1. Left' = Left \cup {a}
    BY <1>0, <1>4 DEF TypeOK
  <2>2. Cardinality(Left) <= lostAnswers
    BY <1>0 DEF LeftInv
  <2> HIDE DEF Left
  <2>3. Cardinality(Left') <= Cardinality(Left) + 1
    BY <1>1, <1>2, <2>1, FS_AddElement
  <2>4. Cardinality(Left') <= lostAnswers'
    BY <1>0, <1>2, <1>4, <2>2, <2>3
  <2>5. QED
    BY <2>4 DEF LeftInv, Left
<1>5. CASE session' = session
  BY <1>3, <1>5
<1>6. ASSUME NEW a \in Attempts, NEW s \in {"none", "open", "closed"},
             session' = [session EXCEPT ![a] = s]
      PROVE  LeftInv'
  BY <1>0, <1>3, <1>6 DEF TypeOK
<1>7. ASSUME NEW w \in Workers, Opens(w) PROVE LeftInv'
  <2>1. subject[w] \in Attempts
    BY <1>0, <1>7, Names DEF Opens, TypeOK
  <2>2. QED
    BY <1>4, <1>6, <1>7, <2>1 DEF Opens
<1>8. ASSUME NEW p \in Processes, Closes(p) PROVE LeftInv'
  <2>1. owns[p] \subseteq Attempts
    BY <1>0 DEF TypeOK
  <2>2. QED
    BY <1>4, <1>6, <1>8, <2>1 DEF Closes
<1>9. QED
  BY <1>5, <1>7, <1>8, SessionKinds

LEMMA HeldSteps ==
    ASSUME AttemptsInv, [Next]_vars
    PROVE  SessionsAreHeld'
<1>0. /\ TypeOK /\ SessionsAreHeld /\ OneOwner /\ NoAttempt \notin Attempts
      /\ \A w \in Workers : Threaded(w) /\ w \in Processes
  BY Names DEF AttemptsInv, Threaded
<1>1. ASSUME NEW t \in Tokens, attempts'[t] # NoAttempt PROVE session'[attempts'[t]] = "open"
  <2>1. PICK a \in Attempts : a = attempts'[t]
    BY <1>1, QrTypeSteps DEF TypeOK
  <2>2. session[a] = "open"
    <3>1. CASE attempts'[t] = attempts[t]
      BY <1>0, <1>1, <2>1, <3>1 DEF SessionsAreHeld
    <3>2. CASE attempts'[t] # attempts[t]
      BY <1>0, <1>1, <2>1, <3>2, OwnerKinds
         DEF MapKept, TakesOut, TakeOut, PutsIn, Reserves, GivesBack, TypeOK
    <3>3. QED
      BY <3>1, <3>2
  <2>3. CASE session' = session
    BY <2>1, <2>2, <2>3
  <2>4. CASE MapKept /\ session' # session
    <3>1. a \in Live
      BY <1>1, <2>1, <2>4 DEF MapKept, Live
    <3>2. ASSUME NEW p \in Processes PROVE a \notin owns[p]
      BY <1>0, <3>1 DEF OneOwner, InHand
    <3>3. session'[a] = session[a]
      BY <1>0, <2>4, <3>2, SessionKinds DEF Opens, Closes, TypeOK
    <3>4. QED
      BY <2>1, <2>2, <3>3
  <2>5. QED
    BY <2>3, <2>4, SessionKinds
<1>2. ASSUME NEW a \in Attempts, session'[a] = "open" PROVE a \in Holding'
  <2>1. a \in Holding
    <3>1. CASE session[a] = "open"
      BY <1>0, <3>1 DEF SessionsAreHeld
    <3>2. CASE session[a] # "open"
      <4>1. PICK w \in Workers : Opens(w)
        BY <1>0, <1>2, <3>2, SessionKinds DEF Closes, TypeOK
      <4>2. a = subject[w]
        BY <1>0, <1>2, <3>2, <4>1 DEF Opens, TypeOK
      <4>3. QED
        BY <1>0, <4>1, <4>2 DEF Opens, Holding, InHand
    <3>3. QED
      BY <3>1, <3>2
  <2>2. CASE MapKept
    BY <2>1, <2>2 DEF MapKept, Holding, Live, InHand
  <2>3. CASE session' = session
    BY <1>2, <2>1, <2>3, OwnerSteps
  <2>4. QED
    BY <2>2, <2>3, SessionKinds
<1>3. ASSUME NEW p \in Processes, NEW a \in owns'[p], session'[a] = "none"
      PROVE  p \in Workers /\ at'[p] \in {"open", "release"} /\ owns'[p] = {a} /\ subject'[p] = a
  <2>1. a \in Attempts /\ session[a] = "none"
    BY <1>0, <1>3, QrTypeSteps, SessionsStay DEF TypeOK
  <2>2. CASE a \in owns[p]
    <3>1. p \in Workers /\ at[p] \in {"open", "release"} /\ owns[p] = {a} /\ subject[p] = a
      BY <1>0, <2>1, <2>2 DEF SessionsAreHeld
    <3>2. CASE OpenSession(p)
      BY <1>0, <1>3, <3>1, <3>2 DEF OpenSession, Goto, TypeOK
    <3>3. CASE Release(p)
      BY <1>0, <1>3, <3>1, <3>3 DEF Release, TypeOK
    <3>4. CASE ScheduleExpiry(p)
      BY <3>1, <3>4 DEF ScheduleExpiry
    <3>5. QED
      BY <3>1, <3>2, <3>3, <3>4, StaysPut DEF Rests
  <2>3. CASE a \notin owns[p]
    <3>1. PICK w \in Workers : SwapSlots(w)
      <4>1. ASSUME NEW q \in Processes, TakesOut(q) PROVE FALSE
        <5>1. PICK T \in SUBSET Tokens : TakeOut(q, T) /\ \A t \in T : attempts[t] # NoAttempt
          BY <4>1 DEF TakesOut
        <5>2. \E t \in T : a = attempts[t]
          BY <1>0, <1>3, <2>3, <5>1 DEF TakeOut, TypeOK
        <5>3. QED
          BY <1>0, <2>1, <5>1, <5>2 DEF SessionsAreHeld
      <4>2. \E w \in Workers : Reserves(w)
        BY <1>0, <1>3, <2>3, <4>1, OwnerKinds DEF MapKept, PutsIn, GivesBack, TypeOK
      <4>3. QED
        BY <4>2, ReservesSwaps
    <3>2. QED
      BY <1>0, <1>3, <2>3, <3>1 DEF SwapSlots, Goto, TypeOK
  <2>4. QED
    BY <2>2, <2>3
<1>4. QED
  BY <1>1, <1>2, <1>3 DEF SessionsAreHeld

LEMMA TimedSteps ==
    ASSUME AttemptsInv, [Next]_vars
    PROVE  TimedAs'
<1>0. /\ TypeOK /\ TimedAs /\ OneOwner /\ NoAttempt \notin Attempts /\ Lifetime \in Nat
      /\ \A w \in Workers : Threaded(w) /\ w \in Processes /\ w \notin Attempts
      /\ \A a \in Attempts : Tasked(a) /\ a \in Processes
  BY Names DEF AttemptsInv, Threaded
<1> DEFINE Scheduled(w, a, t) == at[w] = "schedule" /\ subject[w] = a /\ asked[w].token = t
           Asleep(a, t) == at[a] = "asleep" /\ timed[a] = t /\ slept[a] <= age[a]
<1> SUFFICES ASSUME NEW t \in Tokens, NEW a \in Attempts, attempts'[t] = a
             PROVE  (\E w \in Workers : Scheduled(w, a, t)') \/ Asleep(a, t)'
  <2>1. ASSUME NEW t \in Tokens, attempts'[t] # NoAttempt PROVE attempts'[t] \in Attempts
    BY <2>1, QrTypeSteps DEF TypeOK
  <2>2. QED
    BY <2>1 DEF TimedAs
<1>1. attempts'[t] = a /\ attempts'[t] # NoAttempt
  BY <1>0
<1>2. CASE attempts[t] # a
  <2>1. PICK w \in Workers : InsertAttempt(w)
    BY <1>0, <1>1, <1>2, InsertsOnly
  <2>2. subject[w] \in Attempts /\ asked[w] \in Request
    BY <1>0, <2>1 DEF InsertAttempt, Threaded, Handling, Starting, StartSteps, TypeOK,
                      NoRequest
  <2>3. PICK u \in Tokens : /\ attempts' = [attempts EXCEPT ![u] = subject[w]]
                            /\ asked' = [asked EXCEPT ![w].token = u]
    BY <2>1 DEF InsertAttempt
  <2>4. u = t /\ subject[w] = a
    BY <1>0, <1>1, <1>2, <2>3 DEF TypeOK
  <2>5. at'[w] = "schedule" /\ subject'[w] = a
    BY <1>0, <2>1, <2>4 DEF InsertAttempt, Goto, TypeOK
  <2>6. asked'[w].token = t
    BY <1>0, <2>2, <2>3, <2>4 DEF TypeOK, Request
  <2>7. QED
    BY <2>5, <2>6
<1>3. CASE attempts[t] = a
  <2>1. (\E w \in Workers : Scheduled(w, a, t)) \/ Asleep(a, t)
    BY <1>0, <1>3 DEF TimedAs
  <2>2. ASSUME NEW w \in Workers, Scheduled(w, a, t)
        PROVE  Scheduled(w, a, t)' \/ Asleep(a, t)'
    <3>1. CASE ScheduleExpiry(w)
      <4>1. at'[a] = "asleep" /\ timed'[a] = t /\ slept'[a] = 0 /\ age' = age
        BY <1>0, <2>2, <3>1 DEF ScheduleExpiry, TypeOK
      <4>2. QED
        BY <1>0, <4>1 DEF TypeOK
    <3>2. CASE ~ScheduleExpiry(w)
      BY <2>2, <3>2, StaysPut DEF OpenSession, Release, Rests
    <3>3. QED
      BY <3>1, <3>2
  <2>3. CASE Asleep(a, t)
    <3>1. ASSUME at'[a] = at[a], timed'[a] = timed[a], slept'[a] = slept[a], age'[a] = age[a]
          PROVE  Asleep(a, t)'
      BY <2>3, <3>1
    <3>2. ASSUME NEW w \in Workers, InsertAttempt(w) PROVE Asleep(a, t)'
      <4>1. subject[w] \in owns[w] /\ a \in Live
        BY <1>0, <1>3, <3>2 DEF InsertAttempt, Threaded, Handling, Live
      <4>2. subject[w] # a
        BY <1>0, <4>1 DEF OneOwner, InHand
      <4>3. QED
        BY <1>0, <3>1, <3>2, <4>2 DEF InsertAttempt, Goto, TypeOK
    <3>3. ASSUME NEW w \in Workers, ScheduleExpiry(w) PROVE Asleep(a, t)'
      <4>1. subject[w] # a /\ subject[w] \in Attempts
        BY <1>0, <2>3, <3>3 DEF ScheduleExpiry, Tasked, Threaded, Handling, Starting,
                                StartSteps
      <4>2. QED
        BY <1>0, <3>1, <3>3, <4>1 DEF ScheduleExpiry, TypeOK
    <3>4. ASSUME NEW w \in Workers, HandlerStep(w), ~InsertAttempt(w), ~ScheduleExpiry(w)
          PROVE  Asleep(a, t)'
      BY <1>0, <3>1, <3>4 DEF HandlerStep, RemoveExpired, LoadSlots, RefuseSlot, SwapSlots,
         OpenSession, Capture, RejectUnknown, RefreshExpired, RefreshFound, Recapture, Cancel,
         Goto, timeVars, TypeOK
    <3>5. ASSUME NEW w \in Workers, Reply(w) \/ \E r \in AnyRequest : Receive(w, r)
          PROVE  Asleep(a, t)'
      BY <1>0, <3>1, <3>5, ReceiveFacts DEF Reply, Goto, timeVars, TypeOK
    <3>6. ASSUME NEW p \in Processes, Close(p) \/ Release(p) PROVE Asleep(a, t)'
      <4>1. p # a
        BY <2>3, <3>6 DEF Close, Release
      <4>2. QED
        BY <1>0, <3>1, <3>6, <4>1 DEF Close, Release, Goto, timeVars, TypeOK
    <3>7. ASSUME NEW b \in Attempts, Wake(b), b # a PROVE Asleep(a, t)'
      BY <1>0, <3>1, <3>7 DEF Wake, Goto, TypeOK
    <3>8. ASSUME Wake(a) PROVE FALSE
      <4>1. age[a] >= Lifetime
        BY <1>0, <2>3, <3>8 DEF Wake, TypeOK
      <4>2. TakeOut(a, {t})
        BY <1>0, <1>3, <2>3, <3>8, <4>1 DEF Wake
      <4>3. attempts'[t] = NoAttempt
        BY <4>2 DEF TakeOut
      <4>4. QED
        BY <1>0, <1>1, <4>3
    <3>9. ASSUME Tick PROVE Asleep(a, t)'
      <4>1. a \in Live
        BY <1>0, <1>3 DEF Live
      <4>2. age'[a] = Older(age[a]) /\ slept'[a] = Older(slept[a]) /\ UNCHANGED <<at, timed>>
        BY <2>3, <3>9, <4>1 DEF Tick
      <4>3. age[a] \in 0 .. Lifetime /\ slept[a] \in 0 .. Lifetime
        BY <1>0 DEF TypeOK
      <4>4. Older(slept[a]) <= Older(age[a])
        BY <1>0, <2>3, <4>3 DEF Older
      <4>5. QED
        BY <2>3, <4>2, <4>4
    <3>10. ASSUME UNCHANGED vars PROVE Asleep(a, t)'
      BY <3>1, <3>10 DEF vars, timeVars
    <3>11. QED
      BY <3>2, <3>3, <3>4, <3>5, <3>6, <3>7, <3>8, <3>9, <3>10 DEF Next, ProcessStep
  <2>4. QED
    BY <2>1, <2>2, <2>3
<1>4. QED
  BY <1>2, <1>3

-----------------------------------------------------------------------------
(* The invariant, and what follows from it. *)

LEMMA AttemptsInit ==
    ASSUME Init
    PROVE  AttemptsInv
<1>1. TypeOK
  BY Names DEF Init, TypeOK, Processes, Step
<1>2. \A w \in Workers : Handling(w) /\ Capturing(w) /\ Cancelling(w)
  BY Names DEF Init, Handling, Capturing, Cancelling, Starting, Sweeping, StartSteps,
     Sessionless
<1>3. \A a \in Attempts : Tasked(a)
  BY Names DEF Init, Tasked, Starting, Sweeping, StartSteps, Sessionless
<1>4. OneStart
  BY Names DEF Init, OneStart
<1>5. Live = {} /\ InHand = {} /\ Holding = {}
  BY DEF Init, Live, InHand, Holding
<1>6. OneOwner
  BY <1>5 DEF Init, OneOwner
<1>7. SessionsAreHeld
  BY DEF Init, SessionsAreHeld
<1>8. TimedAs
  BY DEF Init, TimedAs
<1>9. SlotsInv
  BY <1>5, FS_EmptySet, Names DEF Init, SlotsInv, SlotsAreOwned
<1>10. LeftInv
  <2>1. {a \in Attempts : session[a] = "left"} = {}
    BY DEF Init
  <2>2. lostAnswers = 0
    BY DEF Init
  <2>3. QED
    BY <2>1, <2>2, FS_EmptySet DEF LeftInv
<1>11. QED
  BY <1>1, <1>2, <1>3, <1>4, <1>6, <1>7, <1>8, <1>9, <1>10 DEF AttemptsInv

LEMMA AttemptsSteps ==
    ASSUME AttemptsInv, [Next]_vars
    PROVE  AttemptsInv'
<1>1. \A w \in Workers : (Handling(w) /\ Capturing(w) /\ Cancelling(w))'
  BY ThreadSteps DEF Threaded
<1>2. QED
  BY <1>1, QrTypeSteps, TaskSteps, OneStartSteps, OwnerSteps, HeldSteps, TimedSteps,
     SlotsSteps, LeftSteps DEF AttemptsInv

LEMMA AttemptsHold == Spec => []AttemptsInv
<1>1. QED
  BY AttemptsInit, AttemptsSteps, PTL DEF Spec

\* What the invariant says of a state.
LEMMA Accounted ==
    ASSUME AttemptsInv
    PROVE  SlotsAreAccounted
<1>1. AttemptsAreTimed
  BY DEF AttemptsInv, TimedAs, AttemptsAreTimed
<1>2. QED
  BY <1>1 DEF AttemptsInv, SlotsInv, SlotsAreAccounted

LEMMA Guarded ==
    ASSUME AttemptsInv
    PROVE  SessionsAreGuarded
<1>1. TypeOK /\ SessionsAreHeld /\ SlotsInv /\ \A w \in Workers : Handling(w) /\ Capturing(w)
  BY DEF AttemptsInv
<1>2. Cardinality({a \in Attempts : session[a] = "open"}) <= MaxActive
  <2>1. {a \in Attempts : session[a] = "open"} \subseteq Holding /\ Holding \subseteq Attempts
    BY <1>1 DEF SessionsAreHeld, TypeOK, Holding, Live, InHand
  <2>2. IsFiniteSet(Holding)
    BY <2>1, Names, FS_Subset
  <2> DEFINE Open == {a \in Attempts : session[a] = "open"}
  <2> HIDE DEF Open
  <2>3. IsFiniteSet(Open) /\ Cardinality(Open) <= Cardinality(Holding)
    BY <2>1, <2>2, FS_Subset DEF Open
  <2>4. Cardinality(Open) \in Nat /\ Cardinality(Holding) \in Nat
    BY <2>2, <2>3, FS_CardinalityType
  <2>5. Cardinality(Open) <= MaxActive
    BY <1>1, <2>3, <2>4, Names DEF SlotsInv, SlotsAreOwned
  <2>6. QED
    BY <2>5 DEF Open
<1>3. CapturesAreOpen
  <2>1. ASSUME NEW w \in Workers, at[w] = "capture" PROVE session[subject[w]] = "open"
    BY <1>1, <2>1 DEF Capturing
  <2>2. ASSUME NEW w \in Workers, at[w] = "recapture" PROVE session[subject[w]] = "open"
    BY <1>1, <2>2, Names DEF Handling, Capturing, SessionsAreHeld
  <2>3. QED
    BY <2>1, <2>2 DEF CapturesAreOpen
<1>4. QED
  BY <1>2, <1>3 DEF SessionsAreGuarded, SessionsAreCapped

LEMMA Ended ==
    ASSUME AttemptsInv
    PROVE  EndedIsClosed
<1>1. TypeOK /\ SessionsAreHeld /\ LeftInv /\ \A w \in Workers : Cancelling(w)
  BY DEF AttemptsInv
<1>2. CancelledIsClosed
  BY <1>1 DEF Cancelling, CancelledIsClosed
<1>3. Cardinality(LeftBehind) <= lostAnswers
  <2> DEFINE Left == {a \in Attempts : session[a] = "left"}
  <2>1. LeftBehind \subseteq Left /\ Left \subseteq Attempts
    BY <1>1 DEF LeftBehind, SessionsAreHeld
  <2>2. Cardinality(Left) <= lostAnswers
    BY <1>1 DEF LeftInv
  <2> HIDE DEF Left
  <2>3. IsFiniteSet(Left) /\ IsFiniteSet(LeftBehind)
        /\ Cardinality(LeftBehind) <= Cardinality(Left)
    BY <2>1, Names, FS_Subset
  <2>4. Cardinality(Left) \in Nat /\ Cardinality(LeftBehind) \in Nat /\ lostAnswers \in Nat
    BY <1>1, <2>3, FS_CardinalityType DEF TypeOK
  <2>5. QED
    BY <2>2, <2>3, <2>4
<1>4. QED
  BY <1>2, <1>3 DEF EndedIsClosed, SessionsAreClosed

LEMMA EndsForCause ==
    ASSUME AttemptsInv, [Next]_vars, NEW t \in Tokens, attempts[t] # NoAttempt,
           attempts'[t] # attempts[t]
    PROVE  \/ age[attempts[t]] >= Lifetime
           \/ \E w \in Workers : /\ at[w] \in {"find", "recapture"}
                                 /\ asked[w].token = t
                                 /\ asked[w].platform = PlatformOf[attempts[t]]
<1>0. TypeOK /\ \A w \in Workers : Threaded(w)
  BY DEF AttemptsInv, Threaded
<1> DEFINE Caused == \/ age[attempts[t]] >= Lifetime
                     \/ \E w \in Workers : /\ at[w] \in {"find", "recapture"}
                                           /\ asked[w].token = t
                                           /\ asked[w].platform = PlatformOf[attempts[t]]
<1>1. ASSUME NEW w \in Workers, RemoveExpired(w) PROVE Caused
  BY <1>0, <1>1 DEF RemoveExpired, TakeOut, TypeOK
<1>2. ASSUME NEW w \in Workers, RefreshExpired(w) PROVE Caused
  BY <1>0, <1>2 DEF RefreshExpired, TakeOut, TypeOK
<1>3. ASSUME NEW w \in Workers, Recapture(w) PROVE Caused
  <2>1. asked[w].token = t
    BY <1>0, <1>3 DEF Recapture, TakeOut, TypeOK
  <2>2. at[w] = "recapture" /\ asked[w].platform = PlatformOf[attempts[t]]
    BY <1>0, <1>3, <2>1 DEF Recapture, Threaded, Capturing
  <2>3. QED
    BY <2>1, <2>2
<1>4. ASSUME NEW w \in Workers, Cancel(w) PROVE Caused
  <2>1. asked[w].token = t
    BY <1>0, <1>4 DEF Cancel, TakeOut, TypeOK
  <2>2. at[w] = "find" /\ asked[w].platform = PlatformOf[attempts[t]]
    BY <1>4, <2>1 DEF Cancel, IsFound
  <2>3. QED
    BY <2>1, <2>2
<1>5. ASSUME NEW a \in Attempts, Wake(a) PROVE Caused
  BY <1>0, <1>5 DEF Wake, TakeOut, TypeOK
<1>6. ASSUME NEW w \in Workers, InsertAttempt(w) PROVE FALSE
  BY <1>0, <1>6 DEF InsertAttempt, TypeOK
<1>7. ASSUME NEW w \in Workers, HandlerStep(w), ~RemoveExpired(w), ~RefreshExpired(w),
             ~Recapture(w), ~Cancel(w), ~InsertAttempt(w)
      PROVE  FALSE
  BY <1>7 DEF HandlerStep, LoadSlots, RefuseSlot, SwapSlots, OpenSession, Capture,
     ScheduleExpiry, RejectUnknown, RefreshFound, mapVars
<1>8. ASSUME NEW w \in Workers, Reply(w) \/ \E r \in AnyRequest : Receive(w, r) PROVE FALSE
  BY <1>0, <1>8, ReceiveFacts DEF Reply, mapVars
<1>9. ASSUME \/ \E p \in Processes : Close(p) \/ Release(p)
             \/ Tick \/ UNCHANGED vars
      PROVE  FALSE
  BY <1>9 DEF Close, Release, Tick, vars, mapVars
<1>10. QED
  BY <1>1, <1>2, <1>3, <1>4, <1>5, <1>6, <1>7, <1>8, <1>9 DEF Next, ProcessStep

\* Whatever the races of handlers and expiry tasks, the counter of the slots is the
\* number of attempts in the map and in hand, each attempt has one owner, and each in
\* the map an expiry task that will find it expired.
THEOREM SlotsNeverLeak == Spec => []SlotsAreAccounted
<1>1. QED
  BY AttemptsHold, Accounted, PTL

\* Never more sessions than the cap; none is closed while a thread captures from it.
THEOREM CapAndCapturesHold == Spec => []SessionsAreGuarded
<1>1. QED
  BY AttemptsHold, Guarded, PTL

\* A session nobody will close is due to a lost answer of the driver; the session of an
\* attempt its caller is told is cancelled is closed.
THEOREM NoSessionForgotten == Spec => []EndedIsClosed
<1>1. QED
  BY AttemptsHold, Ended, PTL

\* An attempt leaves the map when its time is up, or by a request that names it and its
\* platform; a task whose token was drawn again takes nobody else's.
THEOREM AttemptsEndForCause == Spec => EndedForCause
<1>1. ASSUME AttemptsInv, [Next]_vars
      PROVE  [\A t \in Tokens : attempts[t] # NoAttempt /\ attempts'[t] # attempts[t] =>
                \/ age[attempts[t]] >= Lifetime
                \/ \E w \in Workers : /\ at[w] \in {"find", "recapture"}
                                      /\ asked[w].token = t
                                      /\ asked[w].platform = PlatformOf[attempts[t]]]_vars
  BY <1>1, EndsForCause
<1>2. QED
  BY <1>1, AttemptsHold, PTL DEF Spec, EndedForCause

-----------------------------------------------------------------------------
(* The logins of the command line. *)

\* A start that may still put its attempt into the map.
Opening(w)  == Starting(w) /\ at[w] # "schedule"
Begun(w, c) == serving[w] = c /\ asked[w].kind = "start"
Asking(c)   == \E m \in inbox : m[1] = c /\ m[2].kind = "start"

\* A process posts one start, and knows no token before it is answered; whatever else
\* it posts names that token.
Travelling ==
    \A m \in inbox :
        /\ m[2] \in AnyRequest /\ m[2].platform = ClientPlatform[m[1]]
        /\ m[2].kind # "start" => m[2].token = known[m[1]]
        /\ m[2].kind = "start" => /\ stage[m[1]] \in {"start", "exited"}
                                  /\ known[m[1]] = NoToken
                                  /\ \A w \in Workers : ~Begun(w, m[1])

Served(w) ==
    /\ at[w] # "idle" => asked[w].kind # "none"
    /\ asked[w].kind # "none" =>
          /\ serving[w] \in Clients /\ asked[w].platform = ClientPlatform[serving[w]]
          /\ asked[w].kind # "start" => /\ asked[w].token = known[serving[w]]
                                        /\ asked[w].token \in Tokens
          /\ asked[w].kind = "start" => /\ stage[serving[w]] \in {"start", "exited"}
                                        /\ known[serving[w]] = NoToken
          /\ asked[w].kind = "cancel" => answer[w] # "qr"
    /\ answer[w] = "qr" => asked[w].token \in Tokens

Knowing(c) ==
    /\ stage[c] \in {"begin", "start"} => known[c] = NoToken
    /\ stage[c] \in {"draw", "refresh", "cancel"} => known[c] \in Tokens
    /\ stage[c] = "begin" => /\ \A m \in inbox : m[1] # c
                             /\ \A w \in Workers : serving[w] # c

OneBegun == \A v, w \in Workers : \A c \in Clients : Begun(v, c) /\ Begun(w, c) => v = w

WiresInv ==
    /\ LoginTypeOK
    /\ Travelling
    /\ \A w \in Workers : Served(w)
    /\ \A c \in Clients : Knowing(c)
    /\ OneBegun

\* Processes that ended before their attempts: each is a start or a cancel given up or
\* a process killed.
Charged(own) ==
    {c \in Clients : /\ stage[c] = "exited"
                     /\ \/ Asking(c)
                        \/ \E w \in Workers : serving[w] = c /\ Opening(w)
                        \/ \E a \in Live : own[a] = c}

\* Which process each attempt was started for.
OneEach(own) == \A a, b \in Attempts : own[a] = own[b] /\ own[a] # NoClient => a = b

StartsOwn(own, w) ==
    asked[w].kind = "start" =>
        /\ subject[w] \in Attempts /\ own[subject[w]] = serving[w]
        /\ PlatformOf[subject[w]] = asked[w].platform
        /\ subject[w] \in Live => /\ at[w] \in {"schedule", "reply"}
                                  /\ at[w] = "reply" => answer[w] = "qr"
                                  /\ attempts[asked[w].token] = subject[w]

LivesFor(own, a) ==
    /\ own[a] \in Clients /\ PlatformOf[a] = ClientPlatform[own[a]]
    /\ known[own[a]] # NoToken => attempts[known[own[a]]] = a
    /\ stage[own[a]] = "start" =>
          \E w \in Workers : asked[w].kind = "start" /\ subject[w] = a

CancelsOwn(own, w) ==
    asked[w].kind = "cancel" /\ at[w] \in {"close", "release", "reply"} =>
        \A a \in Live : own[a] # serving[w]

Unowned(own, c) == stage[c] = "begin" \/ Asking(c) => \A a \in Attempts : own[a] # c

ChargesInv(own) == IsFiniteSet(Charged(own)) /\ Cardinality(Charged(own)) <= missed + kills

Owned(own) ==
    /\ OneEach(own)
    /\ \A w \in Workers : StartsOwn(own, w) /\ CancelsOwn(own, w)
    /\ \A a \in Live : LivesFor(own, a)
    /\ \A c \in Clients : Unowned(own, c)
    /\ ChargesInv(own)

Owners == [Attempts -> Clients \cup {NoClient}]

LoginInv == AttemptsInv /\ WiresInv /\ \E own \in Owners : Owned(own)

\* A step of the runner's own.
RunnerStep == (ProcessStep \/ Tick) /\ UNCHANGED <<loginVars, wireVars>>

LEMMA LoginSteps ==
    ASSUME WiresInv, [LoginNext]_allVars
    PROVE  [Next]_vars
<1>1. ASSUME NEW w \in Workers, Serve(w) PROVE Next
  BY <1>1 DEF Serve, WiresInv, Travelling, Next
<1>2. ASSUME NEW w \in Workers, Deliver(w) PROVE Next
  BY <1>2 DEF Deliver, Next
<1>3. ASSUME NEW c \in Clients, StartLogin(c) \/ Draw(c) \/ GiveUp(c) \/ Kill(c)
      PROVE  UNCHANGED vars
  BY <1>3 DEF StartLogin, Draw, GiveUp, Kill
<1>4. CASE Drop \/ UNCHANGED allVars
  BY <1>4 DEF Drop, allVars
<1>5. QED
  BY <1>1, <1>2, <1>3, <1>4 DEF LoginNext, Next

\* What the runner's own steps leave of a thread's request, and where they take it.
LEMMA RunnerThreads ==
    ASSUME AttemptsInv, ProcessStep \/ Tick, NEW v \in Workers
    PROVE  /\ asked'[v].kind = asked[v].kind /\ asked'[v].platform = asked[v].platform
           /\ asked'[v].token = asked[v].token \/ InsertAttempt(v)
           /\ asked[v].kind = "start" => subject'[v] = subject[v]
           /\ Opening(v)' => Opening(v)
           /\ at'[v] = "idle" <=> at[v] = "idle"
           /\ answer'[v] = "qr" =>
                 \/ answer[v] = "qr"
                 \/ asked[v].kind # "cancel" /\ asked[v].token \in Tokens
           /\ at[v] = "schedule" => \/ at'[v] = "schedule"
                                    \/ at'[v] = "reply" /\ answer'[v] = "qr"
           /\ at[v] = "reply" => at'[v] = "reply" /\ answer'[v] = answer[v]
           /\ asked[v].kind = "cancel" /\ at'[v] \in {"close", "release", "reply"} =>
                 \/ at[v] \in {"close", "release", "reply"}
                 \/ Cancel(v) \/ RejectUnknown(v)
<1>0. /\ TypeOK /\ \A w \in Workers : Threaded(w) /\ w \in Processes /\ w \notin Attempts
      /\ v \in Processes /\ v \notin Attempts /\ Threaded(v)
  BY Names DEF AttemptsInv, Threaded
<1>1. CASE Rests(v)
  BY <1>1 DEF Rests, Opening, Starting, Sweeping
<1>2. CASE RemoveExpired(v) \/ LoadSlots(v) \/ RefuseSlot(v) \/ SwapSlots(v)
  BY <1>0, <1>2 DEF RemoveExpired, LoadSlots, RefuseSlot, SwapSlots, Goto, Answers,
     handlerVars, TypeOK, Threaded, Handling, Opening, Starting, Sweeping, StartSteps,
     Sessionless
<1>3. CASE OpenSession(v) \/ Capture(v)
  BY <1>0, <1>3 DEF OpenSession, Capture, Goto, Answers, TypeOK, Threaded, Handling, Opening,
     Starting, Sweeping, StartSteps, Sessionless
<1>4. CASE InsertAttempt(v)
  <2>1. at[v] = "insert" /\ asked[v] \in Request /\ asked[v].kind = "start"
    BY <1>0, <1>4 DEF InsertAttempt, Threaded, Handling, Starting, StartSteps, TypeOK,
                      NoRequest
  <2>2. asked'[v].kind = asked[v].kind /\ asked'[v].platform = asked[v].platform
    BY <1>0, <1>4, <2>1 DEF InsertAttempt, TypeOK, Request
  <2>3. at'[v] = "schedule" /\ UNCHANGED <<subject, answer>>
    BY <1>0, <1>4 DEF InsertAttempt, Goto, TypeOK
  <2>4. QED
    BY <1>4, <2>1, <2>2, <2>3 DEF Opening
<1>5. CASE ScheduleExpiry(v)
  <2>1. /\ at[v] = "schedule" /\ at'[v] = "reply" /\ asked[v].kind = "start"
        /\ asked[v].token \in Tokens /\ answer'[v] = "qr" /\ UNCHANGED <<asked, subject>>
    BY <1>0, <1>5 DEF ScheduleExpiry, Answers, TypeOK, Threaded, Handling, Starting, StartSteps
  <2>2. QED
    BY <2>1 DEF Opening, Starting, Sweeping, StartSteps, Sessionless
<1>6. CASE RejectUnknown(v) \/ RefreshExpired(v)
  BY <1>0, <1>6 DEF RejectUnknown, RefreshExpired, Goto, Answers, TypeOK, Threaded, Handling,
     Opening, Starting, Sweeping, StartSteps, Sessionless
<1>7. CASE RefreshFound(v) \/ Recapture(v) \/ Cancel(v)
  BY <1>0, <1>7 DEF RefreshFound, Recapture, Cancel, Goto, Answers, TypeOK, Threaded, Handling,
     Opening, Starting, Sweeping, StartSteps, Sessionless
<1>8. CASE Close(v)
  <2>1. /\ at[v] = "close" /\ at'[v] = "release" /\ UNCHANGED <<asked, subject>>
        /\ answer' = answer \/ answer'[v] = "rejected"
    BY <1>0, <1>8 DEF Close, CloseUnconfirmed, Goto, Answers, TypeOK
  <2>2. QED
    BY <2>1 DEF Opening, Starting, Sweeping, StartSteps, Sessionless
<1>9. CASE Release(v)
  BY <1>0, <1>9 DEF Release, AfterRelease, Goto, handlerVars, TypeOK, Opening, Starting,
     Sweeping, StartSteps, Sessionless
<1>10. QED
  BY <1>1, <1>2, <1>3, <1>4, <1>5, <1>6, <1>7, <1>8, <1>9, MovesOrRests DEF HandlerStep

LEMMA LoginNames ==
    /\ NoClient \notin Clients /\ ClientPlatform \in [Clients -> Platforms]
    /\ MaxRefreshes \in Nat /\ MaxMissed \in Nat /\ MaxKills \in Nat
    /\ NoToken \notin Tokens
BY LoginAssumption, AttemptsAssumption DEF LoginAssumption, AttemptsAssumption

\* What a process posts.
LEMMA Posted ==
    ASSUME LoginTypeOK, NEW c \in Clients, NEW call \in {"start", "refresh", "cancel"},
           Post(c, call), call = "start" <=> known[c] = NoToken
    PROVE  \E r \in AnyRequest :
              /\ r.kind = call /\ r.platform = ClientPlatform[c] /\ r.token = known[c]
              /\ inbox' = inbox \cup {<<c, r>>}
              /\ stage' = [stage EXCEPT ![c] = call]
<1> DEFINE r == [kind |-> call, platform |-> ClientPlatform[c], token |-> known[c]]
<1>1. r \in Request
  BY LoginNames DEF LoginTypeOK, Request
<1>2. r \in AnyRequest
  BY <1>1 DEF AnyRequest
<1>3. QED
  BY <1>2 DEF Post

\* A step of a process moves only that process, which may post a request.
LEMMA ClientSteps ==
    ASSUME WiresInv, NEW c \in Clients,
           \/ StartLogin(c) \/ Draw(c) \/ GiveUp(c) \/ Kill(c)
    PROVE  /\ UNCHANGED <<vars, serving, known>>
           /\ stage'[c] # "begin"
           /\ \A d \in Clients \ {c} : stage'[d] = stage[d]
           /\ \/ /\ inbox' = inbox /\ stage'[c] = "exited" /\ stage[c] # "begin"
                 /\ missed' + kills' = missed + kills + 1
              \/ /\ missed' + kills' = missed + kills
                 /\ \E r \in AnyRequest :
                       /\ r.platform = ClientPlatform[c] /\ r.token = known[c]
                       /\ inbox' = inbox \cup {<<c, r>>}
                       /\ stage' = [stage EXCEPT ![c] = r.kind]
                       /\ r.kind = "start" <=> stage[c] = "begin"
           /\ LoginTypeOK'
<1>0. /\ LoginTypeOK /\ Knowing(c) /\ missed \in Nat /\ kills \in Nat /\ NoToken \notin Tokens
  BY LoginNames DEF WiresInv, LoginTypeOK
<1>1. ASSUME UNCHANGED vars PROVE TypeOK'
  BY <1>0, <1>1 DEF LoginTypeOK, TypeOK, vars, mapVars, timeVars, driverVars, handlerVars
<1>2. ASSUME NEW r \in AnyRequest, inbox' = inbox \cup {<<c, r>>}
      PROVE  inbox' \subseteq Clients \X Request
  BY <1>0, <1>2 DEF LoginTypeOK, AnyRequest
<1>3. CASE StartLogin(c)
  <2>1. stage[c] = "begin" /\ known[c] = NoToken /\ Post(c, "start")
        /\ UNCHANGED <<vars, serving, known, refreshes, missed, kills>>
    BY <1>0, <1>3 DEF StartLogin, Knowing
  <2>2. PICK r \in AnyRequest :
              /\ r.kind = "start" /\ r.platform = ClientPlatform[c] /\ r.token = known[c]
              /\ inbox' = inbox \cup {<<c, r>>} /\ stage' = [stage EXCEPT ![c] = "start"]
    BY <1>0, <2>1, Posted
  <2>3. LoginTypeOK'
    BY <1>0, <1>1, <1>2, <2>1, <2>2 DEF LoginTypeOK, Stage
  <2>4. QED
    BY <1>0, <2>1, <2>2, <2>3 DEF LoginTypeOK
<1>4. CASE Draw(c)
  <2>1. /\ stage[c] = "draw" /\ known[c] \in Tokens
        /\ UNCHANGED <<vars, serving, known, missed, kills>>
    BY <1>0, <1>4 DEF Draw, Knowing
  <2>2. PICK call \in {"refresh", "cancel"} : Post(c, call)
    BY <1>4 DEF Draw
  <2>3. PICK r \in AnyRequest :
              /\ r.kind = call /\ r.platform = ClientPlatform[c] /\ r.token = known[c]
              /\ inbox' = inbox \cup {<<c, r>>} /\ stage' = [stage EXCEPT ![c] = call]
    BY <1>0, <2>1, <2>2, Posted
  <2>4. refreshes' \in [Clients -> 0 .. MaxRefreshes]
    <3>1. \/ refreshes' = refreshes
          \/ refreshes[c] < MaxRefreshes /\ refreshes' = [refreshes EXCEPT ![c] = @ + 1]
      BY <1>4 DEF Draw
    <3>2. QED
      BY <1>0, <3>1, LoginNames DEF LoginTypeOK
  <2>5. LoginTypeOK'
    BY <1>0, <1>1, <1>2, <2>1, <2>2, <2>3, <2>4 DEF LoginTypeOK, Stage
  <2>6. QED
    BY <1>0, <2>1, <2>2, <2>3, <2>5 DEF LoginTypeOK
<1>5. CASE GiveUp(c)
  <2>1. UNCHANGED <<vars, serving, refreshes, kills, known>>
    BY <1>5 DEF GiveUp, Proceed
  <2>2. CASE stage[c] = "refresh"
    <3>1. Post(c, "cancel") /\ missed' = missed /\ known[c] \in Tokens
      BY <1>0, <1>5, <2>2 DEF GiveUp, Proceed, Knowing
    <3>2. PICK r \in AnyRequest :
              /\ r.kind = "cancel" /\ r.platform = ClientPlatform[c] /\ r.token = known[c]
              /\ inbox' = inbox \cup {<<c, r>>} /\ stage' = [stage EXCEPT ![c] = "cancel"]
      BY <1>0, <3>1, Posted
    <3>3. LoginTypeOK'
      BY <1>0, <1>1, <1>2, <2>1, <3>1, <3>2 DEF LoginTypeOK, Stage
    <3>4. QED
      BY <1>0, <2>1, <2>2, <3>1, <3>2, <3>3 DEF LoginTypeOK
  <2>3. CASE stage[c] # "refresh"
    <3>1. /\ stage[c] \in {"start", "cancel"} /\ missed < MaxMissed /\ missed' = missed + 1
          /\ stage' = [stage EXCEPT ![c] = "exited"] /\ inbox' = inbox
      BY <1>5, <2>3 DEF GiveUp, Proceed
    <3>2. LoginTypeOK'
      BY <1>0, <1>1, <2>1, <3>1, LoginNames DEF LoginTypeOK, Stage
    <3>3. QED
      BY <1>0, <2>1, <3>1, <3>2 DEF LoginTypeOK
  <2>4. QED
    BY <2>2, <2>3
<1>6. CASE Kill(c)
  <2>1. /\ UNCHANGED <<vars, serving, inbox, known, refreshes, missed>>
        /\ stage[c] # "begin" /\ kills < MaxKills /\ kills' = kills + 1
        /\ stage' = [stage EXCEPT ![c] = "exited"]
    BY <1>6 DEF Kill, wireVars
  <2>2. LoginTypeOK'
    BY <1>0, <1>1, <2>1, LoginNames DEF LoginTypeOK, Stage
  <2>3. QED
    BY <1>0, <2>1, <2>2 DEF LoginTypeOK
<1>7. QED
  BY <1>3, <1>4, <1>5, <1>6

LEMMA ClientWires ==
    ASSUME WiresInv, NEW c \in Clients,
           \/ StartLogin(c) \/ Draw(c) \/ GiveUp(c) \/ Kill(c)
    PROVE  WiresInv'
<1>0. /\ LoginTypeOK /\ Travelling /\ OneBegun /\ NoToken \notin Tokens
      /\ \A w \in Workers : Served(w)
      /\ \A d \in Clients : Knowing(d)
  BY LoginNames DEF WiresInv
<1>1. /\ UNCHANGED <<at, asked, answer, serving, known>>
      /\ \A d \in Clients \ {c} : stage'[d] = stage[d]
      /\ stage'[c] # "begin" /\ LoginTypeOK'
  BY ClientSteps DEF vars, handlerVars
<1>2. OneBegun'
  BY <1>0, <1>1 DEF OneBegun, Begun
<1>3. CASE inbox' = inbox /\ stage'[c] = "exited" /\ stage[c] # "begin"
  <2>1. Travelling'
    BY <1>0, <1>1, <1>3 DEF Travelling, Begun, LoginTypeOK
  <2>2. \A w \in Workers : Served(w)'
    BY <1>0, <1>1, <1>3 DEF Served
  <2>3. \A d \in Clients : Knowing(d)'
    BY <1>0, <1>1, <1>3 DEF Knowing
  <2>4. QED
    BY <1>1, <1>2, <2>1, <2>2, <2>3 DEF WiresInv
<1>4. ASSUME NEW r \in AnyRequest,
             r.platform = ClientPlatform[c], r.token = known[c],
             inbox' = inbox \cup {<<c, r>>}, stage' = [stage EXCEPT ![c] = r.kind],
             r.kind = "start" <=> stage[c] = "begin"
      PROVE  WiresInv'
  <2>0. r.kind \in {"start", "refresh", "cancel"} /\ stage'[c] = r.kind
        /\ (r.kind = "start" <=> known[c] = NoToken) /\ known[c] \in Tokens \cup {NoToken}
    BY <1>0, <1>4 DEF AnyRequest, Request, LoginTypeOK
  <2>1. Travelling'
    <3> SUFFICES ASSUME NEW m \in inbox'
                 PROVE  /\ m[2] \in AnyRequest /\ m[2].platform = ClientPlatform[m[1]]
                        /\ m[2].kind # "start" => m[2].token = known[m[1]]
                        /\ m[2].kind = "start" => /\ stage'[m[1]] \in {"start", "exited"}
                                                  /\ known[m[1]] = NoToken
                                                  /\ \A w \in Workers : ~Begun(w, m[1])
      BY <1>1 DEF Travelling, Begun
    <3>1. CASE m = <<c, r>>
      <4>1. m[1] = c /\ m[2] = r
        BY <3>1
      <4>2. r.kind = "start" => \A w \in Workers : ~Begun(w, c)
        BY <1>0, <1>4 DEF Knowing, Begun
      <4>3. QED
        BY <1>4, <2>0, <4>1, <4>2
    <3>2. CASE m \in inbox
      <4>1. m[1] \in Clients
        BY <1>0, <3>2 DEF LoginTypeOK
      <4>2. m[2].kind = "start" => m[1] # c
        BY <1>0, <1>4, <2>0, <3>2 DEF Travelling, Knowing
      <4>3. QED
        BY <1>0, <1>1, <3>2, <4>1, <4>2 DEF Travelling
    <3>3. QED
      BY <1>4, <3>1, <3>2
  <2>2. ASSUME NEW w \in Workers PROVE Served(w)'
    <3>1. asked[w].kind = "start" /\ serving[w] = c => FALSE
      BY <1>0, <1>4, <2>0 DEF Served, Knowing
    <3>2. QED
      BY <1>0, <1>1, <3>1 DEF Served
  <2>3. ASSUME NEW d \in Clients PROVE Knowing(d)'
    <3>1. CASE d = c
      BY <1>0, <1>1, <2>0, <3>1 DEF Knowing
    <3>2. CASE d # c
      BY <1>0, <1>1, <1>4, <3>2 DEF Knowing
    <3>3. QED
      BY <3>1, <3>2
  <2>4. QED
    BY <1>1, <1>2, <2>1, <2>2, <2>3 DEF WiresInv
<1>5. QED
  BY <1>3, <1>4, ClientSteps

LEMMA DropWires ==
    ASSUME WiresInv, Drop
    PROVE  WiresInv'
<1>1. inbox' \subseteq inbox /\ UNCHANGED <<vars, serving, loginVars>>
  BY DEF Drop
<1>2. /\ UNCHANGED <<at, asked, answer, serving, stage, known, refreshes, missed, kills>>
      /\ TypeOK'
  BY <1>1 DEF vars, handlerVars, loginVars, mapVars, timeVars, driverVars, WiresInv,
              LoginTypeOK, TypeOK
<1>3. LoginTypeOK'
  BY <1>1, <1>2 DEF WiresInv, LoginTypeOK
<1>4. Travelling'
  BY <1>1, <1>2 DEF WiresInv, Travelling, Begun
<1>5. (\A w \in Workers : Served(w)') /\ (\A c \in Clients : Knowing(c)') /\ OneBegun'
  BY <1>1, <1>2 DEF WiresInv, Served, Knowing, OneBegun, Begun
<1>6. QED
  BY <1>3, <1>4, <1>5 DEF WiresInv

LEMMA RunnerWires ==
    ASSUME AttemptsInv, WiresInv, RunnerStep
    PROVE  WiresInv'
<1>0. /\ LoginTypeOK /\ Travelling /\ OneBegun
      /\ \A w \in Workers : Served(w) /\ Threaded(w)
      /\ \A d \in Clients : Knowing(d)
  BY DEF WiresInv, AttemptsInv, Threaded
<1>1. /\ UNCHANGED <<serving, inbox, stage, known, refreshes, missed, kills>>
      /\ ProcessStep \/ Tick
  BY DEF RunnerStep, loginVars, wireVars
<1>2. \A w \in Workers : asked'[w].kind = asked[w].kind
                          /\ asked'[w].platform = asked[w].platform
  BY <1>1, RunnerThreads
<1>3. LoginTypeOK'
  BY <1>0, <1>1, QrTypeSteps DEF LoginTypeOK, Next
<1>4. Travelling' /\ OneBegun'
  BY <1>0, <1>1, <1>2 DEF Travelling, OneBegun, Begun
<1>5. \A d \in Clients : Knowing(d)'
  BY <1>0, <1>1 DEF Knowing
<1>6. ASSUME NEW w \in Workers PROVE Served(w)'
  <2>1. CASE InsertAttempt(w)
    <3>1. answer'[w] = answer[w] /\ answer[w] = "none" /\ asked[w].kind = "start"
      BY <1>0, <2>1 DEF InsertAttempt, Threaded, Handling, Starting, StartSteps
    <3>2. QED
      BY <1>0, <1>1, <1>2, <3>1, RunnerThreads DEF Served
  <2>2. CASE ~InsertAttempt(w)
    <3>1. asked'[w].token = asked[w].token
      BY <1>1, <2>2, RunnerThreads
    <3>2. QED
      BY <1>0, <1>1, <1>2, <3>1, RunnerThreads DEF Served
  <2>3. QED
    BY <2>1, <2>2
<1>7. QED
  BY <1>3, <1>4, <1>5, <1>6 DEF WiresInv

\* A request is read.
LEMMA ServeFacts ==
    ASSUME AttemptsInv, WiresInv, NEW w \in Workers, Serve(w)
    PROVE  \E c \in Clients, r \in AnyRequest :
              /\ <<c, r>> \in inbox /\ inbox' = inbox \ {<<c, r>>} /\ Receive(w, r)
              /\ serving' = [serving EXCEPT ![w] = c]
              /\ UNCHANGED <<loginVars, attempts, answer>>
<1>0. LoginTypeOK /\ Travelling /\ TypeOK
  BY DEF WiresInv, AttemptsInv
<1>1. PICK m \in inbox : /\ Receive(w, m[2]) /\ inbox' = inbox \ {m}
                         /\ serving' = [serving EXCEPT ![w] = m[1]]
                         /\ UNCHANGED loginVars
  BY DEF Serve
<1>2. m = <<m[1], m[2]>> /\ m[1] \in Clients /\ m[2] \in AnyRequest
  BY <1>0 DEF LoginTypeOK, Travelling
<1>3. UNCHANGED <<attempts, answer>>
  BY <1>0, <1>1, <1>2, ReceiveFacts DEF mapVars
<1>4. QED
  BY <1>1, <1>2, <1>3

\* A process posts its start only once.
LEMMA OneAsking ==
    ASSUME WiresInv, NEW m \in inbox, NEW n \in inbox,
           m[1] = n[1], m[2].kind = "start", n[2].kind = "start"
    PROVE  m = n
<1>1. /\ m = <<m[1], m[2]>> /\ n = <<n[1], n[2]>> /\ m[2] \in Request /\ n[2] \in Request
  BY DEF WiresInv, LoginTypeOK
<1>2. m[2].platform = n[2].platform /\ m[2].token = NoToken /\ n[2].token = NoToken
  BY DEF WiresInv, Travelling, AnyRequest
<1>3. m[2] = n[2]
  BY <1>1, <1>2 DEF Request
<1>4. QED
  BY <1>1, <1>3

LEMMA ServeWires ==
    ASSUME AttemptsInv, WiresInv, NEW w \in Workers, Serve(w)
    PROVE  WiresInv'
<1>0. /\ LoginTypeOK /\ TypeOK /\ Travelling /\ OneBegun /\ w \in Processes
      /\ \A v \in Workers : Served(v) /\ Threaded(v) /\ v \in Processes
      /\ \A d \in Clients : Knowing(d)
  BY Names DEF WiresInv, AttemptsInv, Threaded
<1>1. PICK c \in Clients, r \in AnyRequest :
          /\ <<c, r>> \in inbox /\ inbox' = inbox \ {<<c, r>>} /\ Receive(w, r)
          /\ serving' = [serving EXCEPT ![w] = c]
          /\ UNCHANGED <<loginVars, attempts, answer>>
  BY ServeFacts
<1>2. UNCHANGED <<stage, known, refreshes, missed, kills, answer>>
  BY <1>1 DEF loginVars
<1>3. /\ at[w] = "idle" /\ r \in Request /\ asked'[w] = r /\ serving'[w] = c
      /\ answer[w] = "none"
      /\ \A v \in Workers \ {w} : at'[v] = at[v] /\ asked'[v] = asked[v]
                                  /\ serving'[v] = serving[v]
    BY <1>0, <1>1, ReceiveFacts DEF TypeOK, LoginTypeOK, Threaded, Handling
<1>4. LoginTypeOK'
  <2>1. TypeOK'
    BY <1>1, QrTypeSteps DEF Next
  <2>2. QED
    BY <1>0, <1>1, <1>2, <2>1 DEF LoginTypeOK
<1>5. /\ r.platform = ClientPlatform[c] /\ r.kind \in {"start", "refresh", "cancel"}
      /\ r.kind = "start" <=> r.token = NoToken
      /\ r.kind # "start" => r.token = known[c] /\ r.token \in Tokens
      /\ r.kind = "start" => /\ stage[c] \in {"start", "exited"} /\ known[c] = NoToken
                             /\ \A v \in Workers : ~Begun(v, c)
  BY <1>0, <1>1 DEF Travelling, AnyRequest, Request
<1>6. Travelling'
  <2> SUFFICES ASSUME NEW m \in inbox'
               PROVE  /\ m[2] \in AnyRequest /\ m[2].platform = ClientPlatform[m[1]]
                      /\ m[2].kind # "start" => m[2].token = known[m[1]]
                      /\ m[2].kind = "start" => /\ stage[m[1]] \in {"start", "exited"}
                                                /\ known[m[1]] = NoToken
                                                /\ \A v \in Workers : ~Begun(v, m[1])'
    BY <1>2 DEF Travelling, Begun
  <2>1. m \in inbox /\ m # <<c, r>>
    BY <1>1
  <2>2. m[2].kind = "start" => \A v \in Workers : ~Begun(v, m[1])
    BY <1>0, <2>1 DEF Travelling
  <2>3. m[2].kind = "start" => ~(r.kind = "start" /\ c = m[1])
    BY <1>1, <2>1, OneAsking
  <2>4. m[2].kind = "start" => \A v \in Workers : ~Begun(v, m[1])'
    BY <1>3, <2>2, <2>3 DEF Begun
  <2>5. QED
    BY <1>0, <2>1, <2>4 DEF Travelling
<1>7. ASSUME NEW v \in Workers PROVE Served(v)'
  <2>1. CASE v = w
    BY <1>2, <1>3, <1>5, <2>1 DEF Served
  <2>2. CASE v # w
    BY <1>0, <1>2, <1>3, <2>2 DEF Served
  <2>3. QED
    BY <2>1, <2>2
<1>8. ASSUME NEW d \in Clients PROVE Knowing(d)'
  <2>1. stage[d] = "begin" => d # c
    BY <1>0, <1>1 DEF Knowing
  <2>2. \A m \in inbox' : m \in inbox
    BY <1>1
  <2>3. QED
    BY <1>0, <1>2, <1>3, <2>1, <2>2 DEF Knowing
<1>9. OneBegun'
  BY <1>0, <1>3, <1>5 DEF OneBegun, Begun
<1>10. QED
  BY <1>4, <1>6, <1>7, <1>8, <1>9 DEF WiresInv

\* The answer of a request is delivered: to nobody, or the process learns its token,
\* cancels, or ends.
Delivered(w, c) ==
    /\ c = serving[w] /\ at[w] = "reply" /\ Reply(w) /\ asked[w].kind # "none"
    /\ serving' = [serving EXCEPT ![w] = NoClient]
    /\ UNCHANGED <<refreshes, missed, kills, attempts, session>>
    /\ \A d \in Clients \ {c} : stage'[d] = stage[d] /\ known'[d] = known[d]
    /\ \/ /\ stage[c] # asked[w].kind /\ UNCHANGED <<stage, known, inbox>>
       \/ /\ stage[c] = asked[w].kind /\ answer[w] = "qr"
          /\ stage'[c] = "draw" /\ known'[c] = asked[w].token
          /\ asked[w].token \in Tokens
          /\ asked[w].kind = "refresh" => known' = known
          /\ inbox' = inbox
       \/ /\ stage[c] = asked[w].kind /\ answer[w] # "qr" /\ stage[c] = "refresh"
          /\ known' = known /\ stage'[c] = "cancel"
          /\ \E r \in AnyRequest :
                /\ r.kind = "cancel" /\ r.platform = ClientPlatform[c]
                /\ r.token = known[c] /\ inbox' = inbox \cup {<<c, r>>}
       \/ /\ stage[c] = asked[w].kind /\ answer[w] # "qr"
          /\ stage[c] \in {"start", "cancel"}
          /\ known' = known /\ stage'[c] = "exited" /\ inbox' = inbox

LEMMA DeliverFacts ==
    ASSUME AttemptsInv, WiresInv, NEW w \in Workers, Deliver(w)
    PROVE  \E c \in Clients : Delivered(w, c)
<1>0. LoginTypeOK /\ Served(w) /\ TypeOK /\ NoToken \notin Tokens
      /\ \A d \in Clients : Knowing(d)
  BY LoginNames DEF WiresInv, AttemptsInv
<1>1. /\ Reply(w) /\ serving' = [serving EXCEPT ![w] = NoClient]
      /\ IF stage[serving[w]] = asked[w].kind
         THEN Proceed(serving[w], answer[w], asked[w].token)
         ELSE UNCHANGED <<stage, known, inbox>>
      /\ UNCHANGED <<refreshes, missed, kills>>
  BY DEF Deliver
<1>2. at[w] = "reply" /\ UNCHANGED <<attempts, session>>
  BY <1>1 DEF Reply, mapVars, driverVars
<1>3. asked[w].kind # "none" /\ serving[w] \in Clients
  BY <1>0, <1>2 DEF Served
<1>4. PICK c \in Clients : c = serving[w]
  BY <1>3
<1>5. asked[w].kind \in {"start", "refresh", "cancel"}
  BY <1>0, <1>3 DEF TypeOK, Request, NoRequest
<1>6. CASE stage[c] # asked[w].kind
  BY <1>1, <1>2, <1>3, <1>4, <1>6 DEF Delivered
<1>7. CASE stage[c] = asked[w].kind /\ answer[w] = "qr"
  <2>1. stage' = [stage EXCEPT ![c] = "draw"] /\ known' = [known EXCEPT ![c] = asked[w].token]
        /\ inbox' = inbox
    BY <1>1, <1>4, <1>7 DEF Proceed
  <2>2. asked[w].token \in Tokens /\ (asked[w].kind = "refresh" => asked[w].token = known[c])
    BY <1>0, <1>4, <1>7, <1>3 DEF Served
  <2>3. asked[w].kind = "refresh" => known' = known
    BY <1>0, <2>1, <2>2 DEF LoginTypeOK
  <2>4. QED
    BY <1>0, <1>1, <1>2, <1>3, <1>4, <1>7, <2>1, <2>2, <2>3 DEF LoginTypeOK, Delivered
<1>8. CASE stage[c] = asked[w].kind /\ answer[w] # "qr" /\ stage[c] = "refresh"
  <2>1. Post(c, "cancel") /\ known' = known /\ known[c] \in Tokens
    BY <1>0, <1>1, <1>4, <1>8 DEF Proceed, Knowing
  <2>2. PICK r \in AnyRequest :
              /\ r.kind = "cancel" /\ r.platform = ClientPlatform[c] /\ r.token = known[c]
              /\ inbox' = inbox \cup {<<c, r>>} /\ stage' = [stage EXCEPT ![c] = "cancel"]
    BY <1>0, <2>1, Posted
  <2>3. QED
    BY <1>0, <1>1, <1>2, <1>3, <1>4, <1>8, <2>1, <2>2 DEF LoginTypeOK, Delivered
<1>9. CASE stage[c] = asked[w].kind /\ answer[w] # "qr" /\ stage[c] # "refresh"
  <2>1. stage' = [stage EXCEPT ![c] = "exited"] /\ known' = known /\ inbox' = inbox
    BY <1>1, <1>4, <1>9 DEF Proceed
  <2>2. stage[c] \in {"start", "cancel"}
    BY <1>5, <1>9
  <2>3. QED
    BY <1>0, <1>1, <1>2, <1>3, <1>4, <1>9, <2>1, <2>2 DEF LoginTypeOK, Delivered
<1>10. QED
  BY <1>6, <1>7, <1>8, <1>9

LEMMA DeliverWires ==
    ASSUME AttemptsInv, WiresInv, NEW w \in Workers, Deliver(w)
    PROVE  WiresInv'
<1>0. /\ LoginTypeOK /\ TypeOK /\ Travelling /\ OneBegun /\ w \in Processes
      /\ NoToken \notin Tokens /\ NoClient \notin Clients
      /\ \A v \in Workers : Served(v) /\ v \in Processes
      /\ \A d \in Clients : Knowing(d)
  BY Names, LoginNames DEF WiresInv, AttemptsInv
<1>1. PICK c \in Clients : Delivered(w, c)
  BY DeliverFacts
<1> USE DEF Delivered
<1>2. /\ asked'[w].kind = "none" /\ serving'[w] = NoClient /\ at'[w] = "idle"
      /\ answer'[w] = "none"
      /\ \A v \in Workers \ {w} : /\ at'[v] = at[v] /\ asked'[v] = asked[v]
                                  /\ answer'[v] = answer[v] /\ serving'[v] = serving[v]
  BY <1>0, <1>1 DEF Reply, Goto, Answers, TypeOK, LoginTypeOK, NoRequest
<1>3. LoginTypeOK'
  <2>1. TypeOK'
    BY <1>1, QrTypeSteps DEF Next
  <2>2. stage' \in [Clients -> Stage] /\ known' \in [Clients -> Tokens \cup {NoToken}]
    BY <1>0 DEF Deliver, Proceed, Post, LoginTypeOK, Stage, TypeOK, Request, NoRequest
  <2>3. inbox' \subseteq Clients \X Request
    BY <1>0, <1>1 DEF LoginTypeOK, AnyRequest
  <2>4. serving' \in [Workers -> Clients \cup {NoClient}]
    BY <1>0, <1>1 DEF LoginTypeOK
  <2>5. QED
    BY <1>0, <1>1, <2>1, <2>2, <2>3, <2>4 DEF LoginTypeOK
\* A start that is answered is the only one of its process, which has posted nothing else.
<1>4. asked[w].kind = "start" =>
         /\ known[c] = NoToken
         /\ \A m \in inbox : m[1] # c
         /\ \A v \in Workers \ {w} : serving[v] = c => asked[v].kind = "none"
  <2>1. SUFFICES ASSUME asked[w].kind = "start"
                 PROVE  /\ known[c] = NoToken
                        /\ \A m \in inbox : m[1] # c
                        /\ \A v \in Workers \ {w} : serving[v] = c => asked[v].kind = "none"
    OBVIOUS
  <2>2. known[c] = NoToken /\ Begun(w, c)
    BY <1>0, <1>1, <2>1 DEF Served, Begun
  <2>3. ASSUME NEW m \in inbox, m[1] = c PROVE FALSE
    BY <1>0, <2>2, <2>3 DEF Travelling, AnyRequest
  <2>4. ASSUME NEW v \in Workers \ {w}, serving[v] = c, asked[v].kind # "none" PROVE FALSE
    BY <1>0, <2>2, <2>4 DEF Served, OneBegun, Begun
  <2>5. QED
    BY <2>2, <2>3, <2>4
<1>5. Travelling'
  <2> SUFFICES ASSUME NEW m \in inbox'
               PROVE  /\ m[2] \in AnyRequest /\ m[2].platform = ClientPlatform[m[1]]
                      /\ m[2].kind # "start" => m[2].token = known'[m[1]]
                      /\ m[2].kind = "start" => /\ stage'[m[1]] \in {"start", "exited"}
                                                /\ known'[m[1]] = NoToken
                                                /\ \A v \in Workers : ~Begun(v, m[1])'
    BY DEF Travelling, Begun
  <2>1. CASE m \notin inbox
    <3>1. PICK r \in AnyRequest : /\ r.kind = "cancel" /\ r.platform = ClientPlatform[c]
                                  /\ r.token = known'[c] /\ m = <<c, r>>
      BY <1>1, <2>1
    <3>2. QED
      BY <3>1
  <2>2. CASE m \in inbox
    <3>1. m[1] \in Clients /\ m[2] \in AnyRequest
      BY <1>0, <2>2 DEF LoginTypeOK, Travelling
    <3>2. CASE m[1] # c
      BY <1>0, <1>1, <1>2, <2>2, <3>1, <3>2 DEF Travelling, Begun
    <3>3. CASE m[1] = c
      <4>1. asked[w].kind # "start"
        BY <1>4, <2>2, <3>3
      <4>2. asked[w].kind \in {"refresh", "cancel"} /\ known[c] \in Tokens
        BY <1>0, <1>1, <4>1 DEF Served, TypeOK, Request, NoRequest
      <4>3. known'[c] = known[c]
        <5>1. answer[w] = "qr" => asked[w].kind = "refresh"
          BY <1>0, <1>1, <4>2 DEF Served
        <5>2. QED
          BY <1>1, <5>1
      <4>4. m[2].kind # "start"
        BY <1>0, <2>2, <3>3, <4>2 DEF Travelling
      <4>5. QED
        BY <1>0, <2>2, <3>3, <4>3, <4>4 DEF Travelling
    <3>4. QED
      BY <3>2, <3>3
  <2>3. QED
    BY <2>1, <2>2
<1>6. ASSUME NEW v \in Workers PROVE Served(v)'
  <2>1. CASE v = w
    BY <1>2, <2>1 DEF Served
  <2>2. CASE v # w /\ serving[v] # c
    BY <1>0, <1>1, <1>2, <2>2 DEF Served
  <2>3. CASE v # w /\ serving[v] = c /\ asked[v].kind # "none"
    <3>1. asked[w].kind \in {"refresh", "cancel"} /\ known[c] \in Tokens
      BY <1>0, <1>1, <1>4, <2>3 DEF Served, TypeOK, Request, NoRequest
    <3>2. known'[c] = known[c]
      <4>1. answer[w] = "qr" => asked[w].kind = "refresh"
        BY <1>0, <1>1, <3>1 DEF Served
      <4>2. QED
        BY <1>1, <4>1
    <3>3. asked[v].kind # "start"
      BY <1>0, <2>3, <3>1 DEF Served
    <3>4. QED
      BY <1>0, <1>2, <2>3, <3>2, <3>3 DEF Served
  <2>4. CASE v # w /\ asked[v].kind = "none"
    BY <1>0, <1>2, <2>4 DEF Served
  <2>5. QED
    BY <2>1, <2>2, <2>3, <2>4
<1>7. ASSUME NEW d \in Clients PROVE Knowing(d)'
  <2>1. CASE d # c
    <3>1. \A m \in inbox' : m[1] = d => m \in inbox
      BY <1>1, <2>1
    <3>2. QED
      BY <1>0, <1>1, <1>2, <2>1, <3>1 DEF Knowing
  <2>2. CASE d = c
    <3>1. stage[c] # "begin"
      BY <1>0, <1>1 DEF Knowing
    <3>2. CASE stage' = stage /\ known' = known
      BY <1>0, <2>2, <3>1, <3>2 DEF Knowing
    <3>3. CASE /\ stage'[c] \in {"draw", "cancel", "exited"}
               /\ stage'[c] # "exited" => known'[c] \in Tokens
      BY <2>2, <3>3 DEF Knowing
    <3>4. stage[c] = "refresh" => known[c] \in Tokens
      BY <1>0 DEF Knowing
    <3>5. QED
      BY <1>1, <3>2, <3>3, <3>4
  <2>3. QED
    BY <2>1, <2>2
<1>8. OneBegun'
  BY <1>0, <1>2 DEF OneBegun, Begun
<1>9. QED
  BY <1>3, <1>5, <1>6, <1>7, <1>8 DEF WiresInv

LEMMA WiresSteps ==
    ASSUME AttemptsInv, WiresInv, [LoginNext]_allVars
    PROVE  WiresInv'
<1>1. CASE UNCHANGED allVars
  BY <1>1 DEF allVars, vars, mapVars, timeVars, driverVars, handlerVars, loginVars, wireVars,
     WiresInv, LoginTypeOK, TypeOK, Travelling, Begun, Served, Knowing, OneBegun
<1>2. QED
  BY <1>1, ClientWires, DropWires, ServeWires, DeliverWires, RunnerWires
     DEF LoginNext, RunnerStep

-----------------------------------------------------------------------------
(* Which process answers for which attempt. *)

LEMMA Charges ==
    ASSUME NEW S, NEW T, NEW n \in Nat, NEW c, IsFiniteSet(S), Cardinality(S) <= n
    PROVE  /\ T \subseteq S => IsFiniteSet(T) /\ Cardinality(T) <= n
           /\ T \subseteq S \cup {c} => IsFiniteSet(T) /\ Cardinality(T) <= n + 1
<1>1. Cardinality(S) \in Nat
  BY FS_CardinalityType
<1>2. ASSUME T \subseteq S PROVE IsFiniteSet(T) /\ Cardinality(T) <= n
  <2>1. IsFiniteSet(T) /\ Cardinality(T) <= Cardinality(S)
    BY <1>2, FS_Subset
  <2>2. Cardinality(T) \in Nat
    BY <2>1, FS_CardinalityType
  <2>3. QED
    BY <1>1, <2>1, <2>2
<1>3. ASSUME T \subseteq S \cup {c} PROVE IsFiniteSet(T) /\ Cardinality(T) <= n + 1
  <2>1. /\ IsFiniteSet(S \cup {c}) /\ Cardinality(S \cup {c}) \in Nat
        /\ Cardinality(S \cup {c}) <= Cardinality(S) + 1
    <3>1. IsFiniteSet(S \cup {c})
      BY FS_AddElement
    <3>2. \/ Cardinality(S \cup {c}) = Cardinality(S)
          \/ Cardinality(S \cup {c}) = Cardinality(S) + 1
      BY FS_AddElement
    <3>3. QED
      BY <1>1, <3>1, <3>2, FS_CardinalityType
  <2>2. IsFiniteSet(T) /\ Cardinality(T) <= Cardinality(S \cup {c})
    BY <1>3, <2>1, FS_Subset
  <2>3. Cardinality(T) \in Nat
    BY <2>2, FS_CardinalityType
  <2>4. QED
    BY <1>1, <2>1, <2>2, <2>3
<1>4. QED
  BY <1>2, <1>3

\* The processes charged, where none is but perhaps one given up or killed in the step.
LEMMA ChargeSteps ==
    ASSUME WiresInv, NEW own, NEW own1, ChargesInv(own), NEW c,
           \/ /\ \A d \in Clients : d \in Charged(own1)' => d \in Charged(own)
              /\ missed' + kills' = missed + kills
           \/ /\ \A d \in Clients : d \in Charged(own1)' => d \in Charged(own) \/ d = c
              /\ missed' + kills' = missed + kills + 1
    PROVE  ChargesInv(own1)'
<1>1. PICK n \in Nat : n = missed + kills
  BY DEF WiresInv, LoginTypeOK
<1>2. PICK S : S = Charged(own)
  OBVIOUS
<1>3. PICK T : T = Charged(own1)'
  OBVIOUS
<1>4. IsFiniteSet(S) /\ Cardinality(S) <= n
  BY <1>1, <1>2 DEF ChargesInv
<1>5. \/ T \subseteq S /\ missed' + kills' = n
      \/ T \subseteq S \cup {c} /\ missed' + kills' = n + 1
  BY <1>1, <1>2, <1>3 DEF Charged
<1>6. IsFiniteSet(T) /\ Cardinality(T) <= missed' + kills'
  BY <1>4, <1>5, Charges
<1>7. QED
  BY <1>3, <1>6 DEF ChargesInv

LEMMA LiveAttempts ==
    ASSUME AttemptsInv
    PROVE  Live \subseteq Attempts
BY DEF AttemptsInv, TypeOK, Live

LEMMA ClientOwned ==
    ASSUME AttemptsInv, WiresInv, NEW own \in Owners, Owned(own), NEW c \in Clients,
           \/ StartLogin(c) \/ Draw(c) \/ GiveUp(c) \/ Kill(c)
    PROVE  Owned(own)'
<1>0. /\ OneEach(own) /\ ChargesInv(own) /\ Knowing(c) /\ LoginTypeOK /\ Travelling
      /\ NoToken \notin Tokens
      /\ \A w \in Workers : StartsOwn(own, w) /\ CancelsOwn(own, w) /\ Served(w)
      /\ \A a \in Live : LivesFor(own, a)
      /\ \A d \in Clients : Unowned(own, d)
  BY LoginNames DEF Owned, WiresInv
<1>1. /\ UNCHANGED <<at, asked, answer, subject, attempts, serving, known>>
      /\ \A d \in Clients \ {c} : stage'[d] = stage[d]
      /\ stage'[c] # "begin"
      /\ \/ /\ inbox' = inbox /\ stage'[c] = "exited" /\ stage[c] # "begin"
            /\ missed' + kills' = missed + kills + 1
         \/ /\ missed' + kills' = missed + kills
            /\ \E r \in AnyRequest :
                  /\ r.platform = ClientPlatform[c] /\ r.token = known[c]
                  /\ inbox' = inbox \cup {<<c, r>>}
                  /\ stage' = [stage EXCEPT ![c] = r.kind]
                  /\ r.kind = "start" <=> stage[c] = "begin"
  BY ClientSteps DEF vars, handlerVars, mapVars
<1>2. Live' = Live /\ \A w \in Workers : Opening(w)' <=> Opening(w)
  BY <1>1 DEF Live, Opening, Starting, Sweeping
<1>3. \A w \in Workers : StartsOwn(own, w)' /\ CancelsOwn(own, w)'
  BY <1>0, <1>1, <1>2 DEF StartsOwn, CancelsOwn
<1>4. stage'[c] = "start" => stage[c] = "begin"
  BY <1>0, <1>1 DEF LoginTypeOK
<1>5. \A d \in Clients : Asking(d)' => Asking(d) \/ (d = c /\ stage[c] = "begin")
  BY <1>1 DEF Asking
<1>6. ASSUME NEW a \in Live' PROVE LivesFor(own, a)'
  <2>1. LivesFor(own, a) /\ own[a] \in Clients /\ a \in Attempts
    BY <1>0, <1>2, <1>6, LiveAttempts DEF LivesFor
  <2>2. stage'[own[a]] = "start" => stage[own[a]] = "start"
    BY <1>0, <1>1, <1>4, <2>1 DEF Unowned
  <2>3. QED
    BY <1>1, <2>1, <2>2 DEF LivesFor
<1>7. \A d \in Clients : Unowned(own, d)'
  BY <1>0, <1>1, <1>5 DEF Unowned
<1>8. ChargesInv(own)'
  <2>1. ASSUME NEW d \in Clients, d \in Charged(own)', d # c PROVE d \in Charged(own)
    BY <1>1, <1>2, <1>5, <2>1 DEF Charged
  <2>2. CASE inbox' = inbox /\ missed' + kills' = missed + kills + 1
    BY <1>0, <2>1, <2>2, ChargeSteps
  <2>3. CASE missed' + kills' = missed + kills /\ stage'[c] # "exited"
    <3>1. c \notin Charged(own)'
      BY <2>3 DEF Charged
    <3>2. QED
      BY <1>0, <2>1, <2>3, <3>1, ChargeSteps
  <2>4. ASSUME NEW r \in AnyRequest, stage' = [stage EXCEPT ![c] = r.kind]
        PROVE  stage'[c] # "exited"
    BY <1>0, <2>4 DEF LoginTypeOK, AnyRequest, Request
  <2>5. QED
    BY <1>1, <2>2, <2>3, <2>4
<1>9. QED
  BY <1>0, <1>3, <1>6, <1>7, <1>8 DEF Owned, OneEach

LEMMA DropOwned ==
    ASSUME AttemptsInv, WiresInv, NEW own \in Owners, Owned(own), Drop
    PROVE  Owned(own)'
<1>1. /\ inbox' \subseteq inbox
      /\ UNCHANGED <<at, asked, answer, subject, attempts, serving, stage, known, missed, kills>>
  BY DEF Drop, vars, handlerVars, mapVars, loginVars
<1>2. Live' = Live /\ \A w \in Workers : Opening(w)' <=> Opening(w)
  BY <1>1 DEF Live, Opening, Starting, Sweeping
<1>3. \A d \in Clients : Asking(d)' => Asking(d)
  BY <1>1 DEF Asking
<1>4. \A w \in Workers : StartsOwn(own, w)' /\ CancelsOwn(own, w)'
  BY <1>1, <1>2 DEF Owned, StartsOwn, CancelsOwn
<1>5. \A a \in Live' : LivesFor(own, a)'
  BY <1>1, <1>2 DEF Owned, LivesFor
<1>6. \A d \in Clients : Unowned(own, d)'
  BY <1>1, <1>3 DEF Owned, Unowned
<1>7. \A d \in Clients : d \in Charged(own)' => d \in Charged(own)
  BY <1>1, <1>2, <1>3 DEF Charged
<1>8. ChargesInv(own)'
  BY <1>1, <1>7, ChargeSteps DEF Owned
<1>9. QED
  BY <1>4, <1>5, <1>6, <1>8 DEF Owned, OneEach

\* A start that is read becomes an attempt of its process.
LEMMA ServeOwned ==
    ASSUME AttemptsInv, WiresInv, NEW own \in Owners, Owned(own), NEW w \in Workers, Serve(w)
    PROVE  \E own1 \in Owners : Owned(own1)'
<1>0. /\ OneEach(own) /\ ChargesInv(own) /\ LoginTypeOK /\ TypeOK /\ Travelling
      /\ SessionsAreHeld /\ NoClient \notin Clients /\ NoAttempt \notin Attempts
      /\ \A v \in Workers : /\ StartsOwn(own, v) /\ CancelsOwn(own, v) /\ Served(v)
                            /\ Threaded(v) /\ v \in Processes
      /\ \A a \in Live : LivesFor(own, a)
      /\ \A d \in Clients : Unowned(own, d) /\ Knowing(d)
  BY Names, LoginNames DEF Owned, WiresInv, AttemptsInv, Threaded
<1>1. PICK c \in Clients, r \in AnyRequest :
          /\ <<c, r>> \in inbox /\ inbox' = inbox \ {<<c, r>>} /\ Receive(w, r)
          /\ serving' = [serving EXCEPT ![w] = c]
          /\ UNCHANGED <<loginVars, attempts, answer>>
  BY ServeFacts
<1>2. UNCHANGED <<stage, known, missed, kills, answer, attempts>> /\ Live' = Live
  BY <1>1 DEF loginVars, Live
<1>3. /\ at[w] = "idle" /\ asked'[w] = r /\ serving'[w] = c
      /\ r.platform = ClientPlatform[c]
      /\ \A v \in Workers \ {w} : /\ at'[v] = at[v] /\ asked'[v] = asked[v]
                                  /\ subject'[v] = subject[v] /\ serving'[v] = serving[v]
  BY <1>0, <1>1, ReceiveFacts DEF TypeOK, LoginTypeOK, Travelling
<1>4. \A v \in Workers \ {w} : Opening(v)' <=> Opening(v)
  BY <1>2, <1>3 DEF Opening, Starting, Sweeping
\* The thread was idle: no attempt in the map is its subject.
<1>5. ASSUME NEW v \in Workers, asked[v].kind = "start", subject[v] \in Live PROVE v # w
  BY <1>0, <1>3, <1>5 DEF StartsOwn
<1>6. \A d \in Clients : Asking(d)' => Asking(d)
  BY <1>1 DEF Asking
<1>7. CASE r.kind = "start"
  <2>1. /\ at'[w] = "sweep" /\ Asking(c) /\ stage[c] \in {"start", "exited"}
        /\ \A v \in Workers : ~Begun(v, c)
    BY <1>0, <1>1, <1>7, ReceiveFacts DEF TypeOK, Asking, Travelling
  <2>2. PICK a \in Fresh : PlatformOf[a] = r.platform /\ subject' = [subject EXCEPT ![w] = a]
    BY <1>1, <1>7 DEF Receive
  <2>3. a \in Attempts /\ a \notin Live /\ \A v \in Workers : subject[v] # a
    BY <1>0, <2>2 DEF Fresh, Live, SessionsAreHeld
  <2>4. \A b \in Attempts : own[b] # c
    BY <1>0, <2>1 DEF Unowned
  <2> DEFINE own1 == [own EXCEPT ![a] = c]
  <2>5. own1 \in Owners /\ own1[a] = c /\ \A b \in Attempts \ {a} : own1[b] = own[b]
    BY <2>3 DEF Owners
  <2> HIDE DEF own1
  <2>6. OneEach(own1)
    BY <1>0, <2>3, <2>4, <2>5 DEF OneEach
  <2>7. ASSUME NEW v \in Workers PROVE StartsOwn(own1, v)' /\ CancelsOwn(own1, v)'
    <3>1. CASE v = w
      <4>1. subject'[w] = a
        BY <1>0, <2>2 DEF TypeOK
      <4>2. QED
        BY <1>2, <1>3, <1>7, <2>2, <2>3, <2>5, <3>1, <4>1 DEF StartsOwn, CancelsOwn
    <3>2. CASE v # w
      <4>1. StartsOwn(own1, v)'
        BY <1>0, <1>2, <1>3, <2>3, <2>5, <3>2 DEF StartsOwn
      <4>2. \A b \in Live : own1[b] = own[b]
        BY <2>3, <2>5, LiveAttempts
      <4>3. CancelsOwn(own1, v)'
        BY <1>0, <1>2, <1>3, <3>2, <4>2 DEF CancelsOwn
      <4>4. QED
        BY <4>1, <4>3
    <3>3. QED
      BY <3>1, <3>2
  <2>8. ASSUME NEW b \in Live' PROVE LivesFor(own1, b)'
    <3>1. b \in Live /\ own1[b] = own[b] /\ LivesFor(own, b)
      BY <1>0, <1>2, <2>3, <2>5, <2>8, LiveAttempts
    <3>2. ASSUME stage[own[b]] = "start"
          PROVE  \E v \in Workers : asked'[v].kind = "start" /\ subject'[v] = b
      BY <1>3, <1>5, <3>1, <3>2 DEF LivesFor
    <3>3. QED
      BY <1>2, <3>1, <3>2 DEF LivesFor
  <2>9. ASSUME NEW d \in Clients PROVE Unowned(own1, d)'
    <3>1. CASE d = c
      <4>1. ~Asking(c)'
        <5>1. ASSUME NEW m \in inbox', m[1] = c, m[2].kind = "start" PROVE FALSE
          BY <1>1, <1>7, <5>1, OneAsking
        <5>2. QED
          BY <5>1 DEF Asking
      <4>2. QED
        BY <1>2, <2>1, <3>1, <4>1 DEF Unowned
    <3>2. CASE d # c
      BY <1>0, <1>2, <1>6, <2>5, <3>2 DEF Unowned
    <3>3. QED
      BY <3>1, <3>2
  <2>10. ASSUME NEW d \in Clients, d \in Charged(own1)' PROVE d \in Charged(own)
    <3>1. CASE d = c
      BY <1>2, <2>1, <2>10, <3>1 DEF Charged
    <3>2. CASE d # c
      <4>1. \A b \in Live : own1[b] = own[b]
        BY <2>3, <2>5, LiveAttempts
      <4>2. QED
        BY <1>2, <1>3, <1>4, <1>6, <2>10, <3>2, <4>1 DEF Charged
    <3>3. QED
      BY <3>1, <3>2
  <2>11. ChargesInv(own1)'
    BY <1>0, <1>2, <2>10, ChargeSteps
  <2>12. Owned(own1)'
    BY <2>6, <2>7, <2>8, <2>9, <2>11 DEF Owned, OneEach
  <2>13. QED
    BY <2>5, <2>12
<1>8. CASE r.kind # "start"
  <2>1. at'[w] \in {"lookup", "find"}
    BY <1>0, <1>1, <1>8, ReceiveFacts DEF TypeOK
  <2>2. ~Opening(w)'
    BY <2>1 DEF Opening, Starting, Sweeping, StartSteps, Sessionless
  <2>3. ASSUME NEW v \in Workers PROVE StartsOwn(own, v)' /\ CancelsOwn(own, v)'
    <3>1. CASE v = w
      BY <1>3, <1>8, <2>1, <3>1 DEF StartsOwn, CancelsOwn
    <3>2. CASE v # w
      BY <1>0, <1>2, <1>3, <3>2 DEF StartsOwn, CancelsOwn
    <3>3. QED
      BY <3>1, <3>2
  <2>4. ASSUME NEW b \in Live' PROVE LivesFor(own, b)'
    <3>1. b \in Live /\ LivesFor(own, b)
      BY <1>0, <1>2, <2>4
    <3>2. ASSUME stage[own[b]] = "start"
          PROVE  \E v \in Workers : asked'[v].kind = "start" /\ subject'[v] = b
      BY <1>3, <1>5, <3>1, <3>2 DEF LivesFor
    <3>3. QED
      BY <1>2, <3>1, <3>2 DEF LivesFor
  <2>5. \A d \in Clients : Unowned(own, d)'
    BY <1>0, <1>2, <1>6 DEF Unowned
  <2>6. \A d \in Clients : d \in Charged(own)' => d \in Charged(own)
    BY <1>2, <1>3, <1>4, <1>6, <2>2 DEF Charged
  <2>7. ChargesInv(own)'
    BY <1>0, <1>2, <2>6, ChargeSteps
  <2>8. QED
    BY <1>0, <2>3, <2>4, <2>5, <2>7 DEF Owned, OneEach
<1>9. QED
  BY <1>7, <1>8

\* An answer that ends its process leaves no attempt of it in the map.
LEMMA DeliverOwned ==
    ASSUME AttemptsInv, WiresInv, NEW own \in Owners, Owned(own), NEW w \in Workers, Deliver(w)
    PROVE  Owned(own)'
<1>0. /\ OneEach(own) /\ ChargesInv(own) /\ LoginTypeOK /\ TypeOK /\ Travelling /\ OneBegun
      /\ NoClient \notin Clients /\ NoAttempt \notin Attempts /\ NoToken \notin Tokens
      /\ \A v \in Workers : /\ StartsOwn(own, v) /\ CancelsOwn(own, v) /\ Served(v)
                            /\ Threaded(v) /\ v \in Processes
      /\ \A a \in Live : LivesFor(own, a)
      /\ \A d \in Clients : Unowned(own, d) /\ Knowing(d)
  BY Names, LoginNames DEF Owned, WiresInv, AttemptsInv, Threaded
<1>1. PICK c \in Clients : Delivered(w, c)
  BY DeliverFacts
<1>2. /\ c = serving[w] /\ at[w] = "reply" /\ UNCHANGED <<missed, kills, attempts>>
      /\ Live' = Live
      /\ \A d \in Clients \ {c} : stage'[d] = stage[d] /\ known'[d] = known[d]
  BY <1>1 DEF Delivered, Live
<1>3. /\ asked'[w].kind = "none" /\ at'[w] = "idle" /\ ~Opening(w) /\ ~Opening(w)'
      /\ \A v \in Workers \ {w} : /\ at'[v] = at[v] /\ asked'[v] = asked[v]
                                  /\ subject'[v] = subject[v] /\ answer'[v] = answer[v]
                                  /\ serving'[v] = serving[v]
  BY <1>0, <1>1 DEF Delivered, Reply, Goto, Answers, TypeOK, LoginTypeOK, NoRequest, Opening,
     Starting, Sweeping, StartSteps, Sessionless
<1>4. \A v \in Workers \ {w} : Opening(v)' <=> Opening(v)
  BY <1>3 DEF Opening, Starting, Sweeping
\* What is delivered of a start concerns the one attempt of its process.
<1>5. ASSUME asked[w].kind = "start", NEW a \in Live, own[a] = c
      PROVE  a = subject[w] /\ answer[w] = "qr" /\ attempts[asked[w].token] = a
  <2>1. subject[w] \in Attempts /\ own[subject[w]] = c /\ a \in Attempts
    BY <1>0, <1>2, <1>5, LiveAttempts DEF StartsOwn
  <2>2. a = subject[w]
    BY <1>0, <1>5, <2>1 DEF OneEach
  <2>3. QED
    BY <1>0, <1>2, <1>5, <2>2 DEF StartsOwn
<1>6. asked[w].kind \in {"start", "refresh", "cancel"}
      /\ (asked[w].kind = "cancel" => answer[w] # "qr")
  BY <1>0, <1>1, <1>2 DEF Delivered, Served, TypeOK, Request, NoRequest
<1>7. ASSUME NEW v \in Workers PROVE StartsOwn(own, v)' /\ CancelsOwn(own, v)'
  <2>1. CASE v = w
    BY <1>3, <2>1 DEF StartsOwn, CancelsOwn
  <2>2. CASE v # w
    BY <1>0, <1>2, <1>3, <2>2 DEF StartsOwn, CancelsOwn
  <2>3. QED
    BY <2>1, <2>2
<1>8. ASSUME NEW a \in Live' PROVE LivesFor(own, a)'
  <2>1. a \in Live /\ LivesFor(own, a) /\ own[a] \in Clients
    BY <1>0, <1>2, <1>8 DEF LivesFor
  <2>2. known'[own[a]] # NoToken => attempts[known'[own[a]]] = a
    <3>1. CASE own[a] # c \/ known' = known
      BY <1>2, <2>1, <3>1 DEF LivesFor
    <3>2. CASE own[a] = c /\ known' # known
      <4>1. known'[c] = asked[w].token /\ asked[w].kind = "start"
        BY <1>1, <1>6, <3>2 DEF Delivered
      <4>2. QED
        BY <1>5, <2>1, <3>2, <4>1
    <3>3. QED
      BY <3>1, <3>2
  <2>3. ASSUME stage'[own[a]] = "start"
        PROVE  \E v \in Workers : asked'[v].kind = "start" /\ subject'[v] = a
    <3>1. stage[own[a]] = "start"
      BY <1>1, <1>2, <2>1, <2>3 DEF Delivered
    <3>2. PICK v \in Workers : asked[v].kind = "start" /\ subject[v] = a
      BY <2>1, <3>1 DEF LivesFor
    <3>3. CASE v = w
      <4>1. own[a] = c /\ stage[c] = asked[w].kind
        BY <1>0, <1>2, <3>1, <3>2, <3>3 DEF StartsOwn
      <4>2. QED
        BY <1>1, <2>3, <4>1 DEF Delivered
    <3>4. CASE v # w
      BY <1>3, <3>2, <3>4
    <3>5. QED
      BY <3>3, <3>4
  <2>4. QED
    BY <1>2, <2>1, <2>2, <2>3 DEF LivesFor
<1>9. \A d \in Clients : Asking(d)' => Asking(d)
  BY <1>1 DEF Delivered, Asking
<1>10. ASSUME NEW d \in Clients PROVE Unowned(own, d)'
  <2>1. stage'[d] = "begin" => stage[d] = "begin"
    BY <1>1, <1>2 DEF Delivered
  <2>2. QED
    BY <1>0, <1>9, <2>1 DEF Unowned
<1>11. ASSUME NEW d \in Clients, d \in Charged(own)' PROVE d \in Charged(own)
  <2>1. CASE stage[d] = "exited"
    BY <1>2, <1>3, <1>4, <1>9, <1>11, <2>1 DEF Charged
  <2>2. CASE stage[d] # "exited"
    <3>1. /\ d = c /\ stage[c] = asked[w].kind /\ answer[w] # "qr"
          /\ stage[c] \in {"start", "cancel"}
      BY <1>1, <1>2, <1>11, <2>2 DEF Delivered, Charged
    <3>2. CASE asked[w].kind = "start"
      <4>1. Begun(w, c)
        BY <1>2, <3>2 DEF Begun
      <4>2. ~Asking(c)
        BY <1>0, <4>1 DEF Asking, Travelling
      <4>3. ASSUME NEW v \in Workers, serving'[v] = c, Opening(v)' PROVE FALSE
        <5>1. v # w /\ serving[v] = c /\ Opening(v)
          BY <1>3, <1>4, <4>3
        <5>2. Begun(v, c)
          BY <1>0, <5>1 DEF Opening, Threaded, Handling, Begun
        <5>3. QED
          BY <1>0, <4>1, <5>1, <5>2 DEF OneBegun
      <4>4. \A a \in Live : own[a] # c
        BY <1>5, <3>1, <3>2
      <4>5. QED
        BY <1>2, <1>9, <1>11, <3>1, <4>2, <4>3, <4>4 DEF Charged
    <3>3. CASE asked[w].kind = "cancel"
      <4>1. stage[c] = "cancel" /\ known[c] # NoToken
        BY <1>0, <3>1, <3>3 DEF Knowing
      <4>2. ~Asking(c)
        BY <1>0, <4>1 DEF Asking, Travelling
      <4>3. ASSUME NEW v \in Workers, serving'[v] = c, Opening(v)' PROVE FALSE
        <5>1. serving[v] = c /\ Opening(v)
          BY <1>3, <1>4, <4>3
        <5>2. QED
          BY <1>0, <4>1, <5>1 DEF Opening, Threaded, Handling, Served
      <4>4. \A a \in Live : own[a] # c
        BY <1>0, <1>2, <3>3 DEF CancelsOwn
      <4>5. QED
        BY <1>2, <1>9, <1>11, <3>1, <4>2, <4>3, <4>4 DEF Charged
    <3>4. QED
      BY <3>1, <3>2, <3>3
  <2>3. QED
    BY <2>1, <2>2
<1>12. ChargesInv(own)'
  BY <1>0, <1>2, <1>11, ChargeSteps
<1>13. QED
  BY <1>0, <1>7, <1>8, <1>10, <1>12 DEF Owned, OneEach

\* How the runner's own steps change the map: one attempt is inserted, or some leave.
LEMMA RunnerMap ==
    ASSUME AttemptsInv, ProcessStep \/ Tick
    PROVE  \/ \A t \in Tokens : attempts'[t] \in {attempts[t], NoAttempt}
           \/ \E w \in Workers, t \in Tokens :
                 /\ at[w] = "insert" /\ at'[w] = "schedule"
                 /\ asked[w].kind = "start" /\ asked'[w].token = t
                 /\ subject[w] \in Attempts /\ subject[w] \notin Live
                 /\ attempts[t] = NoAttempt
                 /\ attempts' = [attempts EXCEPT ![t] = subject[w]]
                 /\ Opening(w)
                 /\ \A v \in Workers \ {w} : asked'[v] = asked[v]
<1>1. CASE \A w \in Workers : ~InsertAttempt(w)
  <2>1. ASSUME NEW t \in Tokens PROVE attempts'[t] \in {attempts[t], NoAttempt}
    BY <1>1, InsertsOnly DEF Next
  <2>2. QED
    BY <2>1
<1>2. ASSUME NEW w \in Workers, InsertAttempt(w)
      PROVE  \E t \in Tokens :
                 /\ at[w] = "insert" /\ at'[w] = "schedule"
                 /\ asked[w].kind = "start" /\ asked'[w].token = t
                 /\ subject[w] \in Attempts /\ subject[w] \notin Live
                 /\ attempts[t] = NoAttempt
                 /\ attempts' = [attempts EXCEPT ![t] = subject[w]]
                 /\ Opening(w)
                 /\ \A v \in Workers \ {w} : asked'[v] = asked[v]
  <2>0. TypeOK /\ Threaded(w) /\ OneOwner /\ w \in Processes
    BY Names DEF AttemptsInv, Threaded
  <2>1. /\ at[w] = "insert" /\ asked[w].kind = "start" /\ subject[w] \in Attempts
        /\ subject[w] \in owns[w] /\ asked[w] \in Request /\ at'[w] = "schedule"
        /\ Opening(w)
    BY <1>2, <2>0 DEF InsertAttempt, Goto, Threaded, Handling, Starting, StartSteps, TypeOK,
                      NoRequest, Opening
  <2>2. subject[w] \notin Live
    BY <2>0, <2>1 DEF OneOwner, InHand
  <2>3. PICK t \in Tokens : /\ attempts[t] = NoAttempt
                            /\ attempts' = [attempts EXCEPT ![t] = subject[w]]
                            /\ asked' = [asked EXCEPT ![w].token = t]
    BY <1>2 DEF InsertAttempt
  <2>4. asked'[w].token = t /\ \A v \in Workers \ {w} : asked'[v] = asked[v]
    BY <2>0, <2>1, <2>3 DEF TypeOK, Request
  <2>5. QED
    BY <2>1, <2>2, <2>3, <2>4
<1>3. QED
  BY <1>1, <1>2

LEMMA RunnerOwned ==
    ASSUME AttemptsInv, WiresInv, NEW own \in Owners, Owned(own), RunnerStep
    PROVE  Owned(own)'
<1>0. /\ OneEach(own) /\ ChargesInv(own) /\ TypeOK /\ OneBegun /\ OneOwner
      /\ NoClient \notin Clients /\ NoAttempt \notin Attempts /\ NoToken \notin Tokens
      /\ \A v \in Workers : /\ StartsOwn(own, v) /\ CancelsOwn(own, v) /\ Served(v)
                            /\ Threaded(v)
      /\ \A a \in Live : LivesFor(own, a)
      /\ \A d \in Clients : Unowned(own, d) /\ Knowing(d)
  BY Names, LoginNames DEF Owned, WiresInv, AttemptsInv, Threaded
<1>1. /\ UNCHANGED <<serving, inbox, stage, known, missed, kills>>
      /\ ProcessStep \/ Tick
  BY DEF RunnerStep, loginVars, wireVars
<1>2. ASSUME NEW v \in Workers
      PROVE  /\ asked'[v].kind = asked[v].kind /\ asked'[v].platform = asked[v].platform
             /\ asked[v].kind = "start" => subject'[v] = subject[v]
             /\ Opening(v)' => Opening(v)
  BY <1>1, RunnerThreads
<1>3. \A d \in Clients : Unowned(own, d)'
  BY <1>0, <1>1 DEF Unowned, Asking
\* Who is new in the map has just been inserted for its process.
<1>4. ASSUME NEW a \in Live', a \notin Live
      PROVE  /\ a \in Attempts /\ own[a] \in Clients /\ known[own[a]] = NoToken
             /\ PlatformOf[a] = ClientPlatform[own[a]]
             /\ \E w \in Workers : /\ asked[w].kind = "start" /\ subject[w] = a /\ Opening(w)
                                   /\ serving[w] = own[a] /\ at'[w] = "schedule"
                                   /\ attempts'[asked'[w].token] = a
  <2>1. PICK u \in Tokens : attempts'[u] = a /\ a # NoAttempt /\ attempts[u] # a
    BY <1>4 DEF Live
  <2>2. PICK w \in Workers, t \in Tokens :
                 /\ at[w] = "insert" /\ at'[w] = "schedule"
                 /\ asked[w].kind = "start" /\ asked'[w].token = t
                 /\ subject[w] \in Attempts
                 /\ attempts' = [attempts EXCEPT ![t] = subject[w]]
                 /\ Opening(w)
    BY <1>1, <2>1, RunnerMap
  <2>3. a = subject[w] /\ attempts'[t] = a
    BY <1>0, <2>1, <2>2 DEF TypeOK
  <2>4. QED
    BY <1>0, <2>2, <2>3 DEF StartsOwn, Served
\* Who stays in the map stays under its token.
<1>5. ASSUME NEW a \in Live' \cap Live, NEW t \in Tokens, attempts[t] = a
      PROVE  attempts'[t] = a
  <2>1. PICK u \in Tokens : attempts'[u] = a /\ a # NoAttempt
    BY <1>5 DEF Live
  <2>2. attempts[u] = a
    BY <1>0, <1>1, <1>5, <2>1, RunnerMap DEF TypeOK
  <2>3. u = t
    BY <1>0, <1>5, <2>1, <2>2 DEF OneOwner
  <2>4. QED
    BY <2>1, <2>3
<1>6. ASSUME NEW v \in Workers PROVE StartsOwn(own, v)'
  <2>1. SUFFICES ASSUME asked[v].kind = "start", subject[v] \in Live'
                 PROVE  /\ at'[v] \in {"schedule", "reply"}
                        /\ at'[v] = "reply" => answer'[v] = "qr"
                        /\ attempts'[asked'[v].token] = subject[v]
    BY <1>0, <1>1, <1>2 DEF StartsOwn
  <2>2. CASE subject[v] \in Live
    <3>1. /\ at[v] \in {"schedule", "reply"} /\ (at[v] = "reply" => answer[v] = "qr")
          /\ attempts[asked[v].token] = subject[v]
      BY <1>0, <2>1, <2>2 DEF StartsOwn
    <3>2. asked[v].token \in Tokens
      BY <1>0, <3>1 DEF Threaded, Handling, Served
    <3>3. asked'[v].token = asked[v].token
      BY <1>1, <3>1, RunnerThreads DEF InsertAttempt
    <3>4. attempts'[asked[v].token] = subject[v]
      BY <1>5, <2>1, <2>2, <3>1, <3>2
    <3>5. QED
      BY <1>1, <3>1, <3>3, <3>4, RunnerThreads
  <2>3. CASE subject[v] \notin Live
    <3>1. PICK w \in Workers :
             /\ asked[w].kind = "start" /\ subject[w] = subject[v]
             /\ serving[w] = own[subject[v]] /\ at'[w] = "schedule"
             /\ attempts'[asked'[w].token] = subject[v]
      BY <1>4, <2>1, <2>3
    <3>2. v = w
      BY <1>0, <2>1, <3>1 DEF StartsOwn, OneBegun, Begun, Served
    <3>3. QED
      BY <3>1, <3>2
  <2>4. QED
    BY <2>2, <2>3
<1>7. ASSUME NEW a \in Live' PROVE LivesFor(own, a)'
  <2>1. CASE a \in Live
    <3>1. LivesFor(own, a) /\ own[a] \in Clients
      BY <1>0, <2>1 DEF LivesFor
    <3>2. known[own[a]] # NoToken => attempts'[known[own[a]]] = a
      <4>1. known[own[a]] # NoToken => known[own[a]] \in Tokens
        BY <3>1 DEF WiresInv, LoginTypeOK
      <4>2. QED
        BY <1>5, <1>7, <2>1, <3>1, <4>1 DEF LivesFor
    <3>3. QED
      BY <1>1, <1>2, <3>1, <3>2 DEF LivesFor
  <2>2. CASE a \notin Live
    BY <1>1, <1>2, <1>4, <1>7, <2>2 DEF LivesFor
  <2>3. QED
    BY <2>1, <2>2
<1>8. ASSUME NEW v \in Workers PROVE CancelsOwn(own, v)'
  <2> SUFFICES ASSUME asked[v].kind = "cancel", at'[v] \in {"close", "release", "reply"},
                      NEW a \in Live', own[a] = serving[v]
               PROVE  FALSE
    BY <1>1, <1>2 DEF CancelsOwn
  <2>1. /\ asked[v].token = known[own[a]] /\ asked[v].token \in Tokens /\ own[a] \in Clients
        /\ asked[v].platform = ClientPlatform[own[a]]
    BY <1>0 DEF Served
  <2>2. a \in Live
    BY <1>0, <1>4, <2>1
  <2>3. Cancel(v) \/ RejectUnknown(v)
    BY <1>0, <1>1, <2>2, RunnerThreads DEF CancelsOwn
  <2>4. attempts[asked[v].token] = a /\ PlatformOf[a] = asked[v].platform
    BY <1>0, <2>1, <2>2 DEF LivesFor
  <2>5. a # NoAttempt
    BY <2>2 DEF Live
  <2>6. IsFound(v)
    BY <2>4, <2>5 DEF IsFound
  <2>7. TakeOut(v, {asked[v].token})
    BY <2>3, <2>6 DEF RejectUnknown, Cancel
  <2>8. attempts'[asked[v].token] = NoAttempt
    BY <2>1, <2>7 DEF TakeOut
  <2>9. QED
    BY <1>5, <2>1, <2>2, <2>4, <2>5, <2>8
<1>9. ASSUME NEW d \in Clients, d \in Charged(own)' PROVE d \in Charged(own)
  <2>1. ASSUME NEW a \in Live', own[a] = d
        PROVE  \/ a \in Live
               \/ \E w \in Workers : serving[w] = d /\ Opening(w)
    BY <1>4, <2>1
  <2>2. Asking(d)' <=> Asking(d)
    BY <1>1 DEF Asking
  <2>3. QED
    BY <1>1, <1>2, <1>9, <2>1, <2>2 DEF Charged
<1>10. ChargesInv(own)'
  BY <1>0, <1>1, <1>9, ChargeSteps
<1>11. QED
  BY <1>0, <1>3, <1>6, <1>7, <1>8, <1>10 DEF Owned, OneEach

LEMMA LoginInvInit ==
    ASSUME LoginInit
    PROVE  LoginInv
<1>1. Init /\ AttemptsInv
  BY AttemptsInit DEF LoginInit
<1>2. /\ \A c \in Clients : stage[c] = "begin" /\ known[c] = NoToken
      /\ \A w \in Workers : at[w] = "idle" /\ asked[w] = NoRequest /\ serving[w] = NoClient
                            /\ answer[w] = "none"
      /\ \A t \in Tokens : attempts[t] = NoAttempt
      /\ inbox = {} /\ missed = 0 /\ kills = 0
  BY <1>1, Names DEF LoginInit, Init
<1>3. WiresInv
  <2>1. LoginTypeOK
    BY <1>1, LoginNames DEF LoginInit, LoginTypeOK, AttemptsInv, Stage
  <2>2. QED
    BY <1>2, <2>1, LoginNames DEF WiresInv, Travelling, Served, Knowing, OneBegun, Begun,
                                  NoRequest
<1>4. PICK own \in Owners : \A a \in Attempts : own[a] = NoClient
  <2>1. [a \in Attempts |-> NoClient] \in Owners
    BY DEF Owners
  <2>2. QED
    BY <2>1
<1>5. Live = {}
  BY <1>2 DEF Live
<1>6. ChargesInv(own)
  <2>1. Charged(own) = {}
    BY <1>2 DEF Charged
  <2>2. QED
    BY <1>2, <2>1, FS_EmptySet DEF ChargesInv
<1>7. Owned(own)
  BY <1>2, <1>4, <1>5, <1>6, LoginNames DEF Owned, OneEach, StartsOwn, CancelsOwn, Unowned,
     NoRequest
<1>8. QED
  BY <1>1, <1>3, <1>4, <1>7 DEF LoginInv

LEMMA LoginInvSteps ==
    ASSUME LoginInv, [LoginNext]_allVars
    PROVE  LoginInv'
<1>1. AttemptsInv' /\ WiresInv'
  BY LoginSteps, AttemptsSteps, WiresSteps DEF LoginInv
<1>2. PICK own \in Owners : Owned(own)
  BY DEF LoginInv
<1>3. \E own1 \in Owners : Owned(own1)'
  <2>1. CASE UNCHANGED allVars
    <3>1. Owned(own)'
      BY <1>2, <2>1 DEF allVars, vars, mapVars, handlerVars, loginVars, wireVars, Owned, OneEach,
         StartsOwn, CancelsOwn, LivesFor, Unowned, ChargesInv, Charged, Asking, Opening,
         Starting, Sweeping, Live
    <3>2. QED
      BY <3>1
  <2>2. CASE LoginNext
    BY <1>2, <2>2, ClientOwned, DropOwned, ServeOwned, DeliverOwned, RunnerOwned
       DEF LoginInv, LoginNext, RunnerStep
  <2>3. QED
    BY <2>1, <2>2
<1>4. QED
  BY <1>1, <1>3 DEF LoginInv, Owners

\* Every orphan's process is charged for it.
LEMMA OrphansAreCharged ==
    ASSUME LoginInv
    PROVE  OrphansWereMissed
<1>1. PICK own \in Owners : Owned(own)
  BY DEF LoginInv
<1>0. /\ OneEach(own) /\ ChargesInv(own) /\ NoClient \notin Clients /\ Live \subseteq Attempts
      /\ \A v \in Workers : StartsOwn(own, v)
      /\ \A a \in Live : LivesFor(own, a)
      /\ \A d \in Clients : Unowned(own, d) /\ Knowing(d)
      /\ LoginTypeOK /\ NoToken \notin Tokens
  BY <1>1, LoginNames, LiveAttempts DEF LoginInv, Owned, WiresInv
<1> DEFINE Orphans == {a \in Live : ~CanBeCancelled(a)}
<1>2. ASSUME NEW a \in Orphans PROVE own[a] \in Charged(own)
  <2>1. a \in Attempts /\ a \in Live /\ own[a] \in Clients /\ LivesFor(own, a)
    BY <1>0, <1>2 DEF LivesFor
  <2>2. stage[own[a]] # "begin"
    BY <1>0, <2>1 DEF Unowned
  <2>3. stage[own[a]] # "start"
    <3>1. SUFFICES ASSUME stage[own[a]] = "start" PROVE FALSE
      OBVIOUS
    <3>2. PICK w \in Workers : asked[w].kind = "start" /\ subject[w] = a
      BY <2>1, <3>1 DEF LivesFor
    <3>3. at[w] \in {"schedule", "reply"} /\ serving[w] = own[a]
      BY <1>0, <2>1, <3>2 DEF StartsOwn
    <3>4. QED
      BY <1>2, <3>1, <3>2, <3>3 DEF CanBeCancelled
  <2>4. stage[own[a]] \notin {"draw", "refresh", "cancel"}
    <3>1. SUFFICES ASSUME stage[own[a]] \in {"draw", "refresh", "cancel"} PROVE FALSE
      OBVIOUS
    <3>2. known[own[a]] # NoToken
      BY <1>0, <2>1, <3>1 DEF Knowing
    <3>3. attempts[known[own[a]]] = a
      BY <2>1, <3>2 DEF LivesFor
    <3>4. QED
      BY <1>2, <2>1, <3>1, <3>2, <3>3 DEF CanBeCancelled
  <2>5. stage[own[a]] = "exited"
    BY <1>0, <2>1, <2>2, <2>3, <2>4 DEF LoginTypeOK, Stage
  <2>6. QED
    BY <2>1, <2>5 DEF Charged
<1>3. IsFiniteSet(Charged(own)) /\ Cardinality(Charged(own)) <= missed + kills
  BY <1>0 DEF ChargesInv
<1>4. Orphans \subseteq Attempts
  BY <1>0
<1>5. PICK O : O = Orphans
  OBVIOUS
<1>6. PICK S : S = Charged(own)
  OBVIOUS
<1>7. Cardinality(O) <= Cardinality(S) /\ IsFiniteSet(O)
  <2>1. IsFiniteSet(O)
    BY <1>4, <1>5, Names, FS_Subset
  <2>2. [a \in O |-> own[a]] \in Injection(O, S)
    <3>1. \A a \in O : own[a] \in S
      BY <1>2, <1>5, <1>6
    <3>2. \A a, b \in O : own[a] = own[b] => a = b
      <4>1. \A a \in O : a \in Attempts /\ own[a] \in Clients
        BY <1>4, <1>5, <1>6, <3>1 DEF Charged
      <4>2. QED
        BY <1>0, <4>1 DEF OneEach
    <3>3. QED
      BY <3>1, <3>2, Fun_IsInj
  <2>3. QED
    BY <1>3, <1>6, <2>1, <2>2, FS_Injection
<1>8. Cardinality(O) \in Nat /\ Cardinality(S) \in Nat /\ missed + kills \in Nat
  BY <1>0, <1>3, <1>6, <1>7, FS_CardinalityType DEF LoginTypeOK
<1>9. Cardinality(O) <= missed + kills
  BY <1>3, <1>6, <1>7, <1>8
<1>10. QED
  BY <1>5, <1>9 DEF OrphansWereMissed

\* Attempts in the map that nobody will cancel any more are no more than the starts and
\* cancels given up and the processes killed.
THEOREM OrphansAreMissed == LoginSpec => []OrphansWereMissed
<1>1. LoginSpec => []LoginInv
  BY LoginInvInit, LoginInvSteps, PTL DEF LoginSpec
<1>2. QED
  BY <1>1, OrphansAreCharged, PTL
=============================================================================
