------------------------- MODULE TerminalQrAttempts -------------------------
(***************************************************************************)
(* The webdriver runner's terminal QR login attempts.  Handlers of start,  *)
(* refresh and cancel requests run on the threads of the runner; each      *)
(* attempt in the map has an expiry task.  A counter of reserved slots,    *)
(* changed by compare-and-swap, caps the attempts; a mutex guards the map  *)
(* and is held while a refresh captures.  An attempt owns one temporary    *)
(* WebDriver session, which whoever takes the attempt out of the map       *)
(* closes before giving the slot back.  An answer of the driver may be     *)
(* lost.  Any request may name any token and any platform with QR login.   *)
(***************************************************************************)
EXTENDS Naturals, FiniteSets

CONSTANTS
    Workers,        \* the threads that run request handlers
    Attempts,       \* bound: identities of the attempts that reserve a slot
    NoAttempt,
    Tokens,         \* attempt tokens; only a token in the map is not drawn again
    NoToken,
    Platforms,      \* the platforms with terminal QR login
    NoPlatform,
    PlatformOf,     \* the platform each attempt is started for
    NoWorker,
    MaxActive,      \* TERMINAL_QR_MAX_ACTIVE_ATTEMPTS
    Lifetime,       \* TERMINAL_QR_ATTEMPT_LIFETIME, in clock steps
    MaxLostAnswers  \* bound: lost answers of the driver

ASSUME AttemptsAssumption ==
    /\ IsFiniteSet(Attempts) /\ IsFiniteSet(Tokens)
    /\ NoAttempt \notin Attempts /\ NoToken \notin Tokens /\ NoWorker \notin Workers
    /\ Workers \cap Attempts = {}
    /\ PlatformOf \in [Attempts -> Platforms]
    /\ MaxActive \in Nat \ {0}
    /\ Cardinality(Tokens) >= MaxActive
    /\ Lifetime \in Nat
    /\ MaxLostAnswers \in Nat

VARIABLES
    slots,       \* reserved_slots
    lock,        \* the thread that keeps the map's mutex over several steps
    attempts,    \* the map, from tokens to attempts
    age,         \* created_at.elapsed() of each attempt, up to Lifetime
    slept,       \* how long each expiry task has slept, up to Lifetime
    timed,       \* the token each expiry task is for
    session,     \* the attempt's session as the browser knows it
    lostAnswers, \* lost answers of the driver so far
    at,          \* where each handler and each expiry task is
    asked,       \* the request each thread handles
    subject,     \* the attempt a handler starts, refreshes or cancels
    seen,        \* slots as reserve_slot last read it
    owns,        \* attempts a handler or task has in hand, outside the map
    answer       \* the handler's answer so far

mapVars     == <<lock, attempts>>
timeVars    == <<age, slept, timed>>
driverVars  == <<session, lostAnswers>>
handlerVars == <<asked, subject, seen, answer>>
vars == <<slots, mapVars, timeVars, driverVars, at, owns, handlerVars>>

-----------------------------------------------------------------------------
(* The expiry task of an attempt goes by the attempt's name. *)
Processes == Workers \cup Attempts

Step == {"idle", "sweep", "load", "swap", "open", "capture", "insert", "schedule",
         "lookup", "recapture", "find", "asleep", "close", "release", "reply"}

Request == [kind : {"start", "refresh", "cancel"}, platform : Platforms,
            token : Tokens \cup {NoToken}]
NoRequest == [kind |-> "none", platform |-> NoPlatform, token |-> NoToken]

Live == {attempts[t] : t \in Tokens} \ {NoAttempt}

\* Not yet started, so that a start request can still become this attempt.
Fresh == {a \in Attempts : /\ session[a] = "none"
                           /\ \A w \in Workers : subject[w] # a}

TypeOK ==
    /\ slots \in Nat
    /\ lock \in Workers \cup {NoWorker}
    /\ attempts \in [Tokens -> Attempts \cup {NoAttempt}]
    /\ age \in [Attempts -> 0 .. Lifetime]
    /\ slept \in [Attempts -> 0 .. Lifetime]
    /\ timed \in [Attempts -> Tokens \cup {NoToken}]
    /\ session \in [Attempts -> {"none", "open", "closed", "left"}]
    /\ lostAnswers \in 0 .. MaxLostAnswers
    /\ at \in [Processes -> Step]
    /\ asked \in [Workers -> Request \cup {NoRequest}]
    /\ subject \in [Workers -> Attempts \cup {NoAttempt}]
    /\ seen \in [Workers -> Nat]
    /\ owns \in [Processes -> SUBSET Attempts]
    /\ answer \in [Workers -> {"none", "qr", "timed_out", "cancelled", "rejected"}]

Init ==
    /\ slots = 0
    /\ lock = NoWorker
    /\ attempts = [t \in Tokens |-> NoAttempt]
    /\ age = [a \in Attempts |-> 0]
    /\ slept = [a \in Attempts |-> 0]
    /\ timed = [a \in Attempts |-> NoToken]
    /\ session = [a \in Attempts |-> "none"]
    /\ lostAnswers = 0
    /\ at = [p \in Processes |-> "idle"]
    /\ asked = [w \in Workers |-> NoRequest]
    /\ subject = [w \in Workers |-> NoAttempt]
    /\ seen = [w \in Workers |-> 0]
    /\ owns = [p \in Processes |-> {}]
    /\ answer = [w \in Workers |-> "none"]

Goto(p, there) == at' = [at EXCEPT ![p] = there]
Answers(w, what) == answer' = [answer EXCEPT ![w] = what]
Unlocked == lock = NoWorker

\* The driver's answer does not arrive, or not in time.
LosesAnswer == lostAnswers < MaxLostAnswers /\ lostAnswers' = lostAnswers + 1

\* A process takes what the map has under these tokens out of it.
TakeOut(p, tokens) ==
    /\ attempts' = [t \in Tokens |-> IF t \in tokens THEN NoAttempt ELSE attempts[t]]
    /\ owns' = [owns EXCEPT ![p] = {attempts[t] : t \in tokens}]

-----------------------------------------------------------------------------
(* A request reaches a thread.  Requests the handler refuses before it comes
   to the attempts (version, platform, malformed token) leave no trace. *)

Receive(w, r) ==
    /\ at[w] = "idle"
    /\ asked' = [asked EXCEPT ![w] = r]
    /\ CASE r.kind = "start" ->
              /\ \E a \in Fresh : /\ PlatformOf[a] = r.platform
                                  /\ subject' = [subject EXCEPT ![w] = a]
              /\ Goto(w, "sweep")
         [] r.kind = "refresh" -> Goto(w, "lookup") /\ UNCHANGED subject
         [] r.kind = "cancel"  -> Goto(w, "find") /\ UNCHANGED subject
    /\ UNCHANGED <<slots, mapVars, timeVars, driverVars, owns, seen, answer>>

Reply(w) ==
    /\ at[w] = "reply"
    /\ Goto(w, "idle")
    /\ asked' = [asked EXCEPT ![w] = NoRequest]
    /\ subject' = [subject EXCEPT ![w] = NoAttempt]
    /\ Answers(w, "none")
    /\ UNCHANGED <<slots, mapVars, timeVars, driverVars, owns, seen>>

-----------------------------------------------------------------------------
(* Start. *)

RemoveExpired(w) ==
    LET expired == {t \in Tokens : attempts[t] # NoAttempt /\ age[attempts[t]] >= Lifetime}
    IN  /\ at[w] = "sweep"
        /\ Unlocked
        /\ TakeOut(w, expired)
        /\ Goto(w, IF expired = {} THEN "load" ELSE "close")
        /\ UNCHANGED <<slots, lock, timeVars, driverVars, handlerVars>>

LoadSlots(w) ==
    /\ at[w] = "load"
    /\ seen' = [seen EXCEPT ![w] = slots]
    /\ Goto(w, "swap")
    /\ UNCHANGED <<slots, mapVars, timeVars, driverVars, owns, asked, subject, answer>>

\* reserve_slot gives up: no session, no slot.
RefuseSlot(w) ==
    /\ at[w] = "swap"
    /\ seen[w] >= MaxActive
    /\ seen' = [seen EXCEPT ![w] = 0]
    /\ Answers(w, "rejected")
    /\ Goto(w, "reply")
    /\ UNCHANGED <<slots, mapVars, timeVars, driverVars, owns, asked, subject>>

\* Variant: the counter is stored, not compared and swapped.
SwapSlots_Store(w) ==
    /\ at[w] = "swap"
    /\ seen[w] < MaxActive
    /\ slots' = seen[w] + 1
    /\ owns' = [owns EXCEPT ![w] = {subject[w]}]
    /\ seen' = [seen EXCEPT ![w] = 0]
    /\ Goto(w, "open")
    /\ UNCHANGED <<mapVars, timeVars, driverVars, asked, subject, answer>>

\* One round of reserve_slot's loop.  (A spurious failure changes nothing.)
SwapSlots(w) ==
    /\ at[w] = "swap"
    /\ seen[w] < MaxActive
    /\ IF slots = seen[w]
          THEN /\ slots' = seen[w] + 1
               /\ owns' = [owns EXCEPT ![w] = {subject[w]}]
               /\ seen' = [seen EXCEPT ![w] = 0]
               /\ Goto(w, "open")
          ELSE /\ seen' = [seen EXCEPT ![w] = slots]
               /\ UNCHANGED <<slots, owns, at>>
    /\ UNCHANGED <<mapVars, timeVars, driverVars, asked, subject, answer>>

\* Variant: a start that fails keeps its slot.
OpenSession_KeepSlot(w) ==
    /\ at[w] = "open"
    /\ \/ /\ session' = [session EXCEPT ![subject[w]] = "open"]
          /\ Goto(w, "capture")
          /\ UNCHANGED <<answer, owns>>
       \/ /\ session' = [session EXCEPT ![subject[w]] = "closed"]
          /\ owns' = [owns EXCEPT ![w] = {}]
          /\ Answers(w, "rejected")
          /\ Goto(w, "reply")
    /\ UNCHANGED <<slots, mapVars, timeVars, lostAnswers, asked, subject, seen>>

\* start_terminal_qr_login: create a session, navigate, capture once.  A session
\* it cannot use is deleted; one whose creation was not answered is unknown to it.
OpenSession(w) ==
    /\ at[w] = "open"
    /\ \/ /\ session' = [session EXCEPT ![subject[w]] = "open"]
          /\ Goto(w, "capture")
          /\ UNCHANGED <<answer, lostAnswers>>
       \/ /\ \E s \in {"none", "closed"} : session' = [session EXCEPT ![subject[w]] = s]
          /\ Answers(w, "rejected")
          /\ Goto(w, "release")
          /\ UNCHANGED lostAnswers
       \/ /\ LosesAnswer
          /\ session' = [session EXCEPT ![subject[w]] = "left"]
          /\ Answers(w, "rejected")
          /\ Goto(w, "release")
    /\ UNCHANGED <<slots, mapVars, timeVars, owns, asked, subject, seen>>

\* Variant: a start that fails to capture forgets the session.
Capture_NoClose(w) ==
    /\ at[w] = "capture"
    /\ \/ Goto(w, "insert") /\ UNCHANGED <<answer, owns, slots>>
       \/ /\ Goto(w, "reply")
          /\ Answers(w, "rejected")
          /\ owns' = [owns EXCEPT ![w] = {}]
          /\ slots' = slots - 1
    /\ UNCHANGED <<mapVars, timeVars, driverVars, asked, subject, seen>>

\* The capture whose picture the answer carries; no lock is held.
Capture(w) ==
    /\ at[w] = "capture"
    /\ \/ Goto(w, "insert") /\ UNCHANGED answer
       \/ Goto(w, "close")  /\ Answers(w, "rejected")
    /\ UNCHANGED <<slots, mapVars, timeVars, driverVars, owns, asked, subject, seen>>

\* The token is any that the map does not have.
InsertAttempt(w) ==
    /\ at[w] = "insert"
    /\ Unlocked
    /\ \E t \in Tokens :
          /\ attempts[t] = NoAttempt
          /\ attempts' = [attempts EXCEPT ![t] = subject[w]]
          /\ asked' = [asked EXCEPT ![w].token = t]
    /\ age' = [age EXCEPT ![subject[w]] = 0]
    /\ owns' = [owns EXCEPT ![w] = {}]
    /\ Goto(w, "schedule")
    /\ UNCHANGED <<slots, lock, slept, timed, driverVars, subject, seen, answer>>

\* Variant: the expiry task is not spawned.
ScheduleExpiry_Never(w) ==
    /\ at[w] = "schedule"
    /\ Goto(w, "reply")
    /\ Answers(w, "qr")
    /\ UNCHANGED <<slots, mapVars, timeVars, driverVars, owns, asked, subject, seen>>

\* The handler spawns the expiry task once it has the answer.
ScheduleExpiry(w) ==
    /\ at[w] = "schedule"
    /\ at' = [at EXCEPT ![w] = "reply", ![subject[w]] = "asleep"]
    /\ timed' = [timed EXCEPT ![subject[w]] = asked[w].token]
    /\ slept' = [slept EXCEPT ![subject[w]] = 0]
    /\ Answers(w, "qr")
    /\ UNCHANGED <<slots, mapVars, age, driverVars, owns, asked, subject, seen>>

-----------------------------------------------------------------------------
(* Refresh and cancel. *)

\* The map has the request's token, for the request's platform.
IsFound(w) ==
    LET a == attempts[asked[w].token]
    IN  a # NoAttempt /\ PlatformOf[a] = asked[w].platform

\* Neither a refresh nor a cancel touches an attempt it does not name rightly.
RejectUnknown(w) ==
    /\ at[w] \in {"lookup", "find"}
    /\ Unlocked
    /\ ~IsFound(w)
    /\ Answers(w, "rejected")
    /\ Goto(w, "reply")
    /\ UNCHANGED <<slots, mapVars, timeVars, driverVars, owns, asked, subject, seen>>

RefreshExpired(w) ==
    /\ at[w] = "lookup"
    /\ Unlocked
    /\ IsFound(w)
    /\ age[attempts[asked[w].token]] >= Lifetime
    /\ TakeOut(w, {asked[w].token})
    /\ Answers(w, "timed_out")
    /\ Goto(w, "close")
    /\ UNCHANGED <<slots, lock, timeVars, driverVars, asked, subject, seen>>

\* Variant: the capture of a refresh runs without the mutex.
RefreshFound_Unlocked(w) ==
    /\ at[w] = "lookup"
    /\ Unlocked
    /\ IsFound(w)
    /\ age[attempts[asked[w].token]] < Lifetime
    /\ subject' = [subject EXCEPT ![w] = attempts[asked[w].token]]
    /\ Goto(w, "recapture")
    /\ UNCHANGED <<slots, mapVars, timeVars, driverVars, owns, asked, seen, answer>>

\* The mutex stays locked through the capture.
RefreshFound(w) ==
    /\ at[w] = "lookup"
    /\ Unlocked
    /\ IsFound(w)
    /\ age[attempts[asked[w].token]] < Lifetime
    /\ lock' = w
    /\ subject' = [subject EXCEPT ![w] = attempts[asked[w].token]]
    /\ Goto(w, "recapture")
    /\ UNCHANGED <<slots, attempts, timeVars, driverVars, owns, asked, seen, answer>>

\* Variant: a picture renews the attempt, its expiry task stays as it was.
Recapture_Renew(w) ==
    /\ at[w] = "recapture"
    /\ lock' = NoWorker
    /\ \/ /\ age' = [age EXCEPT ![subject[w]] = 0]
          /\ Answers(w, "qr")
          /\ Goto(w, "reply")
          /\ UNCHANGED <<attempts, owns>>
       \/ /\ TakeOut(w, {asked[w].token})
          /\ Answers(w, "rejected")
          /\ Goto(w, "close")
          /\ UNCHANGED age
    /\ UNCHANGED <<slots, slept, timed, driverVars, asked, subject, seen>>

Recapture(w) ==
    /\ at[w] = "recapture"
    /\ lock' = NoWorker
    /\ \/ /\ Answers(w, "qr")
          /\ Goto(w, "reply")
          /\ UNCHANGED <<attempts, owns>>
       \/ /\ TakeOut(w, {asked[w].token})
          /\ Answers(w, "rejected")
          /\ Goto(w, "close")
    /\ UNCHANGED <<slots, timeVars, driverVars, asked, subject, seen>>

Cancel(w) ==
    /\ at[w] = "find"
    /\ Unlocked
    /\ IsFound(w)
    /\ subject' = [subject EXCEPT ![w] = attempts[asked[w].token]]
    /\ TakeOut(w, {asked[w].token})
    /\ Answers(w, "cancelled")
    /\ Goto(w, "close")
    /\ UNCHANGED <<slots, lock, timeVars, driverVars, asked, seen>>

-----------------------------------------------------------------------------
(* Expiry, and the end of every attempt: close, then give the slot back. *)

\* Variant: the task closes an attempt that it leaves in the map.
Wake_Keep(a) ==
    /\ at[a] = "asleep"
    /\ slept[a] = Lifetime
    /\ Unlocked
    /\ IF attempts[timed[a]] # NoAttempt /\ age[attempts[timed[a]]] >= Lifetime
          THEN owns' = [owns EXCEPT ![a] = {attempts[timed[a]]}] /\ Goto(a, "close")
          ELSE Goto(a, "idle") /\ UNCHANGED owns
    /\ timed' = [timed EXCEPT ![a] = NoToken]
    /\ UNCHANGED <<slots, mapVars, age, slept, driverVars, handlerVars>>

\* Variant: the task does not look whether its token is still in the map.
Wake_Blind(a) ==
    /\ at[a] = "asleep"
    /\ slept[a] = Lifetime
    /\ Unlocked
    /\ TakeOut(a, {timed[a]})
    /\ Goto(a, "close")
    /\ timed' = [timed EXCEPT ![a] = NoToken]
    /\ UNCHANGED <<slots, lock, age, slept, driverVars, handlerVars>>

\* Variant: the task takes what its token names, whatever its age.
Wake_AnyAge(a) ==
    /\ at[a] = "asleep"
    /\ slept[a] = Lifetime
    /\ Unlocked
    /\ IF attempts[timed[a]] # NoAttempt
          THEN TakeOut(a, {timed[a]}) /\ Goto(a, "close")
          ELSE Goto(a, "idle") /\ UNCHANGED <<attempts, owns>>
    /\ timed' = [timed EXCEPT ![a] = NoToken]
    /\ UNCHANGED <<slots, lock, age, slept, driverVars, handlerVars>>

\* The expiry task wakes.  Its token may meanwhile name another attempt.
Wake(a) ==
    /\ at[a] = "asleep"
    /\ slept[a] = Lifetime
    /\ Unlocked
    /\ IF attempts[timed[a]] # NoAttempt /\ age[attempts[timed[a]]] >= Lifetime
          THEN TakeOut(a, {timed[a]}) /\ Goto(a, "close")
          ELSE Goto(a, "idle") /\ UNCHANGED <<attempts, owns>>
    /\ timed' = [timed EXCEPT ![a] = NoToken]
    /\ UNCHANGED <<slots, lock, age, slept, driverVars, handlerVars>>

\* Variant: a cancel does not look at whether the driver confirmed.
CloseUnconfirmed_Ignore(p) == UNCHANGED answer

\* Only a cancel looks at whether the driver confirmed.
CloseUnconfirmed(p) ==
    IF p \in Workers /\ asked[p].kind = "cancel" THEN Answers(p, "rejected")
    ELSE UNCHANGED answer

Close(p) ==
    /\ at[p] = "close"
    /\ \E a \in owns[p] :
          /\ session[a] = "open"
          /\ \/ session' = [session EXCEPT ![a] = "closed"] /\ UNCHANGED <<lostAnswers, answer>>
             \/ /\ LosesAnswer
                /\ \E s \in {"closed", "left"} : session' = [session EXCEPT ![a] = s]
                /\ CloseUnconfirmed(p)
    /\ Goto(p, "release")
    /\ UNCHANGED <<slots, mapVars, timeVars, owns, asked, subject, seen>>

\* Where a process goes when it has given back its last slot.
AfterRelease(p) ==
    IF p \in Attempts THEN "idle"
    ELSE IF answer[p] = "none" THEN "load"
    ELSE "reply"

Release(p) ==
    /\ at[p] = "release"
    /\ \E a \in owns[p] :
          /\ session[a] # "open"
          /\ owns' = [owns EXCEPT ![p] = @ \ {a}]
          /\ Goto(p, IF owns[p] = {a} THEN AfterRelease(p) ELSE "close")
    /\ slots' = IF slots > 0 THEN slots - 1 ELSE 0
    /\ UNCHANGED <<mapVars, timeVars, driverVars, handlerVars>>

-----------------------------------------------------------------------------
Older(elapsed) == IF elapsed < Lifetime THEN elapsed + 1 ELSE elapsed

\* Time passes for the attempts in the map and the tasks asleep.
Tick ==
    /\ age' = [a \in Attempts |-> IF a \in Live THEN Older(age[a]) ELSE age[a]]
    /\ slept' = [a \in Attempts |-> IF at[a] = "asleep" THEN Older(slept[a]) ELSE slept[a]]
    /\ UNCHANGED <<slots, mapVars, timed, driverVars, at, owns, handlerVars>>

HandlerStep(w) ==
    \/ RemoveExpired(w) \/ LoadSlots(w) \/ RefuseSlot(w) \/ SwapSlots(w)
    \/ OpenSession(w) \/ Capture(w) \/ InsertAttempt(w) \/ ScheduleExpiry(w)
    \/ RejectUnknown(w) \/ RefreshExpired(w) \/ RefreshFound(w) \/ Recapture(w)
    \/ Cancel(w)

ProcessStep ==
    \/ \E w \in Workers : HandlerStep(w)
    \/ \E a \in Attempts : Wake(a)
    \/ \E p \in Processes : Close(p) \/ Release(p)

\* A start names no token, the other requests one.
AnyRequest == {r \in Request : r.kind = "start" <=> r.token = NoToken}

Next ==
    \/ \E w \in Workers, r \in AnyRequest : Receive(w, r)
    \/ \E w \in Workers : Reply(w)
    \/ ProcessStep
    \/ Tick

Spec == Init /\ [][Next]_vars

\* Every request to the driver has a timeout, so a handler goes on to its answer,
\* a task to its end; time passes.  Requests need not arrive.
FairSpec ==
    /\ Spec
    /\ \A w \in Workers : WF_vars(HandlerStep(w) \/ Close(w) \/ Release(w) \/ Reply(w))
    /\ \A a \in Attempts : WF_vars(Wake(a) \/ Close(a) \/ Release(a))
    /\ WF_vars(Tick)
-----------------------------------------------------------------------------
(* What the attempts promise. *)

InHand == UNION {owns[p] : p \in Processes}
Holding == Live \cup InHand

\* An attempt is in one pair of hands: in the map under one token, or with one
\* handler or task that took it out.  Nobody closes, or gives back, twice.
OneOwner ==
    /\ \A t, u \in Tokens : attempts[t] = attempts[u] /\ attempts[t] # NoAttempt => t = u
    /\ \A p, q \in Processes : p # q => owns[p] \cap owns[q] = {}
    /\ Live \cap InHand = {}

\* reserved_slots counts the attempts in the map, under way or being closed.
SlotsAreOwned == slots = Cardinality(Holding)

\* "Caps concurrent attempts": the runner never has more sessions than slots.
SessionsAreCapped == Cardinality({a \in Attempts : session[a] = "open"}) <= MaxActive

\* Nobody closes a session while another thread captures from it.
CapturesAreOpen ==
    \A w \in Workers : at[w] \in {"capture", "recapture"} => session[subject[w]] = "open"

\* Each attempt in the map has an expiry task that will find it expired: a task
\* that woke too early, or was never spawned, would leave it there for good.
AttemptsAreTimed ==
    \A t \in Tokens : attempts[t] # NoAttempt =>
       \/ \E w \in Workers : at[w] = "schedule" /\ subject[w] = attempts[t]
       \/ LET a == attempts[t]
          IN  at[a] = "asleep" /\ timed[a] = t /\ slept[a] <= age[a]

\* Sessions that nobody will close any more.
LeftBehind == {a \in Attempts \ Holding : session[a] \in {"open", "left"}}

\* "Closed by the service on every terminal path", as far as the driver answers.
SessionsAreClosed == Cardinality(LeftBehind) <= lostAnswers

\* A caller told that its attempt is cancelled: its session is closed.
CancelledIsClosed ==
    \A w \in Workers : at[w] = "reply" /\ answer[w] = "cancelled"
       => session[subject[w]] = "closed"

\* An attempt leaves the map only when its time is up or a request for that token
\* and platform ends it; the expiry task of an earlier attempt with the same
\* token does not.
EndedForCause ==
    [][\A t \in Tokens : attempts[t] # NoAttempt /\ attempts'[t] # attempts[t] =>
          \/ age[attempts[t]] >= Lifetime
          \/ \E w \in Workers : /\ at[w] \in {"find", "recapture"}
                                /\ asked[w].token = t
                                /\ asked[w].platform = PlatformOf[attempts[t]]]_vars

\* Every slot is somebody's and every attempt has one owner and one timer: no race
\* of handlers and expiry tasks leaks, doubles or forgets one.
SlotsAreAccounted == TypeOK /\ OneOwner /\ SlotsAreOwned /\ AttemptsAreTimed

\* There are never more sessions than the cap, and none is closed under a capture.
SessionsAreGuarded == SessionsAreCapped /\ CapturesAreOpen

\* Who is told, or counted, as ended has no session left.
EndedIsClosed == SessionsAreClosed /\ CancelledIsClosed

\* Every slot comes back, whether or not anyone asks about the attempt again.
SlotsComeBack == \A a \in Attempts : a \in Holding ~> a \notin Holding
=============================================================================
