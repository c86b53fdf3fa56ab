--------------------------- MODULE TerminalQrLogin ---------------------------
(***************************************************************************)
(* `matrixpost login --terminal-qr` against one runner: each command line  *)
(* process starts an attempt, draws its picture, refreshes it a bounded    *)
(* number of times and cancels it at the end.  A request travels over      *)
(* loopback HTTP; the process gives it up after its timeout, although the  *)
(* runner may still read it, work on it and answer to nobody.  A process   *)
(* may be killed.                                                          *)
(***************************************************************************)
EXTENDS TerminalQrAttempts

CONSTANTS
    Clients,       \* command line processes
    NoClient,
    ClientPlatform,\* the platform each logs in to
    MaxRefreshes,  \* MAX_REFRESHES
    MaxMissed,     \* bound: starts and cancels given up in a behaviour
    MaxKills       \* bound: processes killed in a behaviour

ASSUME LoginAssumption ==
    /\ NoClient \notin Clients
    /\ ClientPlatform \in [Clients -> Platforms]
    /\ MaxRefreshes \in Nat /\ MaxMissed \in Nat /\ MaxKills \in Nat

VARIABLES
    stage,     \* what each process does: the request it waits for, or drawing
    known,     \* attempt_token of each process
    refreshes, \* refresh_index of each process
    inbox,     \* requests the runner has not read
    serving,   \* whose request each thread handles
    missed,    \* starts and cancels given up so far
    kills      \* processes killed so far

loginVars == <<stage, known, refreshes, missed, kills>>
wireVars  == <<inbox, serving>>
allVars   == <<vars, loginVars, wireVars>>

-----------------------------------------------------------------------------
Stage == {"begin", "start", "draw", "refresh", "cancel", "exited"}

LoginTypeOK ==
    /\ TypeOK
    /\ stage \in [Clients -> Stage]
    /\ known \in [Clients -> Tokens \cup {NoToken}]
    /\ refreshes \in [Clients -> 0 .. MaxRefreshes]
    /\ inbox \subseteq Clients \X Request
    /\ serving \in [Workers -> Clients \cup {NoClient}]
    /\ missed \in 0 .. MaxMissed
    /\ kills \in 0 .. MaxKills

LoginInit ==
    /\ Init
    /\ stage = [c \in Clients |-> "begin"]
    /\ known = [c \in Clients |-> NoToken]
    /\ refreshes = [c \in Clients |-> 0]
    /\ inbox = {}
    /\ serving = [w \in Workers |-> NoClient]
    /\ missed = 0
    /\ kills = 0

\* The process posts a request and waits for its answer.
Post(c, call) ==
    /\ stage' = [stage EXCEPT ![c] = call]
    /\ inbox' = inbox \cup
          {<<c, [kind |-> call, platform |-> ClientPlatform[c], token |-> known[c]]>>}

-----------------------------------------------------------------------------
(* The command line process. *)

StartLogin(c) ==
    /\ stage[c] = "begin"
    /\ Post(c, "start")
    /\ UNCHANGED <<vars, serving, known, refreshes, missed, kills>>

\* Draw the picture, wait, refresh.  A picture that cannot be drawn and the last
\* refresh end in a cancel.
Draw(c) ==
    /\ stage[c] = "draw"
    /\ \/ /\ refreshes[c] < MaxRefreshes
          /\ refreshes' = [refreshes EXCEPT ![c] = @ + 1]
          /\ Post(c, "refresh")
       \/ Post(c, "cancel") /\ UNCHANGED refreshes
    /\ UNCHANGED <<vars, serving, known, missed, kills>>

\* Variant: a refresh that fails ends the process at once.
Proceed_NoCancel(c, what, t) ==
    /\ stage' = [stage EXCEPT ![c] = IF what = "qr" THEN "draw" ELSE "exited"]
    /\ known' = [known EXCEPT ![c] = IF what = "qr" THEN t ELSE @]
    /\ UNCHANGED inbox

\* Variant: a refresh that fails is repeated.
Proceed_Retry(c, what, t) ==
    IF what = "qr"
    THEN /\ stage' = [stage EXCEPT ![c] = "draw"]
         /\ known' = [known EXCEPT ![c] = t]
         /\ UNCHANGED inbox
    ELSE /\ IF stage[c] = "refresh" THEN Post(c, "refresh")
            ELSE stage' = [stage EXCEPT ![c] = "exited"] /\ UNCHANGED inbox
         /\ UNCHANGED known

\* The answer to the request the process waits for.  What is no picture ends the
\* login: a refresh's with a cancel, a start's and a cancel's at once.
Proceed(c, what, t) ==
    IF what = "qr"
    THEN /\ stage' = [stage EXCEPT ![c] = "draw"]
         /\ known' = [known EXCEPT ![c] = t]
         /\ UNCHANGED inbox
    ELSE /\ IF stage[c] = "refresh" THEN Post(c, "cancel")
            ELSE stage' = [stage EXCEPT ![c] = "exited"] /\ UNCHANGED inbox
         /\ UNCHANGED known

\* The timeout, or a connection that breaks: to the process a rejection.
GiveUp(c) ==
    /\ \/ stage[c] = "refresh" /\ UNCHANGED missed
       \/ stage[c] \in {"start", "cancel"} /\ missed < MaxMissed /\ missed' = missed + 1
    /\ Proceed(c, "rejected", NoToken)
    /\ UNCHANGED <<vars, serving, refreshes, kills>>

Kill(c) ==
    /\ stage[c] \notin {"begin", "exited"}
    /\ kills < MaxKills
    /\ kills' = kills + 1
    /\ stage' = [stage EXCEPT ![c] = "exited"]
    /\ UNCHANGED <<vars, wireVars, known, refreshes, missed>>

-----------------------------------------------------------------------------
(* Between the processes and the runner. *)

\* A request nobody waits for any more may be dropped instead of read.
Abandoned(m) == stage[m[1]] # m[2].kind

Drop ==
    /\ \E m \in inbox : Abandoned(m) /\ inbox' = inbox \ {m}
    /\ UNCHANGED <<vars, serving, loginVars>>

Serve(w) ==
    /\ \E m \in inbox :
          /\ Receive(w, m[2])
          /\ inbox' = inbox \ {m}
          /\ serving' = [serving EXCEPT ![w] = m[1]]
    /\ UNCHANGED loginVars

\* The answer reaches the process if it still waits for it.
Deliver(w) ==
    LET c == serving[w]
    IN  /\ Reply(w)
        /\ serving' = [serving EXCEPT ![w] = NoClient]
        /\ IF stage[c] = asked[w].kind THEN Proceed(c, answer[w], asked[w].token)
           ELSE UNCHANGED <<stage, known, inbox>>
        /\ UNCHANGED <<refreshes, missed, kills>>

LoginNext ==
    \/ \E c \in Clients : StartLogin(c) \/ Draw(c) \/ GiveUp(c) \/ Kill(c)
    \/ Drop
    \/ \E w \in Workers : Serve(w) \/ Deliver(w)
    \/ (ProcessStep \/ Tick) /\ UNCHANGED <<loginVars, wireVars>>

LoginSpec == LoginInit /\ [][LoginNext]_allVars

\* The runner reads and answers what reaches it, processes run on, time passes.
FairLoginSpec ==
    /\ LoginSpec
    /\ \A c \in Clients : WF_allVars(Draw(c))
    /\ \A w \in Workers :
          /\ WF_allVars((HandlerStep(w) \/ Close(w) \/ Release(w))
                        /\ UNCHANGED <<loginVars, wireVars>>)
          /\ WF_allVars(Deliver(w))
    /\ WF_allVars(\E w \in Workers : Serve(w))
    /\ \A a \in Attempts : WF_allVars((Wake(a) \/ Close(a) \/ Release(a))
                                      /\ UNCHANGED <<loginVars, wireVars>>)
    /\ WF_allVars(Tick /\ UNCHANGED <<loginVars, wireVars>>)

-----------------------------------------------------------------------------
(* What a login promises. *)

\* A process that runs knows the attempt, or its token is on the way to one.
CanBeCancelled(a) ==
    \/ \E c \in Clients : /\ stage[c] # "exited"
                          /\ known[c] # NoToken
                          /\ attempts[known[c]] = a
    \/ \E w \in Workers : /\ at[w] \in {"schedule", "reply"}
                          /\ asked[w].kind = "start"
                          /\ subject[w] = a
                          /\ stage[serving[w]] = "start"

\* Attempts in the map that nobody will cancel are due to starts and cancels given
\* up and processes killed, one each: neither a refresh that goes unanswered nor
\* any other error path of the command line forgets one.
OrphansWereMissed ==
    Cardinality({a \in Live : ~CanBeCancelled(a)}) <= missed + kills

\* Whatever the threads, the mutex and the slots are busy with, a login that has
\* begun comes to its end.
LoginsEnd == \A c \in Clients : stage[c] = "start" ~> stage[c] = "exited"
=============================================================================
