------------------------ MODULE RunnerPublishProofs ------------------------
(***************************************************************************)
(* Proofs about RunnerPublish for every choice of platforms, attempts and  *)
(* bounds: its types, its safety properties, and that it implements        *)
(* PublishExchange.                                                        *)
(***************************************************************************)
EXTENDS RunnerPublish, TLAPS

-----------------------------------------------------------------------------
(* The flow of steps. *)

LEMMA FlowFacts ==
    /\ Len(Flow) = 17
    /\ \A i \in 1 .. 17 :
          /\ Flow[i] = "act" <=> i = 17
          /\ Flow[i] = "ready" <=> i = 16
          /\ Flow[i] = "panel" <=> i = 15
          /\ Flow[i] = "unmarked" <=> i = 14
          /\ Flow[i] = "fanqie_upload" <=> i = 12
          /\ Flow[i] = "wechat_upload" <=> i = 10
          /\ Flow[i] = "douyin_preview" <=> i = 6
          /\ Flow[i] = "bilibili_upload" <=> i = 3
  BY DEF Flow

LEMMA TakesFacts ==
    ASSUME NEW r
    PROVE  /\ Takes(r, "ready") <=>
                 r.platform \in {"fanqie", "kuaishou", "baijiahao", "toutiao"}
           /\ Takes(r, "unmarked") <=> r.platform # "fanqie"
           /\ Takes(r, "bilibili_upload") <=> r.platform = "bilibili"
           /\ Takes(r, "douyin_preview") <=> r.platform = "douyin"
           /\ Takes(r, "wechat_upload") <=> r.platform = "wechat"
           /\ Takes(r, "fanqie_upload") <=> r.platform = "fanqie"
  BY DEF Takes

-----------------------------------------------------------------------------
(* Types. *)

LEMMA TypesInit == Init => TypeOK
<1> SUFFICES ASSUME Init PROVE TypeOK
  OBVIOUS
<1>1. clicked \in [{"draft", "submit"} -> Nat]
  BY DEF Init
<1>2. /\ n \in 1 .. Len(Flow)
      /\ polls \in Nat
      /\ notices \in 0 .. MaxNotices
      /\ layouts \in 0 .. MaxLayouts
      /\ misses \in 0 .. MaxMisses
  BY ExchangeAssumption, FlowFacts DEF ExchangeAssumption, Init
<1> QED
  BY <1>1, <1>2 DEF Init, TypeOK, At, Verdict, Marker

LEMMA TypesStep == TypeOK /\ [Next]_vars => TypeOK'
<1> SUFFICES ASSUME TypeOK, [Next]_vars
             PROVE  TypeOK'
  OBVIOUS
<1> USE ExchangeAssumption, FlowFacts
    DEF ExchangeAssumption, TypeOK, At, Astray, Working, Verdict, Marker, clientVars, workVars, pageVars
<1>1. CASE Client
  BY <1>1 DEF Client, Send, GiveUp
<1>2. CASE Undelivered \/ Crash
  BY <1>2 DEF Undelivered, Crash
<1>3. CASE Receive \/ Stage \/ StageFails \/ Check \/ CheckFails
  BY <1>3 DEF Receive, Stage, StageFails, Check, CheckFails, Conclude, Executed
<1>4. CASE OpenSession
  BY <1>4 DEF OpenSession
<1>5. CASE OpenFails
  BY <1>5 DEF OpenFails, Executed
<1>6. CASE Step
  BY <1>6 DEF Step, Unseen
<1>7. CASE Poll \/ StepFails
  BY <1>7 DEF Poll, StepFails
<1>8. CASE Act \/ ActReplyLost
  BY <1>8 DEF Act, ActReplyLost, Click, Action
<1>9. CASE Acknowledge \/ AwaitAcknowledgement \/ Unacknowledged
  BY <1>9 DEF Acknowledge, AwaitAcknowledgement, Unacknowledged, Unseen
<1>10. CASE CloseSession \/ CloseFails \/ Unstage \/ UnstageFails
  BY <1>10 DEF CloseSession, CloseFails, Unstage, UnstageFails, Executed, Conclude
<1>11. CASE Reply \/ ReplyLost
  BY <1>11 DEF Reply, ReplyLost
<1>12. CASE Page
  <2>1. CASE FinishUpload
    BY <2>1 DEF FinishUpload, PageUnchanged
  <2>2. CASE ShowMarker
    BY <2>2 DEF ShowMarker, PageUnchanged
  <2>3. CASE HideMarker
    BY <2>3 DEF HideMarker, PageUnchanged
  <2>4. CASE ChangeFooter
    BY <2>4 DEF ChangeFooter, PageUnchanged
  <2> QED
    BY <1>12, <2>1, <2>2, <2>3, <2>4 DEF Page
<1>13. CASE UNCHANGED vars
  BY <1>13 DEF vars
<1> QED
  BY <1>1, <1>2, <1>3, <1>4, <1>5, <1>6, <1>7, <1>8, <1>9, <1>10, <1>11, <1>12, <1>13
  DEF Next, Handler

\* Every variable keeps its type.
THEOREM ExchangeTypes == Spec => []TypeOK
<1>1. Init => TypeOK
  BY TypesInit
<1>2. TypeOK /\ [Next]_vars => TypeOK'
  BY TypesStep
<1> QED
  BY <1>1, <1>2, PTL DEF Spec

-----------------------------------------------------------------------------
(* Where the request is, what it holds, what it has done. *)

\* A session is open from its creation to its close; the action is clicked once,
\* inside it.
Phases ==
    /\ at \in {"unsent", "sent", "stage", "check", "open"} =>
          session = "none" /\ Clicks = 0 /\ verdict = "none"
    /\ at \in {"form", "ack", "close"} => session = "open"
    /\ at = "form" => Clicks = 0 /\ verdict = "none"
    /\ at = "ack" => Clicks = 1 /\ verdict = "none"
    /\ at \in {"unstage", "answer", "done"} => session # "open"
    /\ session = "abandoned" => at = "done"
    /\ Clicks <= 1

LEMMA PhasesStep == TypeOK /\ Phases /\ [Next]_vars => Phases'
<1> SUFFICES ASSUME TypeOK, Phases, [Next]_vars
             PROVE  Phases'
  OBVIOUS
<1> USE DEF TypeOK, At, Astray, Working, Phases, Clicks, clientVars, workVars, pageVars
<1>1. CASE Client
  BY <1>1 DEF Client, Send, GiveUp
<1>2. CASE Undelivered \/ Crash
  BY <1>2 DEF Undelivered, Crash
<1>3. CASE Receive \/ Stage \/ StageFails \/ Check \/ CheckFails
  BY <1>3 DEF Receive, Stage, StageFails, Check, CheckFails, Conclude, Executed
<1>4. CASE OpenSession \/ OpenFails
  BY <1>4 DEF OpenSession, OpenFails, Executed
<1>5. CASE Step
  BY <1>5 DEF Step, Unseen
<1>6. CASE Poll \/ StepFails
  BY <1>6 DEF Poll, StepFails
<1>7. CASE Act \/ ActReplyLost
  BY <1>7 DEF Act, ActReplyLost, Click, Action
<1>8. CASE Acknowledge \/ AwaitAcknowledgement \/ Unacknowledged
  BY <1>8 DEF Acknowledge, AwaitAcknowledgement, Unacknowledged, Unseen
<1>9. CASE CloseSession \/ CloseFails \/ Unstage \/ UnstageFails
  BY <1>9 DEF CloseSession, CloseFails, Unstage, UnstageFails, Executed, Conclude
<1>10. CASE Reply \/ ReplyLost
  BY <1>10 DEF Reply, ReplyLost
<1>11. CASE Page
  BY <1>11 DEF Page, FinishUpload, ShowMarker, HideMarker, ChangeFooter, PageUnchanged
<1>12. CASE UNCHANGED vars
  BY <1>12 DEF vars
<1> QED
  BY <1>1, <1>2, <1>3, <1>4, <1>5, <1>6, <1>7, <1>8, <1>9, <1>10, <1>11, <1>12
  DEF Next, Handler

\* The staged copy exists from staging to its removal.
Copies ==
    /\ at \in {"unsent", "sent", "stage"} => file = "none"
    /\ at = "stage" => request.remote
    /\ at \in {"check", "open", "form", "ack", "close"} =>
          file = IF request.remote THEN "staged" ELSE "none"
    /\ at = "unstage" => file = "staged"
    /\ at \in {"answer", "done"} => file # "staged"
    /\ file = "abandoned" => at = "done"

LEMMA CopiesStep == Copies /\ [Next]_vars => Copies'
<1> SUFFICES ASSUME Copies, [Next]_vars
             PROVE  Copies'
  OBVIOUS
<1> USE DEF Copies, Working, clientVars, workVars, pageVars
<1>1. CASE Client
  BY <1>1 DEF Client, Send, GiveUp
<1>2. CASE Undelivered \/ Crash
  BY <1>2 DEF Undelivered, Crash
<1>3. CASE Receive \/ Stage \/ StageFails \/ Check \/ CheckFails
  BY <1>3 DEF Receive, Stage, StageFails, Check, CheckFails, Conclude, Executed
<1>4. CASE OpenSession \/ OpenFails
  BY <1>4 DEF OpenSession, OpenFails, Executed
<1>5. CASE Step
  BY <1>5 DEF Step, Unseen
<1>6. CASE Poll \/ StepFails
  BY <1>6 DEF Poll, StepFails
<1>7. CASE Act \/ ActReplyLost
  BY <1>7 DEF Act, ActReplyLost, Click, Action
<1>8. CASE Acknowledge \/ AwaitAcknowledgement \/ Unacknowledged
  BY <1>8 DEF Acknowledge, AwaitAcknowledgement, Unacknowledged, Unseen
<1>9. CASE CloseSession \/ CloseFails \/ Unstage \/ UnstageFails
  BY <1>9 DEF CloseSession, CloseFails, Unstage, UnstageFails, Executed, Conclude
<1>10. CASE Reply \/ ReplyLost
  BY <1>10 DEF Reply, ReplyLost
<1>11. CASE Page
  BY <1>11 DEF Page, FinishUpload, ShowMarker, HideMarker, ChangeFooter, PageUnchanged
<1>12. CASE UNCHANGED vars
  BY <1>12 DEF vars
<1> QED
  BY <1>1, <1>2, <1>3, <1>4, <1>5, <1>6, <1>7, <1>8, <1>9, <1>10, <1>11, <1>12
  DEF Next, Handler

\* What the handler's outcome says of the work done so far.
Outcomes ==
    /\ verdict = "queued" =>
          /\ at \in {"close", "unstage", "answer", "done"}
          /\ Clicks = 1 /\ acked # "none"
          /\ at \in {"unstage", "answer"} => session = "closed"
          /\ at = "answer" => file \in {"none", "removed"}
    /\ verdict = "refused" =>
          at \in {"unstage", "answer", "done"} /\ session = "none" /\ Clicks = 0
    /\ verdict = "unavailable" => at \in {"answer", "done"} /\ Clicks = 0
    /\ session = "left" \/ file = "left" => verdict = "rejected"

LEMMA OutcomesStep == TypeOK /\ Phases /\ Copies /\ Outcomes /\ [Next]_vars => Outcomes'
<1> SUFFICES ASSUME TypeOK, Phases, Copies, Outcomes, [Next]_vars
             PROVE  Outcomes'
  OBVIOUS
<1> USE DEF Phases, Copies, Outcomes, Working, Clicks, clientVars, workVars, pageVars
<1>1. CASE Client
  BY <1>1 DEF Client, Send, GiveUp
<1>2. CASE Undelivered \/ Crash
  BY <1>2 DEF Undelivered, Crash
<1>3. CASE Receive \/ Stage \/ StageFails \/ Check \/ CheckFails
  BY <1>3 DEF Receive, Stage, StageFails, Check, CheckFails, Conclude, Executed
<1>4. CASE OpenSession \/ OpenFails
  BY <1>4 DEF OpenSession, OpenFails, Executed
<1>5. CASE Step
  BY <1>5 DEF Step, Unseen
<1>6. CASE Poll \/ StepFails
  BY <1>6 DEF Poll, StepFails
<1>7. CASE Act \/ ActReplyLost
  BY <1>7 DEF Act, ActReplyLost, Click, Action
<1>8. CASE Acknowledge \/ AwaitAcknowledgement \/ Unacknowledged
  BY <1>8 DEF Acknowledge, AwaitAcknowledgement, Unacknowledged, Unseen
<1>9. CASE CloseSession \/ CloseFails \/ Unstage \/ UnstageFails
  BY <1>9 DEF CloseSession, CloseFails, Unstage, UnstageFails, Executed, Conclude
<1>10. CASE Reply \/ ReplyLost
  BY <1>10 DEF Reply, ReplyLost
<1>11. CASE Page
  BY <1>11 DEF Page, FinishUpload, ShowMarker, HideMarker, ChangeFooter, PageUnchanged
<1>12. CASE UNCHANGED vars
  BY <1>12 DEF vars
<1> QED
  BY <1>1, <1>2, <1>3, <1>4, <1>5, <1>6, <1>7, <1>8, <1>9, <1>10, <1>11, <1>12
  DEF Next, Handler

\* What the client was told says the same.
Answers ==
    /\ told \in {"queued", "refused", "unavailable"} => at = "done"
    /\ told = "unavailable" => Clicks = 0
    /\ at = "unsent" => told = "none"
    /\ session \in Astray \/ file \in Astray => told \in {"none", "rejected"}
    /\ QueuedIsComplete
    /\ RefusedIsUntouched

LEMMA AnswersStep == TypeOK /\ Phases /\ Copies /\ Outcomes /\ Answers /\ [Next]_vars => Answers'
<1> SUFFICES ASSUME TypeOK, Phases, Copies, Outcomes, Answers, [Next]_vars
             PROVE  Answers'
  OBVIOUS
<1> USE DEF TypeOK, Verdict, Astray, Phases, Copies, Outcomes, Answers, QueuedIsComplete, RefusedIsUntouched, Working, Clicks,
            clientVars, workVars, pageVars
<1>1. CASE Client
  BY <1>1 DEF Client, Send, GiveUp
<1>2. CASE Undelivered \/ Crash
  BY <1>2 DEF Undelivered, Crash
<1>3. CASE Receive \/ Stage \/ StageFails \/ Check \/ CheckFails
  BY <1>3 DEF Receive, Stage, StageFails, Check, CheckFails, Conclude, Executed
<1>4. CASE OpenSession \/ OpenFails
  BY <1>4 DEF OpenSession, OpenFails, Executed
<1>5. CASE Step
  BY <1>5 DEF Step, Unseen
<1>6. CASE Poll \/ StepFails
  BY <1>6 DEF Poll, StepFails
<1>7. CASE Act \/ ActReplyLost
  BY <1>7 DEF Act, ActReplyLost, Click, Action
<1>8. CASE Acknowledge \/ AwaitAcknowledgement \/ Unacknowledged
  BY <1>8 DEF Acknowledge, AwaitAcknowledgement, Unacknowledged, Unseen
<1>9. CASE CloseSession \/ CloseFails \/ Unstage \/ UnstageFails
  BY <1>9 DEF CloseSession, CloseFails, Unstage, UnstageFails, Executed, Conclude
<1>10. CASE Reply \/ ReplyLost
  BY <1>10 DEF Reply, ReplyLost
<1>11. CASE Page
  BY <1>11 DEF Page, FinishUpload, ShowMarker, HideMarker, ChangeFooter, PageUnchanged
<1>12. CASE UNCHANGED vars
  BY <1>12 DEF vars
<1> QED
  BY <1>1, <1>2, <1>3, <1>4, <1>5, <1>6, <1>7, <1>8, <1>9, <1>10, <1>11, <1>12
  DEF Next, Handler

-----------------------------------------------------------------------------
(* Uploads, drafts and old messages. *)

\* Which steps change what the invariants below speak of.
LEMMA Frame ==
  ASSUME TypeOK, [Next]_vars
  PROVE  /\ request' = request
         /\ Step \/ (n' = n /\ probed' = probed)
         /\ Act \/ ActReplyLost \/ clicked' = clicked
         /\ Acknowledge \/ acked' = acked
         /\ Send \/ GiveUp \/ Reply \/ told' = told
         /\ ShowMarker \/ HideMarker \/ marker' = marker
         /\ uploaded => uploaded'
         /\ misses > 0 => misses' > 0
         /\ Check \/ at' \notin {"open", "form"} \/ at \in {"open", "form"}
<1> USE DEF clientVars, workVars, pageVars
<1>1. CASE Client
  BY <1>1 DEF Client, Send, GiveUp
<1>2. CASE Undelivered \/ Crash
  BY <1>2 DEF Undelivered, Crash
<1>3. CASE Receive \/ Stage \/ StageFails \/ Check \/ CheckFails
  BY <1>3 DEF Receive, Stage, StageFails, Check, CheckFails, Conclude, Executed
<1>4. CASE OpenSession \/ OpenFails
  BY <1>4 DEF OpenSession, OpenFails, Executed
<1>5. CASE Step
  BY <1>5, ExchangeAssumption DEF Step, Unseen, TypeOK, ExchangeAssumption
<1>6. CASE Poll \/ StepFails
  BY <1>6 DEF Poll, StepFails
<1>7. CASE Act \/ ActReplyLost
  BY <1>7 DEF Act, ActReplyLost
<1>8. CASE Acknowledge \/ AwaitAcknowledgement \/ Unacknowledged
  BY <1>8, ExchangeAssumption
  DEF Acknowledge, AwaitAcknowledgement, Unacknowledged, Unseen, TypeOK, ExchangeAssumption
<1>9. CASE CloseSession \/ CloseFails \/ Unstage \/ UnstageFails
  BY <1>9 DEF CloseSession, CloseFails, Unstage, UnstageFails, Executed, Conclude
<1>10. CASE Reply \/ ReplyLost
  BY <1>10 DEF Reply, ReplyLost
<1>11. CASE Page
  BY <1>11 DEF Page, FinishUpload, ShowMarker, HideMarker, ChangeFooter, PageUnchanged
<1>12. CASE UNCHANGED vars
  BY <1>12 DEF vars
<1> QED
  BY <1>1, <1>2, <1>3, <1>4, <1>5, <1>6, <1>7, <1>8, <1>9, <1>10, <1>11, <1>12
  DEF Next, Handler

\* A step leaves behind only its own place in the flow and what is not asked for.
LEMMA StepPasses ==
  ASSUME TypeOK, Step, NEW m \in 1 .. 17, m < n', Takes(request, Flow[m])
  PROVE  m <= n
  BY FlowFacts DEF TypeOK, Step, Follows

\* Where the workflow waits for the media, by platform.
AwaitedAt(platform) ==
    CHOOSE m \in 1 .. 17 :
        /\ platform = "bilibili" => m = 3
        /\ platform = "douyin" => m = 6
        /\ platform = "wechat" => m = 10
        /\ platform = "fanqie" => m = 12
        /\ platform = "kuaishou" => m = 16

Awaiting == {"bilibili", "douyin", "wechat", "fanqie", "kuaishou"}

LEMMA AwaitedFacts ==
  ASSUME request.platform \in Awaiting
  PROVE  /\ AwaitedAt(request.platform) \in 1 .. 17
         /\ Takes(request, Flow[AwaitedAt(request.platform)])
         /\ AwaitsUpload(Flow[AwaitedAt(request.platform)])
<1> DEFINE p == request.platform
<1>1. CASE p = "bilibili"
  <2>1. AwaitedAt(p) = 3
    BY <1>1 DEF AwaitedAt
  <2> QED
    BY <1>1, <2>1, FlowFacts DEF Takes, AwaitsUpload
<1>2. CASE p = "douyin"
  <2>1. AwaitedAt(p) = 6
    BY <1>2 DEF AwaitedAt
  <2> QED
    BY <1>2, <2>1, FlowFacts DEF Takes, AwaitsUpload
<1>3. CASE p = "wechat"
  <2>1. AwaitedAt(p) = 10
    BY <1>3 DEF AwaitedAt
  <2> QED
    BY <1>3, <2>1, FlowFacts DEF Takes, AwaitsUpload
<1>4. CASE p = "fanqie"
  <2>1. AwaitedAt(p) = 12
    BY <1>4 DEF AwaitedAt
  <2> QED
    BY <1>4, <2>1, FlowFacts DEF Takes, AwaitsUpload
<1>5. CASE p = "kuaishou"
  <2>1. AwaitedAt(p) = 16
    BY <1>5 DEF AwaitedAt
  <2> QED
    BY <1>5, <2>1, FlowFacts DEF Takes, AwaitsUpload
<1> QED
  BY <1>1, <1>2, <1>3, <1>4, <1>5 DEF Awaiting

\* Behind that place the media is there; the click comes at the end.
Uploads ==
    /\ request.platform \in Awaiting /\ n > AwaitedAt(request.platform) => uploaded
    /\ Clicks > 0 => n = 17

LEMMA UploadsStep == TypeOK /\ Phases /\ Uploads /\ [Next]_vars => Uploads'
<1> SUFFICES ASSUME TypeOK, Phases, Uploads, [Next]_vars
             PROVE  Uploads'
  OBVIOUS
<1>1. request' = request /\ (uploaded => uploaded')
  BY Frame
<1>2. CASE Step
  <2>1. Clicks' = Clicks /\ Clicks = 0
    BY <1>2 DEF Step, Phases, Clicks
  <2>2. ASSUME request.platform \in Awaiting, n' > AwaitedAt(request.platform)
        PROVE  uploaded
    <3>1. PICK m \in 1 .. 17 : /\ m = AwaitedAt(request.platform)
                               /\ Takes(request, Flow[m]) /\ AwaitsUpload(Flow[m])
      BY <2>2, AwaitedFacts
    <3>2. n \in 1 .. 17 /\ n' \in Int
      BY <1>2, FlowFacts DEF TypeOK, Step
    <3>3. m <= n
      BY <1>2, <2>2, <3>1, <3>2, StepPasses
    <3>4. CASE m = n
      BY <1>2, <3>1, <3>4 DEF Step, Passable, Current
    <3>5. CASE m < n
      BY <2>2, <3>1, <3>2, <3>5 DEF Uploads
    <3> QED
      BY <3>1, <3>2, <3>3, <3>4, <3>5
  <2>3. ~(Clicks' > 0)
    BY <2>1
  <2>4. uploaded' = uploaded
    BY <1>2 DEF Step
  <2> QED
    BY <1>1, <2>2, <2>3, <2>4 DEF Uploads
<1>3. CASE Act \/ ActReplyLost
  <2>1. n' = n /\ n = 17
    BY <1>3, FlowFacts DEF Act, ActReplyLost, workVars, Current, TypeOK
  <2> QED
    BY <1>1, <2>1 DEF Uploads
<1>4. CASE ~Step /\ ~Act /\ ~ActReplyLost
  <2>1. n' = n /\ clicked' = clicked
    BY <1>4, Frame
  <2>2. Clicks' = Clicks
    BY <2>1 DEF Clicks
  <2> QED
    BY <1>1, <2>1, <2>2 DEF Uploads
<1> QED
  BY <1>2, <1>3, <1>4

\* Drafts on their way have a draft action, or a footer that was seen without one.
Drafts ==
    /\ at \in {"open", "form"} => ~(request.draft /\ request.platform \in NoDrafts)
    /\ n = 17 /\ request.platform = "toutiao" => probed # "none"
    /\ DraftsAreKept

LEMMA DraftsStep == TypeOK /\ Phases /\ Drafts /\ [Next]_vars => Drafts'
<1> SUFFICES ASSUME TypeOK, Phases, Drafts, [Next]_vars
             PROVE  Drafts'
  OBVIOUS
<1>1. /\ request' = request
      /\ at' \in {"open", "form"} => ~(request.draft /\ request.platform \in NoDrafts)
  BY Frame DEF Drafts, Check
<1>2. CASE Step
  <2>1. clicked' = clicked /\ at = "form"
    BY <1>2 DEF Step
  <2>2. clicked["submit"] = 0
    BY <2>1 DEF Phases, Clicks, TypeOK
  <2>3. ASSUME n' = 17, request.platform = "toutiao"
        PROVE  probed' # "none"
    <3>1. Takes(request, Flow[16])
      BY <2>3, FlowFacts DEF Takes
    <3>2. n \in 1 .. 17 /\ Current # "act"
      BY <1>2, FlowFacts DEF TypeOK, Step
    <3>3. n >= 16
      BY <1>2, <2>3, <3>1, StepPasses
    <3>4. n = 16 /\ Current = "ready"
      BY <3>2, <3>3, FlowFacts DEF Current
    <3> QED
      BY <1>2, <2>3, <3>4 DEF Step, Passable
  <2> QED
    BY <1>1, <2>1, <2>2, <2>3 DEF Drafts, DraftsAreKept
<1>3. CASE Act \/ ActReplyLost
  <2>1. /\ at = "form" /\ n = 17 /\ n' = n /\ probed' = probed
        /\ clicked' = [clicked EXCEPT ![Action] = @ + 1]
    BY <1>3, FlowFacts DEF Act, ActReplyLost, Click, workVars, Current, TypeOK
  <2>2. clicked["submit"] = 0
    BY <2>1 DEF Phases, Clicks, TypeOK
  <2>3. ASSUME request.draft, clicked'["submit"] > 0
        PROVE  request.platform = "toutiao" /\ probed = "vertical"
    <3>1. Action = "submit"
      BY <2>1, <2>2, <2>3 DEF TypeOK, Action
    <3>2. request.platform \notin NoDrafts
      BY <2>1, <2>3 DEF Drafts
    <3>3. request.platform = "toutiao" /\ probed # "horizontal"
      BY <2>3, <3>1, <3>2 DEF Action
    <3> QED
      BY <2>1, <3>3 DEF Drafts, TypeOK
  <2> QED
    BY <1>1, <2>1, <2>3 DEF Drafts, DraftsAreKept
<1>4. CASE ~Step /\ ~Act /\ ~ActReplyLost
  <2>1. n' = n /\ probed' = probed /\ clicked' = clicked
    BY <1>4, Frame
  <2> QED
    BY <1>1, <2>1 DEF Drafts, DraftsAreKept
<1> QED
  BY <1>2, <1>3, <1>4

\* An old message behind the check was missed by it.
Markers ==
    /\ marker = "old" /\ n > 14 => misses > 0 \/ request.platform = "fanqie"
    /\ OldMarkersAreCaught

LEMMA MarkersStep == TypeOK /\ Phases /\ Uploads /\ Markers /\ [Next]_vars => Markers'
<1> SUFFICES ASSUME TypeOK, Phases, Uploads, Markers, [Next]_vars
             PROVE  Markers'
  OBVIOUS
<1>1. request' = request /\ (misses > 0 => misses' > 0)
  BY Frame
<1>2. CASE Step
  <2>1. marker' = marker /\ acked' = acked
    BY <1>2 DEF Step
  <2>2. ASSUME marker = "old", n' > 14, request.platform # "fanqie"
        PROVE  misses' > 0
    <3>1. Takes(request, Flow[14])
      BY <2>2, FlowFacts DEF Takes
    <3>2. n \in 1 .. 17 /\ n' \in Int
      BY <1>2, FlowFacts DEF TypeOK, Step
    <3>3. n >= 14
      BY <1>2, <2>2, <3>1, <3>2, StepPasses
    <3>4. CASE n = 14
      <4>1. Current = "unmarked"
        BY <3>4, FlowFacts DEF Current
      <4>2. Unseen
        BY <1>2, <4>1 DEF Step
      <4>3. misses' = misses + 1 /\ misses \in Nat
        BY <2>2, <4>2, ExchangeAssumption DEF Unseen, TypeOK, ExchangeAssumption
      <4> QED
        BY <4>3
    <3>5. CASE n > 14
      BY <1>1, <2>2, <3>5 DEF Markers
    <3> QED
      BY <3>2, <3>3, <3>4, <3>5
  <2> QED
    BY <1>1, <2>1, <2>2 DEF Markers, OldMarkersAreCaught
<1>3. CASE Acknowledge
  <2>1. /\ at = "ack" /\ acked' = marker /\ marker' = marker
        /\ n' = n /\ misses' = misses
    BY <1>3 DEF Acknowledge, pageVars
  <2>2. n = 17
    BY <2>1 DEF Phases, Uploads
  <2> QED
    BY <1>1, <2>1, <2>2 DEF Markers, OldMarkersAreCaught
<1>4. CASE ShowMarker
  <2>1. n' = n /\ acked' = acked /\ misses' = misses
    BY <1>4 DEF ShowMarker, PageUnchanged, workVars
  <2>2. ASSUME n > 14 PROVE marker' # "old"
    <3>1. Current \in {"panel", "ready", "act"}
      BY <2>2, FlowFacts DEF Current, TypeOK
    <3> QED
      BY <1>4, <3>1 DEF ShowMarker
  <2> QED
    BY <1>1, <2>1, <2>2 DEF Markers, OldMarkersAreCaught
<1>5. CASE HideMarker
  <2>1. marker' = "none" /\ acked' = acked
    BY <1>5 DEF HideMarker, PageUnchanged, workVars
  <2> QED
    BY <1>1, <2>1 DEF Markers, OldMarkersAreCaught
<1>6. CASE ~Step /\ ~Acknowledge /\ ~ShowMarker /\ ~HideMarker
  <2>1. n' = n /\ acked' = acked /\ marker' = marker
    BY <1>6, Frame
  <2> QED
    BY <1>1, <2>1 DEF Markers, OldMarkersAreCaught
<1> QED
  BY <1>2, <1>3, <1>4, <1>5, <1>6

-----------------------------------------------------------------------------
(* The invariant and what follows from it. *)

ExchangeInvariant ==
    TypeOK /\ Phases /\ Copies /\ Outcomes /\ Answers /\ Uploads /\ Drafts /\ Markers

LEMMA InvariantInit == Init => ExchangeInvariant
<1> SUFFICES ASSUME Init PROVE ExchangeInvariant
  OBVIOUS
<1>1. TypeOK
  BY TypesInit
<1>2. Clicks = 0
  BY DEF Init, Clicks
<1>3. Phases /\ Copies /\ Outcomes /\ Answers
  BY <1>2 DEF Init, Phases, Copies, Outcomes, Answers, QueuedIsComplete, RefusedIsUntouched,
                    Astray
<1>4. Uploads
  <2>1. request.platform \in Awaiting => AwaitedAt(request.platform) \in 1 .. 17
    BY AwaitedFacts
  <2> QED
    BY <1>2, <2>1 DEF Init, Uploads
<1>5. Drafts /\ Markers
  BY DEF Init, Drafts, Markers, DraftsAreKept, OldMarkersAreCaught
<1> QED
  BY <1>1, <1>3, <1>4, <1>5 DEF ExchangeInvariant

LEMMA InvariantStep == ExchangeInvariant /\ [Next]_vars => ExchangeInvariant'
  BY TypesStep, PhasesStep, CopiesStep, OutcomesStep, AnswersStep, UploadsStep,
     DraftsStep, MarkersStep
  DEF ExchangeInvariant

LEMMA Invariant == Spec => []ExchangeInvariant
  BY InvariantInit, InvariantStep, PTL DEF Spec

\* "queued" means that the action was clicked once and acknowledged, and that the
\* session and the staged copy are gone.
THEOREM QueuedMeansComplete == Spec => []QueuedIsComplete
<1>1. ExchangeInvariant => QueuedIsComplete
  BY DEF ExchangeInvariant, Answers
<1> QED
  BY <1>1, Invariant, PTL

\* "refused" means that no session was opened.
THEOREM RefusedMeansUntouched == Spec => []RefusedIsUntouched
<1>1. ExchangeInvariant => RefusedIsUntouched
  BY DEF ExchangeInvariant, Answers
<1> QED
  BY <1>1, Invariant, PTL

\* A session works on media that is there, the handler asks for the end of both, and
\* work that left one of them behind is at most rejected.
THEOREM ResourcesScoped == Spec => []ResourcesAreScoped
<1>1. ExchangeInvariant => ResourcesAreScoped
  BY DEF ExchangeInvariant, Phases, Copies, Outcomes, Answers, ResourcesAreScoped, Astray,
         TypeOK, At, Working
<1> QED
  BY <1>1, Invariant, PTL

\* No click before the site has the media, where the runner can tell.
THEOREM UploadsComeFirst == Spec => []UploadsPrecedeActions
<1>1. ExchangeInvariant => UploadsPrecedeActions
  <2> SUFFICES ASSUME ExchangeInvariant, Clicks > 0, request.platform \in Awaiting
               PROVE  uploaded
    BY DEF UploadsPrecedeActions, Awaiting
  <2>1. n = 17
    BY DEF ExchangeInvariant, Uploads
  <2>2. AwaitedAt(request.platform) \in 1 .. 16
    BY DEF AwaitedAt, Awaiting
  <2> QED
    BY <2>1, <2>2 DEF ExchangeInvariant, Uploads
<1> QED
  BY <1>1, Invariant, PTL

\* No draft is submitted, but for Toutiao's footer without a draft action.
THEOREM DraftsStayDrafts == Spec => []DraftsAreKept
<1>1. ExchangeInvariant => DraftsAreKept
  BY DEF ExchangeInvariant, Drafts
<1> QED
  BY <1>1, Invariant, PTL

\* Uploads come first, and drafts stay drafts.
THEOREM ActionsStayDue == Spec => []ActionsAreDue
  BY UploadsComeFirst, DraftsStayDrafts, PTL DEF ActionsAreDue

\* An old message acknowledges nothing unless a lookup missed it, or on Fanqie.
THEOREM OldMarkersFail == Spec => []OldMarkersAreCaught
<1>1. ExchangeInvariant => OldMarkersAreCaught
  BY DEF ExchangeInvariant, Markers
<1> QED
  BY <1>1, Invariant, PTL

-----------------------------------------------------------------------------
(* The exchange implements its abstract specification. *)

LEMMA ExchangeInit == Init => Exchange!Init
  BY DEF Init, Exchange!Init, Clicks

LEMMA ExchangeStep ==
  ExchangeInvariant /\ [Next]_vars => [Exchange!Ask \/ Exchange!Tell]_(Exchange!vars)
<1> SUFFICES ASSUME ExchangeInvariant, [Next]_vars
             PROVE  [Exchange!Ask \/ Exchange!Tell]_(Exchange!vars)
  OBVIOUS
<1> USE DEF ExchangeInvariant
<1>1. CASE Act \/ ActReplyLost
  <2>1. at = "form" /\ told' = told /\ Clicks = 0
    BY <1>1 DEF Act, ActReplyLost, clientVars, Phases
  <2>2. Clicks' = 1
    BY <1>1, <2>1 DEF Act, ActReplyLost, Click, Action, Clicks, TypeOK
  <2>3. told \notin {"queued", "unavailable"}
    BY <2>1 DEF Answers
  <2> QED
    BY <2>1, <2>2, <2>3 DEF Exchange!Ask
<1>2. CASE Send
  BY <1>2 DEF Send, Exchange!Tell, Exchange!vars, Clicks, Phases, TypeOK, Answers
<1>3. CASE GiveUp
  BY <1>3 DEF GiveUp, Exchange!Tell, Clicks
<1>4. CASE Reply
  BY <1>4 DEF Reply, Exchange!Tell, Exchange!vars, Clicks, Outcomes, TypeOK, Verdict
<1>5. CASE ~Act /\ ~ActReplyLost /\ ~Send /\ ~GiveUp /\ ~Reply
  <2>1. clicked' = clicked
    BY <1>5, Frame
  <2>2. told' = told
    BY <1>5, Frame
  <2> QED
    BY <2>1, <2>2 DEF Exchange!vars, Clicks
<1> QED
  BY <1>1, <1>2, <1>3, <1>4, <1>5

\* The exchange implements PublishExchange: the site is asked at most once.
THEOREM ExchangeImplemented == Spec => ImplementsExchange
<1>1. Spec => []ExchangeInvariant
  BY Invariant
<1> QED
  BY <1>1, ExchangeInit, ExchangeStep, PTL DEF Spec, ImplementsExchange, Exchange!Spec
=============================================================================
