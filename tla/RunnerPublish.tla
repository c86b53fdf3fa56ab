--------------------------- MODULE RunnerPublish ---------------------------
(***************************************************************************)
(* One publication by the browser runner: the client (the daemon's runner  *)
(* provider, or the article runner of the CLI and the scheduler), the      *)
(* runner's handler with its staged media and its WebDriver session, and   *)
(* the site's page.  The handler runs on when its client has given up.     *)
(* Any WebDriver request may fail, before or after it took effect; the     *)
(* page changes by itself, or because another session drives the same      *)
(* attached browser.                                                       *)
(***************************************************************************)
EXTENDS Integers, Sequences

CONSTANTS
    Platforms,  \* the targets asked for
    MaxPolls,   \* attempts of a wait on the page
    MaxChecks,  \* attempts of the acknowledgement (60, five seconds apart)
    MaxNotices, \* bound: messages the page shows that are not about this work
    MaxLayouts, \* bound: changes of Toutiao's footer
    MaxMisses,  \* bound: lookups that miss a success message that shows
    Crashing    \* whether the runner process may die

Videos  == {"wechat", "douyin", "bilibili", "kuaishou", "toutiao", "fanqie",
            "baijiahao", "xiaohongshu"}
Article == "juejin"

ASSUME ExchangeAssumption ==
    /\ Platforms \subseteq Videos \cup {Article}
    /\ MaxPolls \in Nat \ {0}
    /\ MaxChecks \in Nat \ {0}
    /\ MaxNotices \in Nat
    /\ MaxLayouts \in Nat
    /\ MaxMisses \in Nat
    /\ Crashing \in BOOLEAN

VARIABLES
    request,   \* what the client wants published
    setup,     \* how the runner was started
    told,      \* what the client was told; its call has then returned
    at,        \* where the request is
    n,         \* the current step of the workflow
    polls,     \* attempts of the present wait so far
    probed,    \* the footer layout Toutiao's readiness probe found
    verdict,   \* the handler's outcome so far
    acked,     \* the message that was taken as acknowledgement
    file,      \* the staged copy of remote media
    session,   \* the WebDriver session
    clicked,   \* how often each publish action was clicked
    uploaded,  \* the site has processed the media
    marker,    \* the success message on the page, by when it came: "old", "late"
               \* (during the last steps before the click) or "new" (after it)
    layout,    \* Toutiao's publish footer as it is now
    notices,   \* old messages so far
    layouts,   \* changes of the footer so far
    misses     \* lookups that missed a success message so far

clientVars == <<request, setup, told>>
workVars   == <<n, polls, probed, acked>>
pageVars   == <<uploaded, marker, layout, notices, layouts, misses>>
vars == <<clientVars, at, workVars, verdict, file, session, clicked, pageVars>>

-----------------------------------------------------------------------------
(* Requests and the steps they take. *)

Request ==
    {r \in [platform : Platforms, draft : BOOLEAN, remote : BOOLEAN,
            statement : BOOLEAN, product : BOOLEAN, scheduled : BOOLEAN] :
        /\ r.draft \/ r.remote => r.platform # Article
        /\ r.scheduled => r.platform = Article
        /\ r.statement => r.platform \notin {"fanqie", Article}
        /\ r.product => r.platform = "wechat"}

Setup == [compatible : BOOLEAN, attached : BOOLEAN, staging : BOOLEAN]

\* The order of every workflow; a request takes some of the steps.  "fill" stands
\* for all texts (and the article's cover), "panel" for opening Juejin's publish
\* panel, "act" for the click on the draft or publish action.
Flow == <<"navigate", "file", "bilibili_upload", "fill", "product",
          "douyin_preview", "permission", "statement", "original",
          "wechat_upload", "cover", "fanqie_upload", "channels", "unmarked",
          "panel", "ready", "act">>

Takes(r, step) ==
    \/ step \in {"navigate", "fill", "act"}
    \/ step = "file" /\ r.platform # Article
    \/ step = "bilibili_upload" /\ r.platform = "bilibili"
    \/ step = "product" /\ r.product
    \/ step \in {"douyin_preview", "permission"} /\ r.platform = "douyin"
    \/ step = "statement" /\ r.statement
    \/ step \in {"original", "wechat_upload"} /\ r.platform = "wechat"
    \/ step = "cover" /\ r.platform = "xiaohongshu"
    \/ step \in {"fanqie_upload", "channels"} /\ r.platform = "fanqie"
    \/ step = "unmarked" /\ r.platform # "fanqie"
    \/ step = "panel" /\ r.platform = Article
    \/ step = "ready" /\ r.platform \in {"fanqie", "kuaishou", "baijiahao", "toutiao"}

Current == Flow[n]

\* The k-th step is the first one after the m-th that the request takes.
Follows(k, m) ==
    /\ Takes(request, Flow[k])
    /\ \A i \in m + 1 .. k - 1 : ~Takes(request, Flow[i])

\* Variant: Kuaishou's action is clicked without a look at the preview.
AwaitsUpload_NoPreview(step) ==
    step \in {"bilibili_upload", "douyin_preview", "wechat_upload", "fanqie_upload"}

\* These waits end when the site has processed the media.
AwaitsUpload(step) ==
    \/ step \in {"bilibili_upload", "douyin_preview", "wechat_upload", "fanqie_upload"}
    \/ step \in {"ready", "act"} /\ request.platform = "kuaishou"

\* Steps that ask the page again while it is not as they need it: looking for an
\* element, or waiting for a state.  A site's own publish script is run once.
Polls(step) ==
    /\ step \notin {"navigate", "unmarked"}
    /\ step = "act" => ~Takes(request, "ready")

\* These have one action; the runner refuses their drafts before any session.
NoDrafts == {"fanqie", "kuaishou"}

\* A draft goes to the draft action, except on a Toutiao footer that had none.
Action ==
    IF /\ request.draft /\ request.platform \notin NoDrafts
       /\ request.platform = "toutiao" => probed = "horizontal"
    THEN "draft" ELSE "submit"

\* What the page must show for the current step to pass.
Passable ==
    /\ AwaitsUpload(Current) => uploaded
    /\ request.platform = "toutiao" =>
          /\ Current \in {"ready", "act"} => layout # "none"
          /\ Current = "act" /\ Action = "draft" => layout = "horizontal"

\* A wait for what the model shows of the page goes on just as long as it must.
Watched(step) ==
    AwaitsUpload(step) \/ (step = "ready" /\ request.platform = "toutiao")


-----------------------------------------------------------------------------
Working == {"stage", "check", "open", "form", "ack", "close", "unstage", "answer"}
At      == Working \cup {"unsent", "sent", "done"}
Marker  == {"none", "old", "late", "new"}
\* A copy or a session whose end failed or that nobody could name, and one whose
\* runner died.
Astray  == {"left", "abandoned"}
Verdict == {"none", "queued", "rejected", "refused", "unavailable", "invalid"}

TypeOK ==
    /\ request \in Request
    /\ setup \in Setup
    /\ told \in Verdict \ {"invalid"}
    /\ at \in At
    /\ n \in 1 .. Len(Flow)
    /\ polls \in Nat
    /\ at = "form" => polls < MaxPolls
    /\ at = "ack" => polls < MaxChecks
    /\ probed \in {"none", "horizontal", "vertical"}
    /\ verdict \in Verdict
    /\ acked \in Marker
    /\ file \in {"none", "staged", "removed"} \cup Astray
    /\ session \in {"none", "open", "closed"} \cup Astray
    /\ clicked \in [{"draft", "submit"} -> Nat]
    /\ uploaded \in BOOLEAN
    /\ marker \in Marker
    /\ layout \in {"none", "horizontal", "vertical"}
    /\ notices \in 0 .. MaxNotices
    /\ layouts \in 0 .. MaxLayouts
    /\ misses \in 0 .. MaxMisses

Init ==
    /\ request \in Request
    /\ setup \in Setup
    /\ told = "none"
    /\ at = "unsent"
    /\ n = 1
    /\ polls = 0
    /\ probed = "none"
    /\ verdict = "none"
    /\ acked = "none"
    /\ file = "none"
    /\ session = "none"
    /\ clicked = [a \in {"draft", "submit"} |-> 0]
    /\ uploaded = FALSE
    /\ marker = "none"
    /\ layout = "none"
    /\ notices = 0
    /\ layouts = 0
    /\ misses = 0

Clicks == clicked["draft"] + clicked["submit"]

-----------------------------------------------------------------------------
(* The client. *)

\* The article client refuses a schedule itself.
Send ==
    /\ at = "unsent"
    /\ IF request.scheduled
       THEN told' = "refused" /\ at' = "done"
       ELSE at' = "sent" /\ UNCHANGED told
    /\ UNCHANGED <<request, setup, workVars, verdict, file, session, clicked, pageVars>>

\* Variant: the client waits for a connection without a limit.
GiveUp_Connected ==
    /\ told = "none"
    /\ at \in Working
    /\ told' = "rejected"
    /\ UNCHANGED <<request, setup, at, workVars, verdict, file, session, clicked, pageVars>>

\* No answer within thirty seconds, no connection, or a connection that broke:
\* the client takes that for a rejection.  The request may still arrive.
GiveUp ==
    /\ told = "none"
    /\ at # "unsent"
    /\ told' = "rejected"
    /\ UNCHANGED <<request, setup, at, workVars, verdict, file, session, clicked, pageVars>>

Undelivered ==
    /\ at = "sent"
    /\ at' = "done"
    /\ UNCHANGED <<clientVars, workVars, verdict, file, session, clicked, pageVars>>

-----------------------------------------------------------------------------
(* The handler: from the request to an open session. *)

Conclude(v) == verdict' = v /\ at' = "answer"

Receive ==
    /\ at = "sent"
    /\ IF ~setup.compatible THEN Conclude("invalid")
       ELSE IF ~setup.attached THEN Conclude("unavailable")
       ELSE IF request.remote /\ ~setup.staging THEN Conclude("rejected")
       ELSE /\ at' = IF request.remote THEN "stage" ELSE "check"
            /\ UNCHANGED verdict
    /\ UNCHANGED <<clientVars, workVars, file, session, clicked, pageVars>>

Stage ==
    /\ at = "stage"
    /\ at' = "check"
    /\ file' = "staged"
    /\ UNCHANGED <<clientVars, workVars, verdict, session, clicked, pageVars>>

\* A copy that fails half-way is removed; that removal's failure is ignored.
StageFails ==
    /\ at = "stage"
    /\ file' \in {"none", "removed", "left"}
    /\ Conclude("rejected")
    /\ UNCHANGED <<clientVars, workVars, session, clicked, pageVars>>

\* The executor is done: staged media is removed before the answer.
Executed(v) ==
    /\ verdict' = v
    /\ at' = IF file = "staged" THEN "unstage" ELSE "answer"

\* Variant: a draft for a site without drafts is let through.
Check_AnyDraft ==
    /\ at = "check"
    /\ at' = "open"
    /\ UNCHANGED <<clientVars, workVars, verdict, file, session, clicked, pageVars>>

Check ==
    /\ at = "check"
    /\ ~(request.draft /\ request.platform \in NoDrafts)
    /\ at' = "open"
    /\ UNCHANGED <<clientVars, workVars, verdict, file, session, clicked, pageVars>>

\* Variant: the handler returns the error before it removes the staged copy.
CheckFails_Early ==
    /\ at = "check"
    /\ Conclude(IF request.platform = Article THEN "refused" ELSE "rejected")
    /\ UNCHANGED <<clientVars, workVars, file, session, clicked, pageVars>>

\* Drafts the site does not have, an unusable product link, article or path.
CheckFails ==
    /\ at = "check"
    /\ Executed(IF request.platform = Article THEN "refused" ELSE "rejected")
    /\ UNCHANGED <<clientVars, workVars, file, session, clicked, pageVars>>

OpenSession ==
    /\ at = "open"
    /\ session' = "open"
    /\ at' = "form"
    /\ polls' = 0
    /\ UNCHANGED <<clientVars, n, probed, acked, verdict, file, clicked, pageVars>>

\* Variant: a session that cannot be made counts as a local failure.
OpenFails_Local ==
    /\ at = "open"
    /\ session' \in {"none", "left"}
    /\ Executed(IF request.platform = Article THEN "refused" ELSE "rejected")
    /\ UNCHANGED <<clientVars, workVars, file, clicked, pageVars>>

\* Without the identifier there is nothing to close, even if a session was made.
OpenFails ==
    /\ at = "open"
    /\ session' \in {"none", "left"}
    /\ Executed("rejected")
    /\ UNCHANGED <<clientVars, workVars, file, clicked, pageVars>>

-----------------------------------------------------------------------------
(* The workflow in the session, and its end. *)

\* Variant: what the lookup finds is ignored.
Unseen_Ignored == UNCHANGED misses

\* find_once: a lookup that fails counts as a page without the element, and so does
\* one whose first match is hidden, whatever the later matches show.  Fanqie's result
\* is read by a script, whose failure ends the wait.
Unseen ==
    \/ marker = "none" /\ UNCHANGED misses
    \/ /\ request.platform # "fanqie"
       /\ misses < MaxMisses /\ misses' = misses + 1

\* A step succeeds and the next one begins.
Step ==
    /\ at = "form"
    /\ Current # "act"
    /\ Passable
    /\ IF Current = "unmarked" THEN Unseen ELSE UNCHANGED misses
    /\ \E k \in n + 1 .. Len(Flow) : Follows(k, n) /\ n' = k
    /\ polls' = 0
    /\ probed' = IF Current = "ready" THEN layout ELSE probed
    /\ UNCHANGED <<clientVars, at, acked, verdict, file, session, clicked,
                   uploaded, marker, layout, notices, layouts>>

Poll ==
    /\ at = "form"
    /\ Polls(Current)
    /\ Watched(Current) => ~Passable
    /\ polls + 1 < MaxPolls
    /\ polls' = polls + 1
    /\ UNCHANGED <<clientVars, at, n, probed, acked, verdict, file, session, clicked, pageVars>>

\* A request fails, the page is not as it must be, or a wait reaches its end.
\* The marker check finds a message that is already there.
StepFails ==
    /\ at = "form"
    /\ verdict' = "rejected"
    /\ at' = "close"
    /\ polls' = 0
    /\ UNCHANGED <<clientVars, n, probed, acked, file, session, clicked, pageVars>>

Click == clicked' = [clicked EXCEPT ![Action] = @ + 1]

Act ==
    /\ at = "form"
    /\ Current = "act"
    /\ Passable
    /\ Click
    /\ at' = "ack"
    /\ polls' = 0
    /\ UNCHANGED <<clientVars, n, probed, acked, verdict, file, session, pageVars>>

\* The click took effect and its reply did not arrive.
ActReplyLost ==
    /\ at = "form"
    /\ Current = "act"
    /\ Passable
    /\ Click
    /\ verdict' = "rejected"
    /\ at' = "close"
    /\ polls' = 0
    /\ UNCHANGED <<clientVars, n, probed, acked, file, session, pageVars>>

Acknowledge ==
    /\ at = "ack"
    /\ marker # "none"
    /\ acked' = marker
    /\ verdict' = "queued"
    /\ at' = "close"
    /\ polls' = 0
    /\ UNCHANGED <<clientVars, n, probed, file, session, clicked, pageVars>>

\* No message, or one that the lookup missed.
AwaitAcknowledgement ==
    /\ at = "ack"
    /\ polls + 1 < MaxChecks
    /\ polls' = polls + 1
    /\ Unseen
    /\ UNCHANGED <<clientVars, at, n, probed, acked, verdict, file, session, clicked,
                   uploaded, marker, layout, notices, layouts>>

\* Variant: without acknowledgement the action is clicked again.
Unacknowledged_Retry ==
    /\ at = "ack"
    /\ at' = "form"
    /\ polls' = 0
    /\ UNCHANGED <<clientVars, n, probed, acked, verdict, file, session, clicked, pageVars>>

\* The five minutes are over, or the message could not be examined.
Unacknowledged ==
    /\ at = "ack"
    /\ verdict' = "rejected"
    /\ at' = "close"
    /\ polls' = 0
    /\ UNCHANGED <<clientVars, n, probed, acked, file, session, clicked, pageVars>>

CloseSession ==
    /\ at = "close"
    /\ session' = "closed"
    /\ Executed(verdict)
    /\ UNCHANGED <<clientVars, workVars, file, clicked, pageVars>>

\* Variant: a failed close is ignored.
CloseFails_Ignored ==
    /\ at = "close"
    /\ session' \in {"closed", "left"}
    /\ Executed(verdict)
    /\ UNCHANGED <<clientVars, workVars, file, clicked, pageVars>>

\* A failed close turns success into a rejection.
CloseFails ==
    /\ at = "close"
    /\ session' \in {"closed", "left"}
    /\ Executed("rejected")
    /\ UNCHANGED <<clientVars, workVars, file, clicked, pageVars>>

Unstage ==
    /\ at = "unstage"
    /\ file' = "removed"
    /\ at' = "answer"
    /\ UNCHANGED <<clientVars, workVars, verdict, session, clicked, pageVars>>

UnstageFails ==
    /\ at = "unstage"
    /\ file' = "left"
    /\ Conclude("rejected")
    /\ UNCHANGED <<clientVars, workVars, session, clicked, pageVars>>

\* An invalid request is answered 400, a rejection for the client.
Reply ==
    /\ at = "answer"
    /\ at' = "done"
    /\ told' = IF told # "none" THEN told
               ELSE IF verdict = "invalid" THEN "rejected" ELSE verdict
    /\ UNCHANGED <<request, setup, workVars, verdict, file, session, clicked, pageVars>>

ReplyLost ==
    /\ at = "answer"
    /\ at' = "done"
    /\ UNCHANGED <<clientVars, workVars, verdict, file, session, clicked, pageVars>>

\* What the process had in hand stays where it was.
Crash ==
    /\ Crashing
    /\ at \in Working
    /\ at' = "done"
    /\ session' = IF session = "open" THEN "abandoned" ELSE session
    /\ file' = IF file = "staged" THEN "abandoned" ELSE file
    /\ UNCHANGED <<clientVars, workVars, verdict, clicked, pageVars>>

-----------------------------------------------------------------------------
(* The site's page. *)

PageUnchanged == UNCHANGED <<clientVars, at, workVars, verdict, file, session, clicked>>

FinishUpload ==
    /\ session = "open"
    /\ n > 2
    /\ \E step \in {Flow[i] : i \in 1 .. Len(Flow)} :
          Takes(request, step) /\ AwaitsUpload(step)
    /\ uploaded' = TRUE
    /\ UNCHANGED <<marker, layout, notices, layouts, misses>>
    /\ PageUnchanged

\* A success message shows; what shows after the click is taken to be about it.
ShowMarker ==
    /\ session = "open"
    /\ IF Clicks = 0
       THEN /\ notices < MaxNotices
            /\ notices' = notices + 1
            /\ marker' = IF Current \in {"panel", "ready", "act"} THEN "late" ELSE "old"
       ELSE marker' = "new" /\ UNCHANGED notices
    /\ UNCHANGED <<uploaded, layout, layouts, misses>>
    /\ PageUnchanged

HideMarker ==
    /\ session = "open"
    /\ marker' = "none"
    /\ UNCHANGED <<uploaded, layout, notices, layouts, misses>>
    /\ PageUnchanged

ChangeFooter ==
    /\ session = "open"
    /\ request.platform = "toutiao"
    /\ layouts < MaxLayouts
    /\ layouts' = layouts + 1
    /\ layout' \in {"none", "horizontal", "vertical"}
    /\ UNCHANGED <<uploaded, marker, notices, misses>>
    /\ PageUnchanged

-----------------------------------------------------------------------------
Client == Send \/ GiveUp
Handler ==
    \/ Receive
    \/ Stage \/ StageFails
    \/ Check \/ CheckFails
    \/ OpenSession \/ OpenFails
    \/ Step \/ Poll \/ StepFails
    \/ Act \/ ActReplyLost
    \/ Acknowledge \/ AwaitAcknowledgement \/ Unacknowledged
    \/ CloseSession \/ CloseFails
    \/ Unstage \/ UnstageFails
    \/ Reply \/ ReplyLost
Page == FinishUpload \/ ShowMarker \/ HideMarker \/ ChangeFooter

Next == Client \/ Undelivered \/ Handler \/ Crash \/ Page

Spec == Init /\ [][Next]_vars

\* Every call of the client and of the handler has a timeout of its own and every
\* wait a number of attempts; nothing is asked of the page.
FairSpec == Spec /\ WF_vars(GiveUp) /\ WF_vars(Handler)
-----------------------------------------------------------------------------
(* What publication through the runner promises. *)

\* "queued" is told only when every phase succeeded, the last ones included: the
\* page acknowledged a click, the session is closed, the staged copy is gone.
QueuedIsComplete ==
    told = "queued" =>
        /\ Clicks = 1 /\ acked # "none"
        /\ session = "closed"
        /\ file \in {"none", "removed"}

\* A rejection said to be without automation (automation_attempted: false) is of
\* work for which no session was or will be opened.
RefusedIsUntouched == told = "refused" => session = "none" /\ Clicks = 0

\* Remote media is staged before a session exists and stays until it is closed.
\* Every way out of the handler asks for the end of both.  Where that end failed, or
\* the creation's answer was lost, the session or the copy may remain: then the work
\* is rejected.  A runner that dies abandons both, and nobody is told success,
\* refusal or unavailability of work that left something behind.
ResourcesAreScoped ==
    /\ request.remote /\ session = "open" => file = "staged"
    /\ at \in {"answer", "done"} => session # "open" /\ file # "staged"
    /\ "left" \in {session, file} => verdict = "rejected"
    /\ {session, file} \cap Astray # {} => told \in {"none", "rejected"}

\* Where the runner has a signal that says so, nothing is published (or saved) before
\* the site has processed the media.  Baijiahao's tells only that an upload is going on.
UploadsPrecedeActions ==
    Clicks > 0 /\ request.platform \in {"bilibili", "douyin", "wechat", "fanqie", "kuaishou"}
       => uploaded

\* A draft is never submitted, but for a Toutiao footer that offered no draft
\* action when it was probed.
DraftsAreKept ==
    request.draft /\ clicked["submit"] > 0 =>
        request.platform = "toutiao" /\ probed = "vertical"

\* Nothing is clicked too early, or by an action that was not asked for.
ActionsAreDue == UploadsPrecedeActions /\ DraftsAreKept

\* An acknowledgement older than the marker check takes a lookup that missed it (one
\* that failed, or whose first match was hidden), or Fanqie, which has no such check.
OldMarkersAreCaught ==
    acked = "old" => misses > 0 \/ request.platform = "fanqie"

\* Whatever the page and the network do, the client is told something and the
\* handler comes to its end.
ExchangeEnds == at = "sent" ~> (at = "done" /\ told # "none")

\* "A success marker already visible before the click, or one that remains
\* hidden, is rejected" (README).
EarlierMarkersAreRejected == told = "queued" => acked # "old"

Exchange ==
    INSTANCE PublishExchange
        WITH asked <- Clicks,
             told  <- IF told = "refused" THEN "rejected" ELSE told

\* The site is asked at most once, also after the client has given up, and the
\* answers mean what a client may rely on.
ImplementsExchange == Exchange!Spec
=============================================================================
