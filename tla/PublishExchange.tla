-------------------------- MODULE PublishExchange --------------------------
(***************************************************************************)
(* What a client of the browser runner may rely on for one publication,    *)
(* with requests, media, sessions, pages and clocks left out: the site is  *)
(* asked at most once, the client is told one thing, "queued" only of work *)
(* the site was asked for and "unavailable" only of work it will never be. *)
(* "rejected" promises nothing: the site may have been asked, or be asked  *)
(* yet.  Scheduler!MayAnswer is this promise seen in one step.             *)
(***************************************************************************)
EXTENDS Naturals

VARIABLES asked,  \* how often the site was asked to take the work
          told    \* what the client was told

vars == <<asked, told>>

Init == asked = 0 /\ told = "none"

Ask ==
    /\ asked = 0
    /\ told \notin {"queued", "unavailable"}
    /\ asked' = 1
    /\ UNCHANGED told

Tell ==
    /\ told = "none"
    /\ \/ told' = "queued" /\ asked = 1
       \/ told' = "unavailable" /\ asked = 0
       \/ told' = "rejected"
    /\ UNCHANGED asked

Spec == Init /\ [][Ask \/ Tell]_vars
=============================================================================
