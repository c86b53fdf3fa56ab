---------------------------- MODULE MCScheduler ----------------------------
(* Small instances of the scheduler for TLC. *)
EXTENDS Scheduler, TLC

CONSTANTS v1, v2, a1, d1, d2, p1, p2

\* Text 0 comes before everything the clock writes (a schedule with leading whitespace).
MCClockText == [t \in Time |-> t + 1]
MCIdRank == [j \in Jobs |-> CASE j = v1 -> 2 [] j = v2 -> 1 [] OTHER -> 3]
MCTargetsOf == [j \in Jobs |-> IF j = v1 THEN Platforms ELSE {p1}]
MCRegistered == [d \in Daemons |-> Platforms]
MCImportableIds == {[prefix |-> "scheduled-history", number |-> 1]}

DaemonSymmetry == Permutations(Daemons)
=============================================================================
