------------------------ MODULE MCPublicationQueue ------------------------
(* A small instance of the library-level queue for TLC. *)
EXTENDS PublicationQueue

CONSTANTS v1, v2, v3, a1

MCIdRank == [j \in Jobs |-> CASE j = v1 -> 3 [] j = v2 -> 1 [] j = v3 -> 2 [] OTHER -> 4]
=============================================================================
