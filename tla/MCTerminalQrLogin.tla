------------------------- MODULE MCTerminalQrLogin -------------------------
(* Small instances of terminal QR logins for TLC. *)
EXTENDS TerminalQrLogin, TLC

CONSTANTS c1, c2, w1, w2, a1, a2, t1, t2, f1, f2

\* With two platforms, each has one client and one attempt.
MCPlatformOf == [a \in Attempts |-> IF a = a2 /\ f2 \in Platforms THEN f2 ELSE f1]
MCClientPlatform == [c \in Clients |-> IF c = c2 /\ f2 \in Platforms THEN f2 ELSE f1]

\* Sound where there is one platform.
Symmetry == Permutations(Clients) \cup Permutations(Workers)
               \cup Permutations(Attempts) \cup Permutations(Tokens)
=============================================================================
