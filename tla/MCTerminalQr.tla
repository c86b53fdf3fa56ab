---------------------------- MODULE MCTerminalQr ----------------------------
(* Small instances of the terminal QR attempts for TLC. *)
EXTENDS TerminalQrAttempts, TLC

CONSTANTS w1, w2, a1, a2, a3, t1, t2, f1, f2

\* All attempts are for one platform; requests may name another.
MCPlatformOf == [a \in Attempts |-> f1]

Symmetry == Permutations(Workers) \cup Permutations(Attempts) \cup Permutations(Tokens)
=============================================================================
