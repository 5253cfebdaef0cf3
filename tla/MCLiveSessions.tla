--------------------------- MODULE MCLiveSessions ---------------------------
(***************************************************************************)
(* Small instances of LiveSessions: the window is two units, the slack     *)
(* one, and reports run behind, with and ahead of the clock.               *)
(***************************************************************************)
EXTENDS LiveSessions, TLC

CONSTANTS p1, p2, s1, s2, h1, h2

Symmetric == Permutations(Projects) \cup Permutations(Sessions) \cup Permutations(Handlers)

=============================================================================
