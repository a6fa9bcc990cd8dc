-------------------------- MODULE MCSessionManager --------------------------
(* Instances of SessionManager for TLC. *)
EXTENDS SessionManager, TLC

CONSTANTS s1, s2, c1, c2, c3

TwoSessions == {s1, s2}
OneSession == {s1}
TwoCalls == {c1, c2}
ThreeCalls == {c1, c2, c3}
RedisFaults == {"redis"}
AllFaults == {"db", "redis"}

Symmetry == Permutations(SessionIds) \cup Permutations(Calls)
=============================================================================
