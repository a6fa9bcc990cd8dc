---------------------------- MODULE MCRelayServer ----------------------------
(* Instances of RelayServer for TLC. *)
EXTENDS RelayServer, TLC

CONSTANTS s1, s2, n1, w1, w2, w3, c1, c2, sweep

Empty == {}
OneSession == {s1}
TwoSessions == {s1, s2}
OneNode == {n1}
OneSocket == {w1}
TwoSockets == {w1, w2}
ThreeSockets == {w1, w2, w3}
OneCall == {c1}
TwoCalls == {c1, c2}
TwoCallsAndSweep == {c1, c2, sweep}
OneCallAndSweep == {c1, sweep}
Sweep == {sweep}
AllFaults == {"db", "redis"}
RedisFaults == {"redis"}

Symmetry == Permutations(Sockets) \cup Permutations(Calls \ Sweepers)
=============================================================================
