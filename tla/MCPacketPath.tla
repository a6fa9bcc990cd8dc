---------------------------- MODULE MCPacketPath ----------------------------
(* Two clients, each with its session and node, both with the same address *)
(* in their private networks.                                              *)
EXTENDS PacketPath

CONSTANTS c1, c2, n1, n2, s1, s2, lan, wan

MCClients  == {c1, c2}
MCNodes    == {n1, n2}
MCSessions == {s1, s2}
MCAddrs    == {lan, wan}
MCOwner    == [s \in MCSessions |-> IF s = s1 THEN c1 ELSE c2]
MCExit     == [s \in MCSessions |-> IF s = s1 THEN n1 ELSE n2]
MCSources  == [c \in MCClients |-> IF c = c1 THEN {lan} ELSE {wan}]
MCLocal    == [c \in MCClients |-> lan]
=============================================================================
