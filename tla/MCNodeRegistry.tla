---------------------------- MODULE MCNodeRegistry ----------------------------
(* Instances of NodeRegistry for TLC. *)
EXTENDS NodeRegistry, TLC

CONSTANTS n1, n2, r1, r2, ip1, ip2, c1, c2, c3

OneNode == {n1}
TwoNodes == {n1, n2}
OneReg == {r1}
TwoRegs == {r1, r2}
OneIp == {ip1}
TwoIps == {ip1, ip2}
OneCall == {c1}
TwoCalls == {c1, c2}
ThreeCalls == {c1, c2, c3}
NoFaults == {{}}
RedisMayFail == {{}, {"redis"}}
DbMayFail == {{"db"}}
OneMayFail == {{}, {"redis"}, {"db"}}

Symmetry == Permutations(NodeIds) \cup Permutations(DirCalls) \cup Permutations(Regs)
                \cup Permutations(Ips)
=============================================================================
