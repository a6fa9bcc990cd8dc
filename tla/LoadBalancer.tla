----------------------------- MODULE LoadBalancer -----------------------------
(***************************************************************************)
(* The choice of a node and of a kind of route: class LoadBalancer and     *)
(* class RouteSelector of bosonserver/src/services/routing.                *)
(*                                                                         *)
(* What a node says of itself is profile[n]; what is left of it is what    *)
(* the selection looks at.  Scores are in hundredths of a point, so that   *)
(* the divisions by 100 and by 10 are exact.  Of the nodes with the same   *)
(* score the code takes the one heard of last; here it is any of them.     *)
(***************************************************************************)
EXTENDS Naturals

CONSTANTS
    Nodes,
    Anything,       \* a preference that is not stated
    profile         \* profile[n]: bandwidth, connections, place and NAT of node n

ASSUME ProfileAssumption ==
    \A n \in Nodes : /\ profile[n].down \in Nat
                     /\ profile[n].connections \in Nat
                     /\ profile[n].symmetric \in BOOLEAN

(* The filter looks at a country and then not at a region. *)
Suits(n, req) ==
    /\ req.minBandwidth =< profile[n].down
    /\ IF req.country # Anything THEN profile[n].country = req.country
       ELSE req.region \in {Anything, profile[n].region}

(* Mutant: nodes that do not suit are kept along with those that do. *)
CandidatesMutant(N, req) == N

(* If no node suits, all of them are taken. *)
Candidates(N, req) ==
    LET fit == {n \in N : Suits(n, req)}
    IN  IF fit = {} THEN N ELSE fit

AtMost(x, limit) == IF x > limit THEN limit ELSE x

Score(n, status) ==
    10000 + AtMost(profile[n].down, 5000) + AtMost(10 * profile[n].connections, 3000)
          - (IF status = "degraded" THEN 2000 ELSE 0)

(* The nodes selectNode may return. *)
Best(N, status, req) ==
    LET C == Candidates(N, req)
    IN  {n \in C : \A m \in C : Score(m, status[m]) =< Score(n, status[n])}

(* attemptDirectRoute: a client behind a symmetric NAT needs an address    *)
(* that STUN has mapped, and a node that is not behind one.                *)
Direct(net, n) ==
    /\ ~ (net.symmetric /\ profile[n].symmetric)
    /\ net.mapped \/ ~ net.symmetric
=============================================================================
