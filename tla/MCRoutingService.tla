--------------------------- MODULE MCRoutingService ---------------------------
(* Instances of RoutingService for TLC. *)
EXTENDS RoutingService, TLC

CONSTANTS n1, n2, a, b, any, s1, s2, s3, c1, c2

TwoNodes == {n1, n2}
OneClient == {a}
TwoClients == {a, b}
AnyTarget == {any}
ThreeSessions == {s1, s2, s3}
TwoSessions == {s1, s2}
TwoCalls == {c1, c2}

(* n2 has more to offer, but not by as much as a degraded node loses, and  *)
(* is in another country and behind a symmetric NAT.                       *)
Profile ==
    n1 :> [down |-> 100, connections |-> 100, country |-> "NL", region |-> "NH",
           symmetric |-> FALSE]
    @@
    n2 :> [down |-> 200, connections |-> 200, country |-> "DE", region |-> "BE",
           symmetric |-> TRUE]

NoRequirements == [minBandwidth |-> 0, country |-> Anything, region |-> Anything]
SomeRequirements == {NoRequirements, [NoRequirements EXCEPT !.country = "NL"]}

Closed == [symmetric |-> TRUE, mapped |-> FALSE]
Mapped == [symmetric |-> TRUE, mapped |-> TRUE]
SomeNets == {Closed, Mapped}

(* One client, and nodes that come, go and degrade; two clients; and one    *)
(* client while a store fails.                                             *)
Placid ==
    [clients |-> {a}, wishes |-> {<<NoRequirements, Mapped>>}, statuses |-> {"online"},
     faults |-> {}, sessions |-> 2]
Nodal == {[Placid EXCEPT !.statuses = {"online", "degraded", "offline"},
                         !.wishes = SomeRequirements \X SomeNets]}
Social == {[Placid EXCEPT !.clients = {a, b}, !.sessions = 3]}
Faulty == {[Placid EXCEPT !.faults = {f}] : f \in {"db", "redis"}}
AnyWorld == Nodal \cup Social \cup Faulty

Symmetry == Permutations(SessionIds) \cup Permutations(Calls)
=============================================================================
