----------------------------- MODULE ClientProofs -----------------------------
(***************************************************************************)
(* Proofs about the client.  First ClientService: the invariants that      *)
(* MCClient.cfg checks for two relays hold for any number of them.  Then   *)
(* ClientHost: what is proved of ClientService holds on any host, and the  *)
(* invariants of the host's routes, checked for two endpoints, hold for    *)
(* any set of endpoints and kinds of hosts.                                *)
(***************************************************************************)
EXTENDS ClientHost, TLAPS

(* The sockets are those of the relays made so far, and connect() runs     *)
(* only while the client is not connected.                                 *)
Made ==
    /\ \A r \in Relays : sock[r] # "none" <=> r =< made
    /\ phase # "idle" => ~ connected
    /\ phase \in {"health", "route", "register"} => made < MaxRelays

(* The five properties are inductive together: that the relay being        *)
(* connected is on its socket (ConnectHasSocket) gives the other four      *)
(* their step when connect() comes through.                                *)
IInv ==
    /\ TypeOK
    /\ Made
    /\ ConnectHasSocket
    /\ Equipped
    /\ ConnectedMeansOpen
    /\ Attended
    /\ OneSocketPerRelay

(* The properties hold before the first call. *)
LEMMA InitIInv == Init => IInv
<1> SUFFICES ASSUME Init PROVE IInv
  OBVIOUS
<1>1. TypeOK
  <2>1. made \in 0 .. MaxRelays /\ relay \in 0 .. made /\ forwarder \in 0 .. made
    BY ClientConstants DEF Init, None
  <2>2. sock \in [Relays -> SockStates]
    BY DEF Init, SockStates
  <2> QED  BY <2>1, <2>2 DEF Init, TypeOK, Phases
<1>2. Made
  BY ClientConstants DEF Init, Made, Relays
<1>3. ConnectHasSocket /\ Equipped /\ ConnectedMeansOpen
  BY DEF Init, ConnectHasSocket, Equipped, ConnectedMeansOpen
<1>4. Attended /\ OneSocketPerRelay
  BY DEF Init, Attended, OneSocketPerRelay
<1> QED  BY <1>1, <1>2, <1>3, <1>4 DEF IInv

(* A step that leaves the relays alone keeps what is said of them alone. *)
LEMMA SameRelays ==
  ASSUME IInv, UNCHANGED relays
  PROVE  Attended' /\ OneSocketPerRelay'
BY DEF IInv, relays, Attended, OneSocketPerRelay

(* A new relay keeps the properties. *)
LEMMA NewRelayIInv ==
  ASSUME IInv, NewRelay, ~ connected, made < MaxRelays,
         offered' \in BOOLEAN, interface' \in BOOLEAN
  PROVE  IInv'
<1>1. made + 1 \in Relays /\ made \in Nat /\ made + 1 # None
  BY ClientConstants DEF IInv, TypeOK, Relays, None
<1>2. /\ made' = made + 1 /\ relay' = made + 1
      /\ UNCHANGED <<timer, released, wish>>
  BY DEF NewRelay
<1>3. /\ sock' \in [Relays -> SockStates]
      /\ \A r \in Relays : r # made + 1 => sock'[r] = sock[r]
      /\ \/ /\ sock'[made + 1] = "opening" /\ phase' = "relay"
            /\ UNCHANGED <<connected, forwarder, running>>
         \/ /\ sock'[made + 1] = "unmade" /\ phase' = "idle"
            /\ \/ /\ offered' /\ connected' = TRUE /\ forwarder' = made + 1
                  /\ running' = running \cup {made + 1}
               \/ UNCHANGED <<connected, forwarder, running>>
  BY <1>1 DEF IInv, TypeOK, SockStates, NewRelay, Started
<1>4. TypeOK'
  <2>1. made' \in 0 .. MaxRelays /\ relay' \in 0 .. made' /\ forwarder' \in 0 .. made'
    BY <1>1, <1>2, <1>3, ClientConstants DEF IInv, TypeOK
  <2>2. running' \subseteq 1 .. made' /\ timer' \subseteq 1 .. made'
        /\ released' \subseteq 1 .. made'
    <3>1. running \subseteq 1 .. made /\ timer \subseteq 1 .. made /\ released \subseteq 1 .. made
      BY DEF IInv, TypeOK
    <3>2. 1 .. made \subseteq 1 .. made' /\ made + 1 \in 1 .. made'
      BY <1>1, <1>2
    <3>3. running' \subseteq running \cup {made + 1}
      BY <1>3
    <3> QED  BY <1>2, <3>1, <3>2, <3>3
  <2>3. phase' \in Phases /\ connected' \in BOOLEAN /\ wish' \in {"connect", "disconnect"}
    BY <1>2, <1>3 DEF IInv, TypeOK, Phases
  <2> QED  BY <1>3, <2>1, <2>2, <2>3 DEF TypeOK
<1>5. Made'
  <2>1. ASSUME NEW r \in Relays PROVE sock'[r] # "none" <=> r =< made'
    BY <1>1, <1>2, <1>3, <2>1 DEF IInv, Made, Relays
  <2> QED  BY <2>1, <1>3 DEF Made
<1>6. ConnectHasSocket' /\ Equipped' /\ ConnectedMeansOpen'
  BY <1>1, <1>2, <1>3 DEF ConnectHasSocket, Equipped, ConnectedMeansOpen
<1>7. Attended'
  BY <1>2, <1>3 DEF IInv, Attended
<1>8. OneSocketPerRelay'
  <2>1. ASSUME NEW r \in timer PROVE sock'[r] = "down"
    <3>1. r \in Relays /\ r # made + 1
      BY <1>1, ClientConstants DEF IInv, TypeOK, Relays
    <3> QED  BY <3>1, <1>3 DEF IInv, OneSocketPerRelay
  <2> QED  BY <2>1, <1>2 DEF OneSocketPerRelay
<1> QED  BY <1>4, <1>5, <1>6, <1>7, <1>8 DEF IInv

(* The calls of the application and the requests of connect() keep them. *)
LEMMA ServiceIInv ==
  ASSUME IInv, Application \/ Connecting
  PROVE  IInv'
<1>1. CASE Connect \/ Healthy \/ Refused \/ RouteWithInterface \/ DisconnectIgnored
  <2>1. /\ UNCHANGED <<connected, relay, forwarder, running, made, sock, timer, released>>
        /\ UNCHANGED relays
    BY <1>1 DEF Connect, Healthy, Refused, RouteWithInterface, DisconnectIgnored, relays, service
  <2>2. /\ phase' \in Phases /\ offered' \in BOOLEAN /\ interface' \in BOOLEAN
        /\ wish' \in {"connect", "disconnect"}
    BY <1>1 DEF Connect, Healthy, Refused, RouteWithInterface, DisconnectIgnored, service,
                IInv, TypeOK, Phases
  <2>3. /\ phase' # "idle" => ~ connected
        /\ phase' \in {"health", "route", "register"} => made < MaxRelays
        /\ phase' = "relay" => phase = "relay"
        /\ connected => UNCHANGED offered
    <3>1. CASE Connect
      BY <3>1 DEF Connect, IInv, Made
    <3>2. CASE Healthy \/ Refused
      BY <3>2 DEF Healthy, Refused, IInv, Made
    <3>3. CASE RouteWithInterface
      BY <3>3 DEF RouteWithInterface, IInv, Made
    <3>4. CASE DisconnectIgnored
      BY <3>4 DEF DisconnectIgnored, service, IInv, Made
    <3> QED  BY <1>1, <3>1, <3>2, <3>3, <3>4
  <2>4. TypeOK'
    BY <2>1, <2>2 DEF IInv, TypeOK
  <2>5. Made'
    BY <2>1, <2>3 DEF IInv, Made
  <2>6. ConnectHasSocket' /\ Equipped' /\ ConnectedMeansOpen'
    BY <2>1, <2>3 DEF IInv, ConnectHasSocket, Equipped, ConnectedMeansOpen
  <2> QED  BY <2>1, <2>4, <2>5, <2>6, SameRelays DEF IInv
<1>2. CASE RouteWithoutInterface \/ InterfaceRegistered
  <2>1. ~ connected
    BY <1>2 DEF IInv, Made, RouteWithoutInterface, InterfaceRegistered
  <2>2. offered' \in BOOLEAN /\ interface' \in BOOLEAN /\ NewRelay
    BY <1>2, ClientConstants DEF IInv, TypeOK, RouteWithoutInterface, InterfaceRegistered
  <2>3. made < MaxRelays
    BY <1>2 DEF IInv, Made, RouteWithoutInterface, InterfaceRegistered
  <2> QED  BY <2>1, <2>2, <2>3, NewRelayIInv
<1>3. CASE Disconnect
  <2> USE <1>3 DEF Disconnect, Release
  <2>1. relay \in 1 .. made /\ relay \in Relays /\ phase = "idle"
    BY ClientConstants DEF IInv, TypeOK, Made, Equipped, None, Relays
  <2>2. sock' \in [Relays -> SockStates] /\ \A r \in Relays : r # relay => sock'[r] = sock[r]
    BY <2>1 DEF IInv, TypeOK, SockStates
  <2>3. sock'[relay] = IF sock[relay] \in {"open", "opening", "hung"} THEN "closing" ELSE sock[relay]
    BY <2>1 DEF IInv, TypeOK
  <2>4. TypeOK'
    <3>1. made \in Nat
      BY <2>1, ClientConstants DEF IInv, TypeOK
    <3>2. relay' \in 0 .. made /\ forwarder' \in 0 .. made
      BY <3>1 DEF None
    <3>3. timer' \subseteq 1 .. made /\ released' \subseteq 1 .. made /\ running' \subseteq 1 .. made
      BY <2>1 DEF IInv, TypeOK
    <3>4. connected' \in BOOLEAN /\ interface' \in BOOLEAN
      BY DEF IInv, TypeOK
    <3> QED  BY <2>2, <3>2, <3>3, <3>4 DEF IInv, TypeOK
  <2>5. Made'
    <3>1. ASSUME NEW r \in Relays PROVE sock'[r] # "none" <=> r =< made
      BY <2>2, <2>3, <3>1 DEF IInv, Made
    <3> QED  BY <2>1, <3>1 DEF Made
  <2>6. ConnectHasSocket' /\ Equipped' /\ ConnectedMeansOpen'
    BY <2>1 DEF ConnectHasSocket, Equipped, ConnectedMeansOpen
  <2>7. Attended'
    BY <2>2, <2>3 DEF IInv, Attended
  <2>8. OneSocketPerRelay'
    BY <2>2, <2>3 DEF IInv, TypeOK, OneSocketPerRelay, Relays
  <2> QED  BY <2>4, <2>5, <2>6, <2>7, <2>8 DEF IInv
<1> QED
  BY <1>1, <1>2, <1>3 DEF Application, Connecting

(* A socket that hangs, or no longer does, changes nothing else. *)
LEMMA HangsIInv ==
  ASSUME IInv, NEW r \in Relays, Hangs(r)
  PROVE  IInv'
<1> USE DEF Hangs, service
<1>1. /\ sock' \in [Relays -> SockStates]
      /\ \A z \in Relays : z # r => sock'[z] = sock[z]
      /\ sock[r] \in {"opening", "hung"} /\ sock'[r] \in {"opening", "hung"}
  BY DEF IInv, TypeOK, SockStates
<1>2. UNCHANGED <<phase, connected, offered, relay, forwarder, running, interface, made, timer,
                  released, wish>>
  OBVIOUS
<1>3. TypeOK'
  BY <1>1, <1>2 DEF IInv, TypeOK
<1>4. Made'
  BY <1>1, <1>2 DEF IInv, Made
<1>5. relay # None => relay \in Relays
  BY ClientConstants DEF IInv, TypeOK, None, Relays
<1>6. ConnectHasSocket' /\ Equipped' /\ ConnectedMeansOpen'
  <2>1. connected => relay # None
    BY DEF IInv, Equipped
  <2> QED  BY <1>1, <1>2, <1>5, <2>1 DEF IInv, ConnectHasSocket, Equipped, ConnectedMeansOpen
<1>7. Attended'
  BY <1>1, <1>2 DEF IInv, Attended
<1>8. OneSocketPerRelay'
  <2>1. \A z \in timer : z \in Relays /\ z # r
    BY <1>1, ClientConstants DEF IInv, TypeOK, OneSocketPerRelay, Relays
  <2> QED  BY <1>1, <1>2, <2>1 DEF IInv, OneSocketPerRelay
<1> QED  BY <1>3, <1>4, <1>6, <1>7, <1>8 DEF IInv

(* The other events of a relay keep them. *)
LEMMA RelayIInv ==
  ASSUME IInv, NEW r \in Relays,
         Opened(r) \/ OpenFails(r) \/ Dropped(r) \/ Closed(r) \/ TimerFires(r)
  PROVE  IInv'
<1>1. r \in 1 .. made /\ made \in Nat /\ sock[r] # "none"
  BY DEF IInv, TypeOK, Made, OneSocketPerRelay, Relays, Opened, OpenFails, Dropped,
         Closed, TimerFires
<1>2. /\ sock' \in [Relays -> SockStates]
      /\ \A z \in Relays : z # r => sock'[z] = sock[z]
  BY DEF IInv, TypeOK, SockStates, Opened, OpenFails, CloseEvent, Dropped, Closed,
         TimerFires
<1>3. UNCHANGED <<made, relay, released, wish, offered, interface>>
  BY DEF Opened, OpenFails, Dropped, Closed, TimerFires, service
<1>4. sock'[r] = IF Opened(r) THEN "open" ELSE IF TimerFires(r) THEN "opening" ELSE "down"
  <2>1. CASE Opened(r)
    BY <2>1 DEF IInv, TypeOK, Opened
  <2>2. CASE TimerFires(r)
    BY <2>2 DEF IInv, TypeOK, TimerFires, Opened, OneSocketPerRelay
  <2> QED  BY <2>1, <2>2 DEF IInv, TypeOK, OpenFails, Dropped, Closed, CloseEvent
<1>5. timer' = IF Opened(r) THEN timer ELSE IF TimerFires(r) THEN timer \ {r}
               ELSE timer \cup {r}
  BY DEF IInv, OneSocketPerRelay, Opened, TimerFires, OpenFails, Dropped, Closed,
         CloseEvent
<1>6. Made'
  <2>1. ASSUME NEW z \in Relays PROVE sock'[z] # "none" <=> z =< made
    BY <1>1, <1>2, <1>4, <2>1 DEF IInv, Made, Relays
  <2>2. /\ phase' # "idle" => ~ connected'
        /\ phase' \in {"health", "route", "register"} => made < MaxRelays
    BY DEF IInv, Made, Opened, Started, OpenFails, Awaited, Dropped, Closed,
           TimerFires, service
  <2> QED  BY <2>1, <2>2, <1>3 DEF Made
<1>7. TypeOK'
  <2>1. /\ phase' \in Phases /\ connected' \in BOOLEAN
        /\ forwarder' \in 0 .. made /\ running' \subseteq 1 .. made
    BY <1>1 DEF IInv, TypeOK, Phases, Opened, Started, OpenFails, Awaited, Dropped,
                Closed, TimerFires, service
  <2>2. timer' \subseteq 1 .. made
    BY <1>1, <1>5 DEF IInv, TypeOK
  <2> QED  BY <2>1, <2>2, <1>2, <1>3 DEF IInv, TypeOK
<1>8. Attended'
  BY <1>2, <1>3, <1>4, <1>5 DEF IInv, Attended
<1>9. OneSocketPerRelay'
  <2>1. ASSUME NEW z \in timer', z # r PROVE sock'[z] = "down"
    BY <1>1, <1>2, <1>5, <2>1, ClientConstants DEF IInv, TypeOK, OneSocketPerRelay, Relays
  <2>2. ASSUME r \in timer' PROVE sock'[r] = "down"
    BY <1>4, <1>5, <2>2 DEF IInv, OneSocketPerRelay, Opened
  <2> QED  BY <2>1, <2>2 DEF OneSocketPerRelay
<1>10. ConnectHasSocket'
  <2>1. CASE Awaited(r)
    BY <2>1, <1>4 DEF IInv, ConnectHasSocket, OneSocketPerRelay, Awaited, Opened,
                 Started, OpenFails, Dropped, Closed, TimerFires
  <2>2. CASE ~ Awaited(r)
    <3>1. phase' = phase
      BY <2>2 DEF Opened, OpenFails, Dropped, Closed, TimerFires, service
    <3> QED  BY <2>2, <3>1, <1>2, <1>3, ClientConstants
             DEF IInv, TypeOK, ConnectHasSocket, Awaited, Relays, None
  <2> QED  BY <2>1, <2>2
<1>11. Equipped' /\ ConnectedMeansOpen'
  <2>1. CASE Opened(r) /\ Awaited(r)
    BY <2>1, <1>1, <1>4, <1>3 DEF Opened, Awaited, Started, Equipped, ConnectedMeansOpen, None
  <2>2. CASE OpenFails(r) /\ Awaited(r) /\ offered
    BY <2>2, <1>1, <1>3 DEF OpenFails, Awaited, Started, Equipped, ConnectedMeansOpen, None
  <2>3. CASE Opened(r) /\ ~ Awaited(r)
    <3>1. UNCHANGED <<connected, forwarder, running>>
      BY <2>3 DEF Opened
    <3> QED  BY <3>1, <2>3, <1>2, <1>3, <1>4, ClientConstants
             DEF IInv, TypeOK, Equipped, ConnectedMeansOpen, None, Relays
  <2>4. CASE TimerFires(r)
    <3>1. UNCHANGED <<connected, forwarder, running>> /\ sock[r] = "down"
      BY <2>4 DEF TimerFires, service, IInv, OneSocketPerRelay
    <3> QED  BY <3>1, <1>2, <1>3, ClientConstants
             DEF IInv, TypeOK, Equipped, ConnectedMeansOpen, None, Relays
  <2>5. CASE (OpenFails(r) /\ ~ (Awaited(r) /\ offered)) \/ Dropped(r) \/ Closed(r)
    <3>1. connected' = FALSE
      BY <2>5 DEF OpenFails, Dropped, Closed
    <3> QED  BY <3>1 DEF Equipped, ConnectedMeansOpen
  <2> QED  BY <2>1, <2>2, <2>3, <2>4, <2>5
<1> QED  BY <1>6, <1>7, <1>8, <1>9, <1>10, <1>11 DEF IInv

(* Every step keeps them. *)
LEMMA NextIInv == IInv /\ [Next]_vars => IInv'
<1> SUFFICES ASSUME IInv, [Next]_vars PROVE IInv'
  OBVIOUS
<1>1. CASE UNCHANGED vars
  BY <1>1 DEF vars, service, relays, IInv, TypeOK, Made, ConnectHasSocket, Equipped,
              ConnectedMeansOpen, Attended, OneSocketPerRelay
<1>2. CASE Next
  BY <1>2, ServiceIInv, HangsIInv, RelayIInv DEF Next, Relaying
<1> QED  BY <1>1, <1>2

(* Every variable keeps its type. *)
THEOREM TypeCorrect == Spec => []TypeOK
<1>1. IInv => TypeOK
  BY DEF IInv
<1>2. QED
  BY <1>1, InitIInv, NextIInv, PTL DEF Spec

(* However often the application calls, and whatever happens to the relays *)
(* of earlier calls, a client that says it is connected has the relay and  *)
(* the forwarder of its last connect().                                    *)
THEOREM ConnectedIsEquipped == Spec => []Equipped
<1>1. IInv => Equipped
  BY DEF IInv
<1>2. QED
  BY <1>1, InitIInv, NextIInv, PTL DEF Spec

(* It has an open socket, too, or a route that lets it do without.         *)
THEOREM ConnectedIsOpen == Spec => []ConnectedMeansOpen
<1>1. IInv => ConnectedMeansOpen
  BY DEF IInv
<1>2. QED
  BY <1>1, InitIInv, NextIInv, PTL DEF Spec

(* A relay that is down and not disconnected has its reconnection timer,   *)
(* and a relay with a timer has no socket that the reconnection would      *)
(* displace.                                                               *)
THEOREM RelaysAttended == Spec => [](Attended /\ OneSocketPerRelay)
<1>1. IInv => Attended /\ OneSocketPerRelay
  BY DEF IInv
<1>2. QED
  BY <1>1, InitIInv, NextIInv, PTL DEF Spec

(* connect() does not wait for a relay that has given up its attempt. *)
THEOREM ConnectNotLost == Spec => []ConnectHasSocket
<1>1. IInv => ConnectHasSocket
  BY DEF IInv
<1>2. QED
  BY <1>1, InitIInv, NextIInv, PTL DEF Spec

-----------------------------------------------------------------------------
(* The host. *)

(* The types of the variables that ClientHost adds. *)
HostTypes ==
    /\ kind \in Hosts
    /\ device \in Servers \cup {NoServer}
    /\ rules \in BOOLEAN /\ default \in BOOLEAN
    /\ pinned \in [Servers -> {"no", "out", "in"}]

(* Without an interface there are no routes into it.  The route of the     *)
(* main table is the first, so that one to an endpoint leads into the      *)
(* tunnel only if it is added while an interface is there, and then not to *)
(* the endpoint of its peer.  The main table has the default route of an   *)
(* interface that is not half made, which may be left as it is.            *)
Routes ==
    /\ device = NoServer => ~ rules /\ ~ default /\ \A s \in Servers : pinned[s] # "in"
    /\ device # NoServer /\ ~ kind.half => Past(device) /\ default = (kind.uplink # "zero")

(* What createInterface has said is up is there, with a way into it. *)
Way ==
    /\ device # NoServer
    /\ rules \/ default \/ kind.uplink = "zero" \/ (kind.half /\ ~ kind.quick)

HostIInv == HostTypes /\ Routes /\ (interface => Way)

(* The steps of the host are such steps of the client. *)
LEMMA HostStep == HostNext => Next
BY DEF HostNext, WithInterface, WithoutInterface, DisconnectFromHost, Elsewhere, Next, Application,
       Connecting

(* The client on its host is the client of ClientService. *)
THEOREM IsClient == HostSpec => Spec
<1>1. HostInit => Init
  BY DEF HostInit
<1>2. [HostNext]_allVars => [Next]_vars
  BY HostStep DEF allVars
<1> QED  BY <1>1, <1>2, PTL DEF HostSpec, Spec

(* Whatever was left on the host, in part or in full. *)
LEMMA InitHostIInv == HostInit => HostIInv
<1> SUFFICES ASSUME HostInit PROVE HostIInv
  OBVIOUS
<1>1. HostTypes
  BY DEF HostInit, HostTypes
<1>2. Routes
  <2>1. \A s \in Servers : pinned[s] # "in"
    BY DEF HostInit
  <2> QED  BY <2>1 DEF HostInit, Routes
<1> QED  BY <1>1, <1>2 DEF HostInit, Init, HostIInv

(* Pin leaves the types, and every route that is there, as they are; with  *)
(* no default route over the interface it makes no route into it, and      *)
(* gives the endpoint one past it where there can be one.                  *)
LEMMA PinPins ==
  ASSUME HostTypes, NEW s \in Servers, Pin(s), kind' = kind
  PROVE  /\ pinned' \in [Servers -> {"no", "out", "in"}]
         /\ \A t \in Servers : pinned[t] # "no" => pinned'[t] = pinned[t]
         /\ \A t \in Servers : Past(t) => Past(t)'
         /\ ~ default => /\ \A t \in Servers : pinned[t] # "in" => pinned'[t] # "in"
                         /\ pinned[s] # "in" => Past(s)'
<1> USE DEF Routable
<1>1. FirstDefault \in {"no", "out", "in"}
  BY DEF FirstDefault
<1>2. \A t \in Servers : pinned'[t] = IF t = s /\ pinned[s] = "no" /\ s \notin Named
                                      THEN FirstDefault ELSE pinned[t]
  BY DEF Pin, HostTypes
<1>3. pinned' \in [Servers -> {"no", "out", "in"}]
  BY <1>1 DEF Pin, HostTypes
<1>4. \A t \in Servers : Past(t) => Past(t)'
  BY <1>2 DEF Past
<1>5. ASSUME ~ default
      PROVE  /\ \A t \in Servers : pinned[t] # "in" => pinned'[t] # "in"
             /\ pinned[s] # "in" => Past(s)'
  <2>1. FirstDefault = IF kind.uplink = "none" THEN "no" ELSE "out"
    BY <1>5 DEF FirstDefault
  <2>2. pinned[s] \in {"no", "out", "in"}
    BY DEF HostTypes
  <2> QED  BY <1>2, <2>1, <2>2 DEF Past
<1> QED  BY <1>2, <1>3, <1>4, <1>5

(* Each way to come to an interface keeps the routes in order, and ends    *)
(* with an interface that traffic has a way into.                          *)
LEMMA CreatedIInv ==
  ASSUME HostIInv, NEW s \in Servers, MadeByQuick(s) \/ MadeByHand(s) \/ Kept(s), kind' = kind
  PROVE  HostIInv'
<1> USE DEF SetupRouting
<1>1. Pin(s) /\ TakeDefault
  BY DEF MadeByQuick, MadeByHand, Kept
<1>2. s # NoServer
  BY HostConstants
<1>3. HostTypes'
  BY <1>1, PinPins DEF HostIInv, HostTypes, MadeByQuick, MadeByHand, Kept, TakeDefault
<1>4. Way' /\ default' = (kind'.uplink # "zero")
  BY <1>1, <1>2 DEF MadeByQuick, MadeByHand, Kept, TakeDefault, Way
<1>5. ASSUME ~ kind.half PROVE Past(device)'
  <2>1. CASE Kept(s)
    <3>1. device \in Servers /\ Past(device) /\ device' = device
      BY <1>5, <2>1 DEF Kept, HostIInv, HostTypes, Routes
    <3> QED  BY <1>1, <3>1, PinPins DEF HostIInv, Past, Routable
  <2>2. CASE MadeByQuick(s) \/ MadeByHand(s)
    <3>1. device' = s /\ ~ default /\ pinned[s] # "in"
      BY <2>2 DEF MadeByQuick, MadeByHand, HostIInv, Routes
    <3> QED  BY <1>1, <3>1, PinPins DEF HostIInv, Past, Routable
  <2> QED  BY <2>1, <2>2
<1>6. Routes'
  BY <1>4, <1>5 DEF Routes, Way
<1> QED  BY <1>3, <1>4, <1>6 DEF HostIInv

(* So does an interface that is left as it is. *)
LEMMA LeftIInv ==
  ASSUME HostIInv, LeftAsIs, kind' = kind
  PROVE  HostIInv'
<1>1. Way
  BY DEF HostIInv, HostTypes, Routes, Way, LeftAsIs
<1> QED  BY <1>1 DEF LeftAsIs, host, HostIInv, HostTypes, Routes, Way, Past, Routable

(* So does a setup that fails. *)
LEMMA NotMadeIInv ==
  ASSUME HostIInv, NEW s \in Servers, NotMade(s), kind' = kind, interface' = interface
  PROVE  HostIInv'
<1>1. device = NoServer /\ device' = NoServer /\ ~ rules' /\ ~ default' /\ ~ interface'
  BY DEF NotMade, HostIInv, Routes, Way
<1>2. HostTypes'
  BY PinPins DEF NotMade, HostIInv, HostTypes
<1>3. \A t \in Servers : pinned'[t] # "in"
  BY PinPins DEF NotMade, HostIInv, Routes
<1> QED  BY <1>1, <1>2, <1>3 DEF HostIInv, Routes

(* And the removal of the interface, where it succeeds. *)
LEMMA RemovedIInv ==
  ASSUME HostIInv, Removed, kind' = kind, ~ interface'
  PROVE  HostIInv'
<1>1. device' = NoServer /\ ~ rules' /\ ~ default'
  BY DEF Removed
<1>2. /\ pinned' \in [Servers -> {"no", "out", "in"}]
      /\ \A t \in Servers : pinned'[t] # "in"
  BY DEF Removed, HostIInv, HostTypes
<1>3. HostTypes'
  BY <1>1, <1>2 DEF HostIInv, HostTypes, Removed
<1> QED  BY <1>1, <1>2, <1>3 DEF HostIInv, Routes

(* A step that leaves the host alone, and makes no interface. *)
LEMMA SameHost ==
  ASSUME HostIInv, UNCHANGED <<kind, host>>, interface' => interface
  PROVE  HostIInv'
BY DEF host, HostIInv, HostTypes, Routes, Way, Past, Routable

(* Every step keeps them. *)
LEMMA NextHostIInv == HostIInv /\ [HostNext]_allVars => HostIInv'
<1> SUFFICES ASSUME HostIInv, [HostNext]_allVars PROVE HostIInv'
  OBVIOUS
<1>1. CASE UNCHANGED allVars
  BY <1>1, SameHost DEF allVars, vars, service
<1>2. ASSUME HostNext, WithInterface PROVE HostIInv'
  BY <1>2, CreatedIInv, LeftIInv DEF HostNext, WithInterface
<1>3. ASSUME HostNext, WithoutInterface PROVE HostIInv'
  BY <1>3, NotMadeIInv, SameHost DEF HostNext, WithoutInterface
<1>4. ASSUME HostNext, DisconnectFromHost PROVE HostIInv'
  <2>1. CASE Removed
    <3>1. ~ interface'
      BY <1>4, <2>1 DEF DisconnectFromHost, Removed
    <3> QED  BY <1>4, <2>1, <3>1, RemovedIInv DEF HostNext
  <2>2. CASE UNCHANGED host
    BY <1>4, <2>2, SameHost DEF HostNext, DisconnectFromHost
  <2> QED  BY <1>4, <2>1, <2>2 DEF DisconnectFromHost
<1>5. ASSUME HostNext, Elsewhere, UNCHANGED host PROVE HostIInv'
  <2>1. interface' = interface
    BY <1>5 DEF Elsewhere, Connect, DisconnectIgnored, Healthy, Refused, InterfaceRegistered,
                Relaying, Opened, OpenFails, Hangs, Dropped, Closed, TimerFires, service
  <2> QED  BY <1>5, <2>1, SameHost DEF HostNext
<1> QED  BY <1>1, <1>2, <1>3, <1>4, <1>5 DEF HostNext

(* The variables keep their types. *)
THEOREM HostTypeCorrect == HostSpec => []HostTypeOK
<1>1. HostIInv /\ TypeOK => HostTypeOK
  BY DEF HostIInv, HostTypes, HostTypeOK
<1>2. HostSpec => []TypeOK
  BY IsClient, TypeCorrect, PTL
<1>3. QED
  BY <1>1, <1>2, InitHostIInv, NextHostIInv, PTL DEF HostSpec

(* Whatever an earlier process left on the host, for whichever endpoints   *)
(* connect() is called and however it makes its interface: the packets of  *)
(* the tunnel do not go into the tunnel where its endpoint can have a      *)
(* route past it (NoLoop: an address, on a host with an uplink, the        *)
(* interface not half made), and those of a connected client with an       *)
(* interface do (TrafficTunnelled, with the two exceptions it names).      *)
THEOREM TunnelStandsOnHost == HostSpec => []OnTheHost
<1>1. HostIInv => OnTheHost
  <2> SUFFICES ASSUME HostIInv PROVE NoLoop /\ TrafficTunnelled
    BY DEF OnTheHost
  <2>1. NoLoop
    BY DEF HostIInv, Routes, NoLoop
  <2>2. TrafficTunnelled
    BY DEF HostIInv, Way, TrafficTunnelled
  <2> QED  BY <2>1, <2>2
<1>2. QED
  BY <1>1, InitHostIInv, NextHostIInv, PTL DEF HostSpec
=============================================================================
