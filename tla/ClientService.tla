---------------------------- MODULE ClientService ----------------------------
(***************************************************************************)
(* The client of the VPN: class ClientService of higgsvpn-client/src and   *)
(* the relays (class WebSocketRelay) that it creates, one per call of      *)
(* connect() that comes so far.  An application may call connect() and     *)
(* disconnect() whenever it likes.                                         *)
(*                                                                         *)
(* A relay has one WebSocket and at most one reconnection timer.  Its      *)
(* handlers stay attached when ClientService has dropped it, so that a     *)
(* relay of an earlier connect() still acts on `status.connected'.  The    *)
(* awaits of disconnect() and of TrafficForwarder wait for nothing that    *)
(* happens outside: each is one step with its caller.                      *)
(*                                                                         *)
(* Nothing limits the time a WebSocket takes to open: one whose server     *)
(* accepts the connection and does not answer hangs until it does.         *)
(***************************************************************************)
EXTENDS Naturals, FiniteSets

CONSTANTS
    MaxRelays,      \* bound of the model: relays created
    Offers          \* whether a route may come with wireguardConfig, and without

ASSUME ClientConstants ==
    /\ MaxRelays \in Nat \ {0}
    /\ Offers \subseteq BOOLEAN

VARIABLES
    phase,          \* the await at which connect() is suspended, or "idle"
    connected,      \* status.connected
    offered,        \* the last route came with wireguardConfig
    relay,          \* this.relay, None for null
    forwarder,      \* this.trafficForwarder: the relay it was created with
    running,        \* relays whose traffic forwarder polls the interface
    interface,      \* the WireGuard interface is up
    made,           \* relays created so far
    sock,           \* the WebSocket of a relay
    timer,          \* relays whose reconnection timer is set
    released,       \* relays on which disconnect() was called
    wish            \* the last call of the application

service == <<phase, connected, offered, relay, forwarder, running, interface>>
relays == <<made, sock, timer, released>>
vars == <<service, relays, wish>>

None == 0
Relays == 1 .. MaxRelays
Phases == {"idle", "health", "route", "register", "relay"}
SockStates == {"none", "unmade", "opening", "hung", "open", "closing", "down"}

TypeOK ==
    /\ phase \in Phases
    /\ connected \in BOOLEAN /\ offered \in BOOLEAN /\ interface \in BOOLEAN
    /\ made \in 0 .. MaxRelays
    /\ relay \in 0 .. made /\ forwarder \in 0 .. made
    /\ running \subseteq 1 .. made
    /\ sock \in [Relays -> SockStates]
    /\ timer \subseteq 1 .. made /\ released \subseteq 1 .. made
    /\ wish \in {"connect", "disconnect"}

Init ==
    /\ phase = "idle"
    /\ connected = FALSE
    /\ offered = FALSE
    /\ relay = None
    /\ forwarder = None
    /\ running = {}
    /\ interface = FALSE
    /\ made = 0
    /\ sock = [r \in Relays |-> "none"]
    /\ timer = {}
    /\ released = {}
    /\ wish = "disconnect"

-----------------------------------------------------------------------------
(* connect(): asks for the health of the server, then for a route.         *)
Connect ==
    /\ phase = "idle" /\ ~ connected
    /\ made < MaxRelays
    /\ phase' = "health"
    /\ wish' = "connect"
    /\ UNCHANGED <<connected, offered, relay, forwarder, running, interface, relays>>

Healthy ==
    /\ phase = "health"
    /\ phase' = "route"
    /\ UNCHANGED <<connected, offered, relay, forwarder, running, interface, relays, wish>>

(* The server is not healthy or not there, or has no route. *)
Refused ==
    /\ phase \in {"health", "route"}
    /\ phase' = "idle"
    /\ UNCHANGED <<connected, offered, relay, forwarder, running, interface, relays, wish>>

(* Mutant: a forwarder that is there is kept. *)
StartedMutant(r) ==
    /\ phase' = "idle"
    /\ connected' = TRUE
    /\ forwarder' = IF forwarder = None THEN r ELSE forwarder
    /\ running' = running \cup {forwarder'}

(* connect() comes through. *)
Started(r) ==
    /\ phase' = "idle"
    /\ connected' = TRUE
    /\ forwarder' = r
    /\ running' = running \cup {r}

(* A new relay begins to connect, and the one that was there is forgotten. *)
(* Of an endpoint that is no URL no WebSocket is made, then or later;      *)
(* connect() goes on with WireGuard alone if the route offers it.          *)
NewRelay ==
    /\ made' = made + 1
    /\ relay' = made + 1
    /\ \/ /\ sock' = [sock EXCEPT ![made + 1] = "opening"]
          /\ phase' = "relay"
          /\ UNCHANGED <<connected, forwarder, running>>
       \/ /\ sock' = [sock EXCEPT ![made + 1] = "unmade"]
          /\ IF offered' THEN Started(made + 1)
             ELSE phase' = "idle" /\ UNCHANGED <<connected, forwarder, running>>
    /\ UNCHANGED <<timer, released, wish>>

(* The route, without wireguardConfig or with an interface that cannot be  *)
(* set up (an interface that was there may be lost over it).               *)
RouteWithoutInterface ==
    /\ phase = "route"
    /\ offered' \in Offers
    /\ interface' \in IF offered' THEN {FALSE, interface} ELSE {interface}
    /\ NewRelay

(* The interface is up, and is to be registered with the server. *)
RouteWithInterface ==
    /\ phase = "route"
    /\ TRUE \in Offers
    /\ offered' = TRUE
    /\ interface' = TRUE
    /\ phase' = "register"
    /\ UNCHANGED <<connected, relay, forwarder, running, relays, wish>>

(* Registered, or not: connect() goes on. *)
InterfaceRegistered ==
    /\ phase = "register"
    /\ UNCHANGED <<offered, interface>>
    /\ NewRelay

-----------------------------------------------------------------------------
(* The relays.  Each 'disconnected' event, of whichever relay, says that   *)
(* the client is not connected, and no event says that it is again.        *)
Awaited(r) == phase = "relay" /\ relay = r

Opened(r) ==
    /\ sock[r] = "opening"
    /\ sock' = [sock EXCEPT ![r] = "open"]
    /\ IF Awaited(r) THEN Started(r)
                     ELSE UNCHANGED <<phase, connected, forwarder, running>>
    /\ UNCHANGED <<offered, relay, interface, made, timer, released, wish>>

(* The server does not answer the handshake, and does some time perhaps.   *)
Hangs(r) ==
    /\ \/ sock[r] = "opening" /\ sock' = [sock EXCEPT ![r] = "hung"]
       \/ sock[r] = "hung" /\ sock' = [sock EXCEPT ![r] = "opening"]
    /\ UNCHANGED <<service, made, timer, released, wish>>

(* Mutant: a relay that was connected does not reconnect. *)
CloseEventMutant(r) ==
    /\ sock' = [sock EXCEPT ![r] = "down"]
    /\ timer' = IF sock[r] = "open" THEN timer ELSE timer \cup {r}

(* The 'close' event: scheduleReconnect. *)
CloseEvent(r) ==
    /\ sock' = [sock EXCEPT ![r] = "down"]
    /\ timer' = timer \cup {r}

(* 'error' and 'close' of a socket that did not open.  connect() goes on   *)
(* with WireGuard alone if the route offers it.                            *)
OpenFails(r) ==
    /\ sock[r] = "opening"
    /\ CloseEvent(r)
    /\ IF Awaited(r) /\ offered THEN Started(r)
       ELSE /\ connected' = FALSE
            /\ phase' = IF Awaited(r) THEN "idle" ELSE phase
            /\ UNCHANGED <<forwarder, running>>
    /\ UNCHANGED <<offered, relay, interface, made, released, wish>>

(* Mutant: the 'disconnected' event is not handled. *)
DroppedMutant(r) ==
    /\ sock[r] = "open"
    /\ CloseEvent(r)
    /\ UNCHANGED <<phase, connected, offered, relay, forwarder, running, interface,
                   made, released, wish>>

Dropped(r) ==
    /\ sock[r] = "open"
    /\ CloseEvent(r)
    /\ connected' = FALSE
    /\ UNCHANGED <<phase, offered, relay, forwarder, running, interface,
                   made, released, wish>>

(* A socket that disconnect() has closed is gone; its handler is the same. *)
Closed(r) ==
    /\ sock[r] = "closing"
    /\ CloseEvent(r)
    /\ connected' = FALSE
    /\ UNCHANGED <<phase, offered, relay, forwarder, running, interface,
                   made, released, wish>>

(* Mutant: a relay of a client that is not connected gives up. *)
TimerFiresOnce(r) ==
    /\ r \in timer
    /\ timer' = timer \ {r}
    /\ sock' = [sock EXCEPT ![r] = IF connected THEN "opening" ELSE "down"]
    /\ UNCHANGED <<service, made, released, wish>>

TimerFires(r) ==
    /\ r \in timer
    /\ timer' = timer \ {r}
    /\ sock' = [sock EXCEPT ![r] = "opening"]
    /\ UNCHANGED <<service, made, released, wish>>

-----------------------------------------------------------------------------
(* WebSocketRelay.disconnect *)
Release(r) ==
    /\ timer' = timer \ {r}
    /\ sock' = [sock EXCEPT ![r] = IF @ \in {"open", "opening", "hung"} THEN "closing" ELSE @]
    /\ released' = released \cup {r}

(* disconnect().  The interface may withstand its removal.                 *)
Disconnect ==
    /\ connected
    /\ wish' = "disconnect"
    /\ connected' = FALSE
    /\ running' = running \ {forwarder}
    /\ forwarder' = None
    /\ interface' \in {FALSE, interface}
    /\ Release(relay)
    /\ relay' = None
    /\ UNCHANGED <<phase, offered, made>>

(* A client that is not connected has nothing to disconnect, it thinks.    *)
DisconnectIgnored ==
    /\ ~ connected
    /\ wish' = "disconnect"
    /\ UNCHANGED <<service, relays>>

-----------------------------------------------------------------------------
Application == Connect \/ Disconnect \/ DisconnectIgnored

Connecting ==
    \/ Healthy \/ Refused \/ RouteWithoutInterface \/ RouteWithInterface
    \/ InterfaceRegistered

Relaying(r) ==
    \/ Opened(r) \/ OpenFails(r) \/ Hangs(r) \/ Dropped(r) \/ Closed(r)
    \/ TimerFires(r)

Next == Application \/ Connecting \/ \E r \in Relays : Relaying(r)

Spec == Init /\ [][Next]_vars

(* Requests are answered or time out (ApiClient.ts:56), sockets that do    *)
(* not hang open or fail, closing ones close (ws gives them 30 s), timers  *)
(* fire; and a server that is tried for ever is reached some time.  No     *)
(* socket that hangs need ever stop hanging.                               *)
Fairness ==
    /\ WF_vars(Connecting)
    /\ \A r \in Relays :
          /\ WF_vars(Opened(r) \/ OpenFails(r))
          /\ WF_vars(Closed(r))
          /\ WF_vars(TimerFires(r))
          /\ SF_vars(Opened(r))

FairSpec == Spec /\ Fairness

-----------------------------------------------------------------------------
(* connect() never waits for a relay that has ended its attempt: the error *)
(* of a socket settles the promise before the relay turns to reconnecting. *)
ConnectHasSocket == phase = "relay" => relay # None /\ sock[relay] \in {"opening", "hung"}

(* A connected client has the relay and the forwarder of one and the same  *)
(* connect(), whatever earlier ones left behind.                           *)
Equipped == connected => relay # None /\ forwarder = relay /\ relay \in running

(* A client that says it is connected has an open socket, or a route that  *)
(* lets it do without; also while relays of earlier calls come and go.     *)
ConnectedMeansOpen == connected => offered \/ sock[relay] = "open"

(* A relay that is down and was not disconnected is to reconnect. *)
Attended == \A r \in Relays : sock[r] = "down" => r \in timer \/ r \in released

(* No timer is set for a relay that has a socket: a reconnection would     *)
(* take the place of a socket that lives.                                  *)
OneSocketPerRelay == \A r \in timer : sock[r] = "down"

(* Each relay that is down opens again, unless it is disconnected or its   *)
(* server lets an attempt hang: no failure, however often, and no call for *)
(* another relay makes it give up.                                         *)
Reconnects ==
    \A r \in Relays : sock[r] = "down" ~> sock[r] \in {"open", "hung"} \/ r \in released

(* connect() comes to an end, or to a server that lets it hang.            *)
ConnectEnds ==
    phase # "idle" ~> phase = "idle" \/ \E r \in Relays : Awaited(r) /\ sock[r] = "hung"

(* Nobody waits for ever, neither connect() nor a relay that is down, but  *)
(* for a server that accepts connections and does not answer.              *)
ConnectsAgain == Reconnects /\ ConnectEnds

-----------------------------------------------------------------------------
(* Statements that do not hold. *)

(* Every request of connect() has its time (ApiClient.ts:56), so that it    *)
(* comes to an end; its WebSocket has none.                                *)
ConnectEndsInTime == phase # "idle" ~> phase = "idle"

(* "should disconnect from VPN" (ClientService.test.ts:80, 101): when        *)
(* disconnect() was called, the relay is disconnected.                     *)
DisconnectReleases == wish = "disconnect" /\ phase = "idle" => relay = None

(* "should close WebSocket connection" (WebSocketRelay.test.ts:85, 91): a   *)
(* relay that was disconnected is not connected.                           *)
ReleasedStaysClosed == \A r \in released : sock[r] # "open"
=============================================================================
