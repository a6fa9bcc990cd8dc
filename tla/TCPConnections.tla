--------------------------- MODULE TCPConnections ---------------------------
(***************************************************************************)
(* What a HiggsNode does with a packet of a client: handleClientPacket of  *)
(* NodeService, PacketForwarder, and the table of TCP connections of       *)
(* TCPConnectionManager, one for each flow; and with what comes back.      *)
(*                                                                         *)
(* A flow is the key of the table, the addresses and ports of a packet.    *)
(* PacketForwarder reads the destination from bytes 12 to 15 of the header *)
(* and the source from bytes 16 to 19, where IPv4 has them the other way   *)
(* round; which end is called from which does not matter to the table.     *)
(*                                                                         *)
(* Sockets are named.  A socket that is destroyed emits 'close' before     *)
(* anything more can come from the network: that is the only order between *)
(* events of two sockets.  Time passes in ticks, as long as the timeout of *)
(* an idle socket.                                                         *)
(*                                                                         *)
(* Messages from the relay carry the id of the node as their session       *)
(* (WebSocketRelay.handleMessage), so that the node knows one session.     *)
(* Left out: the answers to UDP packets, which nobody listens for where    *)
(* they come back.                                                         *)
(***************************************************************************)
EXTENDS Naturals, TCPTable

table == <<running, connections, sock, flow, idle, waiting, hung>>

TypeOK ==
    /\ running \in BOOLEAN
    /\ connections \in [Flows -> Sockets \cup {NoSocket}]
    /\ sock \in [Sockets -> {"free", "connecting", "open", "destroyed"}]
    /\ flow \in [Sockets -> Flows]
    /\ idle \in [Sockets -> 0 .. MaxIdle + 1]
    /\ waiting \subseteq Sockets
    /\ hung \in BOOLEAN /\ active \in BOOLEAN /\ listed \in BOOLEAN
    /\ met \subseteq Flows

Init ==
    /\ running = FALSE
    /\ connections = [f \in Flows |-> NoSocket]
    /\ sock = [s \in Sockets |-> "free"]
    /\ flow = [s \in Sockets |-> CHOOSE f \in Flows : TRUE]
    /\ idle = [s \in Sockets |-> 0]
    /\ waiting = {}
    /\ hung = FALSE /\ active = FALSE /\ listed = FALSE
    /\ met = {}

(* Mutant: setTimeout is called once the socket is connected. *)
DueOpen(s) == sock[s] = "open" /\ idle[s] >= IdleTimeout

(* setTimeout(10000): of an attempt, and of a connection without traffic.  *)
Due(s) == Alive(s) /\ idle[s] >= IdleTimeout

(* No socket has its 'close' still to come. *)
Quiet == \A s \in Sockets : sock[s] # "destroyed"

-----------------------------------------------------------------------------
(* PacketForwarder.start, with the manager's. *)
Start ==
    /\ ~ running
    /\ running' = TRUE
    /\ UNCHANGED <<connections, sock, flow, idle, waiting, hung, active, listed, met>>

(* handleClientPacket before the packet is handed on: the session is new,  *)
(* or its activity is renewed under an id that SessionManager, which gives *)
(* ids of its own, does not know.                                          *)
Noted ==
    /\ active' = TRUE
    /\ listed' = (listed \/ ~ active)

(* A packet for a connection in the table is written to it. *)
PacketWritten(f) ==
    /\ running /\ connections[f] # NoSocket
    /\ Noted
    /\ idle' = [idle EXCEPT ![connections[f]] = 0]
    /\ UNCHANGED <<running, connections, sock, flow, waiting, hung, met>>

(* For any other, createConnection makes a socket.  The table is written   *)
(* when it is connected.                                                   *)
PacketConnects(f, s) ==
    /\ running /\ connections[f] = NoSocket
    /\ sock[s] = "free" /\ Quiet
    /\ Noted
    /\ sock' = [sock EXCEPT ![s] = "connecting"]
    /\ flow' = [flow EXCEPT ![s] = f]
    /\ idle' = [idle EXCEPT ![s] = 0]
    /\ waiting' = waiting \cup {s}
    /\ met' = IF \E t \in Sockets : Alive(t) /\ flow[t] = f THEN met \cup {f} ELSE met
    /\ UNCHANGED <<running, connections, hung>>

(* A TCP segment with a payload, as handleTCPPacket reads it. *)
Segment(f) == PacketWritten(f) \/ \E s \in Sockets : PacketConnects(f, s)

(* The forwarder does not run, or the packet is too short or not of IPv4   *)
(* or IPv6.  (A node without room for the packet drops it before anything  *)
(* else.)                                                                  *)
PacketDropped ==
    /\ Noted
    /\ UNCHANGED <<table, met>>

(* UDP is sent at once; segments without a payload and other protocols are *)
(* ignored.                                                                *)
PacketPassed ==
    /\ running
    /\ Noted
    /\ UNCHANGED <<table, met>>

(* Mutant: nothing is put into a table that was stopped. *)
ConnectedMutant(s) ==
    /\ sock[s] = "connecting" /\ Quiet
    /\ sock' = [sock EXCEPT ![s] = "open"]
    /\ connections' = [connections EXCEPT ![flow[s]] = IF running THEN s ELSE @]
    /\ idle' = [idle EXCEPT ![s] = 0]
    /\ waiting' = waiting \ {s}
    /\ UNCHANGED <<running, flow, hung, active, listed, met>>

(* 'connect': the connection is put under its key, whatever was there, and *)
(* the packet is written.                                                  *)
Connected(s) ==
    /\ sock[s] = "connecting" /\ Quiet
    /\ sock' = [sock EXCEPT ![s] = "open"]
    /\ connections' = [connections EXCEPT ![flow[s]] = s]
    /\ idle' = [idle EXCEPT ![s] = 0]
    /\ waiting' = waiting \ {s}
    /\ UNCHANGED <<running, flow, hung, active, listed, met>>

(* Mutant: the key is the destination, which all flows have in common. *)
RemoveMutant(fs, dead) ==
    LET all == IF fs = {} THEN {} ELSE Flows
        cut == {connections[f] : f \in all} \cap {t \in Sockets : Alive(t)}
    IN  /\ connections' = [f \in Flows |-> IF f \in all THEN NoSocket ELSE connections[f]]
        /\ sock' = [t \in Sockets |-> IF t \in dead \cup cut THEN "destroyed" ELSE sock[t]]

(* removeConnection for the keys fs, by sockets that are dead by now: what *)
(* is under the key goes, and is destroyed, also if it is another socket.  *)
Remove(fs, dead) ==
    LET cut == {connections[f] : f \in fs} \cap {t \in Sockets : Alive(t)}
    IN  /\ connections' = [f \in Flows |-> IF f \in fs THEN NoSocket ELSE connections[f]]
        /\ sock' = [t \in Sockets |-> IF t \in dead \cup cut THEN "destroyed" ELSE sock[t]]

(* 'error', before the connection is made or after.  The promise of an     *)
(* attempt that fails is never resolved: the timer of a destroyed socket   *)
(* does not fire.                                                          *)
Fails(s) ==
    /\ Alive(s) /\ Quiet
    /\ Remove({flow[s]}, {s})
    /\ waiting' = waiting \ {s}
    /\ hung' = (hung \/ s \in waiting)
    /\ UNCHANGED <<running, flow, idle, active, listed, met>>

(* The other end closes. *)
RemoteEnds(s) ==
    /\ sock[s] = "open" /\ Quiet
    /\ sock' = [sock EXCEPT ![s] = "destroyed"]
    /\ UNCHANGED <<running, connections, flow, idle, waiting, hung, active, listed, met>>

(* 'timeout', of an attempt or of a connection without traffic. *)
TimesOut(s) ==
    /\ Due(s) /\ Quiet
    /\ Remove({flow[s]}, {s})
    /\ waiting' = waiting \ {s}
    /\ UNCHANGED <<running, flow, idle, hung, active, listed, met>>

(* 'close' *)
Closed(s) ==
    /\ sock[s] = "destroyed"
    /\ LET cut == {connections[flow[s]]} \cap {t \in Sockets : Alive(t)}
       IN  sock' = [t \in Sockets |-> CASE t = s -> "free"
                                        [] t \in cut -> "destroyed"
                                        [] OTHER -> sock[t]]
    /\ connections' = [connections EXCEPT ![flow[s]] = NoSocket]
    /\ UNCHANGED <<running, flow, idle, waiting, hung, active, listed, met>>

(* 'data': the answer goes to the node's session, if there is one and the  *)
(* relay is connected.                                                     *)
Answered(s) ==
    /\ sock[s] = "open" /\ Quiet
    /\ idle' = [idle EXCEPT ![s] = 0]
    /\ UNCHANGED <<running, connections, sock, flow, waiting, hung, active, listed, met>>

-----------------------------------------------------------------------------
(* cleanupInactiveConnections, every minute. *)
CleanupInactive ==
    /\ running /\ Quiet
    /\ Remove({f \in Flows : connections[f] # NoSocket /\ idle[connections[f]] > MaxIdle}, {})
    /\ UNCHANGED <<running, flow, idle, waiting, hung, active, listed, met>>

(* SessionManager.cleanup takes the session when five minutes have passed  *)
(* since it was made, since nothing renews it; activeSessions keeps its    *)
(* id, so that no packet will list it again.                               *)
CleanupSessions ==
    /\ listed
    /\ listed' = FALSE
    /\ UNCHANGED <<table, active, met>>

(* stop(): what is in the table is destroyed; attempts are not in it. *)
Stop ==
    /\ running
    /\ running' = FALSE
    /\ Remove(Flows, {})
    /\ UNCHANGED <<flow, idle, waiting, hung, active, listed, met>>

(* Time passes when nothing is due. *)
Tick ==
    /\ Quiet
    /\ \A s \in Sockets : ~ Due(s)
    /\ idle' = [s \in Sockets |-> IF Alive(s) /\ idle[s] =< MaxIdle THEN idle[s] + 1 ELSE idle[s]]
    /\ UNCHANGED <<running, connections, sock, flow, waiting, hung, active, listed, met>>

Next ==
    \/ Start \/ PacketDropped \/ PacketPassed \/ Stop
    \/ \E f \in Flows : Segment(f)
    \/ \E s \in Sockets : \/ Connected(s) \/ Fails(s) \/ RemoteEnds(s) \/ TimesOut(s)
                          \/ Closed(s) \/ Answered(s)
    \/ CleanupInactive \/ CleanupSessions
    \/ Tick

Spec == Init /\ [][Next]_tcp

(* Timers fire and a destroyed socket is closed.  Fairness is strong where *)
(* the step waits for others to be over: every turn of the event loop      *)
(* looks at the timers, however many sockets fail and close.               *)
Fairness ==
    /\ SF_tcp(Tick)
    /\ \A s \in Sockets : SF_tcp(TimesOut(s)) /\ WF_tcp(Closed(s))

FairSpec == Spec /\ Fairness

-----------------------------------------------------------------------------
(* A packet that makes a connection does not wait for it for ever, unless  *)
(* the attempt fails with an error (see NoneHangs).                        *)
CallsSettle == \A s \in Sockets : s \in waiting ~> s \notin waiting

(* The comment on TCPConnectionManager says that it makes a connection for *)
(* each destination.  Packets that come while an attempt is under way make *)
(* more, and a flow is split over them.                                    *)
OneConnectionPerFlow ==
    \A s, t \in Sockets : sock[s] = "open" /\ sock[t] = "open" /\ flow[s] = flow[t] => s = t

(* createConnection is to give a connection or undefined.  When the        *)
(* attempt ends in an error it gives neither.                              *)
NoneHangs == ~ hung
=============================================================================
