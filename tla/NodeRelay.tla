------------------------------ MODULE NodeRelay -----------------------------
(***************************************************************************)
(* The socket a HiggsNode keeps to the relay of bosonserver: class         *)
(* WebSocketRelay (higgsnode/src/services), which connectToRelay of        *)
(* NodeService makes once the node is registered.  It connects, connects   *)
(* again after a failure with a limit on attempts, falls back from wss to  *)
(* ws, answers heartbeats and sends the packets for clients, the small     *)
(* ones in batches.                                                        *)
(*                                                                         *)
(* Sockets are named, since a timer or an event of one may find that       *)
(* this.ws is another by now.  When a socket that is being opened fails,   *)
(* its events 'error' and 'close' come one after the other in one turn,    *)
(* and are one step.  Durations are left out, with one exception: the 10   *)
(* ms of a batch, which starts while the socket is open, lie within the    *)
(* second or more a new attempt waits for.                                 *)
(*                                                                         *)
(* Left out is the catch of connect() (lines 195-198), for a URL that the  *)
(* constructor of WebSocket throws at: the URL is given once and changes   *)
(* in its scheme at most, so it throws at the first attempt, when nothing  *)
(* is under way and nothing follows, or never.                             *)
(*                                                                         *)
(* sendControl has no caller and is left out; the events for control       *)
(* messages have no listener in NodeService.                               *)
(***************************************************************************)
EXTENDS Naturals, Sequences, PacketBatch

CONSTANTS
    Sockets,        \* names for sockets; a name is used again after its close
    None,
    MaxAttempts,    \* maxReconnectAttempts
    BatchSize,      \* BATCH_SIZE
    Small, Large,   \* packets below MAX_PACKET_SIZE, and the others
    MaxWire,        \* bound of the model: messages on their way to the server
    MaxBeats        \* bound of the model: heartbeats on their way

ASSUME RelayAssumption ==
    /\ None \notin Sockets
    /\ MaxAttempts \in Nat
    /\ BatchSize \in Nat \ {0}
    /\ BatchSize < 100      \* the limit of the other end; BATCH_SIZE is 10
    /\ Small \cup Large \subseteq Seq(Nat)
    /\ MaxWire \in Nat \ {0} /\ MaxBeats \in Nat

VARIABLES
    begun,          \* connectToRelay has been called
    ended,          \* disconnect() has been called
    sock,           \* sock[s]: readyState of socket s
    ws,             \* this.ws
    watch,          \* sockets whose connectionTimeout runs
    connected,      \* this.isConnected
    attempts,       \* this.reconnectAttempts
    retry,          \* the timeout of reconnectTimer has yet to fire
    fallback,       \* the timeout for plain WebSocket has yet to fire
    secure,         \* the url begins with wss://
    beating,        \* the interval of heartbeatTimer runs
    buffer,         \* packetBuffer
    batchTimer,     \* "off" (null), "set", or "fired" and not cleared
    wire,           \* messages on their way, each with the packets it is for
    beats,          \* heartbeats on their way: to the server, to the node
    server          \* "flaky", or for good "up" or "down"

link    == <<sock, ws, watch, connected, attempts, retry, fallback, secure>>
batch   == <<buffer, batchTimer, wire>>
vars    == <<begun, ended, link, beating, batch, beats, server>>

States == {"connecting", "open", "closing", "closed"}

TypeOK ==
    /\ begun \in BOOLEAN /\ ended \in BOOLEAN
    /\ sock \in [Sockets -> States]
    /\ ws \in Sockets \cup {None}
    /\ watch \subseteq Sockets
    /\ connected \in BOOLEAN
    /\ attempts \in 0 .. MaxAttempts
    /\ retry \in BOOLEAN /\ fallback \in BOOLEAN
    /\ secure \in BOOLEAN
    /\ beating \in BOOLEAN
    /\ buffer \in Seq(Small) /\ Len(buffer) < BatchSize
    /\ batchTimer \in {"off", "set", "fired"}
    /\ wire \in Seq([message : Seq(Nat), packets : Seq(Small \cup Large)])
    /\ beats \in [server : Nat, node : Nat]
    /\ server \in {"flaky", "up", "down"}

Init ==
    /\ begun = FALSE /\ ended = FALSE
    /\ sock = [s \in Sockets |-> "closed"]
    /\ ws = None
    /\ watch = {}
    /\ connected = FALSE
    /\ attempts = 0
    /\ retry = FALSE /\ fallback = FALSE
    /\ secure \in BOOLEAN
    /\ beating = FALSE
    /\ buffer = <<>> /\ batchTimer = "off"
    /\ wire = <<>>
    /\ beats = [server |-> 0, node |-> 0]
    /\ server = "flaky"

Live == {s \in Sockets : sock[s] # "closed"}

-----------------------------------------------------------------------------
(* connect: a new socket, with its timeout.  What it was called by says    *)
(* what becomes of retry and fallback.                                     *)
NewSocket ==
    \E s \in Sockets \ (Live \cup {ws}) :
        /\ sock' = [sock EXCEPT ![s] = "connecting"]
        /\ ws' = s
        /\ watch' = watch \cup {s}

(* The node is registered and has a relay server to connect to. *)
Start ==
    /\ ~ begun
    /\ begun' = TRUE
    /\ NewSocket
    /\ UNCHANGED <<ended, connected, attempts, retry, fallback, secure, beating, batch, beats, server>>

(* reconnectTimer fires, with nothing left to send for the last socket. *)
RetryFires ==
    /\ retry /\ batchTimer # "set"
    /\ retry' = FALSE
    /\ NewSocket
    /\ UNCHANGED <<begun, ended, connected, attempts, fallback, secure, beating, batch, beats, server>>

FallbackFires ==
    /\ fallback /\ batchTimer # "set"
    /\ fallback' = FALSE
    /\ NewSocket
    /\ UNCHANGED <<begun, ended, connected, attempts, retry, secure, beating, batch, beats, server>>

(* 'open' *)
Opened(s) ==
    /\ sock[s] = "connecting" /\ server # "down"
    /\ sock' = [sock EXCEPT ![s] = "open"]
    /\ watch' = watch \ {s}
    /\ connected' = TRUE
    /\ attempts' = 0
    /\ beating' = TRUE
    /\ UNCHANGED <<begun, ended, ws, retry, fallback, secure, batch, beats, server>>

(* ws.close() on what this.ws stands for. *)
CloseWs == IF ws # None /\ sock[ws] \in {"connecting", "open"}
           THEN sock' = [sock EXCEPT ![ws] = "closing"]
           ELSE UNCHANGED sock

(* Ten seconds have passed since connect() made socket s. *)
TimedOut(s) ==
    /\ s \in watch /\ server # "up"
    /\ watch' = watch \ {s}
    /\ IF connected THEN UNCHANGED sock ELSE CloseWs
    /\ UNCHANGED <<begun, ended, ws, connected, attempts, retry, fallback, secure, beating, batch, beats, server>>

(* Mutant: attempts are not counted. *)
ScheduleReconnectMutant ==
    /\ retry' = (attempts < MaxAttempts \/ retry)
    /\ UNCHANGED attempts

(* scheduleReconnect, where the limit allows it. *)
ScheduleReconnect ==
    IF attempts < MaxAttempts
    THEN retry' = TRUE /\ attempts' = attempts + 1
    ELSE UNCHANGED <<retry, attempts>>

(* Mutant: only a socket that was open is replaced. *)
GoneMutant(s) ==
    /\ sock[s] # "closed"
    /\ sock[s] = "closing" \/ server # "up"
    /\ sock' = [sock EXCEPT ![s] = "closed"]
    /\ watch' = watch \ {s}
    /\ connected' = FALSE
    /\ beating' = FALSE
    /\ wire' = <<>>
    /\ beats' = [server |-> 0, node |-> 0]
    /\ IF connected THEN ScheduleReconnect ELSE UNCHANGED <<retry, attempts>>
    /\ UNCHANGED <<begun, ended, ws, fallback, secure, buffer, batchTimer, server>>

(* 'close', with the 'error' before it if there was one: an attempt fails, *)
(* or an open socket ends, or one that was being closed.  What was on its  *)
(* way is lost.                                                            *)
Gone(s) ==
    /\ sock[s] # "closed"
    /\ sock[s] = "closing" \/ server # "up"
    /\ sock' = [sock EXCEPT ![s] = "closed"]
    /\ watch' = watch \ {s}
    /\ connected' = FALSE
    /\ beating' = FALSE
    /\ wire' = <<>>
    /\ beats' = [server |-> 0, node |-> 0]
    /\ ScheduleReconnect
    /\ UNCHANGED <<begun, ended, ws, fallback, secure, buffer, batchTimer, server>>

(* Mutant: the listeners stay, and the close of the socket is heard too. *)
FallsBackMutant(s) ==
    /\ sock[s] = "connecting" /\ secure /\ ~ connected
    /\ secure' = FALSE
    /\ sock' = [sock EXCEPT ![s] = "closed"]
    /\ ws' = None
    /\ watch' = watch \ {s}
    /\ fallback' = TRUE
    /\ ScheduleReconnect
    /\ UNCHANGED <<begun, ended, connected, beating, batch, beats, server>>

(* Mutant: the next attempt is left to a close that is not heard. *)
FallsBackUnheard(s) ==
    /\ sock[s] = "connecting" /\ secure /\ ~ connected
    /\ secure' = FALSE
    /\ sock' = [sock EXCEPT ![s] = "closed"]
    /\ ws' = None
    /\ watch' = watch \ {s}
    /\ UNCHANGED <<begun, ended, connected, attempts, retry, fallback, beating, batch, beats, server>>

(* 'error' with EPROTO: the server does not speak TLS.  The url is changed *)
(* for good, and the socket, without listeners, is let go.                 *)
FallsBack(s) ==
    /\ sock[s] = "connecting" /\ secure /\ ~ connected
    /\ secure' = FALSE
    /\ sock' = [sock EXCEPT ![s] = "closed"]
    /\ ws' = None
    /\ watch' = watch \ {s}
    /\ fallback' = TRUE
    /\ UNCHANGED <<begun, ended, connected, attempts, retry, beating, batch, beats, server>>

-----------------------------------------------------------------------------
(* ws.send: a message through a socket that is not open is dropped. *)
Send(m, ps) ==
    wire' = IF ws # None /\ sock[ws] = "open"
            THEN Append(wire, [message |-> m, packets |-> ps]) ELSE wire

(* Mutant: the timer is stopped, and its handle is left. *)
FlushMutant(ps, timer) ==
    IF ps = <<>> \/ ws = None
    THEN buffer' = ps /\ batchTimer' = timer /\ UNCHANGED wire
    ELSE buffer' = <<>> /\ batchTimer' = "fired" /\ Send(Batch(ps), ps)

(* Mutant: the count is written before the last packet is added. *)
FlushShort(ps, timer) ==
    IF ps = <<>> \/ ws = None
    THEN buffer' = ps /\ batchTimer' = timer /\ UNCHANGED wire
    ELSE /\ buffer' = <<>> /\ batchTimer' = "off"
         /\ Send([Batch(ps) EXCEPT ![1] = @ - 1], ps)

(* flushBatch with ps in the buffer: the timer is cleared on the way out   *)
(* only if there was something to send, and a socket.                      *)
Flush(ps, timer) ==
    IF ps = <<>> \/ ws = None
    THEN buffer' = ps /\ batchTimer' = timer /\ UNCHANGED wire
    ELSE buffer' = <<>> /\ batchTimer' = "off" /\ Send(Batch(ps), ps)

(* sendData for the node's own session, with a buffer of bytes. *)
SendSmall(p) ==
    /\ connected /\ ws # None
    /\ IF Len(buffer) + 1 >= BatchSize
       THEN Flush(Append(buffer, p), batchTimer)
       ELSE /\ buffer' = Append(buffer, p)
            /\ batchTimer' = IF batchTimer = "off" THEN "set" ELSE batchTimer
            /\ UNCHANGED wire

SendLarge(p) ==
    /\ connected /\ ws # None
    /\ Send(p, <<p>>)
    /\ UNCHANGED <<buffer, batchTimer>>

(* handleIncomingPacket: a packet comes from the internet and the relay is *)
(* connected.  It goes to the first of the active sessions; the node knows *)
(* no other than its own.                                                  *)
Incoming(p) ==
    /\ ws # None /\ sock[ws] = "open"
    /\ Len(wire) < MaxWire
    /\ IF p \in Small THEN SendSmall(p) ELSE SendLarge(p)
    /\ UNCHANGED <<begun, ended, link, beating, beats, server>>

BatchTimerFires ==
    /\ batchTimer = "set"
    /\ Len(wire) < MaxWire
    /\ Flush(buffer, "fired")
    /\ UNCHANGED <<begun, ended, link, beating, beats, server>>

(* The server reads a message; what it reads is ReadAs. *)
Received ==
    /\ wire # <<>>
    /\ wire' = Tail(wire)
    /\ UNCHANGED <<begun, ended, link, beating, buffer, batchTimer, beats, server>>

-----------------------------------------------------------------------------
(* sendHeartbeat *)
SendBeat == IF connected /\ ws # None /\ sock[ws] = "open" THEN 1 ELSE 0

(* The interval of the node, or that of the server for this socket, fires. *)
NodeBeats ==
    /\ beating /\ beats.server + beats.node < MaxBeats
    /\ beats' = [beats EXCEPT !.server = @ + SendBeat]
    /\ UNCHANGED <<begun, ended, link, beating, batch, server>>

ServerBeats ==
    /\ \E s \in Sockets : sock[s] = "open"
    /\ beats.server + beats.node < MaxBeats
    /\ beats' = [beats EXCEPT !.node = @ + 1]
    /\ UNCHANGED <<begun, ended, link, beating, batch, server>>

(* Each side answers a heartbeat with a heartbeat. *)
ServerAnswers ==
    /\ beats.server > 0
    /\ beats' = [server |-> beats.server - 1, node |-> beats.node + 1]
    /\ UNCHANGED <<begun, ended, link, beating, batch, server>>

NodeAnswers ==
    /\ beats.node > 0
    /\ beats' = [server |-> beats.server + SendBeat, node |-> beats.node - 1]
    /\ UNCHANGED <<begun, ended, link, beating, batch, server>>

-----------------------------------------------------------------------------
(* disconnect(), when the node cleans up.  The socket keeps its listeners: *)
(* its close will schedule another attempt.  The timeout of a fallback     *)
(* is not cleared.                                                         *)
Disconnect ==
    /\ begun /\ ~ ended
    /\ ended' = TRUE
    /\ beating' = FALSE
    /\ retry' = FALSE
    /\ IF buffer = <<>> THEN batchTimer' = "off" /\ UNCHANGED <<buffer, wire>>
                        ELSE Flush(buffer, "off")
    /\ CloseWs
    /\ ws' = None
    /\ connected' = FALSE
    /\ UNCHANGED <<begun, watch, attempts, fallback, secure, beats, server>>

(* From here on the server is there, or it is not. *)
ServerSettles ==
    /\ server = "flaky"
    /\ server' \in {"up", "down"}
    /\ UNCHANGED <<begun, ended, link, beating, batch, beats>>

Next ==
    \/ Start \/ RetryFires \/ FallbackFires
    \/ \E s \in Sockets : Opened(s) \/ TimedOut(s) \/ Gone(s) \/ FallsBack(s)
    \/ \E p \in Small \cup Large : Incoming(p)
    \/ BatchTimerFires \/ Received
    \/ NodeBeats \/ ServerBeats \/ ServerAnswers \/ NodeAnswers
    \/ Disconnect \/ ServerSettles

Spec == Init /\ [][Next]_vars

(* What is due happens: a socket that is being closed is closed, a server  *)
(* that is there accepts, one that is not is noticed by TCP or the timeout *)
(* of the attempt, timers fire and messages arrive.                        *)
Ends(s) == (sock[s] = "closing" \/ server = "down") /\ Gone(s)

Fairness ==
    /\ \A s \in Sockets : WF_vars(Ends(s)) /\ WF_vars(server = "up" /\ Opened(s))
    /\ WF_vars(RetryFires) /\ WF_vars(FallbackFires) /\ WF_vars(BatchTimerFires)
    /\ WF_vars(Received) /\ WF_vars(ServerAnswers) /\ WF_vars(NodeAnswers)

FairSpec == Spec /\ Fairness

-----------------------------------------------------------------------------
(* No two attempts at a time: of a socket that is not closed, an attempt   *)
(* to come and a fallback to come there is at most one, so that this.ws    *)
(* is the only socket there is, and a timeout of an attempt can only close *)
(* its own socket.                                                         *)
OneAttempt ==
    /\ \A s, t \in Live : s = t
    /\ Live # {} => ~ retry /\ ~ fallback
    /\ ~ (retry /\ fallback)
    /\ \A s \in watch : sock[s] \in {"connecting", "closing"} /\ ws \in {s, None}
    /\ connected => ws # None /\ sock[ws] \in {"open", "closing"}

(* Until disconnect() is called, the node that has attempts left has a     *)
(* socket or is about to open one: no path through the timeout, an error,  *)
(* the fallback to ws and close leaves it with nothing to wait for.        *)
Attended == begun /\ ~ ended /\ attempts < MaxAttempts => Live # {} \/ retry \/ fallback

(* There is one attempt, never two and never none. *)
OneAtATime == OneAttempt /\ Attended

(* Packets in the buffer of an open socket are never left without the      *)
(* timer that sends them, however batches filled up, timers fired and      *)
(* sockets came and went before.                                           *)
BufferedAreComing == buffer # <<>> => batchTimer = "set"

(* The packets of a batch of two or more are read at the other end as      *)
(* they were given to sendData, in their order, and so is a large packet.  *)
BatchesArriveWhole ==
    \A i \in DOMAIN wire :
        wire[i].message[1] # 1 => ReadAs(wire[i].message) = wire[i].packets

(* PROTOCOL.md says that packets are forwarded without changes.  A batch   *)
(* of one packet is not taken for a batch: it is forwarded with the count  *)
(* and the size before it.                                                 *)
PacketsArriveUnchanged ==
    \A i \in DOMAIN wire : ReadAs(wire[i].message) = wire[i].packets

Idle == Live = {} /\ ~ retry /\ ~ fallback

(* With the server away for good, the node stops trying. *)
GivesUp == <>[](server = "down") => <>[]Idle

(* With the server there for good the node connects, unless it had used    *)
(* its attempts up before or is ending.                                    *)
Reconnects == server = "up" /\ begun ~> connected \/ ended \/ (Idle /\ attempts = MaxAttempts)

(* Trying ends, in one way or the other. *)
TryingEnds == GivesUp /\ Reconnects

(* PROTOCOL.md gives heartbeats an interval of 30 seconds.  The two sides  *)
(* answer one another: an exchange ends only with the socket.              *)
ExchangesEnd == beats.server + beats.node > 0 ~> beats.server + beats.node = 0
=============================================================================
