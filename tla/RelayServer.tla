----------------------------- MODULE RelayServer -----------------------------
(***************************************************************************)
(* The WebSocket relay of bosonserver: class WebSocketRelay and the        *)
(* periodic clean-up of class RelayService, composed with SessionManager.  *)
(*                                                                         *)
(* A socket is one WebSocket from upgrade to close.  Clients and nodes     *)
(* reconnect, so several sockets may name the same id: a relay session id  *)
(* for a client, a node id for a node.  The three maps of the class hold,  *)
(* per id, the socket to send to, the socket of a node, and the socket     *)
(* whose heartbeat interval is on record.                                  *)
(*                                                                         *)
(* Atomicity.  handleConnection and handleDisconnection are suspended at   *)
(* their awaits, and events of other sockets, timers and replies of the    *)
(* stores run in between.  A caller of SessionManager resumes in the       *)
(* microtask that follows the end of its call, before any other event.     *)
(*                                                                         *)
(* Left out: the frames themselves (which socket a packet is written to is *)
(* the subject of PacketPath), and what Discovery does; of it the relay    *)
(* sees which nodes are online.  RelayService would spare the sessions of  *)
(* clients registered with the WireGuard server, but nobody calls          *)
(* setWireGuardServer, as nobody calls setDiscoveryService: the sweep asks *)
(* no WireGuard server, and nodes are looked up in the database.           *)
(***************************************************************************)
EXTENDS Naturals

CONSTANTS
    Sessions,       \* relay session ids
    Nodes,          \* node ids
    NoSession,
    Sockets,        \* every WebSocket of a run
    NoSocket,
    Calls,          \* slots for handlers that may be in flight together
    Sweepers,       \* the slots of the clean-up timer
    Faults,         \* stores whose commands may be rejected
    MayCrash        \* whether the process may die or be shut down

Ids == Sessions \cup Nodes

ASSUME DistinctIds == Sessions \cap Nodes = {} /\ NoSession \notin Ids
ASSUME DistinctSockets == NoSocket \notin Sockets
ASSUME SweepersAssumption == Sweepers \subseteq Calls
ASSUME MayCrashAssumption == MayCrash \in BOOLEAN
ASSUME FaultsAssumption == Faults \subseteq {"db", "redis"}

VARIABLES
    rows, age, redis, mem, at, arg, seen, todo, tainted,
    open,               \* sockets that have connected and not closed
    target,             \* target[w]: the id in the path of socket w
    stage,              \* stage[w]: how far the handlers of w have come
    connections,
    nodeConnections,
    heartbeatIntervals, \* heartbeatIntervals[id]: the socket the timer was made for
    ticking,            \* sockets whose interval has not been cleared
    job,                \* job[c]: the handler that slot c works for
    client,             \* client[c]: the socket of that handler
    online,             \* nodes that Discovery reports online or degraded
    told,               \* sessions whose id was given out by the router
    down                \* the relay has been told to shut down

SM == INSTANCE SessionManager WITH SessionIds <- Ids

sockets  == <<open, target, stage>>
maps     == <<connections, nodeConnections, heartbeatIntervals, ticking>>
jobs     == <<job, client>>
outside  == <<online, told, down>>
manager  == <<rows, age, redis, mem, at, arg, seen, todo, tainted>>
vars     == <<manager, sockets, maps, jobs, outside>>

Stages == {"unused", "lookup", "address", "session", "ready", "left", "refused"}
Jobs   == {"free", "create", "admit", "data", "drop", "expire", "between", "stale"}

TypeOK ==
    /\ SM!TypeOK
    /\ open \in SUBSET Sockets
    /\ target \in [Sockets -> Ids \cup {NoSession}]
    /\ stage \in [Sockets -> Stages]
    /\ connections \in [Ids -> Sockets \cup {NoSocket}]
    /\ nodeConnections \in [Nodes -> Sockets \cup {NoSocket}]
    /\ heartbeatIntervals \in [Ids -> Sockets \cup {NoSocket}]
    /\ ticking \in SUBSET Sockets
    /\ job \in [Calls -> Jobs]
    /\ client \in [Calls -> Sockets \cup {NoSocket}]
    /\ online \in SUBSET Nodes
    /\ told \in SUBSET Sessions
    /\ down \in BOOLEAN

Init ==
    /\ SM!Init
    /\ open = {}
    /\ target = [w \in Sockets |-> NoSession]
    /\ stage = [w \in Sockets |-> "unused"]
    /\ connections = [i \in Ids |-> NoSocket]
    /\ nodeConnections = [n \in Nodes |-> NoSocket]
    /\ heartbeatIntervals = [i \in Ids |-> NoSocket]
    /\ ticking = {}
    /\ job = [c \in Calls |-> "free"]
    /\ client = [c \in Calls |-> NoSocket]
    /\ online \in SUBSET Nodes
    /\ told = {}
    /\ down = FALSE

-----------------------------------------------------------------------------
Work(c, kind, w) ==
    /\ job' = [job EXCEPT ![c] = kind]
    /\ client' = [client EXCEPT ![c] = w]

Take(c, kind, w) ==
    /\ c \notin Sweepers
    /\ job[c] = "free"
    /\ Work(c, kind, w)

Release(c) == Work(c, "free", NoSocket)

Enter(w, s) == stage' = [stage EXCEPT ![w] = s]

(* A handler calls getSession for the id of its socket. *)
GetSession(c, id) == SM!GetHit(c, id) \/ SM!GetMiss(c, id)

(* handleConnection up to its first await: the lookup of a node by the id. *)
Connect(w, id) ==
    /\ ~ down
    /\ stage[w] = "unused"
    /\ id \in Sessions => id \in told
    /\ open' = open \cup {w}
    /\ target' = [target EXCEPT ![w] = id]
    /\ Enter(w, "lookup")
    /\ UNCHANGED <<manager, maps, jobs, outside>>

(* The lookup finds a node that may connect: its address is resolved and   *)
(* stored, which takes more awaits.                                        *)
NodeFound(w) ==
    /\ stage[w] = "lookup"
    /\ target[w] \in online
    /\ Enter(w, "address")
    /\ UNCHANGED <<manager, open, target, maps, jobs, outside>>

NodeOffline(w) ==
    /\ stage[w] = "lookup"
    /\ target[w] \in Nodes \ online
    /\ Enter(w, "refused")
    /\ open' = open \ {w}
    /\ UNCHANGED <<manager, target, maps, jobs, outside>>

(* No such node, or the lookup and its fallback failed: a session then.    *)
NodeNotFound(w, c) ==
    /\ stage[w] = "lookup"
    /\ target[w] \in Sessions \/ "db" \in Faults
    /\ Enter(w, "session")
    /\ Take(c, "admit", w)
    /\ GetSession(c, target[w])
    /\ UNCHANGED <<open, target, maps, outside>>

(* The end of handleConnection: maps, heartbeat, handlers, confirmation.   *)
(* Whether the socket is still open is not looked at.                      *)
Admit(w) ==
    /\ connections' = [connections EXCEPT ![target[w]] = w]
    /\ heartbeatIntervals' = [heartbeatIntervals EXCEPT ![target[w]] = w]
    /\ ticking' = ticking \cup {w}
    /\ Enter(w, "ready")

(* Mutant: only the first connection of a node enters the map of nodes. *)
AdmitNodeMutant(w) ==
    /\ stage[w] = "address"
    /\ Admit(w)
    /\ nodeConnections' = [nodeConnections EXCEPT ![target[w]] = IF @ = NoSocket THEN w ELSE @]
    /\ UNCHANGED <<manager, open, target, jobs, outside>>

AdmitNode(w) ==
    /\ stage[w] = "address"
    /\ Admit(w)
    /\ nodeConnections' = [nodeConnections EXCEPT ![target[w]] = w]
    /\ UNCHANGED <<manager, open, target, jobs, outside>>

(* Mutant: any session found is good enough. *)
AdmitClientMutant(c) ==
    /\ job[c] = "admit"
    /\ seen[c] # "none"
    /\ SM!Return(c)
    /\ Release(c)
    /\ Admit(client[c])
    /\ UNCHANGED <<nodeConnections, open, target, outside>>

AdmitClient(c) ==
    /\ job[c] = "admit"
    /\ seen[c] = "active"
    /\ SM!Return(c)
    /\ Release(c)
    /\ Admit(client[c])
    /\ UNCHANGED <<nodeConnections, open, target, outside>>

(* Mutant: a refused socket takes the entry of its id with it. *)
RefuseClientMutant(c) ==
    /\ job[c] = "admit"
    /\ seen[c] # "active"
    /\ SM!Return(c)
    /\ Release(c)
    /\ Enter(client[c], "refused")
    /\ open' = open \ {client[c]}
    /\ connections' = [connections EXCEPT ![target[client[c]]] = NoSocket]
    /\ UNCHANGED <<target, nodeConnections, heartbeatIntervals, ticking, outside>>

RefuseClient(c) ==
    /\ job[c] = "admit"
    /\ seen[c] # "active"
    /\ SM!Return(c)
    /\ Release(c)
    /\ Enter(client[c], "refused")
    /\ open' = open \ {client[c]}
    /\ UNCHANGED <<target, maps, outside>>

-----------------------------------------------------------------------------
(* handleDisconnection, run for socket w in slot c.  It works on the id:   *)
(* the interval and the entries it drops may be those of another socket.   *)

(* Mutant: the timer is cleared and its entry kept. *)
ClearIntervalMutant(id) ==
    /\ ticking' = ticking \ {heartbeatIntervals[id]}
    /\ UNCHANGED heartbeatIntervals

ClearInterval(id) ==
    /\ ticking' = ticking \ {heartbeatIntervals[id]}
    /\ heartbeatIntervals' = [heartbeatIntervals EXCEPT ![id] = NoSocket]

DropNode(id) ==
    /\ id \in Nodes
    /\ nodeConnections[id] # NoSocket
    /\ nodeConnections' = [nodeConnections EXCEPT ![id] = NoSocket]
    /\ connections' = [connections EXCEPT ![id] = NoSocket]
    /\ UNCHANGED <<manager, jobs>>

DropSession(c, w, id) ==
    /\ id \in Nodes => nodeConnections[id] = NoSocket
    /\ Take(c, "drop", w)
    /\ SM!Close(c, id)
    /\ UNCHANGED <<connections, nodeConnections>>

HandleDisconnection(w, c) ==
    /\ ClearInterval(target[w])
    /\ DropNode(target[w]) \/ DropSession(c, w, target[w])
    /\ Enter(w, "left")

(* The entry goes only after closeSession, and only when it did not throw. *)
ForgetConnection(id) == connections' = [connections EXCEPT ![id] = NoSocket]

(* Mutant: closeSession is awaited and the entry never deleted. *)
DroppedMutant(c) ==
    /\ job[c] = "drop"
    /\ at[c] = "done"
    /\ SM!Return(c)
    /\ Release(c)
    /\ UNCHANGED <<maps, sockets, outside>>

Dropped(c) ==
    /\ job[c] = "drop"
    /\ at[c] = "done"
    /\ ForgetConnection(target[client[c]])
    /\ SM!Return(c)
    /\ Release(c)
    /\ UNCHANGED <<nodeConnections, heartbeatIntervals, ticking, sockets, outside>>

DropThrown(c) ==
    /\ job[c] = "drop"
    /\ at[c] = "failed"
    /\ SM!Return(c)
    /\ Release(c)
    /\ UNCHANGED <<maps, sockets, outside>>

(* The socket closes.  Nobody hears of it before the handlers are attached. *)
Closed(w, c) ==
    /\ w \in open
    /\ stage[w] \in {"ready", "left"}
    /\ open' = open \ {w}
    /\ HandleDisconnection(w, c)
    /\ UNCHANGED <<target, outside>>

ClosedUnheard(w) ==
    /\ w \in open
    /\ stage[w] \in {"lookup", "address", "session"}
    /\ open' = open \ {w}
    /\ UNCHANGED <<manager, target, stage, maps, jobs, outside>>

(* An 'error' event, which precedes the 'close' event of the same socket,  *)
(* or a control message 'disconnect', after which the socket stays open.   *)
Leave(w, c) ==
    /\ w \in open
    /\ stage[w] \in {"ready", "left"}
    /\ HandleDisconnection(w, c)
    /\ UNCHANGED <<open, target, outside>>

-----------------------------------------------------------------------------
(* A data message: getSession, then the packet is forwarded. *)
Data(w, c) ==
    /\ w \in open
    /\ stage[w] \in {"ready", "left"}
    /\ Take(c, "data", w)
    /\ GetSession(c, target[w])
    /\ UNCHANGED <<sockets, maps, outside>>

(* A route request creates a relay session; see createRelaySession. *)
CreateRelaySession(c, s) ==
    /\ s \in Sessions
    /\ Take(c, "create", NoSocket)
    /\ SM!CreateInsert(c, s) \/ SM!CreateRejected(c, s)
    /\ UNCHANGED <<sockets, maps, outside>>

SessionCreated(c) ==
    /\ job[c] = "create"
    /\ told' = IF at[c] = "done" THEN told \cup {arg[c]} ELSE told
    /\ SM!Return(c)
    /\ Release(c)
    /\ UNCHANGED <<sockets, maps, online, down>>

Finished(c) ==
    /\ job[c] \in {"data", "stale"}
    /\ SM!Return(c)
    /\ Release(c)
    /\ UNCHANGED <<sockets, maps, outside>>

(* Mutant: the interval on record is cleared instead of the one that fired. *)
HeartbeatStopsMutant(w) ==
    /\ w \in ticking
    /\ w \notin open
    /\ ticking' = ticking \ {heartbeatIntervals[target[w]]}
    /\ heartbeatIntervals' = [heartbeatIntervals EXCEPT ![target[w]] = NoSocket]
    /\ UNCHANGED <<manager, sockets, connections, nodeConnections, jobs, outside>>

(* The interval of w fires: a heartbeat, or the end of the interval.       *)
HeartbeatStops(w) ==
    /\ w \in ticking
    /\ w \notin open
    /\ ticking' = ticking \ {w}
    /\ heartbeatIntervals' = [heartbeatIntervals EXCEPT ![target[w]] = NoSocket]
    /\ UNCHANGED <<manager, sockets, connections, nodeConnections, jobs, outside>>

-----------------------------------------------------------------------------
(* The clean-up task of RelayService: expired sessions, then stale ones,   *)
(* the connections being listed in between.                                *)

CleanupBegins(c) ==
    /\ ~ down
    /\ c \in Sweepers
    /\ job[c] = "free"
    /\ Work(c, "expire", NoSocket)
    /\ SM!ExpireDelete(c)
    /\ UNCHANGED <<sockets, maps, outside>>

ExpiredCleaned(c) ==
    /\ job[c] = "expire"
    /\ SM!Return(c)
    /\ Work(c, "between", NoSocket)
    /\ UNCHANGED <<sockets, maps, outside>>

(* Mutant: the values of the map, not its keys. *)
getActiveSessionIdsMutant == {connections[i] : i \in Ids} \ {NoSocket}

getActiveSessionIds == {i \in Ids : connections[i] # NoSocket}

(* The second sweep is left out once the relay has been shut down. *)
StaleBegins(c) ==
    /\ job[c] = "between"
    /\ \/ ~ down /\ SM!Stale(c, getActiveSessionIds) /\ Work(c, "stale", NoSocket)
       \/ down /\ Release(c) /\ UNCHANGED manager
    /\ UNCHANGED <<sockets, maps, outside>>

-----------------------------------------------------------------------------
(* RelayService.close, on a signal: the clean-up timer and the intervals   *)
(* on record stop, the sockets of the map are told to close, the map is    *)
(* emptied, and nobody may connect any more.  The process exits later.     *)
ShutDown ==
    /\ MayCrash
    /\ ~ down
    /\ down' = TRUE
    /\ ticking' = ticking \ {heartbeatIntervals[i] : i \in Ids}
    /\ heartbeatIntervals' = [i \in Ids |-> NoSocket]
    /\ connections' = [i \in Ids |-> NoSocket]
    /\ UNCHANGED <<manager, sockets, nodeConnections, jobs, online, told>>

(* The process exits, by intent or not, and is started again. *)
Restart ==
    /\ MayCrash
    /\ SM!Restart
    /\ open' = {}
    /\ stage' = [w \in Sockets |-> IF stage[w] = "unused" THEN "unused" ELSE "refused"]
    /\ connections' = [i \in Ids |-> NoSocket]
    /\ nodeConnections' = [n \in Nodes |-> NoSocket]
    /\ heartbeatIntervals' = [i \in Ids |-> NoSocket]
    /\ ticking' = {}
    /\ job' = [c \in Calls |-> "free"]
    /\ client' = [c \in Calls |-> NoSocket]
    /\ down' = FALSE
    /\ UNCHANGED <<target, online, told>>

(* Discovery: modelled by what the relay sees of it. *)
NodeStatusChanges ==
    /\ \E n \in Nodes : online' \in {online \cup {n}, online \ {n}}
    /\ UNCHANGED <<manager, sockets, maps, jobs, told, down>>

StoreEvent ==
    /\ \E s \in Sessions : SM!Tick(s) \/ SM!RedisLapse(s)
    /\ UNCHANGED <<sockets, maps, jobs, outside>>

StoreReply(c) ==
    /\ SM!Progress(c)
    /\ UNCHANGED <<sockets, maps, jobs, outside>>

-----------------------------------------------------------------------------
(* What a handler does in the microtask after the end of its call. *)
Microtask(c) ==
    \/ AdmitClient(c) \/ RefuseClient(c) \/ Dropped(c) \/ DropThrown(c)
    \/ SessionCreated(c) \/ Finished(c) \/ ExpiredCleaned(c) \/ StaleBegins(c)

Settled == \A c \in Calls : at[c] \notin {"done", "failed"} /\ job[c] # "between"

ConnectionStep(w) == NodeFound(w) \/ NodeOffline(w) \/ AdmitNode(w)

SocketEvent(w) ==
    \/ \E id \in Ids : Connect(w, id)
    \/ ConnectionStep(w)
    \/ ClosedUnheard(w)
    \/ HeartbeatStops(w)
    \/ \E c \in Calls : NodeNotFound(w, c) \/ Closed(w, c) \/ Leave(w, c) \/ Data(w, c)

CallEvent(c) ==
    \/ StoreReply(c)
    \/ CleanupBegins(c)
    \/ \E s \in Sessions : CreateRelaySession(c, s)

Next ==
    \/ \E c \in Calls : Microtask(c)
    \/ /\ Settled
       /\ \/ \E w \in Sockets : SocketEvent(w)
          \/ \E c \in Calls : CallEvent(c)
          \/ StoreEvent \/ NodeStatusChanges
          \/ ShutDown \/ Restart

Spec == Init /\ [][Next]_vars

(* The event loop gets to every microtask, reply and timer, the clean-up   *)
(* timer fires again and again, and time passes.  Nothing is assumed of    *)
(* peers: they need not connect, speak or close.  Strong fairness, since   *)
(* the event of another socket may always come first.                      *)
Fairness ==
    /\ \A c \in Calls :
          /\ WF_vars(Microtask(c))
          /\ SF_vars(Settled /\ StoreReply(c))
          /\ SF_vars(Settled /\ CleanupBegins(c))
    /\ \A w \in Sockets :
          /\ SF_vars(Settled /\ ConnectionStep(w))
          /\ SF_vars(Settled /\ \E c \in Calls : NodeNotFound(w, c))
          /\ SF_vars(Settled /\ HeartbeatStops(w))
    /\ \A s \in Sessions : SF_vars(Settled /\ SM!Tick(s) /\ UNCHANGED <<sockets, maps, jobs, outside>>)

FairSpec == Spec /\ Fairness

-----------------------------------------------------------------------------
(* The relay uses the session store only through the operations modelled   *)
(* by SessionManager (by the way its actions are put together), so every   *)
(* invariant of that module holds here.                                    *)
UsesSessionManager == SM!Spec

(* Another socket for the same id that has been admitted. *)
Rival(v, w) == v # w /\ target[v] = target[w] /\ stage[v] \in {"ready", "left"}

(* A socket in service keeps its entry in connections and its heartbeat,   *)
(* whatever other clients, sweeps and failures do: only another socket of  *)
(* the same id can take them away (the maps are keyed by id, and           *)
(* handleDisconnection, lines 421-441, does not look whose entry it        *)
(* deletes), or the shutdown of the server.                                *)
OnlyRivalsDisplace ==
    \A w \in open :
        stage[w] = "ready" =>
            \/ connections[target[w]] = w /\ w \in ticking
            \/ \E v \in Sockets : Rival(v, w)
            \/ down

(* The two maps never disagree on the socket of a node, whichever of its   *)
(* connections come and go in whatever order (lines 149-156, 429-440).     *)
NodeMapsAgree ==
    \A n \in Nodes :
        nodeConnections[n] # NoSocket /\ connections[n] # NoSocket =>
            nodeConnections[n] = connections[n]

(* The interval on record for an id is one that still runs, and was made   *)
(* for a socket of that id: no path clears an interval and keeps its entry *)
(* (setupHeartbeat, lines 403-419, and handleDisconnection).               *)
IntervalOnRecord ==
    \A i \in Ids :
        heartbeatIntervals[i] # NoSocket =>
            /\ heartbeatIntervals[i] \in ticking
            /\ target[heartbeatIntervals[i]] = i

(* What the relay keeps of its connections in several places agrees. *)
RecordsAgree == NodeMapsAgree /\ IntervalOnRecord

(* A client is admitted (lines 143-150) only on a session whose row is     *)
(* active, or that is being closed at this moment, or whose cached copies  *)
(* were left behind by a race or a failure of the store.                   *)
AdmittedSessionsAreLive ==
    [][\A w \in Sockets :
         stage[w] = "session" /\ stage'[w] = "ready" =>
             \/ rows[target[w]] = "active"
             \/ target[w] \in tainted \cup SM!Removed]_vars

(* In its first two minutes a session is closed by nobody but a socket of  *)
(* its own that has gone (cleanupStaleSessions, lines 183-191).            *)
YoungClosedOnlyByItsClient ==
    [][\A s \in Sessions :
         rows[s] = "active" /\ rows'[s] = "closed" /\ age[s] = "young" =>
             \E w \in Sockets : target[w] = s /\ stage[w] = "left"]_vars

(* closeSession, called for the disconnection of socket w, has thrown: its *)
(* DEL was rejected (SessionManager.ts:128), and handleDisconnection ends  *)
(* before line 440.                                                        *)
CloseThrown(w) ==
    \E c \in Calls : job[c] = "drop" /\ client[c] = w /\ at[c] = "failed"

(* Once a disconnection was noticed, the entry of the socket goes, also    *)
(* when the UPDATE or the SET of closeSession was rejected, which          *)
(* updateSessionStatus takes care of.  Only a rejected DEL makes it throw, *)
(* and then nothing is said: the entry stays for good (lines 436-440).     *)
LeftSocketsForgotten ==
    \A w \in Sockets :
        [](~ CloseThrown(w)) =>
            (stage[w] = "left" /\ w \notin open ~>
                w \notin {connections[i] : i \in Ids})

(* No heartbeat interval outlives its socket for good, even one that fell  *)
(* off the record when another socket of the id was admitted: it stops     *)
(* itself when it fires (lines 405-415).                                   *)
NoIntervalLeak ==
    \A w \in Sockets : w \in ticking /\ w \notin open ~> w \notin ticking

(* Every session comes to an end, connected or not, heard of or not: by    *)
(* its client, by the stale sweep, or after its hour by the expiry sweep.  *)
SessionsEnd ==
    \A s \in Sessions : rows[s] = "active" ~> rows[s] = "none"

-----------------------------------------------------------------------------
(* Statements made about the relay that it does not keep. *)

(* "Only mark sessions older than 2 minutes to avoid closing sessions that *)
(* just connected" (SessionManager.ts:184): the stale sweep closes no      *)
(* session that has a connection.                                          *)
JustConnectedNotClosed ==
    [][\A c \in Calls :
         at[c] = "stale.update" /\ at'[c] = "stale.loop" =>
             \A s \in todo'[c] : connections[s] = NoSocket]_vars

(* A connection has a heartbeat every 30 seconds (PROTOCOL.md, "Heartbeat  *)
(* Message"), so that it stays alive: an admitted socket that is open and  *)
(* has not left is ticking.                                                *)
OpenSocketKeepsHeartbeat ==
    \A w \in open : stage[w] = "ready" => w \in ticking

(* "Clean up stale sessions (sessions without active WebSocket             *)
(* connections)" (RelayService.ts:125), by a list of the ids in the map:   *)
(* an entry is that of a connection, so it goes when the connection was    *)
(* noticed to end, also when Redis rejects the DEL of closeSession.        *)
LeftSocketsAlwaysForgotten ==
    \A w \in Sockets :
        stage[w] = "left" /\ w \notin open ~>
            w \notin {connections[i] : i \in Ids}

(* Heartbeats detect that a connection is lost (PROTOCOL.md, "Heartbeat    *)
(* Message"): the relay does not go on counting a closed socket among its  *)
(* active connections for good.                                            *)
DeadSocketsForgotten ==
    \A w \in Sockets :
        (stage[w] = "ready" /\ w \notin open)
            ~> (\A i \in Ids : connections[i] # w)

(* Connections are closed when the TTL of their session is over            *)
(* (PROTOCOL.md, 2.4).                                                     *)
ConnectionsCloseAtExpiry ==
    \A w \in Sockets :
        (w \in open /\ stage[w] = "ready" /\ target[w] \in Sessions
            /\ age[target[w]] = "expired") ~> w \notin open
=============================================================================
