------------------------------ MODULE TCPTable ------------------------------
(***************************************************************************)
(* The table of TCP connections of a HiggsNode, as TCPConnections changes  *)
(* it: what it keeps, and what is to hold of it.  The steps are in         *)
(* TCPConnections.  The two are apart so that one module can speak of this *)
(* table and of another with its own Init and Next (PacketProofs).         *)
(***************************************************************************)
EXTENDS Naturals

CONSTANTS
    Flows, Sockets,
    NoSocket,       \* no socket under a key
    IdleTimeout,    \* ticks after which an idle socket times out
    MaxIdle         \* ticks after which the clean-up takes a connection

ASSUME TcpAssumption ==
    /\ NoSocket \notin Sockets /\ Flows # {}
    /\ IdleTimeout \in Nat \ {0} /\ MaxIdle \in Nat /\ IdleTimeout < MaxIdle

VARIABLES
    running,        \* isRunning
    connections,    \* connections[f]: the socket under key f, or NoSocket
    sock,           \* sock[s]: "free", "connecting", "open" or "destroyed"
    flow,           \* flow[s]: the flow socket s was made for
    idle,           \* idle[s]: ticks since something was read or written
    waiting,        \* sockets whose createConnection has not resolved
    hung,           \* a createConnection will never resolve
    active,         \* activeSessions has the node's id
    listed,         \* SessionManager has a session of the node's id
    met             \* flows of which a packet came while an attempt was under way

(* All of it, by the name that the properties and TCPConnections use.      *)
tcp == <<running, connections, sock, flow, idle, waiting, hung, active, listed, met>>

Alive(s) == sock[s] \in {"connecting", "open"}

-----------------------------------------------------------------------------
(* A flow whose packets never came while its attempt was under way has at  *)
(* most one socket, and once that is connected it is the one in the table: *)
(* none is forgotten, not by a stop, a failure or a close in between.      *)
AloneIsOne ==
    \A f \in Flows \ met :
        /\ \A s, t \in Sockets : Alive(s) /\ Alive(t) /\ flow[s] = f /\ flow[t] = f => s = t
        /\ \A s \in Sockets : sock[s] = "open" /\ flow[s] = f => connections[f] = s

(* While the forwarder runs, the connection of such a flow is not taken    *)
(* away by what happens to another socket, although removeConnection takes *)
(* whatever it finds under a key.                                          *)
OnlyRivalsCut ==
    [][\A s \in Sockets :
          sock[s] = "open" /\ sock'[s] = "destroyed" /\ flow[s] \notin met /\ running'
          => \A t \in Sockets \ {s} : sock'[t] = sock[t]]_tcp
=============================================================================
