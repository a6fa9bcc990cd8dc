----------------------------- MODULE PacketPath -----------------------------
(***************************************************************************)
(* The way of a packet through bosonserver: the UDP server for WireGuard   *)
(* (class WireGuardServer) and its table of client addresses, the data     *)
(* frames of the WebSocket relay, the two listeners ApiGateway puts        *)
(* between them, and the routes /wireguard and /packets.                   *)
(*                                                                         *)
(* clientSessions is a Map from "address:port" to an object.  Objects are  *)
(* shared: a datagram from a new address of a known client ends with the   *)
(* same object under both addresses, so that what is heard at one keeps    *)
(* the other.  The model therefore names the objects, and keeps which key  *)
(* was inserted before which, since that decides where an answer is sent.  *)
(*                                                                         *)
(* Atomicity.  A handler is suspended where it waits for a store or for    *)
(* the network (getSession, getNode, post); sendToSession is async but     *)
(* resumes in the next microtask, and is part of the step around it.       *)
(*                                                                         *)
(* Left out: how a session is looked up and when it ends (SessionManager), *)
(* how sockets come and go (RelayServer) and which nodes are known         *)
(* (NodeRegistry): here these may happen at any time.  A frame stands for  *)
(* one packet; how a batch is taken apart is in PacketBatch.               *)
(***************************************************************************)
EXTENDS Naturals

CONSTANTS
    Clients, Nodes, Sessions, Addrs,
    None,
    Owner,          \* Owner[s]: the client of relay session s
    Exit,           \* Exit[s]: the node of relay session s
    Tells,          \* clients that pass their session on when they register
    Local,          \* Local[c]: the address client c reports as its own
    Sources,        \* Sources[c]: where datagrams of c come from, behind its NAT or not
    NodeApi,        \* whether a node may answer at its HTTP address
    Packets,        \* slots for packets; each carries one packet
    Copies,         \* bound: objects made for one address that exist together
    Timeout,        \* SESSION_TIMEOUT in ticks
    SweepEvery      \* ticks between two sweeps

ASSUME TableAssumption ==
    /\ Owner \in [Sessions -> Clients]
    /\ Exit \in [Sessions -> Nodes]
    /\ Local \in [Clients -> Addrs] /\ Sources \in [Clients -> SUBSET Addrs]
    /\ Copies \in Nat \ {0} /\ Tells \subseteq Clients
    /\ NodeApi \in BOOLEAN
    /\ None \notin Clients \cup Nodes \cup Sessions \cup Addrs \cup (Addrs \X (1 .. Copies))
    /\ Timeout \in Nat /\ SweepEvery \in Nat \ {0}

VARIABLES
    entry,          \* entry[a]: the object under address a in clientSessions
    before,         \* its order: <<a, b>> if key a was inserted before key b
    object,         \* object[o]: what object o holds
    since,          \* ticks since the last sweep
    up,             \* stop() has not been called
    packet,         \* packet[p]: the handler of packet p
    mistaken,       \* addresses matched with a client that is not there
    latest,         \* latest[a]: the object last registered for address a
    overtaken       \* addresses whose registration a running handler may undo

table   == <<entry, before, object, since, up>>
history == <<mistaken, latest, overtaken>>
vars    == <<table, packet, history>>

Objects == Addrs \X (1 .. Copies)       \* the address it was made for, and which
Stages == {"idle", "match", "find", "node", "post",
           "frame", "answer", "gwfind", "gwnode", "gwpost", "done"}
Lost   == <<"lost", None>>
ToSocket(s) == <<"socket", s>>
ToNode(n)   == <<"node", n>>
ToAddr(a)   == <<"address", a>>
Ends   == {Lost} \cup {ToSocket(s) : s \in Sessions}
                 \cup {ToNode(n) : n \in Nodes} \cup {ToAddr(a) : a \in Addrs}

Blank == [client |-> None, node |-> None, session |-> None, age |-> 0]
Idle  == [pc |-> "idle", from |-> None, addr |-> None, obj |-> None,
          client |-> None, node |-> None, session |-> None,
          todo |-> {}, to |-> Lost]

Known == {a \in Addrs : entry[a] # None}

TypeOK ==
    /\ entry \in [Addrs -> Objects \cup {None}]
    /\ before \subseteq Known \X Known
    /\ \A a, b \in Known : (a = b) \/ (<<a, b>> \in before <=> <<b, a>> \notin before)
    /\ object \in [Objects -> [client : Clients \cup {None}, node : Nodes \cup {None},
                               session : Sessions \cup {None}, age : Nat]]
    /\ since \in 0 .. SweepEvery /\ up \in BOOLEAN
    /\ \A p \in Packets :
        /\ packet[p].pc \in Stages /\ packet[p].to \in Ends
        /\ packet[p].todo \in SUBSET Sessions
        /\ packet[p].obj \in Objects \cup {None}
    /\ mistaken \in SUBSET Addrs
    /\ latest \in [Addrs -> Objects \cup {None}] /\ overtaken \in SUBSET Addrs

Init ==
    /\ entry = [a \in Addrs |-> None] /\ before = {}
    /\ object = [o \in Objects |-> Blank]
    /\ since = 0 /\ up = TRUE
    /\ packet = [p \in Packets |-> Idle]
    /\ mistaken = {}
    /\ latest = [a \in Addrs |-> None] /\ overtaken = {}

-----------------------------------------------------------------------------
(* What the relay holds when it is looked at: the sessions in its map of   *)
(* sockets (wired), and whether the socket asked for is open.  Closed, it  *)
(* holds none.                                                             *)
Maps == IF up THEN SUBSET Sessions ELSE {{}}
Opens == IF up THEN BOOLEAN ELSE {FALSE}

(* Objects some key or some handler refers to; the others are garbage.     *)
Held(e, f) == {e[a] : a \in Addrs} \cup {f[p].obj : p \in Packets}
Collected(g) == LET held == Held(entry', packet')
                IN  [o \in Objects |-> IF o \in held THEN g[o] ELSE Blank]
NewObjects(a) ==
    LET free == {i \in 1 .. Copies : <<a, i>> \notin Held([entry EXCEPT ![a] = None], packet)}
    IN  {<<a, i>> : i \in {i \in free : \A j \in free : i <= j}}

(* Map.set: a new key goes to the end, a key already there keeps its place *)
Put(a, o) ==
    /\ entry' = [entry EXCEPT ![a] = o]
    /\ before' = IF entry[a] = None THEN before \cup (Known \X {a}) ELSE before

First(as) == {a \in as : \A b \in as \ {a} : <<a, b>> \in before}

Unused(p)     == packet[p].pc \in {"idle", "done"}
Becomes(p, r) == packet' = [packet EXCEPT ![p] = r]
End(r, end)   == IF end = Lost THEN Idle
                 ELSE [Idle EXCEPT !.pc = "done", !.from = r.from, !.addr = r.addr,
                                   !.client = r.client, !.to = end]
At(r, stage)  == [r EXCEPT !.pc = stage]
Search(r, stage, ss) == [r EXCEPT !.pc = stage, !.todo = ss]

(* Mutant: only that the session has a client is tested. *)
SuitsMutant(r, s) == r.client # None

Suits(r, s) == Owner[s] = r.client /\ Exit[s] = r.node

(* sendPacketToNode of WireGuardServer, as far as it goes at once.         *)
Forwarded(r, wired, open) ==
    IF r.session # None /\ open THEN End(r, ToSocket(r.session))
    ELSE IF r.session = None /\ wired # {} THEN Search(r, "find", wired)
    ELSE At(r, "node")

(* The listener of ApiGateway for 'packetToNode', as far as it goes at     *)
(* once.  A packet of the relay has no client to search a session for.     *)
GatewayTook(r, wired, open) ==
    IF r.session # None /\ open THEN End(r, ToSocket(r.session))
    ELSE IF r.client # None /\ wired # {} THEN Search(r, "gwfind", wired)
    ELSE At(r, "gwnode")

(* handlePacket ends: the object read before the awaits is put under the   *)
(* address again, as heard just now.                                       *)
Touch(r) ==
    /\ Put(r.addr, r.obj)
    /\ object' = Collected([object EXCEPT ![r.obj].age = 0])
    /\ UNCHANGED <<since, up>>

Untouched == UNCHANGED <<entry, before, since, up>> /\ object' = Collected(object)

(* handlePacket goes on as q; with nothing left to wait for it ends.       *)
Resumes(p, q) ==
    /\ Becomes(p, q)
    /\ IF q.pc \in {"find", "node", "post"} THEN Untouched ELSE Touch(packet[p])
    /\ UNCHANGED history

-----------------------------------------------------------------------------
(* Mutant: an address that is known keeps its object. *)
RegisterMutant(c, s) ==
    /\ Owner[s] = c
    /\ UNCHANGED <<since, up, packet, mistaken, overtaken>>
    /\ LET a == Local[c]
       IN  \E new \in NewObjects(a) :
           LET o == IF entry[a] = None THEN new ELSE entry[a]
           IN  /\ Put(a, o)
               /\ object' = [Collected(object) EXCEPT ![o] =
                     IF entry[a] = None
                     THEN [client |-> c, node |-> Exit[s], session |-> None, age |-> 0]
                     ELSE [@ EXCEPT !.age = 0]]
               /\ latest' = [latest EXCEPT ![a] = new]

(* POST /wireguard/register: client c is given session s and reports its   *)
(* own address.  A request under way when the server stops may do so yet.  *)
Register(c, s) ==
    /\ Owner[s] = c
    /\ UNCHANGED <<since, up, packet, mistaken>>
    /\ LET a == Local[c]
       IN  \E o \in NewObjects(a) :
           /\ Put(a, o)
           /\ object' = [Collected(object) EXCEPT ![o] =
                 [client |-> c, node |-> Exit[s],
                  session |-> IF c \in Tells THEN s ELSE None, age |-> 0]]
           /\ latest' = [latest EXCEPT ![a] = o]
           /\ overtaken' = IF \E p \in Packets : /\ packet[p].addr = a
                                                 /\ packet[p].pc \in {"match", "find", "node", "post"}
                           THEN overtaken \cup {a} ELSE overtaken \ {a}

With(r, o) == [r EXCEPT !.obj = o, !.client = object[o].client,
                        !.node = object[o].node, !.session = object[o].session]

(* A datagram from an address of the table.  Bytes other than the four     *)
(* message types of WireGuard are not forwarded.                           *)
DatagramKnown(p, c, a, valid, wired, open) ==
    /\ up /\ Unused(p) /\ entry[a] # None
    /\ LET r == With([Idle EXCEPT !.from = c, !.addr = a], entry[a])
           q == IF valid THEN Forwarded(r, wired, open) ELSE End(r, Lost)
       IN  /\ Becomes(p, q)
           /\ IF valid /\ q.pc = "done" THEN Touch(r) ELSE Untouched
    /\ UNCHANGED history

(* A datagram from elsewhere: the sessions with a WebSocket are gone       *)
(* through for one whose client and node are registered.                   *)
DatagramUnknown(p, c, a, wired) ==
    /\ up /\ Unused(p) /\ entry[a] = None
    /\ LET r == [Idle EXCEPT !.from = c, !.addr = a]
       IN  Becomes(p, IF wired # {} THEN Search(r, "match", wired) ELSE End(r, Lost))
    /\ UNCHANGED <<table, history>>

Fitting(s) == {a \in Known : /\ object[entry[a]].client = Owner[s]
                             /\ object[entry[a]].node = Exit[s]}

(* getSession answers for session s and a registration fits: a copy of it  *)
(* is put under the address of the datagram, which is then treated as that *)
(* client's.                                                               *)
Match(p, s, valid, wired, open) ==
    /\ packet[p].pc = "match" /\ s \in packet[p].todo
    /\ \E b \in First(Fitting(s)), n \in NewObjects(packet[p].addr) :
       LET a == packet[p].addr
           o == entry[b]
           r == With(At([packet[p] EXCEPT !.todo = {}], "match"), o)
           q == IF valid THEN Forwarded(r, wired, open) ELSE End(r, Lost)
       IN  /\ Becomes(p, q)
           /\ IF valid /\ q.pc = "done" THEN Touch(r)
              ELSE /\ Put(a, n)
                   /\ object' = [Collected(object) EXCEPT ![n] = [object[o] EXCEPT !.age = 0]]
                   /\ UNCHANGED <<since, up>>
           /\ mistaken' = IF r.client = r.from THEN mistaken ELSE mistaken \cup {a}
    /\ UNCHANGED <<latest, overtaken>>

(* ... or the session has ended, or there is no registration for it.       *)
NoMatch(p, s, found) ==
    /\ found => Fitting(s) = {}
    /\ packet[p].pc = "match" /\ s \in packet[p].todo
    /\ LET r == [packet[p] EXCEPT !.todo = @ \ {s}]
       IN  Becomes(p, IF r.todo = {} THEN End(r, Lost) ELSE r)
    /\ UNCHANGED <<table, history>>

(* The search for a session of the client ends at one that is still known  *)
(* and open.                                                               *)
Find(p, s, open) ==
    /\ packet[p].pc = "find" /\ s \in packet[p].todo
    /\ LET r == [packet[p] EXCEPT !.todo = @ \ {s}]
       IN  Resumes(p, IF open /\ Suits(r, s) THEN End(r, ToSocket(s))
                      ELSE IF r.todo = {} THEN At(r, "node") ELSE r)

GetNode(p, known) ==
    /\ packet[p].pc = "node"
    /\ Resumes(p, IF known THEN At(packet[p], "post") ELSE End(packet[p], Lost))

(* The POST to the node's own API is answered, or fails and leaves the     *)
(* packet to the gateway while handlePacket ends.                          *)
Post(p, answered, wired, open) ==
    /\ packet[p].pc = "post"
    /\ answered => NodeApi
    /\ Resumes(p, IF answered THEN End(packet[p], ToNode(packet[p].node))
                  ELSE GatewayTook([packet[p] EXCEPT !.obj = None], wired, open))

GatewayFind(p, s, open) ==
    /\ packet[p].pc = "gwfind" /\ s \in packet[p].todo
    /\ LET r == [packet[p] EXCEPT !.todo = @ \ {s}]
       IN  Becomes(p, IF open /\ Suits(r, s) THEN End(r, ToSocket(s))
                      ELSE IF r.todo = {} THEN At(r, "gwnode") ELSE r)
    /\ UNCHANGED <<table, history>>

GatewayNode(p, known) ==
    /\ packet[p].pc = "gwnode"
    /\ Becomes(p, IF known THEN At(packet[p], "gwpost") ELSE End(packet[p], Lost))
    /\ UNCHANGED <<table, history>>

GatewayPost(p, answered) ==
    /\ packet[p].pc = "gwpost"
    /\ answered => NodeApi
    /\ Becomes(p, End(packet[p], IF answered THEN ToNode(packet[p].node) ELSE Lost))
    /\ UNCHANGED <<table, history>>

-----------------------------------------------------------------------------
(* A data frame on the socket of a client, for the node or (in JSON) for   *)
(* the client.  Frames on the socket of a node are looked up under its id, *)
(* which is no session, and go nowhere.                                    *)
Frame(p, s) ==
    /\ Unused(p) /\ up
    /\ Becomes(p, [Idle EXCEPT !.pc = "frame", !.from = Owner[s], !.node = Exit[s],
                               !.session = s])
    /\ UNCHANGED <<table, history>>

(* getSession finds nothing, or the frame goes on; linked tells whether    *)
(* the node has an open WebSocket.  No one listens to 'packetToClient'.   *)
FrameDropped(p) ==
    /\ packet[p].pc = "frame"
    /\ Becomes(p, End(packet[p], Lost))
    /\ UNCHANGED <<table, history>>
ForwardPacketToNode(p, linked, wired, open) ==
    /\ packet[p].pc = "frame"
    /\ Becomes(p, IF linked THEN End(packet[p], ToNode(packet[p].node))
                  ELSE GatewayTook(packet[p], wired, open))
    /\ UNCHANGED <<table, history>>
ForwardPacketToClient(p, open) ==
    /\ packet[p].pc = "frame"
    /\ Becomes(p, End(packet[p], IF open THEN ToSocket(packet[p].session) ELSE Lost))
    /\ UNCHANGED <<table, history>>

(* Mutant: any address will do. *)
KeyedMutant(c) == Known

(* sendPacketToClientById: the first address with an object of the client. *)
Keyed(c) == {a \in Known : object[entry[a]].client = c}
ByUdp(c) == IF up /\ Keyed(c) # {} THEN {ToAddr(a) : a \in First(Keyed(c))} ELSE {Lost}

(* POST /packets: an answer for client c, with or without a session.       *)
Answer(p, c, s) ==
    /\ Unused(p)
    /\ s # None => Owner[s] = c
    /\ LET r == [Idle EXCEPT !.client = c, !.session = s]
       IN  IF s = None THEN \E end \in ByUdp(c) : Becomes(p, End(r, end))
           ELSE Becomes(p, At(r, "answer"))
    /\ UNCHANGED <<table, history>>

AnswerSent(p, open) ==
    /\ packet[p].pc = "answer"
    /\ LET r == packet[p]
       IN  \E end \in IF open THEN {ToSocket(r.session)} ELSE ByUdp(r.client) :
              Becomes(p, End(r, end))
    /\ UNCHANGED <<table, history>>

(* POST /packets/from-client.                                              *)
FromClient(p, s, open) ==
    /\ Unused(p)
    /\ LET r == [Idle EXCEPT !.from = Owner[s], !.node = Exit[s], !.session = s]
       IN  Becomes(p, End(r, IF open THEN ToSocket(s) ELSE Lost))
    /\ UNCHANGED <<table, history>>

-----------------------------------------------------------------------------
Tick ==
    /\ since < SweepEvery
    /\ since' = since + 1
    /\ object' = [o \in Objects |-> IF object[o] = Blank THEN Blank
                    ELSE [object[o] EXCEPT !.age = IF @ > Timeout + SweepEvery THEN @ ELSE @ + 1]]
    /\ UNCHANGED <<entry, before, up, packet, history>>

(* startSessionCleanup, once a minute; its timer is never stopped.         *)
Expired == {a \in Known : object[entry[a]].age > Timeout}
Without(f, as) == [a \in Addrs |-> IF a \in as THEN None ELSE f[a]]
Sweep ==
    /\ since = SweepEvery
    /\ since' = 0
    /\ UNCHANGED <<up, packet, mistaken, overtaken>>
    /\ entry' = Without(entry, Expired)
    /\ before' = before \cap ((Known \ Expired) \X (Known \ Expired))
    /\ object' = Collected(object)
    /\ latest' = Without(latest, Expired)

(* ApiGateway.stop: the relay closes, then the UDP server.                 *)
Stop ==
    /\ up /\ up' = FALSE
    /\ UNCHANGED <<since, packet, mistaken, overtaken>>
    /\ entry' = Without(entry, Addrs) /\ before' = {}
    /\ object' = Collected(object)
    /\ latest' = Without(latest, Addrs)

Handles(p) ==
    /\ ~ Unused(p)
    /\ \/ \E s \in packet[p].todo :
          \/ \E found \in BOOLEAN : NoMatch(p, s, found)
          \/ \E open \in Opens : Find(p, s, open) \/ GatewayFind(p, s, open)
          \/ \E valid \in BOOLEAN, wired \in Maps, open \in Opens : Match(p, s, valid, wired, open)
       \/ FrameDropped(p)
       \/ \E open \in Opens : ForwardPacketToClient(p, open) \/ AnswerSent(p, open)
       \/ \E b \in BOOLEAN :
          \/ GetNode(p, b) \/ GatewayNode(p, b) \/ GatewayPost(p, b)
          \/ \E wired \in Maps, open \in Opens :
                Post(p, b, wired, open) \/ ForwardPacketToNode(p, b, wired, open)

Arrives(p) ==
    /\ Unused(p)
    /\ \/ \E c \in Clients, wired \in Maps : \E a \in Sources[c] :
          \/ DatagramUnknown(p, c, a, wired)
          \/ \E valid \in BOOLEAN, open \in Opens : DatagramKnown(p, c, a, valid, wired, open)
       \/ \E s \in Sessions : Frame(p, s) \/ \E open \in Opens : FromClient(p, s, open)
       \/ \E c \in Clients, s \in Sessions \cup {None} : Answer(p, c, s)

Next ==
    \/ \E p \in Packets : Handles(p) \/ Arrives(p)
    \/ \E c \in Clients, s \in Sessions : Register(c, s)
    \/ Tick \/ Sweep \/ Stop

Spec == Init /\ [][Next]_vars

-----------------------------------------------------------------------------
(* The client a packet is taken for: that of the table's object for the    *)
(* address of a datagram, of the session of a frame, or the one an answer  *)
(* is for.                                                                 *)
TakenFor(r) == IF r.client = None THEN r.from ELSE r.client

(* It is the client that sent it; or the datagram came from an address     *)
(* where that client is as well, by its own report or behind the same NAT, *)
(* or whose sender the search of handlePacket took for another once.       *)
Excused(r) ==
    \/ r.from \in {None, TakenFor(r)}
    \/ r.addr \in mistaken
    \/ r.addr \in Sources[TakenFor(r)] \cup {Local[TakenFor(r)]}

(* A packet that is not lost is written to a WebSocket of the client it is *)
(* taken for, sent to a node one of its sessions leads to, or, an answer,  *)
(* to an address kept for it: the searches of WireGuardServer and of the   *)
(* gateway, which wait for getSession between two candidates, never settle *)
(* on a third one's.  And it is taken for the client that sent it but at   *)
(* an address of both, or where the search of handlePacket was mistaken:   *)
(* that search takes any client with a WebSocket and a registration        *)
(* (DatagramsAreTheirSenders), but no table entry, no object shared or put *)
(* back late carries the mistake to another address.                       *)
StaysWithTheClient ==
    \A p \in Packets : packet[p].pc = "done" =>
        /\ \A s \in Sessions : packet[p].to = ToSocket(s) => Owner[s] = TakenFor(packet[p])
        /\ \A n \in Nodes : packet[p].to = ToNode(n) =>
              \E s \in Sessions : Owner[s] = TakenFor(packet[p]) /\ Exit[s] = n
        /\ Excused(packet[p])

(* What was registered last for an address stands there until it expires,  *)
(* whatever datagrams pass: only a datagram that was being handled when    *)
(* the registration was made may put back the object it had read before    *)
(* (lines 128-131 write after the awaits what line 72 read before them).   *)
LastRegistrationStands ==
    \A a \in Addrs : latest[a] = None \/ a \in overtaken \/ entry[a] = latest[a]

(* An answer sent by UDP goes to an address its client reported or was     *)
(* seen at, unless the search of handlePacket took the sender at that      *)
(* address for this client once (mistaken).                                *)
AnswersGoWhereTheClientWas ==
    \A p \in Packets, a \in Addrs : packet[p].to = ToAddr(a) /\ a \notin mistaken =>
        a \in Sources[packet[p].client] \cup {Local[packet[p].client]}

(* Two sweeps never leave an object neither registered nor heard for more  *)
(* than SESSION_TIMEOUT, although what is heard at one address renews the  *)
(* object under the other, and a late handler brings one back.             *)
SilentForgotten ==
    \A a \in Addrs : entry[a] # None => object[entry[a]].age <= Timeout + SweepEvery

(* The table of sessions holds what was registered and what was heard of. *)
TableHolds == LastRegistrationStands /\ SilentForgotten

(* Violated.  A datagram is treated as one of the client that sent it.     *)
DatagramsAreTheirSenders ==
    \A p \in Packets : packet[p].from # None /\ packet[p].client # None =>
        packet[p].client = packet[p].from

(* Violated.  What a client sends for the node is not written back to it.  *)
NeverEchoed ==
    \A p \in Packets : packet[p].from # None =>
        \A s \in Sessions : packet[p].to = ToSocket(s) => Owner[s] # packet[p].from
=============================================================================
