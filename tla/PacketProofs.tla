---------------------------- MODULE PacketProofs ----------------------------
(***************************************************************************)
(* Theorems about what becomes of packets: at the server (PacketPath), for *)
(* any clients, nodes, sessions and addresses, any number of packets in    *)
(* flight and any durations; and in the table of TCP connections of a node *)
(* (TCPConnections), for any number of flows and sockets.                  *)
(***************************************************************************)
EXTENDS PacketPath, TCPTable, FiniteSetTheorems, WellFoundedInduction, TLAPS

TCP == INSTANCE TCPConnections

-----------------------------------------------------------------------------
(* The invariants. *)

Object == [client : Clients \cup {None}, node : Nodes \cup {None},
           session : Sessions \cup {None}, age : Nat]
Handler == [pc : Stages, from : Clients \cup {None}, addr : Addrs \cup {None},
            obj : Objects \cup {None}, client : Clients \cup {None},
            node : Nodes \cup {None}, session : Sessions \cup {None},
            todo : SUBSET Sessions, to : Ends]

(* What is known of a client, a node and a session belongs together.       *)
Fits(r, who) ==
    /\ r.session # None => Owner[r.session] = who
    /\ r.node # None => \E s \in Sessions : Owner[s] = who /\ Exit[s] = r.node

Stays(r) ==
    /\ \A s \in Sessions : r.to = ToSocket(s) => Owner[s] = TakenFor(r)
    /\ \A n \in Nodes : r.to = ToNode(n) =>
          \E s \in Sessions : Owner[s] = TakenFor(r) /\ Exit[s] = n

(* The stages at whose end handlePacket puts the object it has read back.  *)
Touching == {"find", "node", "post"}
Leading == Touching \cup {"frame", "gwfind", "gwnode", "gwpost"}

(* A handler by itself. *)
Well(r) ==
    /\ r \in Handler
    /\ r.pc # "done" => r.to = Lost
    /\ r.pc = "match" => r.from \in Clients /\ r.addr \in Sources[r.from]
    /\ r.pc \in Touching => r.addr \in Addrs /\ r.obj \in Objects
    /\ r.pc \in Leading => r.node # None
    /\ r.pc \in {"frame", "answer"} => r.session # None
    /\ Fits(r, TakenFor(r)) /\ Stays(r)

PacketInv ==
    /\ packet \in [Packets -> Handler]
    /\ \A p \in Packets : Well(packet[p])

(* Objects by themselves, those of the table, and those that handlers have *)
(* read: a handler has the client of its object in hand.                   *)
Sound(g) ==
    /\ g \in [Objects -> Object]
    /\ \A o \in Objects : Fits(g[o], g[o].client)

ObjectInv ==
    /\ Sound(object)
    /\ \A a \in Known : object[entry[a]].node # None
    /\ \A p \in Packets : packet[p].pc \in Touching =>
          /\ object[packet[p].obj].node # None
          /\ object[packet[p].obj].client = packet[p].client

TableInv == PacketInv /\ ObjectInv /\ TypeOK

(* A handler that began before the last registration of its address, or    *)
(* found that one.                                                         *)
StandInv ==
    /\ LastRegistrationStands
    /\ \A p \in Packets : packet[p].pc \in Touching \cup {"match"} =>
          \/ latest[packet[p].addr] = None \/ packet[p].addr \in overtaken
          \/ packet[p].pc # "match" /\ packet[p].obj = latest[packet[p].addr]

AgeInv == \A a \in Known : object[entry[a]].age =< Timeout + since

(* An address where client c is. *)
Place(a, c) == a \in Sources[c] \cup {Local[c]}

PlaceInv ==
    /\ \A a \in Known \ mistaken : Place(a, object[entry[a]].client)
    /\ \A p \in Packets :
          packet[p].pc \in Touching /\ packet[p].addr \notin mistaken =>
              Place(packet[p].addr, packet[p].client)
    /\ AnswersGoWhereTheClientWas

(* Whoever a packet is taken for, there is a reason.                       *)
TakenInv == \A p \in Packets : Excused(packet[p])

-----------------------------------------------------------------------------
(* Handlers. *)

LEMMA IdleIsWell == Well(Idle)
BY TableAssumption
DEF Well, Handler, Idle, Stages, Lost, Ends, Touching, Leading, Fits, Stays, TakenFor,
    ToSocket, ToNode

(* A packet that ends where its client may be.                             *)
LEMMA EndsWell ==
    ASSUME NEW r \in Handler, NEW end \in Ends,
           \A s \in Sessions : end = ToSocket(s) => Owner[s] = TakenFor(r),
           \A n \in Nodes : end = ToNode(n) =>
               \E s \in Sessions : Owner[s] = TakenFor(r) /\ Exit[s] = n
    PROVE  Well(End(r, end)) /\ End(r, end).pc \in {"idle", "done"}
<1>1. CASE end = Lost
  BY <1>1, IdleIsWell DEF End, Idle
<1>2. CASE end # Lost
  <2> DEFINE q == [Idle EXCEPT !.pc = "done", !.from = r.from, !.addr = r.addr,
                              !.client = r.client, !.to = end]
  <2>1. End(r, end) = q
    BY <1>2 DEF End
  <2>2. /\ q \in Handler /\ q.pc = "done" /\ q.to = end /\ q.from = r.from /\ q.client = r.client
        /\ q.session = None /\ q.node = None
    BY DEF Handler, Idle, Stages
  <2>3. TakenFor(q) = TakenFor(r)
    BY <2>2 DEF TakenFor
  <2> HIDE DEF q
  <2> QED
    BY <2>1, <2>2, <2>3 DEF Well, Touching, Leading, Fits, Stays
<1> QED
  BY <1>1, <1>2

LEMMA LostIsWell ==
    ASSUME NEW r \in Handler
    PROVE  Well(End(r, Lost)) /\ End(r, Lost).pc = "idle"
BY IdleIsWell DEF End, Idle

(* A packet that is written to the session it came with, or to one of its  *)
(* client's.                                                               *)
LEMMA SocketIsWell ==
    ASSUME NEW r \in Handler, NEW s \in Sessions, Owner[s] = TakenFor(r)
    PROVE  Well(End(r, ToSocket(s))) /\ End(r, ToSocket(s)).pc \in {"idle", "done"}
<1>1. ToSocket(s) \in Ends
  BY DEF Ends
<1>2. /\ \A t \in Sessions : ToSocket(s) = ToSocket(t) => Owner[t] = TakenFor(r)
      /\ \A n \in Nodes : ToSocket(s) # ToNode(n)
  BY DEF ToSocket, ToNode
<1> QED
  BY <1>1, <1>2, EndsWell

LEMMA NodeIsWell ==
    ASSUME NEW r \in Handler, Fits(r, TakenFor(r)), r.node # None
    PROVE  Well(End(r, ToNode(r.node))) /\ End(r, ToNode(r.node)).pc \in {"idle", "done"}
<1>1. ToNode(r.node) \in Ends
  BY DEF Ends, Handler
<1>2. /\ \A t \in Sessions : ToNode(r.node) # ToSocket(t)
      /\ \A n \in Nodes : ToNode(r.node) = ToNode(n) => n = r.node
  BY DEF ToSocket, ToNode
<1> QED
  BY <1>1, <1>2, EndsWell DEF Fits

(* A handler that goes on, and one that goes on to search.                 *)
LEMMA GoesOnWell ==
    ASSUME NEW r \in Handler, Fits(r, TakenFor(r)), r.to = Lost,
           NEW stage \in Stages \ {"done", "match"}, NEW todo \in SUBSET Sessions,
           stage \in Touching => r.addr \in Addrs /\ r.obj \in Objects,
           stage \in Leading => r.node # None,
           stage \in {"frame", "answer"} => r.session # None
    PROVE  /\ Well([r EXCEPT !.pc = stage, !.todo = todo])
           /\ Well(At(r, stage)) /\ Well(Search(r, stage, todo))
<1>1. /\ At(r, stage) = [r EXCEPT !.pc = stage, !.todo = r.todo]
      /\ Search(r, stage, todo) = [r EXCEPT !.pc = stage, !.todo = todo]
  BY DEF At, Search, Handler
<1>2. ASSUME NEW ss \in SUBSET Sessions PROVE Well([r EXCEPT !.pc = stage, !.todo = ss])
  <2> DEFINE q == [r EXCEPT !.pc = stage, !.todo = ss]
  <2>1. /\ q \in Handler /\ q.pc = stage /\ q.to = Lost /\ q.from = r.from /\ q.client = r.client
        /\ q.session = r.session /\ q.node = r.node /\ q.addr = r.addr /\ q.obj = r.obj
    BY DEF Handler
  <2>2. TakenFor(q) = TakenFor(r)
    BY <2>1 DEF TakenFor
  <2> HIDE DEF q
  <2>3. Stays(q)
    BY <2>1 DEF Stays, Lost, ToSocket, ToNode
  <2>4. Well(q)
    BY <2>1, <2>2, <2>3 DEF Well, Fits
  <2> QED
    BY <2>4 DEF q
<1>3. r.todo \in SUBSET Sessions
  BY DEF Handler
<1> QED
  BY <1>1, <1>2, <1>3

(* What a handler keeps while it goes on. *)
Same(q, r) ==
    /\ q.addr = r.addr /\ q.obj = r.obj /\ q.client = r.client /\ q.node = r.node
    /\ q.from = r.from

LEMMA ForwardedWell ==
    ASSUME NEW r \in Handler, Fits(r, TakenFor(r)), r.to = Lost, r.node # None,
           r.addr \in Addrs, r.obj \in Objects,
           NEW wired \in SUBSET Sessions, NEW open \in BOOLEAN
    PROVE  /\ Well(Forwarded(r, wired, open))
           /\ Forwarded(r, wired, open).pc \in {"idle", "done", "find", "node"}
           /\ Forwarded(r, wired, open).pc \in Touching => Same(Forwarded(r, wired, open), r)
<1>1. CASE r.session # None /\ open
  <2>1. r.session \in Sessions /\ Owner[r.session] = TakenFor(r)
    BY <1>1 DEF Handler, Fits
  <2> QED
    BY <1>1, <2>1, SocketIsWell DEF Forwarded, Touching
<1>2. CASE r.session = None /\ wired # {}
  <2>1. Forwarded(r, wired, open) = Search(r, "find", wired)
    BY <1>2 DEF Forwarded
  <2>2. Well(Search(r, "find", wired))
    BY GoesOnWell DEF Stages
  <2> QED
    BY <2>1, <2>2 DEF Search, Same, Handler
<1>3. CASE ~ (r.session # None /\ open) /\ ~ (r.session = None /\ wired # {})
  <2>1. Forwarded(r, wired, open) = At(r, "node")
    BY <1>3 DEF Forwarded
  <2>2. Well(At(r, "node"))
    BY GoesOnWell DEF Stages
  <2> QED
    BY <2>1, <2>2 DEF At, Same, Handler
<1> QED
  BY <1>1, <1>2, <1>3

LEMMA GatewayTookWell ==
    ASSUME NEW r \in Handler, Fits(r, TakenFor(r)), r.to = Lost, r.node # None,
           NEW wired \in SUBSET Sessions, NEW open \in BOOLEAN
    PROVE  /\ Well(GatewayTook(r, wired, open))
           /\ GatewayTook(r, wired, open).pc \in {"idle", "done", "gwfind", "gwnode"}
<1>1. CASE r.session # None /\ open
  <2>1. r.session \in Sessions /\ Owner[r.session] = TakenFor(r)
    BY <1>1 DEF Handler, Fits
  <2> QED
    BY <1>1, <2>1, SocketIsWell DEF GatewayTook
<1>2. CASE ~ (r.session # None /\ open) /\ (r.client # None /\ wired # {})
  <2>1. GatewayTook(r, wired, open) = Search(r, "gwfind", wired)
    BY <1>2 DEF GatewayTook
  <2>2. Well(Search(r, "gwfind", wired))
    BY GoesOnWell DEF Stages, Touching
  <2> QED
    BY <2>1, <2>2 DEF Search, Handler
<1>3. CASE ~ (r.session # None /\ open) /\ ~ (r.client # None /\ wired # {})
  <2>1. GatewayTook(r, wired, open) = At(r, "gwnode")
    BY <1>3 DEF GatewayTook
  <2>2. Well(At(r, "gwnode"))
    BY GoesOnWell DEF Stages, Touching
  <2> QED
    BY <2>1, <2>2 DEF At, Handler
<1> QED
  BY <1>1, <1>2, <1>3

LEMMA TodoWell ==
    ASSUME NEW r, Well(r), NEW ss \in SUBSET Sessions
    PROVE  LET q == [r EXCEPT !.todo = ss]
           IN  Well(q) /\ q.todo = ss /\ Same(q, r) /\ q.pc = r.pc /\ q.to = r.to
               /\ q.session = r.session /\ TakenFor(q) = TakenFor(r)
<1> DEFINE q == [r EXCEPT !.todo = ss]
<1>1. /\ q \in Handler /\ q.pc = r.pc /\ q.to = r.to /\ q.from = r.from /\ q.client = r.client
      /\ q.session = r.session /\ q.node = r.node /\ q.addr = r.addr /\ q.obj = r.obj
      /\ q.todo = ss
  BY DEF Well, Handler
<1>2. TakenFor(q) = TakenFor(r)
  BY <1>1 DEF TakenFor
<1> HIDE DEF q
<1>3. Well(q)
  BY <1>1, <1>2 DEF Well, Fits, Stays
<1>4. Same(q, r)
  BY <1>1 DEF Same
<1> QED
  BY <1>1, <1>2, <1>3, <1>4 DEF q

(* A search ends at a session of the client in hand. *)
LEMMA SuitsClient ==
    ASSUME NEW r, NEW s \in Sessions, Suits(r, s)
    PROVE  Owner[s] = TakenFor(r)
BY TableAssumption DEF Suits, TakenFor

(* A handler that takes an object of the table in hand.                    *)
LEMMA WithWell ==
    ASSUME Sound(object), NEW r \in Handler, r.to = Lost, r.addr \in Addrs,
           NEW o \in Objects, object[o].node # None
    PROVE  LET q == With(r, o)
           IN  /\ q \in Handler /\ q.to = Lost /\ q.addr = r.addr /\ q.obj = o
               /\ q.from = r.from
               /\ q.client = object[o].client /\ q.node = object[o].node
               /\ Fits(q, TakenFor(q))
<1> DEFINE q == With(r, o)
<1>1. object[o] \in Object
  BY DEF Sound
<1>2. /\ q \in Handler /\ q.to = Lost /\ q.addr = r.addr /\ q.obj = o /\ q.from = r.from
      /\ q.client = object[o].client /\ q.node = object[o].node
      /\ q.session = object[o].session
  BY <1>1 DEF With, Handler, Object
<1>3. Fits(object[o], object[o].client)
  BY DEF Sound
<1>4. object[o].client # None
  BY <1>3, TableAssumption DEF Fits
<1>5. TakenFor(q) = object[o].client
  BY <1>2, <1>4 DEF TakenFor
<1> HIDE DEF q
<1>6. Fits(q, TakenFor(q))
  BY <1>2, <1>3, <1>5 DEF Fits
<1> QED
  BY <1>2, <1>6 DEF q

LEMMA TakesWell ==
    ASSUME Sound(object), NEW r \in Handler, r.to = Lost, r.addr \in Addrs,
           NEW o \in Objects, object[o].node # None, NEW valid \in BOOLEAN,
           NEW wired \in SUBSET Sessions, NEW open \in BOOLEAN
    PROVE  LET t == With(r, o)
               q == IF valid THEN Forwarded(t, wired, open) ELSE End(t, Lost)
           IN  /\ Well(q) /\ q.pc \in {"idle", "done", "find", "node"}
               /\ q.pc \in Touching =>
                      q.addr = r.addr /\ q.obj = o /\ q.client = object[o].client
<1> DEFINE t == With(r, o)
<1>1. /\ t \in Handler /\ t.to = Lost /\ t.addr = r.addr /\ t.obj = o /\ t.node # None
      /\ t.client = object[o].client /\ Fits(t, TakenFor(t))
  BY WithWell
<1> HIDE DEF t
<1>2. /\ Well(Forwarded(t, wired, open))
      /\ Forwarded(t, wired, open).pc \in {"idle", "done", "find", "node"}
      /\ Forwarded(t, wired, open).pc \in Touching => Same(Forwarded(t, wired, open), t)
  BY <1>1, ForwardedWell
<1>3. Well(End(t, Lost)) /\ End(t, Lost).pc = "idle"
  BY <1>1, LostIsWell
<1> QED
  BY <1>1, <1>2, <1>3 DEF t, Same, Touching

LEMMA MapsAre == Maps \subseteq SUBSET Sessions /\ Opens \subseteq BOOLEAN
BY DEF Maps, Opens

(* What a step of a handler makes of it; while it goes on it keeps what it *)
(* has read.                                                               *)
Moves(p, q) ==
    /\ Well(q) /\ packet' = [packet EXCEPT ![p] = q]

LEMMA SearchMoves ==
    ASSUME TableInv, NEW p \in Packets, NEW s \in packet[p].todo,
           (\E found \in BOOLEAN : NoMatch(p, s, found))
              \/ \E open \in Opens : Find(p, s, open) \/ GatewayFind(p, s, open)
    PROVE  /\ Moves(p, packet'[p])
           /\ packet'[p].pc \in {packet[p].pc, "idle", "done", "node", "gwnode"}
           /\ packet'[p].pc = "gwnode" => packet[p].pc = "gwfind"
           /\ packet'[p].pc = "node" => packet[p].pc = "find"
           /\ packet'[p].pc \in Touching \cup {"match"} => Same(packet'[p], packet[p])
<1> DEFINE r == [packet[p] EXCEPT !.todo = @ \ {s}]
<1>0. packet \in [Packets -> Handler] /\ Well(packet[p]) /\ s \in Sessions
  BY DEF TableInv, PacketInv, Handler
<1>1. /\ Well(r) /\ r \in Handler /\ Same(r, packet[p]) /\ r.pc = packet[p].pc
      /\ r.to = packet[p].to /\ r.session = packet[p].session
  <2>1. r = [packet[p] EXCEPT !.todo = packet[p].todo \ {s}]
    OBVIOUS
  <2>2. packet[p].todo \ {s} \in SUBSET Sessions
    BY <1>0 DEF Handler
  <2> QED
    BY <1>0, <2>1, <2>2, TodoWell DEF Well
<1> HIDE DEF r
<1>2. ASSUME NEW q, packet' = [packet EXCEPT ![p] = q] PROVE packet'[p] = q
  BY <1>0, <1>2
<1>a. Well(End(r, Lost)) /\ End(r, Lost).pc = "idle"
  BY <1>1, LostIsWell
<1>3. CASE \E found \in BOOLEAN : NoMatch(p, s, found)
  <2>1. \/ packet' = [packet EXCEPT ![p] = End(r, Lost)]
        \/ packet' = [packet EXCEPT ![p] = r]
    BY <1>3 DEF NoMatch, Becomes, r
  <2>2. packet[p].pc = "match"
    BY <1>3 DEF NoMatch
  <2> QED
    BY <1>1, <1>2, <1>a, <2>1, <2>2 DEF Moves, Touching
<1>4. ASSUME NEW open \in Opens, Find(p, s, open) \/ GatewayFind(p, s, open)
      PROVE  /\ Moves(p, packet'[p])
             /\ packet'[p].pc \in {packet[p].pc, "idle", "done", "node", "gwnode"}
             /\ packet'[p].pc = "gwnode" => packet[p].pc = "gwfind"
             /\ packet'[p].pc = "node" => packet[p].pc = "find"
             /\ packet'[p].pc \in Touching \cup {"match"} => Same(packet'[p], packet[p])
  <2> DEFINE stage == IF packet[p].pc = "find" THEN "node" ELSE "gwnode"
  <2>0. packet[p].pc \in {"find", "gwfind"}
    BY <1>4 DEF Find, GatewayFind
  <2>1. \/ Suits(r, s) /\ packet' = [packet EXCEPT ![p] = End(r, ToSocket(s))]
        \/ packet' = [packet EXCEPT ![p] = At(r, stage)]
        \/ packet' = [packet EXCEPT ![p] = r]
    BY <1>4 DEF Find, GatewayFind, Resumes, Becomes, r
  <2>2. Suits(r, s) => Well(End(r, ToSocket(s))) /\ End(r, ToSocket(s)).pc \in {"idle", "done"}
    BY <1>0, <1>1, SuitsClient, SocketIsWell
  <2>3. Well(At(r, stage))
    <3>1. /\ r \in Handler /\ Fits(r, TakenFor(r)) /\ r.to = Lost /\ r.node # None
          /\ stage \in Touching => r.addr \in Addrs /\ r.obj \in Objects
      BY <1>1, <2>0 DEF Well, Leading, Touching
    <3>2. stage \in Stages \ {"done", "match", "frame", "answer"} /\ r.todo \in SUBSET Sessions
      BY <3>1 DEF Stages, Handler
    <3> HIDE DEF stage
    <3> QED
      BY <3>1, <3>2, GoesOnWell
  <2>4. At(r, stage).pc = stage /\ Same(At(r, stage), packet[p])
    BY <1>1 DEF At, Same, Handler
  <2> QED
    BY <1>1, <1>2, <2>0, <2>1, <2>2, <2>3, <2>4 DEF Moves, Touching
<1> QED
  BY <1>3, <1>4

LEMMA RequestMoves ==
    ASSUME TableInv, NEW p \in Packets, NEW b \in BOOLEAN,
           \/ GetNode(p, b) \/ GatewayNode(p, b) \/ GatewayPost(p, b)
           \/ \E wired \in Maps, open \in Opens :
                  Post(p, b, wired, open) \/ ForwardPacketToNode(p, b, wired, open)
    PROVE  /\ Moves(p, packet'[p])
           /\ packet'[p].pc \in {"post", "gwfind", "gwnode", "gwpost", "idle", "done"}
           /\ packet'[p].pc = "post" => packet[p].pc = "node" /\ Same(packet'[p], packet[p])
<1> DEFINE r == packet[p]
<1>0. packet \in [Packets -> Handler] /\ Well(r)
  BY DEF TableInv, PacketInv
<1>1. ASSUME NEW q, packet' = [packet EXCEPT ![p] = q] PROVE packet'[p] = q
  BY <1>0, <1>1
<1>2. r \in Handler /\ Fits(r, TakenFor(r))
  BY <1>0 DEF Well
<1>3. Well(End(r, Lost)) /\ End(r, Lost).pc = "idle"
  BY <1>2, LostIsWell
<1>4. r.pc \in Leading =>
          Well(End(r, ToNode(r.node))) /\ End(r, ToNode(r.node)).pc \in {"idle", "done"}
  BY <1>0, <1>2, NodeIsWell DEF Well
<1>5. ASSUME r.pc \in Leading, NEW stage \in {"post", "gwpost"},
             stage \in Touching => r.pc \in Touching
      PROVE  Well(At(r, stage)) /\ At(r, stage).pc = stage /\ Same(At(r, stage), r)
  <2>1. /\ r.to = Lost /\ r.node # None /\ r.todo \in SUBSET Sessions
        /\ stage \in Touching => r.addr \in Addrs /\ r.obj \in Objects
    BY <1>0, <1>5 DEF Well, Leading, Touching, Handler
  <2>2. stage \in Stages \ {"done", "match"} /\ stage \notin {"frame", "answer"}
    BY <1>5 DEF Stages
  <2>3. Well(At(r, stage))
    BY <1>2, <2>1, <2>2, GoesOnWell
  <2> QED
    BY <1>2, <2>3 DEF At, Same, Handler
<1>6. ASSUME NEW wired \in Maps, NEW open \in Opens, r.pc \in {"post", "frame"},
             NEW t \in Handler, t = [r EXCEPT !.obj = None] \/ t = r
      PROVE  /\ Well(GatewayTook(t, wired, open))
             /\ GatewayTook(t, wired, open).pc \in {"idle", "done", "gwfind", "gwnode"}
  <2>1. r.to = Lost /\ r.node # None
    BY <1>0, <1>6 DEF Well, Leading, Touching
  <2>2. /\ t.to = Lost /\ t.node = r.node /\ t.session = r.session /\ t.client = r.client
        /\ t.from = r.from
    BY <1>2, <1>6, <2>1 DEF Handler
  <2>3. Fits(t, TakenFor(t))
    BY <1>2, <2>2 DEF Fits, TakenFor
  <2>4. wired \in SUBSET Sessions /\ open \in BOOLEAN
    BY <1>6, MapsAre
  <2> QED
    BY <2>1, <2>2, <2>3, <2>4, GatewayTookWell
<1>7. [r EXCEPT !.obj = None] \in Handler
  BY <1>2 DEF Handler
<1> HIDE DEF r
<1>8. CASE GetNode(p, b)
  <2>1. r.pc = "node" /\ \/ packet' = [packet EXCEPT ![p] = At(r, "post")]
                         \/ packet' = [packet EXCEPT ![p] = End(r, Lost)]
    BY <1>8 DEF GetNode, Resumes, Becomes, r
  <2>2. r.pc \in Leading /\ r.pc \in Touching
    BY <2>1 DEF Leading, Touching
  <2> QED
    BY <1>1, <1>3, <1>5, <2>1, <2>2 DEF Moves, r
<1>9. CASE GatewayNode(p, b)
  <2>1. r.pc = "gwnode" /\ \/ packet' = [packet EXCEPT ![p] = At(r, "gwpost")]
                           \/ packet' = [packet EXCEPT ![p] = End(r, Lost)]
    BY <1>9 DEF GatewayNode, Becomes, r
  <2>2. r.pc \in Leading /\ "gwpost" \notin Touching
    BY <2>1 DEF Leading, Touching
  <2> QED
    BY <1>1, <1>3, <1>5, <2>1, <2>2 DEF Moves
<1>10. CASE GatewayPost(p, b)
  <2>1. r.pc = "gwpost" /\ \/ packet' = [packet EXCEPT ![p] = End(r, ToNode(r.node))]
                           \/ packet' = [packet EXCEPT ![p] = End(r, Lost)]
    BY <1>10 DEF GatewayPost, Becomes, r
  <2>2. r.pc \in Leading
    BY <2>1 DEF Leading
  <2> QED
    BY <1>1, <1>3, <1>4, <2>1, <2>2 DEF Moves
<1>11. ASSUME NEW wired \in Maps, NEW open \in Opens,
              Post(p, b, wired, open) \/ ForwardPacketToNode(p, b, wired, open)
       PROVE  /\ Moves(p, packet'[p])
              /\ packet'[p].pc \in {"idle", "done", "gwfind", "gwnode"}
  <2>1. /\ r.pc \in {"post", "frame"}
        /\ \/ packet' = [packet EXCEPT ![p] = End(r, ToNode(r.node))]
           \/ packet' = [packet EXCEPT ![p] = GatewayTook([r EXCEPT !.obj = None], wired, open)]
           \/ packet' = [packet EXCEPT ![p] = GatewayTook(r, wired, open)]
    BY <1>11 DEF Post, ForwardPacketToNode, Resumes, Becomes, r
  <2>2. r.pc \in Leading
    BY <2>1 DEF Leading, Touching
  <2> QED
    BY <1>1, <1>2, <1>4, <1>6, <1>7, <2>1, <2>2 DEF Moves
<1> QED
  BY <1>8, <1>9, <1>10, <1>11 DEF r

LEMMA FrameMoves ==
    ASSUME TableInv, NEW p \in Packets,
           \/ FrameDropped(p)
           \/ \E open \in Opens : ForwardPacketToClient(p, open)
    PROVE  Moves(p, packet'[p]) /\ packet'[p].pc \in {"idle", "done"}
<1> DEFINE r == packet[p]
<1>0. packet \in [Packets -> Handler] /\ Well(r) /\ r \in Handler /\ r.pc = "frame"
  BY DEF TableInv, PacketInv, FrameDropped, ForwardPacketToClient
<1>1. ASSUME NEW q, packet' = [packet EXCEPT ![p] = q] PROVE packet'[p] = q
  BY <1>0, <1>1
<1>2. \/ packet' = [packet EXCEPT ![p] = End(r, ToSocket(r.session))]
      \/ packet' = [packet EXCEPT ![p] = End(r, Lost)]
  BY DEF FrameDropped, ForwardPacketToClient, Becomes
<1>3. r.session \in Sessions /\ Owner[r.session] = TakenFor(r)
  BY <1>0 DEF Well, Fits, Handler
<1> HIDE DEF r
<1>4. Well(End(r, ToSocket(r.session))) /\ End(r, ToSocket(r.session)).pc \in {"idle", "done"}
  BY <1>0, <1>3, SocketIsWell
<1>5. Well(End(r, Lost)) /\ End(r, Lost).pc = "idle"
  BY <1>0, LostIsWell
<1> QED
  BY <1>1, <1>2, <1>4, <1>5 DEF Moves

(* An answer that is sent by UDP is no socket's and no node's.             *)
LEMMA UdpIsWell ==
    ASSUME NEW r \in Handler, NEW c, NEW end \in ByUdp(c)
    PROVE  Well(End(r, end)) /\ End(r, end).pc \in {"idle", "done"}
<1>1. CASE end = Lost
  BY <1>1, LostIsWell
<1>2. ASSUME NEW a \in First(Keyed(c)), end = ToAddr(a)
      PROVE  Well(End(r, end)) /\ End(r, end).pc \in {"idle", "done"}
  <2>1. a \in Addrs
    BY DEF First, Keyed, Known
  <2>2. /\ end \in Ends
        /\ \A s \in Sessions : end # ToSocket(s)
        /\ \A n \in Nodes : end # ToNode(n)
    BY <1>2, <2>1 DEF Ends, ToAddr, ToSocket, ToNode
  <2> QED
    BY <2>2, EndsWell
<1> QED
  BY <1>1, <1>2 DEF ByUdp

LEMMA AnswerMoves ==
    ASSUME TableInv, NEW p \in Packets,
           \/ \E open \in Opens : AnswerSent(p, open)
           \/ \E c \in Clients, s \in Sessions \cup {None} : Answer(p, c, s)
    PROVE  Moves(p, packet'[p]) /\ packet'[p].pc \in {"answer", "idle", "done"}
<1>0. packet \in [Packets -> Handler] /\ Well(packet[p])
  BY DEF TableInv, PacketInv
<1>1. ASSUME NEW q, packet' = [packet EXCEPT ![p] = q] PROVE packet'[p] = q
  BY <1>0, <1>1
<1>2. ASSUME NEW open \in Opens, AnswerSent(p, open)
      PROVE  Moves(p, packet'[p]) /\ packet'[p].pc \in {"answer", "idle", "done"}
  <2> DEFINE r == packet[p]
  <2>1. r \in Handler /\ r.session \in Sessions /\ Owner[r.session] = TakenFor(r)
    BY <1>0, <1>2 DEF AnswerSent, Well, Fits, Handler
  <2>2. \/ packet' = [packet EXCEPT ![p] = End(r, ToSocket(r.session))]
        \/ \E end \in ByUdp(r.client) : packet' = [packet EXCEPT ![p] = End(r, end)]
    BY <1>2 DEF AnswerSent, Becomes
  <2> HIDE DEF r
  <2>3. Well(End(r, ToSocket(r.session))) /\ End(r, ToSocket(r.session)).pc \in {"idle", "done"}
    BY <2>1, SocketIsWell
  <2> QED
    BY <1>1, <2>1, <2>2, <2>3, UdpIsWell DEF Moves
<1>3. ASSUME NEW c \in Clients, NEW s \in Sessions \cup {None}, Answer(p, c, s)
      PROVE  Moves(p, packet'[p]) /\ packet'[p].pc \in {"answer", "idle", "done"}
  <2> DEFINE r == [Idle EXCEPT !.client = c, !.session = s]
  <2>1. /\ r \in Handler /\ r.to = Lost /\ r.session = s /\ r.client = c /\ r.node = None
        /\ r.todo = {}
    BY IdleIsWell DEF Well, Handler, Idle
  <2>2. s # None => Owner[s] = c
    BY <1>3 DEF Answer
  <2>3. IF s = None THEN \E end \in ByUdp(c) : packet' = [packet EXCEPT ![p] = End(r, end)]
        ELSE packet' = [packet EXCEPT ![p] = At(r, "answer")]
    BY <1>3 DEF Answer, Becomes
  <2> HIDE DEF r
  <2>4. TakenFor(r) = c
    BY <2>1, TableAssumption DEF TakenFor
  <2>5. s # None => Well(At(r, "answer")) /\ At(r, "answer").pc = "answer"
    <3>1. Fits(r, TakenFor(r))
      BY <2>1, <2>2, <2>4 DEF Fits
    <3>2. "answer" \in Stages \ {"done", "match"} /\ "answer" \notin Touching \cup Leading
      BY DEF Stages, Touching, Leading
    <3>3. s # None => Well(At(r, "answer"))
      BY <2>1, <3>1, <3>2, GoesOnWell
    <3> QED
      BY <2>1, <3>3 DEF At, Handler
  <2>6. CASE s = None
    <3>1. PICK end \in ByUdp(c) : packet' = [packet EXCEPT ![p] = End(r, end)]
      BY <2>3, <2>6
    <3>2. Well(End(r, end)) /\ End(r, end).pc \in {"idle", "done"}
      BY <2>1, UdpIsWell
    <3> QED
      BY <1>1, <3>1, <3>2 DEF Moves
  <2>7. CASE s # None
    BY <1>1, <2>3, <2>5, <2>7 DEF Moves
  <2> QED
    BY <2>6, <2>7
<1> QED
  BY <1>2, <1>3

LEMMA EntriesAreKept ==
    ASSUME TableInv, NEW a \in Known
    PROVE  entry[a] \in Objects /\ object[entry[a]].node # None
BY DEF TableInv, TypeOK, Known, ObjectInv

LEMMA DatagramMoves ==
    ASSUME TableInv, NEW p \in Packets, NEW c \in Clients, NEW a \in Sources[c],
           NEW wired \in Maps,
           \/ DatagramUnknown(p, c, a, wired)
           \/ \E valid \in BOOLEAN, open \in Opens : DatagramKnown(p, c, a, valid, wired, open)
    PROVE  /\ Moves(p, packet'[p])
           /\ packet'[p].pc \in {"match", "find", "node", "idle", "done"}
           /\ packet'[p].pc = "match" => packet'[p].addr = a /\ entry[a] = None
           /\ packet'[p].pc \in Touching =>
                 /\ a \in Known /\ packet'[p].addr = a /\ packet'[p].obj = entry[a]
                 /\ packet'[p].client = object[entry[a]].client
<1> DEFINE r == [Idle EXCEPT !.from = c, !.addr = a]
<1>0. packet \in [Packets -> Handler] /\ a \in Addrs
  BY TableAssumption DEF TableInv, PacketInv
<1>1. ASSUME NEW q, packet' = [packet EXCEPT ![p] = q] PROVE packet'[p] = q
  BY <1>0, <1>1
<1>2. /\ r \in Handler /\ r.to = Lost /\ r.addr = a /\ r.from = c /\ r.session = None
      /\ r.node = None
  BY <1>0, IdleIsWell DEF Well, Handler, Idle
<1>3. ASSUME DatagramUnknown(p, c, a, wired)
      PROVE  /\ Moves(p, packet'[p]) /\ packet'[p].pc \in {"match", "idle"}
             /\ packet'[p].pc = "match" => packet'[p].addr = a /\ entry[a] = None
  <2>1. /\ entry[a] = None
        /\ \/ packet' = [packet EXCEPT ![p] = Search(r, "match", wired)]
           \/ packet' = [packet EXCEPT ![p] = End(r, Lost)]
    BY <1>3 DEF DatagramUnknown, Becomes
  <2>2. Well(End(r, Lost)) /\ End(r, Lost).pc = "idle"
    BY <1>2, LostIsWell
  <2> DEFINE q == Search(r, "match", wired)
  <2>3. /\ q \in Handler /\ q.pc = "match" /\ q.to = Lost /\ q.addr = a /\ q.from = c
        /\ q.session = None /\ q.node = None
    <3>1. wired \in SUBSET Sessions
      BY MapsAre
    <3> HIDE DEF r
    <3> QED
      BY <1>2, <3>1 DEF Search, Handler, Stages
  <2> HIDE DEF q, r
  <2>4. Stays(q)
    BY <2>3 DEF Stays, Lost, ToSocket, ToNode
  <2>5. Well(q)
    BY <2>3, <2>4 DEF Well, Touching, Leading, Fits
  <2> QED
    BY <1>1, <2>1, <2>2, <2>3, <2>5 DEF Moves, q
<1>4. ASSUME NEW valid \in BOOLEAN, NEW open \in Opens,
             DatagramKnown(p, c, a, valid, wired, open)
      PROVE  /\ Moves(p, packet'[p]) /\ packet'[p].pc \in {"find", "node", "idle", "done"}
             /\ packet'[p].pc \in Touching =>
                   /\ a \in Known /\ packet'[p].addr = a /\ packet'[p].obj = entry[a]
                   /\ packet'[p].client = object[entry[a]].client
  <2> DEFINE t == With(r, entry[a])
             q == IF valid THEN Forwarded(t, wired, open) ELSE End(t, Lost)
  <2>1. packet' = [packet EXCEPT ![p] = q]
    BY <1>4 DEF DatagramKnown, Becomes
  <2>2. a \in Known
    BY <1>0, <1>4 DEF DatagramKnown, Known
  <2>3. entry[a] \in Objects /\ object[entry[a]].node # None /\ Sound(object)
    BY <2>2, EntriesAreKept DEF TableInv, ObjectInv
  <2>4. wired \in SUBSET Sessions /\ open \in BOOLEAN
    BY MapsAre
  <2> HIDE DEF r
  <2>5. /\ Well(q) /\ q.pc \in {"idle", "done", "find", "node"}
        /\ q.pc \in Touching =>
               q.addr = a /\ q.obj = entry[a] /\ q.client = object[entry[a]].client
    BY <1>0, <1>2, <2>3, <2>4, TakesWell
  <2> HIDE DEF q
  <2> QED
    BY <1>1, <2>1, <2>2, <2>5 DEF Moves
<1> QED
  BY <1>3, <1>4 DEF Touching

(* What is heard renews an object. *)
Renewed(o) == [object EXCEPT ![o].age = 0]

LEMMA MatchMoves ==
    ASSUME TableInv, NEW p \in Packets, NEW s \in packet[p].todo, NEW valid \in BOOLEAN,
           NEW wired \in Maps, NEW open \in Opens, Match(p, s, valid, wired, open)
    PROVE  /\ Moves(p, packet'[p]) /\ packet[p].pc = "match"
           /\ packet'[p].pc \in {"find", "node", "idle", "done"}
           /\ \E b \in First(Fitting(s)), n \in NewObjects(packet[p].addr) :
                 LET a == packet[p].addr
                     o == entry[b]
                 IN  /\ packet'[p].pc \in Touching =>
                            /\ packet'[p].addr = a /\ packet'[p].obj = o
                            /\ packet'[p].client = object[o].client
                     /\ \/ /\ packet'[p].pc = "done"
                           /\ Put(a, o)
                           /\ object' = Collected(Renewed(o))
                        \/ /\ Put(a, n)
                           /\ object' = [Collected(object) EXCEPT
                                            ![n] = [object[o] EXCEPT !.age = 0]]
                     /\ UNCHANGED <<since, up, latest, overtaken>>
                     /\ mistaken' = IF object[o].client = packet[p].from THEN mistaken
                                    ELSE mistaken \cup {a}
<1>0. /\ packet \in [Packets -> Handler] /\ Well(packet[p]) /\ packet[p].pc = "match"
      /\ packet[p].addr \in Addrs
  BY TableAssumption DEF TableInv, PacketInv, Match, Well
<1>1. ASSUME NEW q, packet' = [packet EXCEPT ![p] = q] PROVE packet'[p] = q
  BY <1>0, <1>1
<1> DEFINE a == packet[p].addr
           r == At([packet[p] EXCEPT !.todo = {}], "match")
           t(b) == With(r, entry[b])
           q(b) == IF valid THEN Forwarded(t(b), wired, open) ELSE End(t(b), Lost)
<1>2. PICK b \in First(Fitting(s)), n \in NewObjects(a) :
          /\ packet' = [packet EXCEPT ![p] = q(b)]
          /\ IF valid /\ q(b).pc = "done" THEN Touch(t(b))
             ELSE /\ Put(a, n)
                  /\ object' = [Collected(object) EXCEPT ![n] = [object[entry[b]] EXCEPT !.age = 0]]
                  /\ UNCHANGED <<since, up>>
          /\ mistaken' = (IF t(b).client = t(b).from THEN mistaken ELSE mistaken \cup {a})
          /\ UNCHANGED <<latest, overtaken>>
  BY DEF Match, Becomes
<1>3. b \in Known
  BY DEF First, Fitting
<1>4. entry[b] \in Objects /\ object[entry[b]].node # None /\ Sound(object)
  BY <1>3, EntriesAreKept DEF TableInv, ObjectInv
<1>5. wired \in SUBSET Sessions /\ open \in BOOLEAN
  BY MapsAre
<1>6. r \in Handler /\ r.to = Lost /\ r.addr = a /\ r.from = packet[p].from
  BY <1>0 DEF At, Well, Handler
<1> HIDE DEF r
<1>7. /\ t(b).client = object[entry[b]].client /\ t(b).from = packet[p].from
      /\ t(b).addr = a /\ t(b).obj = entry[b]
  BY <1>0, <1>4, <1>6, WithWell
<1>8. /\ Well(q(b)) /\ q(b).pc \in {"idle", "done", "find", "node"}
      /\ q(b).pc \in Touching =>
             q(b).addr = a /\ q(b).obj = entry[b] /\ q(b).client = object[entry[b]].client
  BY <1>0, <1>4, <1>5, <1>6, TakesWell
<1> HIDE DEF t, q
<1>9. packet'[p] = q(b)
  BY <1>1, <1>2
<1>10. UNCHANGED <<since, up, latest, overtaken>>
  BY <1>2 DEF Touch
<1>11. \/ /\ packet'[p].pc = "done"
          /\ Put(a, entry[b])
          /\ object' = Collected(Renewed(entry[b]))
       \/ /\ Put(a, n)
          /\ object' = [Collected(object) EXCEPT ![n] = [object[entry[b]] EXCEPT !.age = 0]]
  BY <1>2, <1>7, <1>9 DEF Touch, Renewed
<1> QED
  BY <1>0, <1>2, <1>7, <1>8, <1>9, <1>10, <1>11 DEF Moves

LEMMA ClientMoves ==
    ASSUME TableInv, NEW p \in Packets, NEW s \in Sessions,
           Frame(p, s) \/ \E open \in Opens : FromClient(p, s, open)
    PROVE  Moves(p, packet'[p]) /\ packet'[p].pc \in {"frame", "idle", "done"}
<1>0. packet \in [Packets -> Handler] /\ Owner[s] \in Clients /\ Exit[s] \in Nodes
  BY TableAssumption DEF TableInv, PacketInv
<1>1. ASSUME NEW q, packet' = [packet EXCEPT ![p] = q] PROVE packet'[p] = q
  BY <1>0, <1>1
<1>2. ASSUME Frame(p, s) PROVE Moves(p, packet'[p]) /\ packet'[p].pc = "frame"
  <2> DEFINE q == [Idle EXCEPT !.pc = "frame", !.from = Owner[s], !.node = Exit[s],
                               !.session = s]
  <2>1. packet' = [packet EXCEPT ![p] = q]
    BY <1>2 DEF Frame, Becomes
  <2>2. /\ q \in Handler /\ q.pc = "frame" /\ q.to = Lost /\ q.from = Owner[s]
        /\ q.client = None /\ q.session = s /\ q.node = Exit[s]
    BY <1>0, IdleIsWell DEF Well, Handler, Idle, Stages
  <2> HIDE DEF q
  <2>3. TakenFor(q) = Owner[s]
    BY <2>2 DEF TakenFor
  <2>4. Stays(q) /\ Fits(q, TakenFor(q))
    BY <2>2, <2>3 DEF Stays, Fits, Lost, ToSocket, ToNode
  <2>5. Well(q)
    BY <1>0, <2>2, <2>4, TableAssumption DEF Well, Touching
  <2> QED
    BY <1>1, <2>1, <2>2, <2>5 DEF Moves
<1>3. ASSUME NEW open \in Opens, FromClient(p, s, open)
      PROVE  Moves(p, packet'[p]) /\ packet'[p].pc \in {"idle", "done"}
  <2> DEFINE r == [Idle EXCEPT !.from = Owner[s], !.node = Exit[s], !.session = s]
  <2>1. \/ packet' = [packet EXCEPT ![p] = End(r, ToSocket(s))]
        \/ packet' = [packet EXCEPT ![p] = End(r, Lost)]
    BY <1>3 DEF FromClient, Becomes
  <2>2. r \in Handler /\ TakenFor(r) = Owner[s]
    BY <1>0, IdleIsWell DEF Well, Handler, Idle, TakenFor
  <2> HIDE DEF r
  <2>3. /\ Well(End(r, ToSocket(s))) /\ End(r, ToSocket(s)).pc \in {"idle", "done"}
        /\ Well(End(r, Lost)) /\ End(r, Lost).pc = "idle"
    BY <2>2, SocketIsWell, LostIsWell
  <2> QED
    BY <1>1, <2>1, <2>3 DEF Moves
<1> QED
  BY <1>2, <1>3

(* A handler whose step is none of these does not touch the table, and its *)
(* packet does not search or wait on behalf of an entry.                   *)
Apart(p) ==
    \/ \E s \in packet[p].todo :
          \/ \E found \in BOOLEAN : NoMatch(p, s, found)
          \/ \E open \in Opens : GatewayFind(p, s, open)
    \/ FrameDropped(p)
    \/ \E open \in Opens : ForwardPacketToClient(p, open) \/ AnswerSent(p, open)
    \/ \E b \in BOOLEAN :
          \/ GatewayNode(p, b) \/ GatewayPost(p, b)
          \/ \E wired \in Maps, open \in Opens : ForwardPacketToNode(p, b, wired, open)
    \/ \E s \in Sessions : Frame(p, s) \/ \E open \in Opens : FromClient(p, s, open)
    \/ \E c \in Clients, s \in Sessions \cup {None} : Answer(p, c, s)
    \/ \E c \in Clients, wired \in Maps : \E a \in Sources[c] : DatagramUnknown(p, c, a, wired)

(* A handler of handlePacket that goes on after an await. *)
Wakes(p) ==
    \/ \E s \in packet[p].todo, open \in Opens : Find(p, s, open)
    \/ \E b \in BOOLEAN :
          \/ GetNode(p, b)
          \/ \E wired \in Maps, open \in Opens : Post(p, b, wired, open)

LEMMA Kinds ==
    ASSUME NEW p \in Packets, Handles(p) \/ Arrives(p)
    PROVE  \/ Apart(p)
           \/ Wakes(p)
           \/ \E c \in Clients, wired \in Maps : \E a \in Sources[c] :
                 \E valid \in BOOLEAN, open \in Opens : DatagramKnown(p, c, a, valid, wired, open)
           \/ \E s \in packet[p].todo, valid \in BOOLEAN, wired \in Maps, open \in Opens :
                 Match(p, s, valid, wired, open)
BY DEF Handles, Arrives, Apart, Wakes

LEMMA ApartMoves ==
    ASSUME TableInv, NEW p \in Packets, Apart(p)
    PROVE  /\ Moves(p, packet'[p])
           /\ packet'[p].pc \notin Touching
           /\ packet'[p].pc = "match" =>
                 \/ packet[p].pc = "match" /\ Same(packet'[p], packet[p])
                 \/ \E a \in Addrs : packet'[p].addr = a /\ entry[a] = None
           /\ UNCHANGED <<table, history>>
<1>1. CASE \E s \in packet[p].todo :
              \/ \E found \in BOOLEAN : NoMatch(p, s, found)
              \/ \E open \in Opens : GatewayFind(p, s, open)
  <2>1. PICK s \in packet[p].todo : \/ \E found \in BOOLEAN : NoMatch(p, s, found)
                                    \/ \E open \in Opens : GatewayFind(p, s, open)
    BY <1>1
  <2>2. packet[p].pc \in {"match", "gwfind"} /\ UNCHANGED <<table, history>>
    BY <2>1 DEF NoMatch, GatewayFind
  <2>3. /\ Moves(p, packet'[p])
        /\ packet'[p].pc \in {packet[p].pc, "idle", "done", "node", "gwnode"}
        /\ packet'[p].pc = "gwnode" => packet[p].pc = "gwfind"
        /\ packet'[p].pc = "node" => packet[p].pc = "find"
        /\ packet'[p].pc \in Touching \cup {"match"} => Same(packet'[p], packet[p])
    BY <2>1, SearchMoves
  <2> QED
    BY <2>2, <2>3 DEF Touching
<1>2. CASE \/ FrameDropped(p)
           \/ \E open \in Opens : ForwardPacketToClient(p, open)
  BY <1>2, FrameMoves DEF Touching, FrameDropped, ForwardPacketToClient
<1>3. CASE \/ \E open \in Opens : AnswerSent(p, open)
           \/ \E c \in Clients, s \in Sessions \cup {None} : Answer(p, c, s)
  BY <1>3, AnswerMoves DEF Touching, AnswerSent, Answer
<1>4. CASE \E b \in BOOLEAN :
              \/ GatewayNode(p, b) \/ GatewayPost(p, b)
              \/ \E wired \in Maps, open \in Opens : ForwardPacketToNode(p, b, wired, open)
  <2>1. /\ packet[p].pc \in {"gwnode", "gwpost", "frame"}
        /\ UNCHANGED <<table, history>>
    BY <1>4 DEF GatewayNode, GatewayPost, ForwardPacketToNode
  <2> QED
    BY <1>4, <2>1, RequestMoves DEF Touching
<1>5. CASE \E s \in Sessions : Frame(p, s) \/ \E open \in Opens : FromClient(p, s, open)
  BY <1>5, ClientMoves DEF Touching, Frame, FromClient
<1>6. CASE \E c \in Clients, wired \in Maps : \E a \in Sources[c] :
              DatagramUnknown(p, c, a, wired)
  <2>1. PICK c \in Clients, wired \in Maps : \E a \in Sources[c] : DatagramUnknown(p, c, a, wired)
    BY <1>6
  <2>2. PICK a \in Sources[c] : DatagramUnknown(p, c, a, wired)
    BY <2>1
  <2>3. a \in Addrs /\ entry[a] = None /\ UNCHANGED <<table, history>>
    BY <2>2, TableAssumption DEF DatagramUnknown
  <2>4. /\ Moves(p, packet'[p])
        /\ packet'[p].pc \in {"match", "find", "node", "idle", "done"}
        /\ packet'[p].pc = "match" => packet'[p].addr = a /\ entry[a] = None
        /\ packet'[p].pc \in Touching => a \in Known
    BY <2>2, DatagramMoves
  <2> QED
    BY <2>3, <2>4 DEF Known
<1> QED
  BY <1>1, <1>2, <1>3, <1>4, <1>5, <1>6 DEF Apart

LEMMA WakesMoves ==
    ASSUME TableInv, NEW p \in Packets, Wakes(p)
    PROVE  /\ packet[p].pc \in Touching
           /\ Moves(p, packet'[p])
           /\ packet'[p].pc # "match"
           /\ packet'[p].pc \in Touching => Same(packet'[p], packet[p])
           /\ Untouched \/ Touch(packet[p])
           /\ UNCHANGED history
<1>1. CASE \E s \in packet[p].todo, open \in Opens : Find(p, s, open)
  <2>1. PICK s \in packet[p].todo : \E open \in Opens : Find(p, s, open)
    BY <1>1
  <2>2. /\ packet[p].pc = "find"
        /\ Untouched \/ Touch(packet[p])
        /\ UNCHANGED history
    BY <2>1 DEF Find, Resumes
  <2>3. /\ Moves(p, packet'[p])
        /\ packet'[p].pc \in {packet[p].pc, "idle", "done", "node", "gwnode"}
        /\ packet'[p].pc \in Touching \cup {"match"} => Same(packet'[p], packet[p])
    BY <2>1, SearchMoves
  <2> QED
    BY <2>2, <2>3 DEF Touching
<1>2. CASE \E b \in BOOLEAN :
              \/ GetNode(p, b)
              \/ \E wired \in Maps, open \in Opens : Post(p, b, wired, open)
  <2>1. /\ packet[p].pc \in {"node", "post"}
        /\ Untouched \/ Touch(packet[p])
        /\ UNCHANGED history
    BY <1>2 DEF GetNode, Post, Resumes
  <2>2. /\ Moves(p, packet'[p])
        /\ packet'[p].pc \in {"post", "gwfind", "gwnode", "gwpost", "idle", "done"}
        /\ packet'[p].pc = "post" => packet[p].pc = "node" /\ Same(packet'[p], packet[p])
    BY <1>2, RequestMoves
  <2> QED
    BY <2>1, <2>2 DEF Touching
<1> QED
  BY <1>1, <1>2 DEF Wakes

LEMMA KnownMoves ==
    ASSUME TableInv, NEW p \in Packets, NEW c \in Clients, NEW a \in Sources[c],
           NEW wired \in Maps, NEW valid \in BOOLEAN, NEW open \in Opens,
           DatagramKnown(p, c, a, valid, wired, open)
    PROVE  /\ a \in Known
           /\ Moves(p, packet'[p])
           /\ packet'[p].pc # "match"
           /\ packet'[p].pc \in Touching =>
                 /\ packet'[p].addr = a /\ packet'[p].obj = entry[a]
                 /\ packet'[p].client = object[entry[a]].client
           /\ \/ Untouched
              \/ /\ Put(a, entry[a])
                 /\ object' = Collected(Renewed(entry[a]))
                 /\ UNCHANGED <<since, up>>
           /\ UNCHANGED history
<1>1. a \in Known /\ UNCHANGED history
  BY TableAssumption DEF DatagramKnown, Known
<1>2. /\ Moves(p, packet'[p])
      /\ packet'[p].pc = "match" => entry[a] = None
      /\ packet'[p].pc \in Touching =>
            /\ packet'[p].addr = a /\ packet'[p].obj = entry[a]
            /\ packet'[p].client = object[entry[a]].client
  BY DatagramMoves
<1> DEFINE r == With([Idle EXCEPT !.from = c, !.addr = a], entry[a])
<1>3. r.addr = a /\ r.obj = entry[a]
  BY DEF With, Idle
<1>4. Untouched \/ Touch(r)
  BY DEF DatagramKnown
<1> HIDE DEF r
<1> QED
  BY <1>1, <1>2, <1>3, <1>4 DEF Touch, Known, Renewed

LEMMA PacketStep == TableInv /\ [Next]_vars => PacketInv'
<1> SUFFICES ASSUME TableInv, [Next]_vars PROVE PacketInv'
    OBVIOUS
<1>1. packet \in [Packets -> Handler] /\ \A p \in Packets : Well(packet[p])
  BY DEF TableInv, PacketInv
<1>2. packet' = packet => PacketInv'
  BY <1>1 DEF PacketInv, Well, Fits, TakenFor, Stays
<1>3. ASSUME NEW p \in Packets, Handles(p) \/ Arrives(p) PROVE PacketInv'
  <2>1. Moves(p, packet'[p])
    <3>1. CASE Apart(p)
      BY <3>1, ApartMoves
    <3>2. CASE Wakes(p)
      BY <3>2, WakesMoves
    <3>3. ASSUME NEW c \in Clients, NEW wired \in Maps, NEW a \in Sources[c],
                 NEW valid \in BOOLEAN, NEW open \in Opens,
                 DatagramKnown(p, c, a, valid, wired, open)
          PROVE  Moves(p, packet'[p])
      BY <3>3, KnownMoves
    <3>4. ASSUME NEW s \in packet[p].todo, NEW valid \in BOOLEAN, NEW wired \in Maps,
                 NEW open \in Opens, Match(p, s, valid, wired, open)
          PROVE  Moves(p, packet'[p])
      BY <3>4, MatchMoves
    <3> QED
      BY <1>3, <3>1, <3>2, <3>3, <3>4, Kinds
  <2>2. Well(packet'[p]) /\ packet' = [packet EXCEPT ![p] = packet'[p]]
    BY <2>1 DEF Moves
  <2>3. packet'[p] \in Handler
    BY <2>2 DEF Well
  <2>4. \A d \in Packets : d # p => packet'[d] = packet[d]
    BY <1>1, <2>2
  <2>5. packet' \in [Packets -> Handler]
    BY <1>1, <2>2, <2>3
  <2>6. \A d \in Packets : Well(packet'[d])
    BY <1>1, <2>2, <2>4
  <2> QED
    BY <2>5, <2>6 DEF PacketInv, Well, Fits, TakenFor, Stays
<1>4. CASE \/ \E c \in Clients, s \in Sessions : Register(c, s)
           \/ Tick \/ Sweep \/ Stop \/ UNCHANGED vars
  BY <1>2, <1>4 DEF Register, Tick, Sweep, Stop, vars
<1> QED
  BY <1>3, <1>4 DEF Next

-----------------------------------------------------------------------------
(* Objects. *)

LEMMA BlankIsSound == Blank \in Object /\ Fits(Blank, Blank.client)
BY DEF Blank, Object, Fits

LEMMA CollectedIs ==
    ASSUME NEW g, Sound(g)
    PROVE  /\ Sound(Collected(g))
           /\ \A o \in Objects : o \in Held(entry', packet') => Collected(g)[o] = g[o]
BY BlankIsSound DEF Collected, Sound

(* Objects of the table and of handlers are held. *)
LEMMA HeldAre ==
    /\ \A a \in Addrs : entry'[a] \in Held(entry', packet')
    /\ \A p \in Packets : packet'[p].obj \in Held(entry', packet')
    /\ \A p \in Packets : packet[p].obj \in Held(entry, packet)
    /\ \A a, b \in Addrs : \A o \in NewObjects(a) :
          entry \in [Addrs -> Objects \cup {None}] =>
              /\ o \in Objects /\ o # None
              /\ a # b => entry[b] # o
              /\ \A p \in Packets : packet[p].obj # o
<1>1. ASSUME NEW a \in Addrs, NEW b \in Addrs, NEW o \in NewObjects(a),
             entry \in [Addrs -> Objects \cup {None}]
      PROVE  /\ o \in Objects /\ o # None
             /\ a # b => entry[b] # o
             /\ \A p \in Packets : packet[p].obj # o
  <2>1. PICK i \in 1 .. Copies : o = <<a, i>> /\ o \notin Held([entry EXCEPT ![a] = None], packet)
    BY DEF NewObjects
  <2>2. o \in Objects /\ o # None
    BY <2>1, TableAssumption DEF Objects
  <2>3. a # b => [entry EXCEPT ![a] = None][b] = entry[b]
    BY <1>1
  <2> QED
    BY <2>1, <2>2, <2>3 DEF Held
<1> QED
  BY <1>1 DEF Held

(* The objects of a step that makes none ... *)
LEMMA ObjectsKept ==
    ASSUME TableInv, PacketInv', NEW g, Sound(g), object' = Collected(g),
           \A o \in Objects : g[o].client = object[o].client /\ g[o].node = object[o].node,
           entry' \in [Addrs -> Objects \cup {None}],
           \A a \in Addrs : entry'[a] # None => object[entry'[a]].node # None,
           \A p \in Packets : packet'[p].pc \in Touching =>
               /\ object[packet'[p].obj].node # None
               /\ object[packet'[p].obj].client = packet'[p].client
    PROVE  ObjectInv'
<1>1. /\ Sound(object')
      /\ \A o \in Objects : o \in Held(entry', packet') => object'[o] = g[o]
  BY CollectedIs
<1>2. \A a \in Addrs : entry'[a] # None =>
          entry'[a] \in Objects /\ entry'[a] \in Held(entry', packet')
  BY HeldAre
<1>3. \A p \in Packets : packet'[p].pc \in Touching =>
          packet'[p].obj \in Objects /\ packet'[p].obj \in Held(entry', packet')
  BY HeldAre DEF PacketInv, Well
<1> QED
  BY <1>1, <1>2, <1>3 DEF ObjectInv, Sound, Fits, Known

(* ... and of one that makes object n for address b. *)
Made(n, new) == [Collected(object) EXCEPT ![n] = new]
HandsFit(n, new) ==
    \A p \in Packets : packet'[p].pc \in Touching =>
        /\ object[packet'[p].obj].node # None
        /\ object[packet'[p].obj].client = packet'[p].client
        /\ packet'[p].obj = n => new.client = packet'[p].client

LEMMA ObjectsMade ==
    ASSUME TableInv, PacketInv', NEW b \in Addrs, NEW n \in NewObjects(b), NEW new \in Object,
           Fits(new, new.client), new.node # None,
           Put(b, n), object' = Made(n, new), HandsFit(n, new)
    PROVE  ObjectInv'
<1>1. entry \in [Addrs -> Objects \cup {None}] /\ Sound(object)
  BY DEF TableInv, TypeOK, ObjectInv
<1>2. n \in Objects /\ n # None /\ entry' = [entry EXCEPT ![b] = n]
  BY <1>1, HeldAre DEF Put
<1>3. /\ Sound(Collected(object))
      /\ \A o \in Objects : o \in Held(entry', packet') => Collected(object)[o] = object[o]
  BY <1>1, CollectedIs
<1>4. /\ Sound(object')
      /\ object'[n] = new
      /\ \A o \in Objects \ {n} : o \in Held(entry', packet') => object'[o] = object[o]
  BY <1>2, <1>3 DEF Sound, Made
<1>5. ASSUME NEW a \in Addrs, entry'[a] # None PROVE object'[entry'[a]].node # None
  <2>1. CASE a = b
    BY <1>1, <1>2, <1>4, <2>1
  <2>2. CASE a # b
    <3>1. /\ a \in Known /\ entry'[a] = entry[a] /\ entry[a] # n /\ entry[a] \in Objects
          /\ entry[a] \in Held(entry', packet')
      BY <1>1, <1>2, <1>5, <2>2, HeldAre DEF Known
    <3> QED
      BY <1>4, <3>1 DEF TableInv, ObjectInv
  <2> QED
    BY <2>1, <2>2
<1>6. ASSUME NEW p \in Packets, packet'[p].pc \in Touching
      PROVE  /\ object'[packet'[p].obj].node # None
             /\ object'[packet'[p].obj].client = packet'[p].client
  <2>1. packet'[p].obj \in Objects /\ packet'[p].obj \in Held(entry', packet')
    BY <1>6, HeldAre DEF PacketInv, Well
  <2> QED
    BY <1>4, <1>6, <2>1 DEF HandsFit
<1> QED
  BY <1>4, <1>5, <1>6 DEF ObjectInv, Sound, Fits, Known

(* What is heard renews an object. *)
LEMMA RenewedIs ==
    ASSUME Sound(object), NEW o \in Objects
    PROVE  /\ Sound(Renewed(o))
           /\ \A x \in Objects : /\ Renewed(o)[x].client = object[x].client
                                 /\ Renewed(o)[x].node = object[x].node
                                 /\ x # o => Renewed(o)[x] = object[x]
           /\ Renewed(o)[o].age = 0
<1> DEFINE g == Renewed(o)
<1>1. \A x \in Objects : object[x] \in Object
  BY DEF Sound
<1>2. /\ g = [object EXCEPT ![o] = [object[o] EXCEPT !.age = 0]]
      /\ DOMAIN object = Objects
  BY DEF Renewed, Sound
<1>3. \A x \in Objects \ {o} : g[x] = object[x]
  BY <1>2
<1>4. g[o] = [object[o] EXCEPT !.age = 0]
  BY <1>2
<1>5. /\ g[o] \in Object /\ g[o].client = object[o].client /\ g[o].node = object[o].node
      /\ g[o].session = object[o].session /\ g[o].age = 0
  BY <1>1, <1>4 DEF Object
<1>6. g \in [Objects -> Object]
  <2>1. g = [x \in Objects |-> g[x]]
    BY <1>2
  <2>2. \A x \in Objects : g[x] \in Object
    BY <1>1, <1>3, <1>5
  <2> HIDE DEF g
  <2> QED
    BY <2>1, <2>2
<1> HIDE DEF g
<1>7. \A x \in Objects : Fits(g[x], g[x].client)
  BY <1>3, <1>5 DEF Sound, Fits
<1> QED
  BY <1>3, <1>5, <1>6, <1>7 DEF Sound, g

(* The handlers after a step of p: those that will touch the table hold an *)
(* object of their client.                                                 *)
InHand(q) ==
    /\ object[q.obj].node # None
    /\ object[q.obj].client = q.client

LEMMA HandsOfMove ==
    ASSUME TableInv, NEW p \in Packets, Moves(p, packet'[p]),
           packet'[p].pc \in Touching => InHand(packet'[p])
    PROVE  \A d \in Packets : packet'[d].pc \in Touching => InHand(packet'[d])
<1>1. \A d \in Packets : d # p => packet'[d] = packet[d]
  BY DEF Moves, TableInv, PacketInv
<1>2. \A d \in Packets : packet[d].pc \in Touching => InHand(packet[d])
  BY DEF TableInv, ObjectInv, InHand
<1> QED
  BY <1>1, <1>2

(* A step that only reads, and one that renews object o and leaves it      *)
(* under address a.                                                        *)
LEMMA ReadKeeps ==
    ASSUME TableInv, PacketInv', UNCHANGED entry,
           object' = Collected(object),
           \A d \in Packets : packet'[d].pc \in Touching => InHand(packet'[d])
    PROVE  ObjectInv'
<1>1. /\ Sound(object) /\ entry \in [Addrs -> Objects \cup {None}]
      /\ \A a \in Addrs : entry[a] # None => object[entry[a]].node # None
  BY DEF TableInv, TypeOK, ObjectInv, Known
<1>2. \A p \in Packets : packet'[p].pc \in Touching =>
          object[packet'[p].obj].node # None /\ object[packet'[p].obj].client = packet'[p].client
  BY DEF InHand
<1> QED
  BY <1>1, <1>2, ObjectsKept

LEMMA TouchKeeps ==
    ASSUME TableInv, PacketInv', NEW a \in Addrs, NEW o \in Objects,
           object[o].node # None, Put(a, o), object' = Collected(Renewed(o)),
           \A d \in Packets : packet'[d].pc \in Touching => InHand(packet'[d])
    PROVE  ObjectInv'
<1>1. /\ Sound(object) /\ entry \in [Addrs -> Objects \cup {None}]
      /\ \A b \in Addrs : entry[b] # None => object[entry[b]].node # None
  BY DEF TableInv, TypeOK, ObjectInv, Known
<1>2. /\ Sound(Renewed(o))
      /\ \A x \in Objects : /\ Renewed(o)[x].client = object[x].client
                            /\ Renewed(o)[x].node = object[x].node
  BY <1>1, RenewedIs
<1>3. /\ entry' = [entry EXCEPT ![a] = o]
      /\ entry' \in [Addrs -> Objects \cup {None}]
  BY <1>1 DEF Put
<1>4. \A b \in Addrs : entry'[b] # None => object[entry'[b]].node # None
  BY <1>1, <1>3
<1>5. \A p \in Packets : packet'[p].pc \in Touching =>
          object[packet'[p].obj].node # None /\ object[packet'[p].obj].client = packet'[p].client
  BY DEF InHand
<1> QED
  BY <1>2, <1>3, <1>4, <1>5, ObjectsKept

LEMMA ObjectStep == TableInv /\ [Next]_vars => ObjectInv'
<1> SUFFICES ASSUME TableInv, [Next]_vars PROVE ObjectInv'
    OBVIOUS
<1>0. PacketInv'
  BY PacketStep
<1>1. /\ Sound(object) /\ entry \in [Addrs -> Objects \cup {None}]
      /\ \A a \in Addrs : entry[a] # None => object[entry[a]].node # None
      /\ \A p \in Packets : packet[p].pc \in Touching => InHand(packet[p])
  BY DEF TableInv, TypeOK, ObjectInv, Known, InHand
<1>2. ASSUME NEW p \in Packets, Apart(p) PROVE ObjectInv'
  <2>1. /\ UNCHANGED <<entry, object>>
        /\ \A d \in Packets : packet'[d].pc \in Touching => InHand(packet'[d])
    BY <1>2, ApartMoves, HandsOfMove DEF table
  <2> QED
    BY <1>1, <2>1 DEF ObjectInv, Sound, Fits, Known, InHand
<1>3. ASSUME NEW p \in Packets, Wakes(p) PROVE ObjectInv'
  <2>1. /\ packet[p].pc \in Touching /\ Moves(p, packet'[p])
        /\ packet'[p].pc \in Touching => Same(packet'[p], packet[p])
        /\ Untouched \/ Touch(packet[p])
    BY <1>3, WakesMoves
  <2>2. InHand(packet[p]) /\ packet[p].addr \in Addrs /\ packet[p].obj \in Objects
    BY <1>1, <2>1 DEF TableInv, PacketInv, Well
  <2>3. packet'[p].pc \in Touching => InHand(packet'[p])
    BY <2>1, <2>2 DEF Same, InHand
  <2>4. \A d \in Packets : packet'[d].pc \in Touching => InHand(packet'[d])
    BY <2>1, <2>3, HandsOfMove
  <2>5. CASE Untouched
    BY <1>0, <2>4, <2>5, ReadKeeps DEF Untouched
  <2>6. CASE Touch(packet[p])
    <3>1. /\ Put(packet[p].addr, packet[p].obj)
          /\ object' = Collected(Renewed(packet[p].obj))
      BY <2>6 DEF Touch, Renewed
    <3>2. object[packet[p].obj].node # None
      BY <2>2 DEF InHand
    <3> QED
      BY <1>0, <2>2, <2>4, <3>1, <3>2, TouchKeeps
  <2> QED
    BY <2>1, <2>5, <2>6
<1>4. ASSUME NEW p \in Packets, NEW c \in Clients, NEW wired \in Maps, NEW a \in Sources[c],
             NEW valid \in BOOLEAN, NEW open \in Opens,
             DatagramKnown(p, c, a, valid, wired, open)
      PROVE  ObjectInv'
  <2>1. /\ a \in Known /\ Moves(p, packet'[p])
        /\ packet'[p].pc \in Touching =>
               packet'[p].obj = entry[a] /\ packet'[p].client = object[entry[a]].client
        /\ \/ Untouched
           \/ Put(a, entry[a]) /\ object' = Collected(Renewed(entry[a]))
    BY <1>4, KnownMoves
  <2>2. a \in Addrs /\ entry[a] \in Objects /\ object[entry[a]].node # None
    BY <2>1, EntriesAreKept DEF Known
  <2>3. packet'[p].pc \in Touching => InHand(packet'[p])
    BY <2>1, <2>2 DEF InHand
  <2>4. \A d \in Packets : packet'[d].pc \in Touching => InHand(packet'[d])
    BY <2>1, <2>3, HandsOfMove
  <2>5. CASE Untouched
    BY <1>0, <2>4, <2>5, ReadKeeps DEF Untouched
  <2>6. CASE Put(a, entry[a]) /\ object' = Collected(Renewed(entry[a]))
    BY <1>0, <2>2, <2>4, <2>6, TouchKeeps
  <2> QED
    BY <2>1, <2>5, <2>6
<1>5. ASSUME NEW p \in Packets, NEW s \in packet[p].todo, NEW valid \in BOOLEAN,
             NEW wired \in Maps, NEW open \in Opens, Match(p, s, valid, wired, open)
      PROVE  ObjectInv'
  <2> DEFINE a == packet[p].addr
  <2>1. /\ Moves(p, packet'[p]) /\ packet[p].pc = "match"
        /\ packet'[p].pc \in {"find", "node", "idle", "done"}
    BY <1>5, MatchMoves
  <2>2. PICK b \in First(Fitting(s)), n \in NewObjects(a) :
           /\ packet'[p].pc \in Touching =>
                 packet'[p].obj = entry[b] /\ packet'[p].client = object[entry[b]].client
           /\ \/ Put(a, entry[b]) /\ object' = Collected(Renewed(entry[b]))
              \/ /\ Put(a, n)
                 /\ object' = [Collected(object) EXCEPT ![n] = [object[entry[b]] EXCEPT !.age = 0]]
    BY <1>5, MatchMoves
  <2>3. b \in Known /\ a \in Addrs
    BY <2>1, TableAssumption DEF First, Fitting, TableInv, PacketInv, Well
  <2>4. entry[b] \in Objects /\ object[entry[b]].node # None
    BY <2>3, EntriesAreKept
  <2>5. packet'[p].pc \in Touching => InHand(packet'[p])
    BY <2>2, <2>4 DEF InHand
  <2>6. \A d \in Packets : packet'[d].pc \in Touching => InHand(packet'[d])
    BY <2>1, <2>5, HandsOfMove
  <2>7. CASE Put(a, entry[b]) /\ object' = Collected(Renewed(entry[b]))
    BY <1>0, <2>3, <2>4, <2>6, <2>7, TouchKeeps
  <2>8. CASE /\ Put(a, n)
             /\ object' = [Collected(object) EXCEPT ![n] = [object[entry[b]] EXCEPT !.age = 0]]
    <3> DEFINE new == [object[entry[b]] EXCEPT !.age = 0]
    <3>1. object[entry[b]] \in Object /\ Fits(object[entry[b]], object[entry[b]].client)
      BY <1>1, <2>4 DEF Sound
    <3>2. /\ new \in Object /\ new.client = object[entry[b]].client
          /\ new.node = object[entry[b]].node /\ new.session = object[entry[b]].session
      BY <3>1 DEF Object
    <3> HIDE DEF new
    <3>3. Fits(new, new.client) /\ new.node # None
      BY <2>4, <3>1, <3>2 DEF Fits
    <3>4. Put(a, n)
      BY <2>8
    <3>5. object' = Made(n, new)
      BY <2>8 DEF new, Made
    <3>6. \A d \in Packets : d # p => packet'[d] = packet[d] /\ packet[d].obj # n
      BY <1>1, <2>1, <2>3, HeldAre DEF Moves, TableInv, PacketInv
    <3>7. HandsFit(n, new)
      BY <2>2, <2>6, <3>2, <3>6 DEF InHand, HandsFit
    <3> QED
      BY <1>0, <2>3, <3>2, <3>3, <3>4, <3>5, <3>7, ObjectsMade
  <2> QED
    BY <2>2, <2>7, <2>8
<1>6. ASSUME NEW c \in Clients, NEW s \in Sessions, Register(c, s) PROVE ObjectInv'
  <2> DEFINE a == Local[c]
             new == [client |-> c, node |-> Exit[s],
                     session |-> IF c \in Tells THEN s ELSE None, age |-> 0]
  <2>1. PICK o \in NewObjects(a) : Put(a, o) /\ object' = Made(o, new)
    BY <1>6 DEF Register, Made
  <2>2. a \in Addrs /\ Owner[s] = c /\ Exit[s] \in Nodes
    BY <1>6, TableAssumption DEF Register
  <2>3. /\ new \in Object /\ new.node # None /\ Fits(new, new.client)
    BY <2>2, TableAssumption DEF Object, Fits
  <2> HIDE DEF new
  <2>4. \A d \in Packets : packet'[d] = packet[d] /\ packet[d].obj # o
    BY <1>1, <1>6, <2>2, HeldAre DEF Register
  <2>5. HandsFit(o, new)
    BY <1>1, <2>4 DEF InHand, HandsFit
  <2> QED
    BY <1>0, <2>1, <2>2, <2>3, <2>5, ObjectsMade
<1>7. ASSUME Tick PROVE ObjectInv'
  <2>1. \A o \in Objects :
           /\ object'[o] \in Object
           /\ object'[o].client = object[o].client /\ object'[o].node = object[o].node
           /\ object'[o].session = object[o].session
    BY <1>1, <1>7, BlankIsSound, TableAssumption DEF Tick, Sound, Object
  <2>2. object' \in [Objects -> Object]
    BY <1>7, <2>1 DEF Tick
  <2>3. UNCHANGED <<entry, packet>>
    BY <1>7 DEF Tick
  <2> QED
    BY <1>1, <2>1, <2>2, <2>3 DEF ObjectInv, Sound, Fits, Known, InHand, TableInv, PacketInv, Well
<1>8. ASSUME Sweep \/ Stop PROVE ObjectInv'
  <2>1. \E as \in SUBSET Addrs : entry' = Without(entry, as)
    BY <1>8 DEF Sweep, Stop, Expired, Known
  <2>2. /\ entry' \in [Addrs -> Objects \cup {None}]
        /\ \A a \in Addrs : entry'[a] # None => entry'[a] = entry[a]
    BY <1>1, <2>1 DEF Without
  <2>3. packet' = packet /\ object' = Collected(object)
    BY <1>8 DEF Sweep, Stop
  <2>4. \A a \in Addrs : entry'[a] # None => object[entry'[a]].node # None
    BY <1>1, <2>2
  <2>5. \A p \in Packets : packet'[p].pc \in Touching =>
            object[packet'[p].obj].node # None /\ object[packet'[p].obj].client = packet'[p].client
    BY <1>1, <2>3 DEF InHand
  <2> QED
    BY <1>0, <1>1, <2>2, <2>3, <2>4, <2>5, ObjectsKept
<1>9. CASE UNCHANGED vars
  BY <1>1, <1>9 DEF vars, table, ObjectInv, Sound, Fits, Known, InHand
<1>10. ASSUME NEW p \in Packets, Handles(p) \/ Arrives(p) PROVE ObjectInv'
  BY <1>2, <1>3, <1>4, <1>5, <1>10, Kinds
<1> QED
  BY <1>6, <1>7, <1>8, <1>9, <1>10 DEF Next

-----------------------------------------------------------------------------
(* What a step does to the table, address by address. *)

(* The object under address b has its client still, and is no older.       *)
Fresher(b) ==
    entry[b] # None => /\ object'[entry[b]].client = object[entry[b]].client
                       /\ object'[entry[b]].age =< object[entry[b]].age

(* Address a leads to object x of client c, heard of just now.             *)
Sets(a, x, c) ==
    /\ Put(a, x) /\ x \in Objects
    /\ object'[x].client = c /\ object'[x].age = 0
    /\ \A b \in Addrs \ {a} : Fresher(b)

LEMMA ReadFreshens ==
    ASSUME TableInv, UNCHANGED entry, object' = object \/ object' = Collected(object)
    PROVE  \A b \in Addrs : Fresher(b)
<1>1. Sound(object) /\ entry \in [Addrs -> Objects \cup {None}]
  BY DEF TableInv, TypeOK, ObjectInv
<1>2. ASSUME NEW b \in Addrs, entry[b] # None
      PROVE  object'[entry[b]] = object[entry[b]] /\ object[entry[b]].age \in Nat
  <2>1. entry[b] \in Objects /\ entry[b] \in Held(entry', packet')
    BY <1>1, <1>2, HeldAre
  <2>2. object[entry[b]].age \in Nat
    BY <1>1, <2>1 DEF Sound, Object
  <2> QED
    BY <1>1, <2>1, <2>2, CollectedIs
<1>3. ASSUME NEW b \in Addrs, entry[b] # None
      PROVE  /\ object'[entry[b]].client = object[entry[b]].client
             /\ object'[entry[b]].age =< object[entry[b]].age
  BY <1>2, <1>3
<1> QED
  BY <1>3 DEF Fresher

LEMMA TouchSets ==
    ASSUME TableInv, NEW a \in Addrs, NEW o \in Objects, Put(a, o),
           object' = Collected(Renewed(o))
    PROVE  Sets(a, o, object[o].client)
<1>1. Sound(object) /\ entry \in [Addrs -> Objects \cup {None}]
  BY DEF TableInv, TypeOK, ObjectInv
<1>2. /\ Sound(Renewed(o)) /\ Renewed(o)[o].age = 0
      /\ \A x \in Objects : /\ Renewed(o)[x].client = object[x].client
                            /\ x # o => Renewed(o)[x] = object[x]
  BY <1>1, RenewedIs
<1>3. \A x \in Objects : x \in Held(entry', packet') => object'[x] = Renewed(o)[x]
  BY <1>2, CollectedIs
<1>4. entry' = [entry EXCEPT ![a] = o] /\ entry'[a] = o
  BY <1>1 DEF Put
<1>5. object'[o].client = object[o].client /\ object'[o].age = 0
  BY <1>2, <1>3, <1>4, HeldAre
<1>6. ASSUME NEW b \in Addrs \ {a}, entry[b] # None
      PROVE  /\ object'[entry[b]].client = object[entry[b]].client
             /\ object'[entry[b]].age =< object[entry[b]].age
  <2>1. entry'[b] = entry[b] /\ entry[b] \in Objects
    BY <1>1, <1>4, <1>6
  <2>2. object'[entry[b]] = Renewed(o)[entry[b]]
    BY <1>3, <2>1, HeldAre
  <2>3. object[entry[b]].age \in Nat
    BY <1>1, <2>1 DEF Sound, Object
  <2>4. Renewed(o)[entry[b]].age =< object[entry[b]].age
    BY <1>2, <2>1, <2>3
  <2> QED
    BY <1>2, <2>1, <2>2, <2>4
<1> QED
  BY <1>5, <1>6 DEF Sets, Fresher

LEMMA MadeSets ==
    ASSUME TableInv, NEW a \in Addrs, NEW n \in NewObjects(a), NEW new \in Object,
           new.age = 0, Put(a, n), object' = Made(n, new)
    PROVE  Sets(a, n, new.client)
<1>1. Sound(object) /\ entry \in [Addrs -> Objects \cup {None}]
  BY DEF TableInv, TypeOK, ObjectInv
<1>2. n \in Objects /\ n # None
  BY <1>1, HeldAre
<1>3. Sound(Collected(object))
      /\ \A x \in Objects : x \in Held(entry', packet') => Collected(object)[x] = object[x]
  BY <1>1, CollectedIs
<1>4. /\ object'[n] = new
      /\ \A x \in Objects \ {n} : x \in Held(entry', packet') => object'[x] = object[x]
  BY <1>2, <1>3 DEF Made, Sound
<1>5. entry' = [entry EXCEPT ![a] = n]
  BY DEF Put
<1>6. ASSUME NEW b \in Addrs \ {a}, entry[b] # None
      PROVE  /\ object'[entry[b]].client = object[entry[b]].client
             /\ object'[entry[b]].age =< object[entry[b]].age
  <2>1. entry'[b] = entry[b] /\ entry[b] \in Objects /\ entry[b] # n
    BY <1>1, <1>5, <1>6, HeldAre
  <2>2. object'[entry[b]] = object[entry[b]]
    BY <1>4, <2>1, HeldAre
  <2>3. object[entry[b]].age \in Nat
    BY <1>1, <2>1 DEF Sound, Object
  <2> QED
    BY <2>2, <2>3
<1> QED
  BY <1>2, <1>4, <1>6 DEF Sets, Fresher

(* The steps of handlers, by what they do to the table: nothing, put back  *)
(* an object in hand or under the same address, or find a client for an    *)
(* address.                                                                *)
Kept(p) ==
    packet'[p].pc \in Touching =>
        \/ packet[p].pc \in Touching /\ Same(packet'[p], packet[p])
        \/ /\ packet'[p].addr \in Known /\ packet'[p].obj = entry[packet'[p].addr]
           /\ packet'[p].client = object[packet'[p].obj].client

Reads(p) ==
    /\ UNCHANGED <<entry, before, mistaken>> /\ \A b \in Addrs : Fresher(b)
    /\ packet'[p].pc = "match" =>
          \/ packet[p].pc = "match" /\ Same(packet'[p], packet[p])
          \/ \E a \in Addrs : packet'[p].addr = a /\ entry[a] = None
    /\ Kept(p)

PutsBack(p, a, x) ==
    /\ Sets(a, x, object[x].client) /\ UNCHANGED mistaken
    /\ packet'[p].pc # "match" /\ Kept(p)
    /\ \/ packet[p].pc \in Touching /\ a = packet[p].addr /\ x = packet[p].obj
       \/ a \in Known /\ x = entry[a]

Takes(p, a, x, c) ==
    /\ packet[p].pc = "match" /\ a = packet[p].addr
    /\ Sets(a, x, c)
    /\ mistaken' = IF c = packet[p].from THEN mistaken ELSE mistaken \cup {a}
    /\ packet'[p].pc # "match"
    /\ packet'[p].pc \in Touching => packet'[p].addr = a /\ packet'[p].client = c

LEMMA Outcomes ==
    ASSUME TableInv, NEW p \in Packets, Handles(p) \/ Arrives(p)
    PROVE  /\ Moves(p, packet'[p])
           /\ UNCHANGED <<since, up, latest, overtaken>>
           /\ \/ Reads(p)
              \/ \E a \in Addrs, x \in Objects : PutsBack(p, a, x)
              \/ \E a \in Addrs, x \in Objects, c \in Clients \cup {None} : Takes(p, a, x, c)
<1> DEFINE Goal == /\ Moves(p, packet'[p])
                   /\ UNCHANGED <<since, up, latest, overtaken>>
                   /\ \/ Reads(p)
                      \/ \E a \in Addrs, x \in Objects : PutsBack(p, a, x)
                      \/ \E a \in Addrs, x \in Objects, c \in Clients \cup {None} :
                            Takes(p, a, x, c)
<1>1. CASE Apart(p)
  <2>1. /\ Moves(p, packet'[p]) /\ packet'[p].pc \notin Touching
        /\ packet'[p].pc = "match" =>
              \/ packet[p].pc = "match" /\ Same(packet'[p], packet[p])
              \/ \E a \in Addrs : packet'[p].addr = a /\ entry[a] = None
        /\ UNCHANGED <<entry, before, object, since, up, mistaken, latest, overtaken>>
    BY <1>1, ApartMoves DEF table, history
  <2>2. \A b \in Addrs : Fresher(b)
    BY <2>1, ReadFreshens
  <2> QED
    BY <2>1, <2>2 DEF Reads, Kept
<1>2. CASE Wakes(p)
  <2>1. /\ packet[p].pc \in Touching /\ Moves(p, packet'[p]) /\ packet'[p].pc # "match"
        /\ packet'[p].pc \in Touching => Same(packet'[p], packet[p])
        /\ Untouched \/ Touch(packet[p])
        /\ UNCHANGED <<mistaken, latest, overtaken>>
    BY <1>2, WakesMoves DEF history
  <2>2. CASE Untouched
    <3>1. UNCHANGED <<entry, before, since, up>> /\ object' = Collected(object)
      BY <2>2 DEF Untouched
    <3>2. \A b \in Addrs : Fresher(b)
      BY <3>1, ReadFreshens
    <3> QED
      BY <2>1, <3>1, <3>2 DEF Reads, Kept
  <2>3. CASE Touch(packet[p])
    <3> DEFINE a == packet[p].addr
               x == packet[p].obj
    <3>1. a \in Addrs /\ x \in Objects
      BY <2>1 DEF TableInv, PacketInv, Well
    <3>2. Put(a, x) /\ object' = Collected(Renewed(x)) /\ UNCHANGED <<since, up>>
      BY <2>3 DEF Touch, Renewed
    <3>3. Sets(a, x, object[x].client)
      BY <3>1, <3>2, TouchSets
    <3>4. PutsBack(p, a, x)
      BY <2>1, <3>3 DEF PutsBack, Kept
    <3> QED
      BY <2>1, <3>1, <3>2, <3>4
  <2> QED
    BY <2>1, <2>2, <2>3
<1>3. ASSUME NEW c \in Clients, NEW wired \in Maps, NEW a \in Sources[c],
             NEW valid \in BOOLEAN, NEW open \in Opens,
             DatagramKnown(p, c, a, valid, wired, open)
      PROVE  Goal
  <2>1. /\ a \in Known /\ Moves(p, packet'[p]) /\ packet'[p].pc # "match"
        /\ packet'[p].pc \in Touching =>
               /\ packet'[p].addr = a /\ packet'[p].obj = entry[a]
               /\ packet'[p].client = object[entry[a]].client
        /\ \/ Untouched
           \/ /\ Put(a, entry[a]) /\ object' = Collected(Renewed(entry[a]))
              /\ UNCHANGED <<since, up>>
        /\ UNCHANGED <<mistaken, latest, overtaken>>
    BY <1>3, KnownMoves DEF history
  <2>2. a \in Addrs /\ entry[a] \in Objects
    BY <2>1, EntriesAreKept DEF Known
  <2>3. Kept(p)
    BY <2>1 DEF Kept
  <2>4. CASE Untouched
    <3>1. UNCHANGED <<entry, before, since, up>> /\ object' = Collected(object)
      BY <2>4 DEF Untouched
    <3>2. \A b \in Addrs : Fresher(b)
      BY <3>1, ReadFreshens
    <3> QED
      BY <2>1, <2>3, <3>1, <3>2 DEF Reads
  <2>5. CASE /\ Put(a, entry[a]) /\ object' = Collected(Renewed(entry[a]))
             /\ UNCHANGED <<since, up>>
    <3> DEFINE x == entry[a]
    <3>1. Sets(a, x, object[x].client)
      BY <2>2, <2>5, TouchSets
    <3>2. PutsBack(p, a, x)
      BY <2>1, <2>3, <3>1 DEF PutsBack
    <3> QED
      BY <2>1, <2>2, <2>5, <3>2
  <2> QED
    BY <2>1, <2>4, <2>5
<1>4. ASSUME NEW s \in packet[p].todo, NEW valid \in BOOLEAN, NEW wired \in Maps,
             NEW open \in Opens, Match(p, s, valid, wired, open)
      PROVE  Goal
  <2> DEFINE a == packet[p].addr
  <2>1. /\ Moves(p, packet'[p]) /\ packet[p].pc = "match"
        /\ packet'[p].pc \in {"find", "node", "idle", "done"}
    BY <1>4, MatchMoves
  <2>2. PICK b \in First(Fitting(s)), n \in NewObjects(a) :
           /\ packet'[p].pc \in Touching =>
                 packet'[p].addr = a /\ packet'[p].client = object[entry[b]].client
           /\ \/ Put(a, entry[b]) /\ object' = Collected(Renewed(entry[b]))
              \/ /\ Put(a, n)
                 /\ object' = Made(n, [object[entry[b]] EXCEPT !.age = 0])
           /\ UNCHANGED <<since, up, latest, overtaken>>
           /\ mistaken' = IF object[entry[b]].client = packet[p].from THEN mistaken
                          ELSE mistaken \cup {a}
    BY <1>4, MatchMoves DEF Made
  <2>3. b \in Known /\ a \in Addrs
    BY <2>1, TableAssumption DEF First, Fitting, TableInv, PacketInv, Well
  <2> DEFINE o == entry[b]
             c == object[o].client
  <2>4. o \in Objects /\ object[o] \in Object /\ c \in Clients \cup {None}
    BY <2>3, EntriesAreKept DEF TableInv, ObjectInv, Sound, Object
  <2>5. \E x \in Objects : Sets(a, x, c)
    <3>1. CASE Put(a, o) /\ object' = Collected(Renewed(o))
      <4>1. Sets(a, o, object[o].client)
        BY <2>3, <2>4, <3>1, TouchSets
      <4> QED
        BY <2>4, <4>1
    <3>2. CASE /\ Put(a, n)
               /\ object' = Made(n, [object[o] EXCEPT !.age = 0])
      <4> DEFINE new == [object[o] EXCEPT !.age = 0]
      <4>1. new \in Object /\ new.age = 0 /\ new.client = c
        BY <2>4 DEF Object
      <4>2. Put(a, n) /\ object' = Made(n, new)
        BY <3>2
      <4> HIDE DEF new
      <4>3. Sets(a, n, new.client)
        BY <2>3, <4>1, <4>2, MadeSets
      <4>4. n \in Objects
        BY <4>3 DEF Sets
      <4> QED
        BY <4>1, <4>3, <4>4
    <3> QED
      BY <2>2, <3>1, <3>2
  <2>6. PICK x \in Objects : Sets(a, x, c)
    BY <2>5
  <2>7. Takes(p, a, x, c)
    BY <2>1, <2>2, <2>6 DEF Takes
  <2> QED
    BY <2>1, <2>2, <2>3, <2>4, <2>7
<1> HIDE DEF Goal
<1>5. Goal
  BY <1>1, <1>2, <1>3, <1>4, Kinds DEF Goal
<1> QED
  BY <1>5 DEF Goal

-----------------------------------------------------------------------------
(* The table: what it may hold, and the order of its keys. *)

Order ==
    /\ before \subseteq Known \X Known
    /\ \A a, b \in Known : (a = b) \/ (<<a, b>> \in before <=> <<b, a>> \notin before)

LEMMA PutOrders ==
    ASSUME Order, entry \in [Addrs -> Objects \cup {None}],
           NEW a \in Addrs, NEW o \in Objects, Put(a, o)
    PROVE  Order' /\ entry' \in [Addrs -> Objects \cup {None}]
<1>1. o # None
  BY TableAssumption DEF Objects
<1>2. /\ entry' = [entry EXCEPT ![a] = o]
      /\ entry' \in [Addrs -> Objects \cup {None}]
  BY DEF Put
<1>3. /\ \A b \in Addrs : b \in Known' <=> b \in Known \/ b = a
      /\ \A b : b \in Known => b \in Addrs
      /\ \A b : b \in Known' => b \in Addrs
  BY <1>1, <1>2 DEF Known
<1>4. CASE a \in Known
  <2>1. Known' = Known /\ before' = before
    BY <1>3, <1>4 DEF Put, Known
  <2> QED
    BY <1>2, <2>1 DEF Order
<1>5. CASE a \notin Known
  <2>1. before' = before \cup (Known \X {a})
    BY <1>5 DEF Put, Known
  <2>2. before' \subseteq Known' \X Known'
    BY <1>3, <2>1 DEF Order
  <2>3. ASSUME NEW x \in Known, NEW y \in Known, x # y
        PROVE  <<x, y>> \in before' <=> <<y, x>> \notin before'
    <3>1. x # a /\ y # a
      BY <1>5
    <3>2. <<x, y>> \notin Known \X {a} /\ <<y, x>> \notin Known \X {a}
      BY <3>1
    <3>3. <<x, y>> \in before <=> <<y, x>> \notin before
      BY <2>3 DEF Order
    <3> QED
      BY <2>1, <3>2, <3>3
  <2>4. ASSUME NEW x \in Known PROVE <<x, a>> \in before' /\ <<a, x>> \notin before'
    <3>1. <<x, a>> \in Known \X {a} /\ <<a, x>> \notin Known \X {a} /\ <<a, x>> \notin before
      BY <1>5 DEF Order
    <3> QED
      BY <2>1, <3>1
  <2>5. \A x, y \in Known' : (x = y) \/ (<<x, y>> \in before' <=> <<y, x>> \notin before')
    <3> SUFFICES ASSUME NEW x \in Known', NEW y \in Known', x # y
                 PROVE  <<x, y>> \in before' <=> <<y, x>> \notin before'
        OBVIOUS
    <3>1. (x \in Known \/ x = a) /\ (y \in Known \/ y = a)
      BY <1>3
    <3> QED
      BY <2>3, <2>4, <3>1
  <2> QED
    BY <1>2, <2>2, <2>5 DEF Order
<1> QED
  BY <1>4, <1>5

LEMMA WithoutOrders ==
    ASSUME Order, entry \in [Addrs -> Objects \cup {None}], NEW as,
           entry' = Without(entry, as),
           before' = before \cap ((Known \ as) \X (Known \ as))
    PROVE  Order' /\ entry' \in [Addrs -> Objects \cup {None}]
<1>1. Known' = Known \ as
  BY DEF Known, Without
<1>2. entry' \in [Addrs -> Objects \cup {None}]
  BY DEF Without
<1>3. before' \subseteq Known' \X Known'
  BY <1>1
<1>4. ASSUME NEW x \in Known \ as, NEW y \in Known \ as, x # y
      PROVE  <<x, y>> \in before' <=> <<y, x>> \notin before'
  <2>1. <<x, y>> \in before <=> <<y, x>> \notin before
    BY <1>4 DEF Order
  <2> QED
    BY <2>1
<1>5. \A x, y \in Known' : (x = y) \/ (<<x, y>> \in before' <=> <<y, x>> \notin before')
  BY <1>1, <1>4
<1> QED
  BY <1>2, <1>3, <1>5 DEF Order

LEMMA TypeStep == TableInv /\ [Next]_vars => TypeOK'
<1> SUFFICES ASSUME TableInv, [Next]_vars PROVE TypeOK'
    OBVIOUS
<1>1. PacketInv' /\ ObjectInv'
  BY PacketStep, ObjectStep
<1>2. /\ object' \in [Objects -> [client : Clients \cup {None}, node : Nodes \cup {None},
                                  session : Sessions \cup {None}, age : Nat]]
      /\ \A p \in Packets : /\ packet'[p].pc \in Stages /\ packet'[p].to \in Ends
                            /\ packet'[p].todo \in SUBSET Sessions
                            /\ packet'[p].obj \in Objects \cup {None}
  BY <1>1 DEF PacketInv, Well, Handler, ObjectInv, Sound, Object
<1> DEFINE Rest == /\ entry \in [Addrs -> Objects \cup {None}] /\ Order
                   /\ since \in 0 .. SweepEvery /\ up \in BOOLEAN
                   /\ mistaken \in SUBSET Addrs
                   /\ latest \in [Addrs -> Objects \cup {None}] /\ overtaken \in SUBSET Addrs
<1>3. Rest
  BY DEF TableInv, TypeOK, Order
<1>4. ASSUME NEW p \in Packets, Handles(p) \/ Arrives(p) PROVE Rest'
  <2>1. /\ UNCHANGED <<since, up, latest, overtaken>>
        /\ \/ Reads(p)
           \/ \E a \in Addrs, x \in Objects : PutsBack(p, a, x)
           \/ \E a \in Addrs, x \in Objects, c \in Clients \cup {None} : Takes(p, a, x, c)
    BY <1>4, Outcomes
  <2>2. CASE Reads(p)
    BY <1>3, <2>1, <2>2 DEF Reads, Order, Known
  <2>3. ASSUME NEW a \in Addrs, NEW x \in Objects, PutsBack(p, a, x) PROVE Rest'
    <3>1. Put(a, x) /\ mistaken' = mistaken
      BY <2>3 DEF PutsBack, Sets
    <3> QED
      BY <1>3, <2>1, <3>1, PutOrders
  <2>4. ASSUME NEW a \in Addrs, NEW x \in Objects, NEW c, Takes(p, a, x, c) PROVE Rest'
    <3>1. Put(a, x) /\ mistaken' \in {mistaken, mistaken \cup {a}}
      BY <2>4 DEF Takes, Sets
    <3> QED
      BY <1>3, <2>1, <3>1, PutOrders
  <2> QED
    BY <2>1, <2>2, <2>3, <2>4
<1>5. ASSUME NEW c \in Clients, NEW s \in Sessions, Register(c, s) PROVE Rest'
  <2> DEFINE a == Local[c]
  <2>1. PICK o \in NewObjects(a) :
           /\ Put(a, o) /\ latest' = [latest EXCEPT ![a] = o]
           /\ overtaken' \in {overtaken \cup {a}, overtaken \ {a}}
    BY <1>5 DEF Register
  <2>2. a \in Addrs /\ o \in Objects
    BY <1>3, TableAssumption, HeldAre
  <2>3. UNCHANGED <<since, up, mistaken>>
    BY <1>5 DEF Register
  <2>4. latest' \in [Addrs -> Objects \cup {None}] /\ overtaken' \in SUBSET Addrs
    BY <1>3, <2>1, <2>2
  <2> QED
    BY <1>3, <2>1, <2>2, <2>3, <2>4, PutOrders
<1>6. ASSUME NEW as \in SUBSET Addrs, entry' = Without(entry, as),
             before' = before \cap ((Known \ as) \X (Known \ as)),
             latest' = Without(latest, as), since' \in {0, since}, up' \in BOOLEAN,
             UNCHANGED <<mistaken, overtaken>>
      PROVE  Rest'
  <2>1. latest' \in [Addrs -> Objects \cup {None}]
    BY <1>3, <1>6 DEF Without
  <2>2. since' \in 0 .. SweepEvery
    BY <1>3, <1>6, TableAssumption
  <2> QED
    BY <1>3, <1>6, <2>1, <2>2, WithoutOrders
<1>7. ASSUME Tick PROVE Rest'
  <2>1. UNCHANGED <<entry, before, up, mistaken, latest, overtaken>> /\ since' = since + 1
        /\ since < SweepEvery
    BY <1>7 DEF Tick, history
  <2>2. since' \in 0 .. SweepEvery
    BY <1>3, <2>1, TableAssumption
  <2> QED
    BY <1>3, <2>1, <2>2 DEF Order, Known
<1>8. ASSUME Sweep PROVE Rest'
  <2>1. /\ entry' = Without(entry, Expired) /\ latest' = Without(latest, Expired)
        /\ before' = before \cap ((Known \ Expired) \X (Known \ Expired))
        /\ since' = 0 /\ UNCHANGED <<up, mistaken, overtaken>>
    BY <1>8 DEF Sweep
  <2>2. Expired \in SUBSET Addrs /\ up' \in BOOLEAN
    BY <1>3, <2>1 DEF Expired, Known
  <2> HIDE DEF Rest
  <2> QED
    BY <1>6, <2>1, <2>2
<1>9. ASSUME Stop PROVE Rest'
  <2>1. /\ entry' = Without(entry, Addrs) /\ latest' = Without(latest, Addrs)
        /\ before' = {} /\ up' = FALSE /\ UNCHANGED <<since, mistaken, overtaken>>
    BY <1>9 DEF Stop
  <2>2. before' = before \cap ((Known \ Addrs) \X (Known \ Addrs))
    BY <2>1 DEF Known
  <2> HIDE DEF Rest
  <2> QED
    BY <1>6, <2>1, <2>2
<1>10. ASSUME UNCHANGED vars PROVE Rest'
  <2>1. UNCHANGED <<entry, before, since, up, mistaken, latest, overtaken>>
    BY <1>10 DEF vars, table, history
  <2>2. Known' = Known
    BY <2>1 DEF Known
  <2> QED
    BY <1>3, <2>1, <2>2 DEF Order
<1> HIDE DEF Rest
<1>11. Rest'
  BY <1>4, <1>5, <1>7, <1>8, <1>9, <1>10 DEF Next
<1> QED
  BY <1>2, <1>11 DEF TypeOK, Order, Rest

-----------------------------------------------------------------------------
(* The last registration of an address stands. *)

Behind(r) ==
    r.pc \in Touching \cup {"match"} =>
        \/ latest[r.addr] = None \/ r.addr \in overtaken
        \/ r.pc # "match" /\ r.obj = latest[r.addr]

LEMMA StandStep == TableInv /\ StandInv /\ [Next]_vars => StandInv'
<1> SUFFICES ASSUME TableInv, StandInv, [Next]_vars PROVE StandInv'
    OBVIOUS
<1>1. /\ entry \in [Addrs -> Objects \cup {None}] /\ latest \in [Addrs -> Objects \cup {None}]
      /\ packet \in [Packets -> Handler]
      /\ \A p \in Packets : packet[p].pc \in Touching \cup {"match"} => packet[p].addr \in Addrs
  BY TableAssumption DEF TableInv, TypeOK, PacketInv, Well
<1>2. /\ \A a \in Addrs : latest[a] = None \/ a \in overtaken \/ entry[a] = latest[a]
      /\ \A p \in Packets : Behind(packet[p])
  BY DEF StandInv, LastRegistrationStands, Behind
<1>3. ASSUME \A a \in Addrs : latest'[a] = None \/ a \in overtaken' \/ entry'[a] = latest'[a],
             \A p \in Packets : packet'[p].pc \in Touching \cup {"match"} =>
                 \/ latest'[packet'[p].addr] = None \/ packet'[p].addr \in overtaken'
                 \/ packet'[p].pc # "match" /\ packet'[p].obj = latest'[packet'[p].addr]
      PROVE  StandInv'
  BY <1>3 DEF StandInv, LastRegistrationStands
<1>4. ASSUME NEW p \in Packets, Handles(p) \/ Arrives(p) PROVE StandInv'
  <2>1. /\ UNCHANGED <<latest, overtaken>>
        /\ Moves(p, packet'[p])
        /\ \/ Reads(p)
           \/ \E a \in Addrs, x \in Objects : PutsBack(p, a, x)
           \/ \E a \in Addrs, x \in Objects, c \in Clients \cup {None} : Takes(p, a, x, c)
    BY <1>4, Outcomes
  <2>2. \A d \in Packets : d # p => packet'[d] = packet[d]
    BY <1>1, <2>1 DEF Moves
  <2>3. Kept(p) /\ packet'[p].pc # "match" => Behind(packet'[p])
    <3>1. CASE packet[p].pc \in Touching /\ Same(packet'[p], packet[p])
      BY <1>2, <3>1 DEF Behind, Same, Touching
    <3>2. CASE packet'[p].addr \in Known /\ packet'[p].obj = entry[packet'[p].addr]
      BY <1>2, <3>2 DEF Behind, Known
    <3> QED
      BY <3>1, <3>2 DEF Kept, Behind
  <2>4. ASSUME Behind(packet'[p]),
               \A a \in Addrs : latest[a] = None \/ a \in overtaken \/ entry'[a] = latest[a]
        PROVE  StandInv'
    <3>1. \A d \in Packets : Behind(packet'[d])
      BY <1>2, <2>2, <2>4
    <3> QED
      BY <1>3, <2>1, <2>4, <3>1 DEF Behind
  <2>5. CASE Reads(p)
    <3>1. ASSUME packet'[p].pc # "match" PROVE Behind(packet'[p])
      BY <2>3, <2>5, <3>1 DEF Reads
    <3>2. ASSUME packet[p].pc = "match", packet'[p].pc = "match", Same(packet'[p], packet[p])
          PROVE  Behind(packet'[p])
      BY <1>2, <3>2 DEF Behind, Same
    <3>3. ASSUME NEW a \in Addrs, packet'[p].addr = a, entry[a] = None,
                 packet'[p].pc = "match"
          PROVE  Behind(packet'[p])
      BY <1>1, <1>2, <3>3 DEF Behind
    <3>4. Behind(packet'[p])
      BY <2>5, <3>1, <3>2, <3>3 DEF Reads
    <3>5. entry' = entry
      BY <2>5 DEF Reads
    <3> QED
      BY <1>2, <2>4, <3>4, <3>5
  <2>6. ASSUME NEW a \in Addrs, NEW x \in Objects, PutsBack(p, a, x) PROVE StandInv'
    <3>1. Behind(packet'[p])
      BY <2>3, <2>6 DEF PutsBack
    <3>2. entry' = [entry EXCEPT ![a] = x]
      BY <2>6 DEF PutsBack, Sets, Put
    <3>3. latest[a] = None \/ a \in overtaken \/ x = latest[a]
      BY <1>2, <2>6 DEF PutsBack, Behind, Touching
    <3>4. \A b \in Addrs : latest[b] = None \/ b \in overtaken \/ entry'[b] = latest[b]
      BY <1>1, <1>2, <3>2, <3>3
    <3> QED
      BY <2>4, <3>1, <3>4
  <2>7. ASSUME NEW a \in Addrs, NEW x \in Objects, NEW c, Takes(p, a, x, c) PROVE StandInv'
    <3>1. latest[a] = None \/ a \in overtaken
      BY <1>2, <2>7 DEF Takes, Behind
    <3>2. Behind(packet'[p])
      BY <2>7, <3>1 DEF Takes, Behind
    <3>3. entry' = [entry EXCEPT ![a] = x]
      BY <2>7 DEF Takes, Sets, Put
    <3>4. \A b \in Addrs : latest[b] = None \/ b \in overtaken \/ entry'[b] = latest[b]
      BY <1>1, <1>2, <3>1, <3>3
    <3> QED
      BY <2>4, <3>2, <3>4
  <2> QED
    BY <2>1, <2>5, <2>6, <2>7
<1>5. ASSUME NEW c \in Clients, NEW s \in Sessions, Register(c, s) PROVE StandInv'
  <2> DEFINE a == Local[c]
             Running == \E p \in Packets : /\ packet[p].addr = a
                                           /\ packet[p].pc \in {"match", "find", "node", "post"}
  <2>1. PICK o \in NewObjects(a) : Put(a, o) /\ latest' = [latest EXCEPT ![a] = o]
    BY <1>5 DEF Register
  <2>2. /\ packet' = packet
        /\ overtaken' = IF Running THEN overtaken \cup {a} ELSE overtaken \ {a}
    BY <1>5 DEF Register
  <2>3. a \in Addrs /\ entry' = [entry EXCEPT ![a] = o]
    BY <2>1, TableAssumption DEF Put
  <2>4. /\ entry'[a] = latest'[a]
        /\ \A b \in Addrs : b # a => /\ entry'[b] = entry[b] /\ latest'[b] = latest[b]
                                     /\ b \in overtaken' <=> b \in overtaken
    BY <1>1, <2>1, <2>2, <2>3
  <2>5. ASSUME NEW p \in Packets, packet'[p].pc \in Touching \cup {"match"}
        PROVE  \/ latest'[packet'[p].addr] = None \/ packet'[p].addr \in overtaken'
               \/ packet'[p].pc # "match" /\ packet'[p].obj = latest'[packet'[p].addr]
    <3>1. CASE packet[p].addr = a
      BY <2>2, <2>5, <3>1 DEF Touching
    <3>2. CASE packet[p].addr # a
      BY <1>1, <1>2, <2>2, <2>4, <2>5, <3>2 DEF Behind
    <3> QED
      BY <3>1, <3>2
  <2> QED
    BY <1>2, <1>3, <2>4, <2>5
<1>6. ASSUME Sweep \/ Stop PROVE StandInv'
  <2>1. PICK as \in SUBSET Addrs : entry' = Without(entry, as) /\ latest' = Without(latest, as)
    BY <1>6 DEF Sweep, Stop, Expired, Known
  <2>2. UNCHANGED <<packet, overtaken>>
    BY <1>6 DEF Sweep, Stop
  <2>3. \A a \in Addrs : \/ latest'[a] = None
                         \/ latest'[a] = latest[a] /\ entry'[a] = entry[a]
    BY <2>1 DEF Without
  <2> QED
    BY <1>1, <1>2, <1>3, <2>2, <2>3 DEF Behind
<1>7. CASE Tick \/ UNCHANGED vars
  <2>1. UNCHANGED <<entry, packet, latest, overtaken>>
    BY <1>7 DEF Tick, vars, table, history
  <2> QED
    BY <1>2, <1>3, <2>1 DEF Behind
<1> QED
  BY <1>4, <1>5, <1>6, <1>7 DEF Next

-----------------------------------------------------------------------------
(* Nothing in the table is older than it may be. *)

LEMMA RegisterSets ==
    ASSUME TableInv, NEW c \in Clients, NEW s \in Sessions, Register(c, s)
    PROVE  \E x \in Objects : Sets(Local[c], x, c)
<1> DEFINE a == Local[c]
           new == [client |-> c, node |-> Exit[s],
                   session |-> IF c \in Tells THEN s ELSE None, age |-> 0]
<1>1. PICK o \in NewObjects(a) : Put(a, o) /\ object' = Made(o, new)
  BY DEF Register, Made
<1>2. a \in Addrs /\ new \in Object /\ new.age = 0 /\ new.client = c
  BY TableAssumption DEF Object
<1> HIDE DEF new
<1>3. Sets(a, o, new.client)
  BY <1>1, <1>2, MadeSets
<1> QED
  BY <1>2, <1>3 DEF Sets

LEMMA AgeStep == TableInv /\ AgeInv /\ [Next]_vars => AgeInv'
<1> SUFFICES ASSUME TableInv, AgeInv, [Next]_vars PROVE AgeInv'
    OBVIOUS
<1>1. /\ entry \in [Addrs -> Objects \cup {None}] /\ object \in [Objects -> Object]
      /\ since \in Nat /\ Timeout \in Nat
  BY TableAssumption DEF TableInv, TypeOK, ObjectInv, Sound
<1>2. entry' \in [Addrs -> Objects \cup {None}] /\ object' \in [Objects -> Object]
  BY TypeStep, ObjectStep DEF TypeOK, ObjectInv, Sound
<1>3. \A a \in Addrs : entry[a] # None =>
          /\ entry[a] \in Objects /\ object[entry[a]].age \in Nat
          /\ object'[entry[a]].age \in Nat
          /\ object[entry[a]].age =< Timeout + since
  BY <1>1, <1>2 DEF AgeInv, Known, Object
<1>4. ASSUME \A a \in Addrs : entry'[a] # None => object'[entry'[a]].age =< Timeout + since'
      PROVE  AgeInv'
  BY <1>4 DEF AgeInv, Known
<1>5. ASSUME NEW a \in Addrs, entry[a] # None, Fresher(a), since' = since
      PROVE  object'[entry[a]].age =< Timeout + since'
  BY <1>1, <1>3, <1>5 DEF Fresher
<1>6. ASSUME NEW a \in Addrs, NEW x \in Objects, NEW c, Sets(a, x, c), since' = since
      PROVE  AgeInv'
  <2>1. entry' = [entry EXCEPT ![a] = x]
    BY <1>6 DEF Sets, Put
  <2>2. object'[x].age =< Timeout + since'
    BY <1>1, <1>6 DEF Sets
  <2>3. ASSUME NEW b \in Addrs, b # a, entry'[b] # None
        PROVE  object'[entry'[b]].age =< Timeout + since'
    <3>1. entry'[b] = entry[b] /\ Fresher(b)
      BY <1>1, <1>6, <2>1, <2>3 DEF Sets
    <3> QED
      BY <1>5, <1>6, <2>3, <3>1
  <2>4. entry'[a] = x
    BY <1>1, <2>1
  <2> QED
    BY <1>4, <2>2, <2>3, <2>4
<1>7. ASSUME NEW p \in Packets, Handles(p) \/ Arrives(p) PROVE AgeInv'
  <2>1. /\ since' = since
        /\ \/ Reads(p)
           \/ \E a \in Addrs, x \in Objects : PutsBack(p, a, x)
           \/ \E a \in Addrs, x \in Objects, c \in Clients \cup {None} : Takes(p, a, x, c)
    BY <1>7, Outcomes
  <2>2. CASE Reads(p)
    <3>1. entry' = entry /\ \A b \in Addrs : Fresher(b)
      BY <2>2 DEF Reads
    <3> QED
      BY <1>4, <1>5, <2>1, <3>1
  <2>3. CASE \/ \E a \in Addrs, x \in Objects : PutsBack(p, a, x)
             \/ \E a \in Addrs, x \in Objects, c \in Clients \cup {None} : Takes(p, a, x, c)
    <3>1. \E a \in Addrs, x \in Objects : \E c : Sets(a, x, c)
      BY <2>3 DEF PutsBack, Takes
    <3> QED
      BY <1>6, <2>1, <3>1
  <2> QED
    BY <2>1, <2>2, <2>3
<1>8. ASSUME NEW c \in Clients, NEW s \in Sessions, Register(c, s) PROVE AgeInv'
  <2>1. PICK x \in Objects : Sets(Local[c], x, c)
    BY <1>8, RegisterSets
  <2>2. Local[c] \in Addrs /\ since' = since
    BY <1>8, TableAssumption DEF Register
  <2> QED
    BY <1>6, <2>1, <2>2
<1>9. ASSUME Tick PROVE AgeInv'
  <2>1. entry' = entry /\ since' = since + 1
    BY <1>9 DEF Tick
  <2>2. ASSUME NEW a \in Addrs, entry[a] # None
        PROVE  object'[entry[a]].age =< Timeout + since'
    <3> DEFINE o == entry[a]
    <3>1. object'[o] = IF object[o] = Blank THEN Blank
                       ELSE [object[o] EXCEPT !.age = IF @ > Timeout + SweepEvery THEN @ ELSE @ + 1]
      BY <1>3, <1>9, <2>2 DEF Tick
    <3>2. object[o] \in Object
      BY <1>1, <1>3, <2>2
    <3>3. object'[o].age \in {0, object[o].age, object[o].age + 1}
      BY <3>1, <3>2 DEF Blank, Object
    <3> QED
      BY <1>1, <1>3, <2>1, <2>2, <3>3
  <2> QED
    BY <1>4, <2>1, <2>2
<1>10. ASSUME Sweep \/ Stop PROVE AgeInv'
  <2>1. object' = Collected(object) /\ Sound(object)
    BY <1>10 DEF Sweep, Stop, TableInv, ObjectInv
  <2>2. ASSUME NEW a \in Addrs, entry'[a] # None
        PROVE  object'[entry'[a]].age =< Timeout + since'
    <3>1. entry'[a] = entry[a] /\ since' = 0 /\ object[entry[a]].age =< Timeout
      <4>1. CASE Sweep
        <5>1. entry' = Without(entry, Expired) /\ since' = 0
          BY <4>1 DEF Sweep
        <5>2. entry'[a] = entry[a] /\ a \notin Expired /\ a \in Known
          BY <2>2, <5>1 DEF Without, Known
        <5> QED
          BY <1>1, <1>3, <5>1, <5>2 DEF Expired, Known
      <4>2. CASE Stop
        BY <2>2, <4>2 DEF Stop, Without
      <4> QED
        BY <1>10, <4>1, <4>2
    <3>2. object'[entry[a]] = object[entry[a]]
      BY <1>3, <2>1, <2>2, <3>1, HeldAre, CollectedIs
    <3> QED
      BY <1>1, <1>3, <2>2, <3>1, <3>2
  <2> QED
    BY <1>4, <2>2
<1>11. CASE UNCHANGED vars
  BY <1>11 DEF vars, table, AgeInv, Known
<1> QED
  BY <1>7, <1>8, <1>9, <1>10, <1>11 DEF Next

-----------------------------------------------------------------------------
(* Answers go where the client was. *)

(* Only an answer is sent to an address.                                   *)
ByAddress(q) == \E a \in Addrs : q.to = ToAddr(a)

LEMMA EndTo ==
    ASSUME NEW r, NEW end
    PROVE  End(r, end).to = end /\ (end # Lost => End(r, end).client = r.client)
BY DEF End, Idle

LEMMA EndsBySocket ==
    ASSUME NEW r, NEW x
    PROVE  /\ ~ ByAddress(End(r, Lost))
           /\ ~ ByAddress(End(r, ToSocket(x)))
           /\ ~ ByAddress(End(r, ToNode(x)))
BY EndTo DEF ByAddress, Lost, ToSocket, ToNode, ToAddr

LEMMA GoesOnBySocket ==
    ASSUME NEW r \in Handler, r.to = Lost, NEW stage, NEW ss, NEW wired, NEW open
    PROVE  /\ ~ ByAddress(At(r, stage)) /\ ~ ByAddress(Search(r, stage, ss))
           /\ ~ ByAddress(Forwarded(r, wired, open))
           /\ ~ ByAddress(GatewayTook(r, wired, open))
<1>1. ASSUME NEW st, NEW todo
      PROVE  ~ ByAddress(At(r, st)) /\ ~ ByAddress(Search(r, st, todo))
  BY DEF At, Search, ByAddress, Handler, Lost, ToAddr
<1>2. ~ ByAddress(Forwarded(r, wired, open))
  BY <1>1, EndsBySocket DEF Forwarded
<1>3. ~ ByAddress(GatewayTook(r, wired, open))
  BY <1>1, EndsBySocket DEF GatewayTook
<1> QED
  BY <1>1, <1>2, <1>3

LEMMA OnlyAnswersByAddress ==
    ASSUME TableInv, NEW p \in Packets, Handles(p) \/ Arrives(p),
           NEW a \in Addrs, packet'[p].to = ToAddr(a)
    PROVE  a \in Keyed(packet'[p].client) /\ UNCHANGED mistaken
<1> DEFINE r == packet[p]
<1>1. packet \in [Packets -> Handler] /\ Well(r) /\ r \in Handler
  BY DEF TableInv, PacketInv
<1>2. ASSUME NEW q, packet' = [packet EXCEPT ![p] = q] PROVE packet'[p] = q
  BY <1>1, <1>2
<1>3. ByAddress(packet'[p])
  BY DEF ByAddress
<1>4. ~ Unused(p) => r.to = Lost
  BY <1>1 DEF Unused, Well
<1>5. ASSUME NEW s, /\ \/ \E found \in BOOLEAN : NoMatch(p, s, found)
                       \/ \E open \in Opens : Find(p, s, open) \/ GatewayFind(p, s, open)
                    /\ ~ Unused(p)
      PROVE  FALSE
  <2> DEFINE q == [r EXCEPT !.todo = @ \ {s}]
  <2>1. q \in Handler /\ q.to = Lost
    BY <1>1, <1>4, <1>5 DEF Handler
  <2> HIDE DEF q
  <2>2. \/ packet' = [packet EXCEPT ![p] = q]
        \/ \E end \in {Lost, ToSocket(s)} : packet' = [packet EXCEPT ![p] = End(q, end)]
        \/ \E stage \in Stages : packet' = [packet EXCEPT ![p] = At(q, stage)]
    BY <1>5 DEF NoMatch, Find, GatewayFind, Resumes, Becomes, Stages, q
  <2>3. ~ ByAddress(q)
    BY <2>1 DEF ByAddress, Lost, ToAddr
  <2> QED
    BY <1>2, <1>3, <2>1, <2>2, <2>3, EndsBySocket, GoesOnBySocket
<1>6. ASSUME NEW b \in BOOLEAN, ~ Unused(p),
             \/ GetNode(p, b) \/ GatewayNode(p, b) \/ GatewayPost(p, b)
             \/ \E wired \in Maps, open \in Opens :
                    Post(p, b, wired, open) \/ ForwardPacketToNode(p, b, wired, open)
      PROVE  FALSE
  <2> DEFINE t == [r EXCEPT !.obj = None]
  <2>1. t \in Handler /\ t.to = Lost /\ r.to = Lost
    BY <1>1, <1>4, <1>6 DEF Handler
  <2> HIDE DEF t
  <2>2. \/ \E end \in {Lost, ToNode(r.node)} : packet' = [packet EXCEPT ![p] = End(r, end)]
        \/ \E stage \in Stages : packet' = [packet EXCEPT ![p] = At(r, stage)]
        \/ \E wired \in Maps, open \in Opens :
              packet' = [packet EXCEPT ![p] = GatewayTook(t, wired, open)]
        \/ \E wired \in Maps, open \in Opens :
              packet' = [packet EXCEPT ![p] = GatewayTook(r, wired, open)]
    BY <1>6 DEF GetNode, GatewayNode, GatewayPost, Post, ForwardPacketToNode, Resumes, Becomes,
                Stages, t
  <2> HIDE DEF r
  <2> QED
    BY <1>1, <1>2, <1>3, <2>1, <2>2, EndsBySocket, GoesOnBySocket
<1>7. ASSUME FrameDropped(p) \/ \E open \in Opens : ForwardPacketToClient(p, open)
      PROVE  FALSE
  <2>1. \/ packet' = [packet EXCEPT ![p] = End(r, Lost)]
        \/ packet' = [packet EXCEPT ![p] = End(r, ToSocket(r.session))]
    BY <1>7 DEF FrameDropped, ForwardPacketToClient, Becomes
  <2> HIDE DEF r
  <2> QED
    BY <1>2, <1>3, <2>1, EndsBySocket
<1>8. ASSUME NEW s \in Sessions, Frame(p, s) \/ \E open \in Opens : FromClient(p, s, open)
      PROVE  FALSE
  <2> DEFINE t == [Idle EXCEPT !.from = Owner[s], !.node = Exit[s], !.session = s]
             u == [Idle EXCEPT !.pc = "frame", !.from = Owner[s], !.node = Exit[s],
                               !.session = s]
  <2>1. u.to = Lost
    BY DEF Idle
  <2>2. \/ packet' = [packet EXCEPT ![p] = u]
        \/ \E end \in {Lost, ToSocket(s)} : packet' = [packet EXCEPT ![p] = End(t, end)]
    BY <1>8 DEF Frame, FromClient, Becomes
  <2> HIDE DEF t, u
  <2>3. ~ ByAddress(u)
    BY <2>1 DEF ByAddress, Lost, ToAddr
  <2> QED
    BY <1>2, <1>3, <2>2, <2>3, EndsBySocket
<1>9. ASSUME NEW c \in Clients, NEW wired \in Maps, NEW b \in Sources[c],
             \/ DatagramUnknown(p, c, b, wired)
             \/ \E valid \in BOOLEAN, open \in Opens : DatagramKnown(p, c, b, valid, wired, open)
      PROVE  FALSE
  <2> DEFINE t == [Idle EXCEPT !.from = c, !.addr = b]
             u == With(t, entry[b])
  <2>1. t \in Handler /\ t.to = Lost
    BY IdleIsWell, TableAssumption DEF Well, Handler, Idle
  <2> HIDE DEF t
  <2>2. CASE DatagramUnknown(p, c, b, wired)
    <3>1. \/ packet' = [packet EXCEPT ![p] = Search(t, "match", wired)]
          \/ packet' = [packet EXCEPT ![p] = End(t, Lost)]
      BY <2>2 DEF DatagramUnknown, Becomes, t
    <3> QED
      BY <1>2, <1>3, <2>1, <3>1, EndsBySocket, GoesOnBySocket
  <2>3. ASSUME NEW valid \in BOOLEAN, NEW open \in Opens,
               DatagramKnown(p, c, b, valid, wired, open)
        PROVE  FALSE
    <3>1. \/ packet' = [packet EXCEPT ![p] = Forwarded(u, wired, open)]
          \/ packet' = [packet EXCEPT ![p] = End(u, Lost)]
      BY <2>3 DEF DatagramKnown, Becomes, t
    <3>2. b \in Addrs /\ b \in Known
      BY <2>3, TableAssumption DEF DatagramKnown, Known
    <3>3. u \in Handler /\ u.to = Lost
      <4>1. t.addr \in Addrs
        BY <3>2 DEF t, Idle
      <4>2. Sound(object) /\ entry[b] \in Objects /\ object[entry[b]].node # None
        BY <3>2, EntriesAreKept DEF TableInv, ObjectInv
      <4> QED
        BY <2>1, <4>1, <4>2, WithWell
    <3> HIDE DEF u
    <3> QED
      BY <1>2, <1>3, <3>1, <3>3, EndsBySocket, GoesOnBySocket
  <2> QED
    BY <1>9, <2>2, <2>3
<1>10. ASSUME NEW s \in packet[p].todo, NEW valid \in BOOLEAN, NEW wired \in Maps,
              NEW open \in Opens, Match(p, s, valid, wired, open)
       PROVE  FALSE
  <2> DEFINE t == At([packet[p] EXCEPT !.todo = {}], "match")
             u(b) == With(t, entry[b])
  <2>1. PICK b \in First(Fitting(s)) :
           \/ packet' = [packet EXCEPT ![p] = Forwarded(u(b), wired, open)]
           \/ packet' = [packet EXCEPT ![p] = End(u(b), Lost)]
    BY <1>10 DEF Match, Becomes
  <2>2. b \in Known /\ r.addr \in Addrs /\ r.to = Lost
    BY <1>1, <1>10, TableAssumption DEF First, Fitting, Match, Well
  <2>3. t \in Handler /\ t.to = Lost /\ t.addr = r.addr
    BY <1>1, <2>2 DEF At, Handler, Stages
  <2> HIDE DEF t
  <2>4. u(b) \in Handler /\ u(b).to = Lost
    <3>1. Sound(object) /\ entry[b] \in Objects /\ object[entry[b]].node # None
      BY <2>2, EntriesAreKept DEF TableInv, ObjectInv
    <3> QED
      BY <2>2, <2>3, <3>1, WithWell
  <2> HIDE DEF u
  <2> QED
    BY <1>2, <1>3, <2>1, <2>4, EndsBySocket, GoesOnBySocket
<1>11. ASSUME NEW open \in Opens, AnswerSent(p, open)
       PROVE  a \in Keyed(packet'[p].client) /\ UNCHANGED mistaken
  <2>1. PICK end \in IF open THEN {ToSocket(r.session)} ELSE ByUdp(r.client) :
            packet' = [packet EXCEPT ![p] = End(r, end)]
    BY <1>11 DEF AnswerSent, Becomes
  <2>2. packet'[p] = End(r, end) /\ UNCHANGED mistaken
    BY <1>2, <1>11, <2>1 DEF AnswerSent, history
  <2> HIDE DEF r
  <2>3. end = ToAddr(a) /\ packet'[p].client = r.client
    <3>1. ToAddr(a) # Lost
      BY DEF Lost, ToAddr
    <3>2. End(r, end).to = ToAddr(a)
      BY <2>2
    <3> QED
      BY <2>2, <3>1, <3>2, EndTo
  <2>4. end \in ByUdp(r.client)
    BY <2>1, <2>3 DEF ToSocket, ToAddr
  <2>5. a \in Keyed(r.client)
    BY <2>3, <2>4 DEF ByUdp, First, Lost, ToAddr
  <2> QED
    BY <2>2, <2>3, <2>5
<1>12. ASSUME NEW c \in Clients, NEW s \in Sessions \cup {None}, Answer(p, c, s)
       PROVE  a \in Keyed(packet'[p].client) /\ UNCHANGED mistaken
  <2> DEFINE t == [Idle EXCEPT !.client = c, !.session = s]
  <2>1. t \in Handler /\ t.to = Lost /\ t.client = c
    BY IdleIsWell DEF Well, Handler, Idle
  <2>2. \/ packet' = [packet EXCEPT ![p] = At(t, "answer")]
        \/ \E end \in ByUdp(c) : packet' = [packet EXCEPT ![p] = End(t, end)]
    BY <1>12 DEF Answer, Becomes
  <2> HIDE DEF t
  <2>3. PICK end \in ByUdp(c) : packet'[p] = End(t, end)
    BY <1>2, <1>3, <2>1, <2>2, GoesOnBySocket
  <2>4. end = ToAddr(a) /\ packet'[p].client = c
    <3>1. ToAddr(a) # Lost
      BY DEF Lost, ToAddr
    <3>2. End(t, end).to = ToAddr(a)
      BY <2>3
    <3> QED
      BY <2>1, <2>3, <3>1, <3>2, EndTo
  <2>5. a \in Keyed(c)
    BY <2>3, <2>4 DEF ByUdp, First, Lost, ToAddr
  <2> QED
    BY <1>12, <2>4, <2>5 DEF Answer, history
<1> HIDE DEF r
<1> QED
  BY <1>5, <1>6, <1>7, <1>8, <1>9, <1>10, <1>11, <1>12 DEF Handles, Arrives

LEMMA PlaceStep == TableInv /\ PlaceInv /\ [Next]_vars => PlaceInv'
<1> SUFFICES ASSUME TableInv, PlaceInv, [Next]_vars PROVE PlaceInv'
    OBVIOUS
<1>1. /\ entry \in [Addrs -> Objects \cup {None}] /\ packet \in [Packets -> Handler]
      /\ \A p \in Packets : Well(packet[p])
      /\ \A p \in Packets : packet[p].pc \in Touching =>
             /\ packet[p].addr \in Addrs
             /\ object[packet[p].obj].client = packet[p].client
  BY DEF TableInv, TypeOK, PacketInv, ObjectInv, Well
<1> DEFINE Carried(d) == packet[d].pc \in Touching /\ packet[d].addr \notin mistaken =>
                           Place(packet[d].addr, packet[d].client)
           Sent(d) == \A a \in Addrs : packet[d].to = ToAddr(a) /\ a \notin mistaken =>
                           Place(a, packet[d].client)
           Entry(a) == entry[a] # None /\ a \notin mistaken => Place(a, object[entry[a]].client)
<1>2. /\ \A a \in Addrs : Entry(a)
      /\ \A d \in Packets : Carried(d) /\ Sent(d)
  BY DEF PlaceInv, Known, AnswersGoWhereTheClientWas, Place
<1>3. ASSUME \A a \in Addrs : Entry(a)', \A d \in Packets : Carried(d)' /\ Sent(d)'
      PROVE  PlaceInv'
  BY <1>3 DEF PlaceInv, Known, AnswersGoWhereTheClientWas, Place
<1>4. ASSUME NEW a \in Addrs, NEW x \in Objects, NEW c, Sets(a, x, c),
             mistaken \subseteq mistaken', a \notin mistaken' => Place(a, c)
      PROVE  \A b \in Addrs : Entry(b)'
  <2>1. entry' = [entry EXCEPT ![a] = x] /\ object'[x].client = c
    BY <1>4 DEF Sets, Put
  <2>2. Entry(a)'
    BY <1>1, <1>4, <2>1 DEF Place
  <2>3. ASSUME NEW b \in Addrs, b # a PROVE Entry(b)'
    <3>1. entry'[b] = entry[b] /\ Fresher(b)
      BY <1>1, <1>4, <2>1, <2>3 DEF Sets
    <3> QED
      BY <1>2, <1>4, <2>3, <3>1 DEF Fresher, Place
  <2> HIDE DEF Entry
  <2> QED
    BY <2>2, <2>3
<1>5. ASSUME NEW p \in Packets, Handles(p) \/ Arrives(p) PROVE PlaceInv'
  <2>1. /\ Moves(p, packet'[p])
        /\ \/ Reads(p)
           \/ \E a \in Addrs, x \in Objects : PutsBack(p, a, x)
           \/ \E a \in Addrs, x \in Objects, c \in Clients \cup {None} : Takes(p, a, x, c)
    BY <1>5, Outcomes
  <2>2. /\ \A d \in Packets : d # p => packet'[d] = packet[d]
        /\ mistaken \subseteq mistaken'
    BY <1>1, <2>1 DEF Moves, Reads, PutsBack, Takes
  <2>3. Sent(p)'
    <3>1. ASSUME NEW a \in Addrs, packet'[p].to = ToAddr(a), a \notin mistaken'
          PROVE  Place(a, packet'[p].client)
      <4>1. a \in Keyed(packet'[p].client) /\ mistaken' = mistaken
        BY <1>5, <3>1, OnlyAnswersByAddress
      <4> QED
        BY <1>2, <3>1, <4>1 DEF Keyed, Known
    <3> QED
      BY <3>1 DEF Place
  <2>4. ASSUME NEW d \in Packets, d # p PROVE Carried(d)' /\ Sent(d)'
    BY <1>2, <2>2, <2>4 DEF Place
  <2>5. Kept(p) /\ mistaken' = mistaken => Carried(p)'
    <3>1. CASE packet'[p].pc \notin Touching
      BY <3>1
    <3>2. CASE packet[p].pc \in Touching /\ Same(packet'[p], packet[p])
      BY <1>2, <3>2 DEF Same, Place
    <3>3. CASE /\ packet'[p].addr \in Known /\ packet'[p].obj = entry[packet'[p].addr]
               /\ packet'[p].client = object[packet'[p].obj].client
      BY <1>2, <3>3 DEF Known, Place
    <3> QED
      BY <3>1, <3>2, <3>3 DEF Kept
  <2>6. ASSUME Carried(p)', \A a \in Addrs : Entry(a)' PROVE PlaceInv'
    <3>1. \A d \in Packets : Carried(d)' /\ Sent(d)'
      <4> HIDE DEF Carried, Sent
      <4> QED
        BY <2>3, <2>4, <2>6
    <3> HIDE DEF Carried, Sent, Entry
    <3> QED
      BY <1>3, <2>6, <3>1
  <2>7. CASE Reads(p)
    <3>1. UNCHANGED <<entry, mistaken>> /\ Kept(p) /\ \A a \in Addrs : Fresher(a)
      BY <2>7 DEF Reads
    <3>2. \A a \in Addrs : Entry(a)'
      BY <1>2, <3>1 DEF Fresher, Place
    <3> HIDE DEF Carried, Entry
    <3> QED
      BY <2>5, <2>6, <3>1, <3>2
  <2>8. ASSUME NEW a \in Addrs, NEW x \in Objects, PutsBack(p, a, x) PROVE PlaceInv'
    <3>1. Sets(a, x, object[x].client) /\ mistaken' = mistaken /\ Kept(p)
      BY <2>8 DEF PutsBack
    <3>2. a \notin mistaken' => Place(a, object[x].client)
      BY <1>1, <1>2, <2>8, <3>1 DEF PutsBack, Known
    <3>3. \A b \in Addrs : Entry(b)'
      <4> HIDE DEF Entry
      <4> QED
        BY <1>4, <2>2, <3>1, <3>2
    <3> HIDE DEF Carried, Entry
    <3> QED
      BY <2>5, <2>6, <3>1, <3>3
  <2>9. ASSUME NEW a \in Addrs, NEW x \in Objects, NEW c \in Clients \cup {None},
               Takes(p, a, x, c)
        PROVE  PlaceInv'
    <3>1. /\ packet[p].pc = "match" /\ a = packet[p].addr /\ Sets(a, x, c)
          /\ mistaken' = IF c = packet[p].from THEN mistaken ELSE mistaken \cup {a}
          /\ packet'[p].pc \in Touching => packet'[p].addr = a /\ packet'[p].client = c
      BY <2>9 DEF Takes
    <3>2. a \in Sources[packet[p].from]
      BY <1>1, <3>1 DEF Well
    <3>3. a \notin mistaken' => Place(a, c)
      BY <3>1, <3>2 DEF Place
    <3>4. Carried(p)'
      BY <3>1, <3>3 DEF Place
    <3>5. \A b \in Addrs : Entry(b)'
      <4> HIDE DEF Entry
      <4> QED
        BY <1>4, <2>2, <3>1, <3>3
    <3> HIDE DEF Carried, Entry
    <3> QED
      BY <2>6, <3>4, <3>5
  <2> QED
    BY <2>1, <2>7, <2>8, <2>9
<1>6. ASSUME packet' = packet, mistaken' = mistaken PROVE \A d \in Packets : Carried(d)' /\ Sent(d)'
  BY <1>2, <1>6 DEF Place
<1>7. ASSUME NEW c \in Clients, NEW s \in Sessions, Register(c, s) PROVE PlaceInv'
  <2>1. PICK x \in Objects : Sets(Local[c], x, c)
    BY <1>7, RegisterSets
  <2>2. Local[c] \in Addrs /\ Place(Local[c], c)
    BY TableAssumption DEF Place
  <2>3. packet' = packet /\ mistaken' = mistaken
    BY <1>7 DEF Register
  <2> HIDE DEF Entry, Carried, Sent
  <2> QED
    BY <1>3, <1>4, <1>6, <2>1, <2>2, <2>3
<1>8. ASSUME Tick PROVE PlaceInv'
  <2>1. UNCHANGED <<entry, packet, mistaken>>
    BY <1>8 DEF Tick, history
  <2>2. ASSUME NEW o \in Objects PROVE object'[o].client = object[o].client
    <3>1. object[o] \in Object
      BY DEF TableInv, ObjectInv, Sound
    <3> QED
      BY <1>8, <3>1 DEF Tick, Object
  <2>3. \A a \in Addrs : Entry(a)'
    BY <1>1, <1>2, <2>1, <2>2 DEF Place
  <2> HIDE DEF Entry, Carried, Sent
  <2> QED
    BY <1>3, <1>6, <2>1, <2>3
<1>9. ASSUME Sweep \/ Stop PROVE PlaceInv'
  <2>1. /\ \A a \in Addrs : entry'[a] \in {None, entry[a]}
        /\ object' = Collected(object) /\ UNCHANGED <<packet, mistaken>>
    BY <1>9 DEF Sweep, Stop, Without
  <2>2. ASSUME NEW a \in Addrs PROVE Entry(a)'
    <3>1. entry'[a] # None => object'[entry'[a]] = object[entry[a]]
      BY <1>1, <2>1, HeldAre, CollectedIs DEF TableInv, ObjectInv
    <3> QED
      BY <1>2, <2>1, <3>1 DEF Place
  <2> HIDE DEF Entry, Carried, Sent
  <2> QED
    BY <1>3, <1>6, <2>1, <2>2
<1>10. ASSUME UNCHANGED vars PROVE PlaceInv'
  <2>1. UNCHANGED <<entry, object, packet, mistaken>>
    BY <1>10 DEF vars, table, history
  <2>2. \A a \in Addrs : Entry(a)'
    BY <1>2, <2>1 DEF Place
  <2> HIDE DEF Entry, Carried, Sent
  <2> QED
    BY <1>3, <1>6, <2>1, <2>2
<1> QED
  BY <1>5, <1>7, <1>8, <1>9, <1>10 DEF Next

-----------------------------------------------------------------------------
(* A packet is taken for its sender, or for another with a reason. *)

(* What a handler makes of itself comes from the same sender at the same   *)
(* address, or is done with.                                               *)
Alike(q, r) == q.from = r.from /\ q.addr = r.addr /\ q.client = r.client
Follows(q, r) == q.from = None \/ Alike(q, r)

LEMMA EndFollows ==
    ASSUME NEW r, NEW end
    PROVE  Follows(End(r, end), r)
BY DEF End, Idle, Follows, Alike

LEMMA GoesOnFollows ==
    ASSUME NEW r \in Handler, NEW stage, NEW ss, NEW wired, NEW open
    PROVE  /\ Follows(At(r, stage), r) /\ Follows(Search(r, stage, ss), r)
           /\ Follows([r EXCEPT !.todo = ss], r) /\ Follows([r EXCEPT !.obj = None], r)
           /\ Follows(Forwarded(r, wired, open), r)
           /\ Follows(GatewayTook(r, wired, open), r)
<1>1. ASSUME NEW st, NEW todo
      PROVE  /\ Follows(At(r, st), r) /\ Follows(Search(r, st, todo), r)
             /\ Follows([r EXCEPT !.todo = todo], r) /\ Follows([r EXCEPT !.obj = None], r)
  BY DEF At, Search, Follows, Alike, Handler
<1>2. Follows(Forwarded(r, wired, open), r)
  BY <1>1, EndFollows DEF Forwarded
<1>3. Follows(GatewayTook(r, wired, open), r)
  BY <1>1, EndFollows DEF GatewayTook
<1> QED
  BY <1>1, <1>2, <1>3

LEMMA FollowsOn ==
    ASSUME NEW q, NEW t, NEW r, Follows(q, t), Follows(t, r)
    PROVE  Follows(q, r) \/ q.from = None
BY DEF Follows, Alike

(* Where the sender and the client of a packet are from: the handler as it *)
(* was, the table, or the search.                                          *)
LEMMA TakenMoves ==
    ASSUME TableInv, NEW p \in Packets, Handles(p) \/ Arrives(p)
    PROVE  LET q == packet'[p]
           IN  \/ q.from = None \/ q.client = None
               \/ Alike(q, packet[p])
               \/ q.addr \in Known /\ q.client = object[entry[q.addr]].client
               \/ q.client = q.from \/ q.addr \in mistaken'
<1> DEFINE r == packet[p]
           Goal == LET q == packet'[p]
                   IN  \/ q.from = None \/ q.client = None
                       \/ Alike(q, packet[p])
                       \/ q.addr \in Known /\ q.client = object[entry[q.addr]].client
                       \/ q.client = q.from \/ q.addr \in mistaken'
<1>1. packet \in [Packets -> Handler] /\ Well(r) /\ r \in Handler
  BY DEF TableInv, PacketInv
<1>2. ASSUME NEW q, packet' = [packet EXCEPT ![p] = q] PROVE packet'[p] = q
  BY <1>1, <1>2
<1>3. ASSUME Follows(packet'[p], r) PROVE Goal
  BY <1>3 DEF Follows
<1>4. ASSUME NEW s, \/ \E found \in BOOLEAN : NoMatch(p, s, found)
                    \/ \E open \in Opens : Find(p, s, open) \/ GatewayFind(p, s, open)
      PROVE  Goal
  <2> DEFINE q == [r EXCEPT !.todo = @ \ {s}]
  <2>1. q \in Handler /\ Follows(q, r)
    BY <1>1, GoesOnFollows DEF Handler
  <2> HIDE DEF q
  <2>2. \/ packet' = [packet EXCEPT ![p] = q]
        \/ \E end \in {Lost, ToSocket(s)} : packet' = [packet EXCEPT ![p] = End(q, end)]
        \/ \E stage \in Stages : packet' = [packet EXCEPT ![p] = At(q, stage)]
    BY <1>4 DEF NoMatch, Find, GatewayFind, Resumes, Becomes, Stages, q
  <2>3. Follows(packet'[p], q)
    BY <1>2, <2>1, <2>2, EndFollows, GoesOnFollows DEF Follows, Alike
  <2> HIDE DEF r, Goal
  <2> QED
    BY <1>3, <2>1, <2>3, FollowsOn DEF Follows
<1>5. ASSUME NEW b \in BOOLEAN,
             \/ GetNode(p, b) \/ GatewayNode(p, b) \/ GatewayPost(p, b)
             \/ \E wired \in Maps, open \in Opens :
                    Post(p, b, wired, open) \/ ForwardPacketToNode(p, b, wired, open)
      PROVE  Goal
  <2> DEFINE t == [r EXCEPT !.obj = None]
  <2>1. t \in Handler /\ Follows(t, r)
    BY <1>1, GoesOnFollows DEF Handler
  <2>2. \/ \E end \in {Lost, ToNode(r.node)} : packet'[p] = End(r, end)
        \/ \E stage \in Stages : packet'[p] = At(r, stage)
        \/ \E wired \in Maps, open \in Opens :
              packet'[p] \in {GatewayTook(t, wired, open), GatewayTook(r, wired, open)}
    BY <1>1, <1>5 DEF GetNode, GatewayNode, GatewayPost, Post, ForwardPacketToNode, Resumes,
                      Becomes, Stages
  <2> HIDE DEF r, t, Goal
  <2>3. Follows(packet'[p], r) \/ Follows(packet'[p], t)
    BY <1>1, <2>1, <2>2, EndFollows, GoesOnFollows
  <2> QED
    BY <1>3, <2>1, <2>3, FollowsOn DEF Follows
<1>6. ASSUME \/ FrameDropped(p)
             \/ \E open \in Opens : ForwardPacketToClient(p, open) \/ AnswerSent(p, open)
      PROVE  Goal
  <2>1. \E end : packet' = [packet EXCEPT ![p] = End(r, end)]
    BY <1>6 DEF FrameDropped, ForwardPacketToClient, AnswerSent, Becomes
  <2> HIDE DEF r, Goal
  <2> QED
    BY <1>2, <1>3, <2>1, EndFollows
<1>7. ASSUME NEW s \in Sessions, Frame(p, s) \/ \E open \in Opens : FromClient(p, s, open)
      PROVE  Goal
  <2> DEFINE t == [Idle EXCEPT !.from = Owner[s], !.node = Exit[s], !.session = s]
             u == [Idle EXCEPT !.pc = "frame", !.from = Owner[s], !.node = Exit[s],
                               !.session = s]
  <2>1. u.client = None /\ t.client = None
    BY DEF Idle
  <2>2. \/ packet' = [packet EXCEPT ![p] = u]
        \/ \E end : packet' = [packet EXCEPT ![p] = End(t, end)]
    BY <1>7 DEF Frame, FromClient, Becomes
  <2> HIDE DEF t, u
  <2>3. packet'[p].client = None \/ packet'[p].from = None
    BY <1>2, <2>1, <2>2, EndFollows DEF Follows, Alike
  <2> QED
    BY <2>3
<1>8. ASSUME NEW c \in Clients, NEW s \in Sessions \cup {None}, Answer(p, c, s) PROVE Goal
  <2> DEFINE t == [Idle EXCEPT !.client = c, !.session = s]
  <2>1. t.from = None /\ t \in Handler
    BY IdleIsWell DEF Well, Handler, Idle
  <2>2. \/ packet' = [packet EXCEPT ![p] = At(t, "answer")]
        \/ \E end : packet' = [packet EXCEPT ![p] = End(t, end)]
    BY <1>8 DEF Answer, Becomes
  <2> HIDE DEF t
  <2>3. packet'[p].from = None
    BY <1>2, <2>1, <2>2, EndFollows, GoesOnFollows DEF Follows, Alike
  <2> QED
    BY <2>3
<1>9. ASSUME NEW c \in Clients, NEW wired \in Maps, NEW b \in Sources[c],
             \/ DatagramUnknown(p, c, b, wired)
             \/ \E valid \in BOOLEAN, open \in Opens : DatagramKnown(p, c, b, valid, wired, open)
      PROVE  Goal
  <2> DEFINE t == [Idle EXCEPT !.from = c, !.addr = b]
             u == With(t, entry[b])
  <2>1. t \in Handler /\ t.to = Lost /\ t.addr = b /\ t.client = None
    BY IdleIsWell, TableAssumption DEF Well, Handler, Idle
  <2> HIDE DEF t
  <2>2. CASE DatagramUnknown(p, c, b, wired)
    <3>1. packet'[p] \in {Search(t, "match", wired), End(t, Lost)}
      BY <1>1, <2>2 DEF DatagramUnknown, Becomes, t
    <3>2. Follows(packet'[p], t)
      BY <2>1, <3>1, EndFollows, GoesOnFollows
    <3> QED
      BY <2>1, <3>2 DEF Follows, Alike
  <2>3. ASSUME NEW valid \in BOOLEAN, NEW open \in Opens,
               DatagramKnown(p, c, b, valid, wired, open)
        PROVE  Goal
    <3>1. packet'[p] \in {Forwarded(u, wired, open), End(u, Lost)}
      BY <1>1, <2>3 DEF DatagramKnown, Becomes, t
    <3>2. b \in Addrs /\ b \in Known
      BY <2>3, TableAssumption DEF DatagramKnown, Known
    <3>3. u \in Handler /\ u.addr = b /\ u.client = object[entry[b]].client
      <4>1. Sound(object) /\ entry[b] \in Objects /\ object[entry[b]].node # None
        BY <3>2, EntriesAreKept DEF TableInv, ObjectInv
      <4> QED
        BY <2>1, <3>2, <4>1, WithWell
    <3> HIDE DEF u
    <3>4. Follows(packet'[p], u)
      BY <3>1, <3>3, EndFollows, GoesOnFollows
    <3> QED
      BY <3>2, <3>3, <3>4 DEF Follows, Alike
  <2> HIDE DEF Goal
  <2> QED
    BY <1>9, <2>2, <2>3
<1>10. ASSUME NEW s \in packet[p].todo, NEW valid \in BOOLEAN, NEW wired \in Maps,
              NEW open \in Opens, Match(p, s, valid, wired, open)
       PROVE  Goal
  <2> DEFINE t == At([packet[p] EXCEPT !.todo = {}], "match")
             u(b) == With(t, entry[b])
  <2>1. PICK b \in First(Fitting(s)) :
           /\ \/ packet' = [packet EXCEPT ![p] = Forwarded(u(b), wired, open)]
              \/ packet' = [packet EXCEPT ![p] = End(u(b), Lost)]
           /\ mistaken' = IF u(b).client = u(b).from THEN mistaken
                          ELSE mistaken \cup {r.addr}
    BY <1>10 DEF Match, Becomes
  <2>2. b \in Known /\ r.addr \in Addrs /\ r.to = Lost
    BY <1>1, <1>10, TableAssumption DEF First, Fitting, Match, Well
  <2>3. t \in Handler /\ t.to = Lost /\ t.addr = r.addr
    BY <1>1, <2>2 DEF At, Handler, Stages
  <2> HIDE DEF t
  <2>4. u(b) \in Handler /\ u(b).addr = r.addr
    <3>1. Sound(object) /\ entry[b] \in Objects /\ object[entry[b]].node # None
      BY <2>2, EntriesAreKept DEF TableInv, ObjectInv
    <3> QED
      BY <2>2, <2>3, <3>1, WithWell
  <2> HIDE DEF u
  <2>5. packet'[p] \in {Forwarded(u(b), wired, open), End(u(b), Lost)}
    BY <1>1, <2>1
  <2>6. Follows(packet'[p], u(b))
    BY <2>4, <2>5, EndFollows, GoesOnFollows
  <2> QED
    BY <2>1, <2>4, <2>6 DEF Follows, Alike
<1> HIDE DEF Goal
<1>11. Goal
  BY <1>4, <1>5, <1>6, <1>7, <1>8, <1>9, <1>10 DEF Handles, Arrives
<1> QED
  BY <1>11 DEF Goal

LEMMA TakenStep == TableInv /\ PlaceInv /\ TakenInv /\ [Next]_vars => TakenInv'
<1> SUFFICES ASSUME TableInv, PlaceInv, TakenInv, [Next]_vars PROVE TakenInv'
    OBVIOUS
<1>1. packet \in [Packets -> Handler] /\ \A p \in Packets : Excused(packet[p])
  BY DEF TableInv, PacketInv, TakenInv
<1>2. ASSUME NEW d \in Packets, mistaken \subseteq mistaken', packet'[d] = packet[d]
      PROVE  Excused(packet[d])'
  BY <1>1, <1>2 DEF Excused, TakenFor
<1>3. CASE UNCHANGED <<packet, mistaken>>
  BY <1>2, <1>3 DEF TakenInv
<1>4. ASSUME NEW p \in Packets, Handles(p) \/ Arrives(p) PROVE TakenInv'
  <2> DEFINE q == packet'[p]
  <2>1. Moves(p, q) /\ mistaken \subseteq mistaken'
    BY <1>4, Outcomes DEF Reads, PutsBack, Takes
  <2>2. \A d \in Packets \ {p} : packet'[d] = packet[d]
    BY <1>1, <2>1 DEF Moves
  <2>3. Excused(packet[p])'
    <3>1. CASE q.from = None \/ q.client = None \/ q.client = q.from \/ q.addr \in mistaken'
      BY <3>1 DEF Excused, TakenFor
    <3>2. CASE Alike(q, packet[p])
      BY <1>1, <2>1, <3>2 DEF Excused, TakenFor, Alike
    <3>3. CASE q.addr \in Known /\ q.client = object[entry[q.addr]].client
      <4>1. q.addr \in mistaken \/ Place(q.addr, q.client)
        BY <3>3 DEF PlaceInv
      <4> QED
        BY <2>1, <4>1 DEF Excused, TakenFor, Place
    <3> QED
      BY <1>4, <3>1, <3>2, <3>3, TakenMoves
  <2> QED
    BY <1>2, <2>1, <2>2, <2>3 DEF TakenInv
<1> QED
  BY <1>3, <1>4 DEF Next, Register, Tick, Sweep, Stop, vars, history

-----------------------------------------------------------------------------
(* The theorems. *)

AllInv == TableInv /\ StandInv /\ AgeInv /\ PlaceInv /\ TakenInv

LEMMA InitIsAll == Init => AllInv
<1> SUFFICES ASSUME Init PROVE AllInv
    OBVIOUS
<1>1. /\ entry = [a \in Addrs |-> None] /\ before = {}
      /\ object = [o \in Objects |-> Blank] /\ since = 0 /\ up = TRUE
      /\ packet = [p \in Packets |-> Idle] /\ mistaken = {}
      /\ latest = [a \in Addrs |-> None] /\ overtaken = {}
  BY DEF Init
<1>2. Known = {}
  BY <1>1 DEF Known
<1>3. \A p \in Packets : packet[p] = Idle /\ Well(Idle) /\ Idle \in Handler
  BY <1>1, IdleIsWell DEF Well
<1>4. PacketInv
  BY <1>1, <1>3 DEF PacketInv
<1>5. ObjectInv
  <2>1. Sound(object)
    BY <1>1, BlankIsSound DEF Sound
  <2> QED
    BY <1>2, <1>3, <2>1 DEF ObjectInv, Idle, Touching
<1>6. TypeOK
  <2>1. \A p \in Packets : /\ packet[p].pc \in Stages /\ packet[p].to \in Ends
                           /\ packet[p].todo \in SUBSET Sessions
                           /\ packet[p].obj \in Objects \cup {None}
    BY <1>3 DEF Handler
  <2>2. object \in [Objects -> [client : Clients \cup {None}, node : Nodes \cup {None},
                                session : Sessions \cup {None}, age : Nat]]
    BY <1>1, BlankIsSound DEF Object
  <2> QED
    BY <1>1, <1>2, <2>1, <2>2, TableAssumption DEF TypeOK
<1>7. StandInv
  BY <1>1, <1>3 DEF StandInv, LastRegistrationStands, Idle, Touching
<1>8. AgeInv
  BY <1>2 DEF AgeInv
<1>9. PlaceInv
  BY <1>2, <1>3 DEF PlaceInv, AnswersGoWhereTheClientWas, Idle, Touching, Lost, ToAddr
<1>10. TakenInv
  BY <1>3 DEF TakenInv, Excused, Idle
<1> QED
  BY <1>4, <1>5, <1>6, <1>7, <1>8, <1>9, <1>10 DEF AllInv, TableInv

LEMMA AllIsInvariant == Spec => []AllInv
<1>1. AllInv /\ [Next]_vars => AllInv'
  BY PacketStep, ObjectStep, TypeStep, StandStep, AgeStep, PlaceStep, TakenStep
  DEF AllInv, TableInv
<1> QED
  BY <1>1, InitIsAll, PTL DEF Spec

(* The table, its order and the handlers are what they should be.          *)
THEOREM TypeCorrect == Spec => []TypeOK
<1>1. AllInv => TypeOK
  BY DEF AllInv, TableInv
<1> QED
  BY <1>1, AllIsInvariant, PTL

(* A packet ends at a socket or a node of the client it is taken for,      *)
(* whatever is registered, forgotten or given back between two awaits; and *)
(* that is its sender, but at an address of both or one whose sender the   *)
(* search of handlePacket was once mistaken in.                            *)
THEOREM PacketsStay == Spec => []StaysWithTheClient
<1>1. AllInv => StaysWithTheClient
  BY DEF AllInv, TableInv, PacketInv, TakenInv, Well, Stays, StaysWithTheClient
<1> QED
  BY <1>1, AllIsInvariant, PTL

(* The last registration of an address stands unless a handler was at work *)
(* on it, and nothing silent outlives its time by more than a sweep.       *)
THEOREM TableIsHeld == Spec => []TableHolds
<1>1. AllInv => TableHolds
  <2> SUFFICES ASSUME AllInv PROVE TableHolds
      OBVIOUS
  <2>1. LastRegistrationStands
    BY DEF AllInv, StandInv
  <2>2. SilentForgotten
    <3>1. /\ since \in 0 .. SweepEvery /\ SweepEvery \in Nat /\ Timeout \in Nat
          /\ \A a \in Known : object[entry[a]].age =< Timeout + since
      BY TableAssumption DEF AllInv, TableInv, TypeOK, AgeInv
    <3>2. \A a \in Known : object[entry[a]].age \in Nat
      BY EntriesAreKept DEF AllInv, TableInv, ObjectInv, Sound, Object
    <3> QED
      BY <3>1, <3>2 DEF SilentForgotten, Known
  <2> QED
    BY <2>1, <2>2 DEF TableHolds
<1> QED
  BY <1>1, AllIsInvariant, PTL

(* An answer sent by UDP goes where its client is or was heard, but for    *)
(* addresses whose sender was taken for another.                           *)
THEOREM AnswersFindTheClient == Spec => []AnswersGoWhereTheClientWas
<1>1. AllInv => AnswersGoWhereTheClientWas
  BY DEF AllInv, PlaceInv
<1> QED
  BY <1>1, AllIsInvariant, PTL

-----------------------------------------------------------------------------
(* The bound Copies.  An object that was made for address a and is held,   *)
(* other than under a itself, is held under another address or by a        *)
(* handler.                                                                *)
LEMMA LeastFree ==
    ASSUME NEW T \in SUBSET Nat, T # {}
    PROVE  \E x \in T : \A y \in T : ~ (y < x)
<1> DEFINE Less == {z \in Nat \X Nat : z[1] < z[2]}
<1>1. IsWellFoundedOn(Less, Nat)
  BY NatLessThanWellFounded DEF OpToRel
<1>2. \A a, b \in Nat : a < b => <<a, b>> \in Less
  OBVIOUS
<1> HIDE DEF Less
<1>3. \E x \in T : \A y \in T : ~ (<<y, x>> \in Less)
  BY <1>1, WFMin
<1> QED
  BY <1>2, <1>3

LEMMA OneIsFree ==
    ASSUME IsFiniteSet(Addrs), IsFiniteSet(Packets),
           Cardinality(Addrs) + Cardinality(Packets) =< Copies,
           entry \in [Addrs -> Objects \cup {None}], NEW a \in Addrs
    PROVE  NewObjects(a) # {}
<1> DEFINE Others == {entry[b] : b \in Addrs \ {a}}
           AtHandlers == {packet[p].obj : p \in Packets}
           free == {i \in 1 .. Copies : <<a, i>> \notin Held([entry EXCEPT ![a] = None], packet)}
<1>1. IsFiniteSet(Others) /\ Cardinality(Others) =< Cardinality(Addrs) - 1
  <2>1. IsFiniteSet(Addrs \ {a}) /\ Cardinality(Addrs \ {a}) = Cardinality(Addrs) - 1
    BY FS_RemoveElement
  <2>2. [b \in Addrs \ {a} |-> entry[b]] \in Surjection(Addrs \ {a}, Others)
    BY DEF Surjection
  <2> QED  BY <2>1, <2>2, FS_Surjection
<1>2. IsFiniteSet(AtHandlers) /\ Cardinality(AtHandlers) =< Cardinality(Packets)
  <2>1. [p \in Packets |-> packet[p].obj] \in Surjection(Packets, AtHandlers)
    BY DEF Surjection
  <2> QED  BY <2>1, FS_Surjection
<1>3. /\ IsFiniteSet(Others \cup AtHandlers)
      /\ Cardinality(Others \cup AtHandlers) =< Cardinality(Others) + Cardinality(AtHandlers)
      /\ Cardinality(Others \cup AtHandlers) \in Nat
  <2>1. IsFiniteSet(Others \cap AtHandlers)
    BY <1>1, FS_Subset
  <2> HIDE DEF Others, AtHandlers
  <2>2. /\ IsFiniteSet(Others \cup AtHandlers)
        /\ Cardinality(Others \cup AtHandlers)
             = Cardinality(Others) + Cardinality(AtHandlers) - Cardinality(Others \cap AtHandlers)
    BY <1>1, <1>2, FS_Union
  <2> QED
    BY <1>1, <1>2, <2>1, <2>2, FS_CardinalityType
<1>4. ASSUME free = {} PROVE FALSE
  <2> DEFINE f == [i \in 1 .. Copies |-> <<a, i>>]
  <2>1. \A i \in 1 .. Copies : <<a, i>> \in Held([entry EXCEPT ![a] = None], packet)
    BY <1>4
  <2>2. \A i \in 1 .. Copies : <<a, i>> # None
    BY TableAssumption
  <2>3. \A b \in Addrs : [entry EXCEPT ![a] = None][b] \in {None} \cup Others
    <3>1. ASSUME NEW b \in Addrs, b # a
          PROVE  [entry EXCEPT ![a] = None][b] = entry[b]
      BY <3>1
    <3> QED  BY <3>1
  <2>4. f \in Injection(1 .. Copies, Others \cup AtHandlers)
    <3>1. ASSUME NEW i \in 1 .. Copies PROVE f[i] \in Others \cup AtHandlers
      <4>1. \/ \E b \in Addrs : <<a, i>> = [entry EXCEPT ![a] = None][b]
            \/ \E p \in Packets : <<a, i>> = packet[p].obj
        BY <2>1 DEF Held
      <4>2. CASE \E p \in Packets : <<a, i>> = packet[p].obj
        BY <4>2
      <4>3. CASE \E b \in Addrs : <<a, i>> = [entry EXCEPT ![a] = None][b]
        <5> HIDE DEF Others
        <5>1. <<a, i>> \in {None} \cup Others
          BY <2>3, <4>3
        <5> QED  BY <2>2, <5>1
      <4> QED  BY <4>1, <4>2, <4>3
    <3>2. \A i, j \in 1 .. Copies : f[i] = f[j] => i = j
      OBVIOUS
    <3> HIDE DEF Others, AtHandlers
    <3>3. f \in [1 .. Copies -> Others \cup AtHandlers] /\ DOMAIN f = 1 .. Copies
      BY <3>1
    <3> HIDE DEF f
    <3> QED  BY <3>2, <3>3 DEF Injection, IsInjective
  <2>5. IsFiniteSet(1 .. Copies) /\ Cardinality(1 .. Copies) = Copies
    BY FS_Interval, TableAssumption
  <2>6. Copies =< Cardinality(Others \cup AtHandlers)
    <3> HIDE DEF f, Others, AtHandlers
    <3> QED  BY <1>3, <2>4, <2>5, FS_Injection
  <2>7. /\ Cardinality(Addrs) \in Nat /\ Cardinality(Packets) \in Nat
        /\ Cardinality(Others) \in Nat /\ Cardinality(AtHandlers) \in Nat
    BY <1>1, <1>2, FS_CardinalityType
  <2> QED
    BY <1>1, <1>2, <1>3, <2>6, <2>7, TableAssumption
<1>5. PICK x \in free : \A y \in free : ~ (y < x)
  <2>1. free \in SUBSET Nat
    BY TableAssumption
  <2>2. free # {}
    BY <1>4
  <2> HIDE DEF free
  <2> QED  BY <2>1, <2>2, LeastFree
<1>6. x \in free /\ \A y \in free : x =< y
  <2>1. \A y \in free : y \in Nat
    BY TableAssumption
  <2>2. x \in free
    BY <1>5
  <2> HIDE DEF free
  <2> QED  BY <1>5, <2>1, <2>2
<1> QED
  <2> DEFINE least == {i \in free : \A j \in free : i =< j}
  <2>1. NewObjects(a) = {<<a, i>> : i \in least}
    BY DEF NewObjects
  <2>2. x \in least
    <3> HIDE DEF free
    <3> QED  BY <1>6
  <2> HIDE DEF least
  <2> QED  BY <2>1, <2>2

(* The bound Copies bounds nothing, if it is no less than the addresses    *)
(* and the handlers together, as it is in the run: whenever                *)
(* /wireguard/register or a datagram from elsewhere makes an object, one   *)
(* is free.                                                                *)
THEOREM ObjectsSuffice ==
    ASSUME IsFiniteSet(Addrs), IsFiniteSet(Packets),
           Cardinality(Addrs) + Cardinality(Packets) =< Copies
    PROVE  Spec => [](\A a \in Addrs : NewObjects(a) # {})
<1>1. TypeOK => \A a \in Addrs : NewObjects(a) # {}
  BY OneIsFree DEF TypeOK
<1> QED
  BY <1>1, TypeCorrect, PTL

-----------------------------------------------------------------------------
(* The TCP connections of a node. *)

(* What stands under a key is a socket of that flow that has been open.    *)
UnderKey ==
    \A f \in Flows : connections[f] # NoSocket =>
        flow[connections[f]] = f /\ sock[connections[f]] \in {"open", "destroyed"}

(* A flow whose packets never came while an attempt was under way has one  *)
(* socket, counted until its 'close' is over: the next attempt waits for   *)
(* that.  Open, it is under its key.                                       *)
One ==
    \A f \in Flows \ met :
        /\ \A s, t \in Sockets :
              sock[s] # "free" /\ sock[t] # "free" /\ flow[s] = f /\ flow[t] = f => s = t
        /\ \A s \in Sockets : sock[s] = "open" /\ flow[s] = f => connections[f] = s

(* An idle socket times out before the clean-up would take it. *)
Brisk == \A s \in Sockets : idle[s] =< IdleTimeout

TcpInv == TCP!TypeOK /\ UnderKey /\ One /\ Brisk

(* They hold at first. *)
LEMMA TcpStarts == TCP!Init => TcpInv
<1> SUFFICES ASSUME TCP!Init PROVE TcpInv
  OBVIOUS
<1>1. Brisk /\ idle \in [Sockets -> 0 .. MaxIdle + 1]
  BY TcpAssumption DEF TCP!Init, Brisk
<1>2. flow \in [Sockets -> Flows]
  BY TcpAssumption DEF TCP!Init
<1>3. TCP!TypeOK
  BY <1>1, <1>2 DEF TCP!Init, TCP!TypeOK
<1> QED  BY <1>1, <1>3 DEF TCP!Init, TcpInv, UnderKey, One

(* removeConnection takes sockets of the flows it is called for, and       *)
(* leaves those of other flows and their keys alone.                       *)
LEMMA RemoveTakes ==
  ASSUME TcpInv, NEW fs \in SUBSET Flows, NEW dead \in SUBSET Sockets, TCP!Remove(fs, dead),
         \A s \in dead : flow[s] \in fs /\ sock[s] # "free"
  PROVE  /\ connections' \in [Flows -> Sockets \cup {NoSocket}]
         /\ sock' \in [Sockets -> {"free", "connecting", "open", "destroyed"}]
         /\ \A f \in Flows : connections'[f] = IF f \in fs THEN NoSocket ELSE connections[f]
         /\ \A s \in Sockets : sock'[s] # sock[s] =>
               sock'[s] = "destroyed" /\ sock[s] # "free" /\ flow[s] \in fs
         /\ \A f \in fs : connections[f] # NoSocket => sock'[connections[f]] = "destroyed"
         /\ \A s \in dead : sock'[s] = "destroyed"
<1> DEFINE cut == {connections[f] : f \in fs} \cap {t \in Sockets : TCP!Alive(t)}
<1>1. /\ connections' = [f \in Flows |-> IF f \in fs THEN NoSocket ELSE connections[f]]
      /\ sock' = [t \in Sockets |-> IF t \in dead \cup cut THEN "destroyed" ELSE sock[t]]
  BY DEF TCP!Remove
<1>2. \A s \in cut : flow[s] \in fs /\ sock[s] # "free"
  BY TcpAssumption DEF TcpInv, TCP!TypeOK, UnderKey, TCP!Alive
<1>3. \A f \in fs : connections[f] # NoSocket => sock'[connections[f]] = "destroyed"
  BY <1>1 DEF TcpInv, TCP!TypeOK, UnderKey, TCP!Alive
<1>4. connections' \in [Flows -> Sockets \cup {NoSocket}]
  BY <1>1 DEF TcpInv, TCP!TypeOK
<1>5. sock' \in [Sockets -> {"free", "connecting", "open", "destroyed"}]
  BY <1>1 DEF TcpInv, TCP!TypeOK
<1> QED  BY <1>1, <1>2, <1>3, <1>4, <1>5

(* So it keeps the invariant. *)
LEMMA RemoveKeeps ==
  ASSUME TcpInv, NEW fs \in SUBSET Flows, NEW dead \in SUBSET Sockets, TCP!Remove(fs, dead),
         \A s \in dead : flow[s] \in fs /\ sock[s] # "free",
         UNCHANGED <<flow, idle, active, listed, met>>,
         running' \in BOOLEAN, waiting' \subseteq Sockets, hung' \in BOOLEAN
  PROVE  TcpInv'
<1>1. TCP!TypeOK'
  BY RemoveTakes DEF TcpInv, TCP!TypeOK
<1>2. UnderKey'
  <2> SUFFICES ASSUME NEW f \in Flows, connections'[f] # NoSocket
               PROVE  flow[connections'[f]] = f /\ sock'[connections'[f]] \in {"open", "destroyed"}
    BY DEF UnderKey
  <2>1. connections'[f] = connections[f]
    BY RemoveTakes
  <2>2. connections[f] \in Sockets /\ flow[connections[f]] = f
        /\ sock[connections[f]] \in {"open", "destroyed"}
    BY <2>1 DEF TcpInv, TCP!TypeOK, UnderKey
  <2>3. sock'[connections[f]] \in {"open", "destroyed"}
    BY <2>2, RemoveTakes
  <2> QED  BY <2>1, <2>2, <2>3
<1>3. One'
  <2> SUFFICES ASSUME NEW f \in Flows \ met
               PROVE  /\ \A s, t \in Sockets : sock'[s] # "free" /\ sock'[t] # "free"
                            /\ flow[s] = f /\ flow[t] = f => s = t
                      /\ \A s \in Sockets : sock'[s] = "open" /\ flow[s] = f => connections'[f] = s
    BY DEF One
  <2>1. \A s \in Sockets : sock'[s] # "free" => sock[s] # "free"
    BY RemoveTakes
  <2>2. ASSUME NEW s \in Sockets, sock'[s] = "open", flow[s] = f PROVE connections'[f] = s
    <3>1. sock[s] = "open" /\ connections[f] = s /\ s # NoSocket
      BY <2>2, RemoveTakes, TcpAssumption DEF TcpInv, One
    <3>2. f \notin fs
      BY <2>2, <3>1, RemoveTakes
    <3> QED  BY <3>1, <3>2, RemoveTakes
  <2> QED  BY <2>1, <2>2 DEF TcpInv, One
<1> QED  BY <1>1, <1>2, <1>3 DEF TcpInv, Brisk

(* The clean-up of inactive connections has nothing to take. *)
LEMMA CleanupTakesNone ==
  ASSUME TcpInv, TCP!CleanupInactive
  PROVE  UNCHANGED TCP!tcp
<1> DEFINE fs == {f \in Flows : connections[f] # NoSocket /\ idle[connections[f]] > MaxIdle}
<1>1. fs = {}
  BY TcpAssumption DEF TcpInv, TCP!TypeOK, Brisk
<1>2. TCP!Remove({}, {})
  BY <1>1 DEF TCP!CleanupInactive
<1>3. connections' = connections /\ sock' = sock
  BY <1>2 DEF TCP!Remove, TcpInv, TCP!TypeOK
<1> QED  BY <1>3 DEF TCP!CleanupInactive, TCP!tcp

(* The other events of a socket. *)
LEMMA SocketKeeps ==
  ASSUME TcpInv, NEW s \in Sockets,
         \/ TCP!Connected(s) \/ TCP!Fails(s) \/ TCP!RemoteEnds(s)
         \/ TCP!TimesOut(s) \/ TCP!Closed(s) \/ TCP!Answered(s)
  PROVE  TcpInv'
<1>1. CASE TCP!Connected(s)
  <2> USE <1>1 DEF TCP!Connected
  <2>1. flow[s] \in Flows /\ s # NoSocket
    BY TcpAssumption DEF TcpInv, TCP!TypeOK
  <2>2. \A t \in Sockets : sock'[t] = IF t = s THEN "open" ELSE sock[t]
    BY DEF TcpInv, TCP!TypeOK
  <2>3. \A f \in Flows : connections'[f] = IF f = flow[s] THEN s ELSE connections[f]
    BY DEF TcpInv, TCP!TypeOK
  <2>4. TCP!TypeOK'
    BY <2>1, TcpAssumption DEF TcpInv, TCP!TypeOK
  <2>5. UnderKey'
    BY <2>1, <2>2, <2>3 DEF TcpInv, TCP!TypeOK, UnderKey
  <2>6. One'
    BY <2>1, <2>2, <2>3 DEF TcpInv, TCP!TypeOK, One
  <2>7. Brisk'
    BY TcpAssumption DEF TcpInv, TCP!TypeOK, Brisk
  <2> QED  BY <2>4, <2>5, <2>6, <2>7 DEF TcpInv
<1>2. CASE TCP!Fails(s) \/ TCP!TimesOut(s)
  <2>1. TCP!Remove({flow[s]}, {s}) /\ sock[s] # "free"
        /\ UNCHANGED <<running, flow, idle, active, listed, met>>
    BY <1>2 DEF TCP!Fails, TCP!TimesOut, TCP!Due, TCP!Alive
  <2>2. waiting' \subseteq Sockets /\ hung' \in BOOLEAN
    BY <1>2 DEF TCP!Fails, TCP!TimesOut, TcpInv, TCP!TypeOK
  <2>3. {flow[s]} \in SUBSET Flows /\ running' \in BOOLEAN
    BY <2>1 DEF TcpInv, TCP!TypeOK
  <2> QED  BY <2>1, <2>2, <2>3, RemoveKeeps
<1>3. CASE TCP!RemoteEnds(s)
  <2> USE <1>3 DEF TCP!RemoteEnds
  <2>1. \A t \in Sockets : sock'[t] = IF t = s THEN "destroyed" ELSE sock[t]
    BY DEF TcpInv, TCP!TypeOK
  <2>2. TCP!TypeOK'
    BY DEF TcpInv, TCP!TypeOK
  <2>3. UnderKey' /\ One' /\ Brisk'
    BY <2>1 DEF TcpInv, TCP!TypeOK, UnderKey, One, Brisk
  <2> QED  BY <2>2, <2>3 DEF TcpInv
<1>4. CASE TCP!Closed(s)
  <2> DEFINE cut == {connections[flow[s]]} \cap {t \in Sockets : TCP!Alive(t)}
  <2> USE <1>4 DEF TCP!Closed
  <2>1. flow[s] \in Flows
    BY DEF TcpInv, TCP!TypeOK
  <2>2. \A t \in Sockets : sock'[t] = IF t = s THEN "free"
                                      ELSE IF t \in cut THEN "destroyed" ELSE sock[t]
    BY DEF TCP!Alive
  <2>3. \A f \in Flows : connections'[f] = IF f = flow[s] THEN NoSocket ELSE connections[f]
    BY DEF TcpInv, TCP!TypeOK
  <2>4. \A t \in cut : flow[t] = flow[s]
    BY <2>1, TcpAssumption DEF TcpInv, TCP!TypeOK, UnderKey
  <2>5. TCP!TypeOK'
    <3>1. sock' \in [Sockets -> {"free", "connecting", "open", "destroyed"}]
      BY DEF TcpInv, TCP!TypeOK
    <3> QED  BY <2>1, <3>1 DEF TcpInv, TCP!TypeOK
  <2>6. UnderKey'
    <3> SUFFICES ASSUME NEW f \in Flows, connections'[f] # NoSocket
                 PROVE  /\ flow[connections'[f]] = f
                        /\ sock'[connections'[f]] \in {"open", "destroyed"}
      BY DEF UnderKey
    <3>1. f # flow[s] /\ connections'[f] = connections[f]
      BY <2>3
    <3>2. connections[f] \in Sockets /\ flow[connections[f]] = f
      BY <3>1 DEF TcpInv, TCP!TypeOK, UnderKey
    <3> QED  BY <2>2, <2>4, <3>1, <3>2 DEF TcpInv, UnderKey
  <2>7. One'
    <3> SUFFICES ASSUME NEW f \in Flows \ met
                 PROVE  /\ \A x, y \in Sockets : sock'[x] # "free" /\ sock'[y] # "free"
                              /\ flow[x] = f /\ flow[y] = f => x = y
                        /\ \A x \in Sockets :
                              sock'[x] = "open" /\ flow[x] = f => connections'[f] = x
      BY DEF One
    <3>1. \A x \in Sockets : sock'[x] # "free" => sock[x] # "free"
      BY <2>2 DEF TCP!Alive
    <3>2. ASSUME NEW x \in Sockets, sock'[x] = "open", flow[x] = f PROVE connections'[f] = x
      <4>1. sock[x] = "open" /\ connections[f] = x /\ x # s
        BY <2>2, <3>2 DEF TcpInv, One
      <4>2. f # flow[s]
        BY <2>2, <3>2, <4>1 DEF TCP!Alive
      <4> QED  BY <2>3, <4>1, <4>2
    <3> QED  BY <3>1, <3>2 DEF TcpInv, One
  <2> QED  BY <2>5, <2>6, <2>7 DEF TcpInv, Brisk
<1>5. CASE TCP!Answered(s)
  <2> USE <1>5 DEF TCP!Answered
  <2>1. TCP!TypeOK' /\ Brisk'
    BY TcpAssumption DEF TcpInv, TCP!TypeOK, Brisk
  <2>2. UnderKey' /\ One'
    BY DEF TcpInv, UnderKey, One
  <2> QED  BY <2>1, <2>2 DEF TcpInv
<1> QED  BY <1>1, <1>2, <1>3, <1>4, <1>5

(* A segment of a flow.  Where an attempt overlaps another, the flow is    *)
(* one of those of which nothing is said.                                  *)
LEMMA SegmentKeeps ==
  ASSUME TcpInv, NEW f \in Flows, TCP!Segment(f)
  PROVE  TcpInv'
<1>1. CASE TCP!PacketWritten(f)
  <2> USE <1>1 DEF TCP!PacketWritten, TCP!Noted
  <2>1. TCP!TypeOK' /\ Brisk'
    BY TcpAssumption DEF TcpInv, TCP!TypeOK, Brisk
  <2>2. UnderKey' /\ One'
    BY DEF TcpInv, UnderKey, One
  <2> QED  BY <2>1, <2>2 DEF TcpInv
<1>2. ASSUME NEW s \in Sockets, TCP!PacketConnects(f, s) PROVE TcpInv'
  <2> USE <1>2 DEF TCP!PacketConnects, TCP!Noted
  <2>1. \A t \in Sockets : /\ sock'[t] = IF t = s THEN "connecting" ELSE sock[t]
                           /\ flow'[t] = IF t = s THEN f ELSE flow[t]
    BY DEF TcpInv, TCP!TypeOK
  <2>2. TCP!TypeOK'
    BY TcpAssumption DEF TcpInv, TCP!TypeOK
  <2>3. Brisk'
    BY TcpAssumption DEF TcpInv, TCP!TypeOK, Brisk
  <2>4. UnderKey'
    BY <2>1 DEF TcpInv, TCP!TypeOK, UnderKey
  <2>5. One'
    <3>1. f \notin met' => \A t \in Sockets : sock[t] # "free" => flow[t] # f
      BY DEF TcpInv, TCP!TypeOK, TCP!Quiet, TCP!Alive
    <3>2. met \subseteq met'
      OBVIOUS
    <3> QED  BY <2>1, <3>1, <3>2 DEF TcpInv, One
  <2> QED  BY <2>2, <2>3, <2>4, <2>5 DEF TcpInv
<1> QED  BY <1>1, <1>2 DEF TCP!Segment

(* Every step keeps them. *)
LEMMA TcpStep == TcpInv /\ [TCP!Next]_(TCP!tcp) => TcpInv'
<1> SUFFICES ASSUME TcpInv, [TCP!Next]_(TCP!tcp) PROVE TcpInv'
  OBVIOUS
<1>1. ASSUME UNCHANGED TCP!tcp PROVE TcpInv'
  BY <1>1 DEF TCP!tcp, TcpInv, TCP!TypeOK, UnderKey, One, Brisk
<1>2. CASE TCP!Start \/ TCP!PacketDropped \/ TCP!PacketPassed \/ TCP!CleanupSessions
  <2>1. UNCHANGED <<connections, sock, flow, idle, waiting, hung, met>>
        /\ running' \in BOOLEAN /\ active' \in BOOLEAN /\ listed' \in BOOLEAN
    BY <1>2 DEF TCP!Start, TCP!PacketDropped, TCP!PacketPassed, TCP!CleanupSessions, TCP!Noted,
        TCP!table, TcpInv, TCP!TypeOK
  <2> QED  BY <2>1 DEF TcpInv, TCP!TypeOK, UnderKey, One, Brisk
<1>3. CASE TCP!Stop
  <2>1. /\ TCP!Remove(Flows, {})
        /\ running' \in BOOLEAN /\ waiting' \subseteq Sockets /\ hung' \in BOOLEAN
        /\ UNCHANGED <<flow, idle, active, listed, met>>
    BY <1>3 DEF TCP!Stop, TcpInv, TCP!TypeOK
  <2> QED  BY <2>1, RemoveKeeps
<1>4. CASE TCP!CleanupInactive
  BY <1>1, <1>4, CleanupTakesNone
<1>5. CASE \E f \in Flows : TCP!Segment(f)
  BY <1>5, SegmentKeeps
<1>6. CASE \E s \in Sockets :
              \/ TCP!Connected(s) \/ TCP!Fails(s) \/ TCP!RemoteEnds(s)
              \/ TCP!TimesOut(s) \/ TCP!Closed(s) \/ TCP!Answered(s)
  BY <1>6, SocketKeeps
<1>7. CASE TCP!Tick
  <2>1. \A s \in Sockets : idle'[s] \in 0 .. MaxIdle + 1 /\ idle'[s] =< IdleTimeout
    BY <1>7, TcpAssumption DEF TCP!Tick, TCP!Due, TcpInv, TCP!TypeOK, Brisk
  <2>2. TCP!TypeOK'
    BY <1>7, <2>1 DEF TCP!Tick, TcpInv, TCP!TypeOK
  <2> QED  BY <1>7, <2>1, <2>2 DEF TCP!Tick, TcpInv, UnderKey, One, Brisk
<1> QED  BY <1>1, <1>2, <1>3, <1>4, <1>5, <1>6, <1>7 DEF TCP!Next

(* Every variable keeps its type. *)
THEOREM ConnectionsTyped == TCP!Spec => []TCP!TypeOK
<1>1. TcpInv => TCP!TypeOK
  BY DEF TcpInv
<1>2. QED
  BY <1>1, TcpStarts, TcpStep, PTL DEF TCP!Spec

(* A flow without overlapping attempts has at most one socket, and once    *)
(* that is open the table has it, for any number of flows and whatever         *)
(* failures, time-outs and stops come in between.                          *)
THEOREM OneSocketForAFlow == TCP!Spec => []AloneIsOne
<1>1. TcpInv => AloneIsOne
  BY DEF TcpInv, One, AloneIsOne, Alive
<1>2. QED
  BY <1>1, TcpStarts, TcpStep, PTL DEF TCP!Spec

(* No open connection of such a flow is destroyed by the events of another *)
(* socket, while the forwarder runs.                                       *)
THEOREM NoneIsCut == TCP!Spec => OnlyRivalsCut
<1> DEFINE Spared == \A s \in Sockets :
                        sock[s] = "open" /\ sock'[s] = "destroyed" /\ flow[s] \notin met /\ running'
                        => \A t \in Sockets \ {s} : sock'[t] = sock[t]
<1>1. TcpInv /\ TCP!Next => Spared
  <2> SUFFICES ASSUME TcpInv, TCP!Next,
                      NEW s \in Sockets, sock[s] = "open", sock'[s] = "destroyed",
                      flow[s] \notin met, running',
                      NEW t \in Sockets, t # s
               PROVE  sock'[t] = sock[t]
    OBVIOUS
  <2>1. sock[t] # "free" => flow[t] # flow[s]
    BY DEF TcpInv, TCP!TypeOK, One
  <2>2. ASSUME NEW x \in Sockets, TCP!Fails(x) \/ TCP!TimesOut(x) PROVE sock'[t] = sock[t]
    <3>1. TCP!Remove({flow[x]}, {x}) /\ sock[x] # "free" /\ {flow[x]} \in SUBSET Flows
      BY <2>2 DEF TCP!Fails, TCP!TimesOut, TCP!Due, TCP!Alive, TcpInv, TCP!TypeOK
    <3>2. /\ sock'[t] # sock[t] => sock[t] # "free" /\ flow[t] = flow[x]
          /\ flow[s] = flow[x]
      <4>1. {x} \in SUBSET Sockets /\ \A d \in {x} : flow[d] \in {flow[x]} /\ sock[d] # "free"
        BY <3>1
      <4>2. \A y \in Sockets : sock'[y] # sock[y] => sock[y] # "free" /\ flow[y] \in {flow[x]}
        BY <3>1, <4>1, RemoveTakes
      <4> QED  BY <4>2
    <3> QED  BY <2>1, <3>2
  <2>3. ASSUME NEW x \in Sockets, TCP!Closed(x) PROVE sock'[t] = sock[t]
    <3>1. x # s /\ sock[x] = "destroyed" /\ connections[flow[x]] = s
      BY <2>3 DEF TCP!Closed, TCP!Alive
    <3>2. flow[x] = flow[s] /\ flow[x] \in Flows
      BY <3>1, TcpAssumption DEF TcpInv, TCP!TypeOK, UnderKey
    <3> QED  BY <3>1, <3>2 DEF TcpInv, One
  <2>4. ASSUME NEW x \in Sockets, TCP!Connected(x) \/ TCP!RemoteEnds(x) \/ TCP!Answered(x)
        PROVE sock'[t] = sock[t]
    BY <2>4 DEF TCP!Connected, TCP!RemoteEnds, TCP!Answered, TcpInv, TCP!TypeOK
  <2>5. ASSUME NEW f \in Flows, TCP!Segment(f) PROVE sock'[t] = sock[t]
    BY <2>5 DEF TCP!Segment, TCP!PacketWritten, TCP!PacketConnects, TcpInv, TCP!TypeOK
  <2>6. CASE TCP!CleanupInactive
    BY <2>6, CleanupTakesNone DEF TCP!tcp
  <2>7. CASE \/ TCP!Start \/ TCP!PacketDropped \/ TCP!PacketPassed
             \/ TCP!CleanupSessions \/ TCP!Tick \/ TCP!Stop
    BY <2>7 DEF TCP!Start, TCP!PacketDropped, TCP!PacketPassed, TCP!CleanupSessions, TCP!Tick,
        TCP!Stop, TCP!table
  <2> QED  BY <2>2, <2>3, <2>4, <2>5, <2>6, <2>7 DEF TCP!Next
<1>2. ASSUME TcpInv, [TCP!Next]_(TCP!tcp) PROVE [Spared]_tcp
  <2>1. UNCHANGED TCP!tcp => UNCHANGED tcp
    BY DEF TCP!tcp, tcp
  <2> QED
    BY <1>1, <1>2, <2>1
<1> QED
  BY <1>2, TcpStarts, TcpStep, PTL DEF TCP!Spec, OnlyRivalsCut
==============================================================================
