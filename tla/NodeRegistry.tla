----------------------------- MODULE NodeRegistry -----------------------------
(***************************************************************************)
(* The node directory of bosonserver: classes NodeRegistry and             *)
(* HeartbeatManager (bosonserver/src/services/discovery) with the routes   *)
(* of api/routes/nodes.ts that drive them, over the `nodes' table and the  *)
(* Redis keys `node:<id>'.                                                 *)
(*                                                                         *)
(* Atomicity is that of SessionManager: a Redis command takes effect in    *)
(* the step that issues it, a statement of PostgreSQL in a step of its own *)
(* after the step that issues it.  A call that ends leaves no trace.       *)
(*                                                                         *)
(* Time passes in ticks of half a minute.  A duration of k ticks is one of *)
(* more than k-1 and less than k+1 half minutes, so that a limit of k may  *)
(* or may not be over after k ticks, and is over after k+1.                *)
(***************************************************************************)
EXTENDS NodeDirectory

Labels == {"idle", "insert", "inserted", "select", "selected", "ip", "ip.set",
           "beat", "beaten", "delete", "deleted",
           "mark", "marked", "remove", "removed"}
Ops == {"none", "register", "get", "ip", "heartbeat", "delete", "sweep"}

(* Bound of the model: longer silence is not told apart. *)
MaxSilence == RemoveAfter + SweepEvery + 2

TypeOK ==
    /\ faults \in DirWorlds
    /\ row \in [NodeIds -> Row \cup {NoRow}]
    /\ silence \in [NodeIds -> 0 .. MaxSilence]
    /\ cached \in [NodeIds -> Row \cup {NoRow}]
    /\ nodeHeld \in [NodeIds -> 0 .. NodeTtl]
    /\ dirAt \in [DirCalls -> Labels]
    /\ op \in [DirCalls -> Ops]
    /\ about \in [DirCalls -> NodeIds \cup {NoRow}]
    /\ \A c \in DirCalls : op[c] \notin {"none", "sweep"} => about[c] \in NodeIds
    /\ copy \in [DirCalls -> Row \cup {NoRow}]
    /\ want \in [DirCalls -> [ip : Ips \cup {NoRow}, status : NodeStatuses \cup {NoRow}]]
    /\ todo \in [DirCalls -> SUBSET NodeIds]
    /\ dirLate \in [DirCalls -> BOOLEAN]
    /\ wait \in 0 .. SweepEvery

Nothing == [ip |-> NoRow, status |-> NoRow]

Init ==
    /\ faults \in DirWorlds
    /\ row = [n \in NodeIds |-> NoRow]
    /\ silence = [n \in NodeIds |-> MaxSilence]
    /\ cached = [n \in NodeIds |-> NoRow]
    /\ nodeHeld = [n \in NodeIds |-> 0]
    /\ dirAt = [c \in DirCalls |-> "idle"]
    /\ op = [c \in DirCalls |-> "none"]
    /\ about = [c \in DirCalls |-> NoRow]
    /\ copy = [c \in DirCalls |-> NoRow]
    /\ want = [c \in DirCalls |-> Nothing]
    /\ todo = [c \in DirCalls |-> {}]
    /\ dirLate = [c \in DirCalls |-> FALSE]
    /\ wait = 0

-----------------------------------------------------------------------------
Begin(c, kind, n, label, node, given) ==
    /\ dirAt[c] = "idle"
    /\ dirAt' = [dirAt EXCEPT ![c] = label]
    /\ op' = [op EXCEPT ![c] = kind]
    /\ about' = [about EXCEPT ![c] = n]
    /\ copy' = [copy EXCEPT ![c] = node]
    /\ want' = [want EXCEPT ![c] = given]
    /\ UNCHANGED <<todo, dirLate>>

(* What of its arguments a call still needs when it has come to an await. *)
StillWanted(label, given) ==
    CASE label \in {"select", "selected", "ip", "ip.set"} -> given
      [] label = "beat" -> [given EXCEPT !.ip = NoRow]
      [] OTHER -> Nothing

StillHeld(label, node) ==
    IF label \in {"insert", "inserted", "selected", "ip"} THEN node ELSE NoRow

(* Call c comes to the next of its awaits, or ends. *)
Goto(c, label, node) ==
    LET over == label = "idle" IN
    /\ dirAt' = [dirAt EXCEPT ![c] = label]
    /\ op' = [op EXCEPT ![c] = IF over THEN "none" ELSE @]
    /\ about' = [about EXCEPT ![c] = IF over THEN NoRow ELSE @]
    /\ copy' = [copy EXCEPT ![c] = StillHeld(label, node)]
    /\ want' = [want EXCEPT ![c] = StillWanted(label, @)]
    /\ todo' = [todo EXCEPT ![c] = IF over THEN {} ELSE @]
    /\ dirLate' = [dirLate EXCEPT ![c] = IF over THEN FALSE ELSE @]

(* Redis SET with a TTL, and DEL. *)
SetKey(n, node) ==
    /\ cached' = [cached EXCEPT ![n] = node]
    /\ nodeHeld' = [nodeHeld EXCEPT ![n] = 0]

DelKey(n) == SetKey(n, NoRow)

(* A rejected command may have been executed. *)
Rejected(storage, effect, untouched) == storage \in faults /\ (effect \/ untouched)

-----------------------------------------------------------------------------
(* registerNode: the row, then the key. *)
Register(c, n, r, ip) ==
    /\ Begin(c, "register", n, "insert",
             [status |-> "online", key |-> r, net |-> r, ip |-> ip], Nothing)
    /\ UNCHANGED <<store, wait>>

(* The upsert.  last_heartbeat is the time at which the call began. *)
Upsert(c) ==
    /\ row' = [row EXCEPT ![about[c]] = copy[c]]
    /\ silence' = [silence EXCEPT ![about[c]] = IF dirLate[c] THEN 1 ELSE 0]

Insert(c) ==
    /\ dirAt[c] = "insert"
    /\ \/ Upsert(c) /\ Goto(c, "inserted", copy[c])
       \/ Rejected("db", Upsert(c), UNCHANGED <<row, silence>>) /\ Goto(c, "idle", NoRow)
    /\ UNCHANGED <<cached, nodeHeld, wait>>

CacheRegistered(c) ==
    /\ dirAt[c] = "inserted"
    /\ \/ SetKey(about[c], copy[c])
       \/ "redis" \in faults /\ UNCHANGED <<cached, nodeHeld>>
    /\ Goto(c, "idle", NoRow)
    /\ UNCHANGED <<row, silence, wait>>

-----------------------------------------------------------------------------
(* getNode, called for itself (the relay, GET /:nodeId), by                *)
(* updateNodePublicIp (the relay, when a node connects), or by the latter  *)
(* ahead of processHeartbeat (POST /:nodeId/heartbeat).                    *)

(* Where a call goes once its business with the public address is over: a  *)
(* failure of updateNodePublicIp is swallowed.                             *)
AfterIp(kind) == IF kind = "heartbeat" THEN "beat" ELSE "idle"

(* Where it goes with the node in hand. *)
Found(kind, node, ip) ==
    IF kind = "get" \/ node.ip = ip THEN AfterIp(kind) ELSE "ip"

(* Mutant: a hit is written back, like a miss. *)
GetNodeMutant(c, kind, n, given) ==
    /\ Begin(c, kind, n, IF cached[n] = NoRow THEN "select" ELSE "selected", cached[n], given)
    /\ UNCHANGED <<store, wait>>

(* A hit needs no more of getNode; a miss asks the table. *)
GetNode(c, kind, n, given) ==
    LET next == IF cached[n] = NoRow THEN "select" ELSE Found(kind, cached[n], given.ip) IN
    /\ next # "idle"
    /\ Begin(c, kind, n, next, StillHeld(next, cached[n]), StillWanted(next, given))
    /\ UNCHANGED <<store, wait>>

(* A heartbeat whose address is unknown, or whose GET was rejected. *)
BeatOnly(c, n, status) ==
    /\ Begin(c, "heartbeat", n, "beat", NoRow, [ip |-> NoRow, status |-> status])
    /\ UNCHANGED <<store, wait>>

Select(c) ==
    /\ dirAt[c] = "select"
    /\ \/ Goto(c, "selected", row[about[c]])
       \/ "db" \in faults /\ Goto(c, AfterIp(op[c]), NoRow)
    /\ UNCHANGED <<store, wait>>

NoSuchNode(c) ==
    /\ dirAt[c] = "selected"
    /\ copy[c] = NoRow
    /\ Goto(c, AfterIp(op[c]), NoRow)
    /\ UNCHANGED <<store, wait>>

Refill(c) ==
    /\ dirAt[c] = "selected"
    /\ copy[c] # NoRow
    /\ \/ SetKey(about[c], copy[c]) /\ Goto(c, Found(op[c], copy[c], want[c].ip), copy[c])
       \/ /\ Rejected("redis", SetKey(about[c], copy[c]), UNCHANGED <<cached, nodeHeld>>)
          /\ Goto(c, AfterIp(op[c]), NoRow)
    /\ UNCHANGED <<row, silence, wait>>

(* The whole network_info is written back, the new address in it. *)
SetIp(c) ==
    LET n == about[c] IN
    row' = IF row[n] = NoRow THEN row
           ELSE [row EXCEPT ![n].net = copy[c].net, ![n].ip = want[c].ip]

UpdateIp(c) ==
    /\ dirAt[c] = "ip"
    /\ \/ SetIp(c) /\ Goto(c, "ip.set", NoRow)
       \/ Rejected("db", SetIp(c), UNCHANGED row) /\ Goto(c, AfterIp(op[c]), NoRow)
    /\ UNCHANGED <<silence, cached, nodeHeld, wait>>

-----------------------------------------------------------------------------
(* updateHeartbeat.  The UPDATE of a row that is not there changes nothing *)
(* and is not an error.                                                    *)
SetHeartbeat(c) ==
    LET n == about[c] IN
    IF row[n] = NoRow THEN UNCHANGED <<row, silence>>
    ELSE /\ row' = [row EXCEPT ![n].status = want[c].status]
         /\ silence' = [silence EXCEPT ![n] = 0]

Beat(c) ==
    /\ dirAt[c] = "beat"
    /\ \/ SetHeartbeat(c) /\ Goto(c, "beaten", NoRow)
       \/ Rejected("db", SetHeartbeat(c), UNCHANGED <<row, silence>>) /\ Goto(c, "idle", NoRow)
    /\ UNCHANGED <<cached, nodeHeld, wait>>

DeleteNode(c, n) ==
    /\ Begin(c, "delete", n, "delete", NoRow, Nothing)
    /\ UNCHANGED <<store, wait>>

DeleteRow(c) == row' = [row EXCEPT ![about[c]] = NoRow]

Delete(c) ==
    /\ dirAt[c] = "delete"
    /\ \/ DeleteRow(c) /\ Goto(c, "deleted", NoRow)
       \/ Rejected("db", DeleteRow(c), UNCHANGED row) /\ Goto(c, "idle", NoRow)
    /\ UNCHANGED <<silence, cached, nodeHeld, wait>>

(* After its statement, a call drops the key; the heartbeat follows an     *)
(* address.                                                                *)
Invalidate(c) ==
    /\ dirAt[c] \in {"ip.set", "beaten", "deleted"}
    /\ \/ DelKey(about[c])
       \/ "redis" \in faults /\ UNCHANGED <<cached, nodeHeld>>
    /\ Goto(c, IF dirAt[c] = "ip.set" THEN AfterIp(op[c]) ELSE "idle", NoRow)
    /\ UNCHANGED <<row, silence, wait>>

-----------------------------------------------------------------------------
(* The clean-up task: markInactiveNodesOffline, then removeInactiveNodes.  *)
Sweep(c) ==
    /\ wait = SweepEvery
    /\ Begin(c, "sweep", NoRow, "mark", NoRow, Nothing)
    /\ wait' = 0
    /\ UNCHANGED <<faults, store>>

(* Mutant: the limit is one off. *)
OverdueMutant(S, limit) ==
    {T \in SUBSET {n \in S : silence[n] + 1 >= limit} :
        \A n \in S : silence[n] > limit => n \in T}

(* The rows in S that a query for more than `limit' of silence may return. *)
Overdue(S, limit) ==
    {T \in SUBSET {n \in S : silence[n] >= limit} :
        \A n \in S : silence[n] > limit => n \in T}

SweepRows(c, T, label) ==
    /\ dirAt' = [dirAt EXCEPT ![c] = label]
    /\ todo' = [todo EXCEPT ![c] = T]
    /\ UNCHANGED <<op, about, copy, want, dirLate>>

(* Mutant: degraded nodes are never marked. *)
ListedIdsMutant == {n \in NodeIds : row[n] # NoRow /\ row[n].status = "online"}

ListedIds == {n \in NodeIds : OnList(row[n])}

(* Mutant: nodes already offline are never removed. *)
KnownIdsMutant == {n \in NodeIds : OnList(row[n])}

KnownIds == {n \in NodeIds : row[n] # NoRow}

(* Mutant: a status that nothing else knows. *)
MarkRowsMutant(T) == row' = [n \in NodeIds |-> IF n \in T THEN [row[n] EXCEPT !.status = "inactive"]
                                               ELSE row[n]]

MarkRows(T) == row' = [n \in NodeIds |-> IF n \in T THEN [row[n] EXCEPT !.status = "offline"]
                                         ELSE row[n]]
RemoveRows(T) == row' = [n \in NodeIds |-> IF n \in T THEN NoRow ELSE row[n]]

MarkOffline(c) ==
    /\ dirAt[c] = "mark"
    /\ \E T \in Overdue(ListedIds, OfflineAfter) :
          \/ MarkRows(T) /\ SweepRows(c, T, "marked")
          \/ Rejected("db", MarkRows(T), UNCHANGED row) /\ Goto(c, "idle", NoRow)
    /\ UNCHANGED <<silence, cached, nodeHeld, wait>>

MarkedDone(c) ==
    /\ dirAt[c] = "marked"
    /\ todo[c] = {}
    /\ SweepRows(c, {}, "remove")
    /\ UNCHANGED <<store, wait>>

RemoveInactive(c) ==
    /\ dirAt[c] = "remove"
    /\ \E T \in Overdue(KnownIds, RemoveAfter) :
          \/ RemoveRows(T) /\ SweepRows(c, T, "removed")
          \/ Rejected("db", RemoveRows(T), UNCHANGED row) /\ Goto(c, "idle", NoRow)
    /\ UNCHANGED <<silence, cached, nodeHeld, wait>>

RemovedDone(c) ==
    /\ dirAt[c] = "removed"
    /\ todo[c] = {}
    /\ Goto(c, "idle", NoRow)
    /\ UNCHANGED <<store, wait>>

(* One key after the other; a rejected DEL ends the sweep. *)
SweepDrop(c, n) ==
    /\ dirAt[c] \in {"marked", "removed"}
    /\ n \in todo[c]
    /\ \/ DelKey(n) /\ SweepRows(c, todo[c] \ {n}, dirAt[c])
       \/ /\ Rejected("redis", DelKey(n), UNCHANGED <<cached, nodeHeld>>)
          /\ Goto(c, "idle", NoRow)
    /\ UNCHANGED <<row, silence, wait>>

-----------------------------------------------------------------------------
(* A key expires at some moment after CacheTtl ticks and before one more. *)
Lapse(n) ==
    /\ cached[n] # NoRow
    /\ nodeHeld[n] = NodeTtl
    /\ DelKey(n)
    /\ UNCHANGED <<faults, row, silence, call, wait>>

(* Half a minute passes.  The clean-up timer has fired if it was due, and  *)
(* no call takes half a minute: that is the one assumption on the speed of *)
(* the server and its stores.                                              *)
Tick ==
    /\ wait < SweepEvery
    /\ \A c \in DirCalls : ~ dirLate[c]
    /\ wait' = wait + 1
    /\ dirLate' = [c \in DirCalls |-> dirAt[c] # "idle"]
    /\ silence' = [n \in NodeIds |-> IF silence[n] = MaxSilence THEN silence[n]
                                     ELSE silence[n] + 1]
    /\ cached' = [n \in NodeIds |-> IF nodeHeld[n] = NodeTtl THEN NoRow ELSE cached[n]]
    /\ nodeHeld' = [n \in NodeIds |-> IF cached'[n] = NoRow THEN 0 ELSE nodeHeld[n] + 1]
    /\ UNCHANGED <<faults, row, dirAt, op, about, copy, want, todo>>

-----------------------------------------------------------------------------
Request(c) ==
    /\ UNCHANGED faults
    /\ \E n \in NodeIds :
          \/ \E r \in Regs, ip \in Ips : Register(c, n, r, ip)
          \/ GetNode(c, "get", n, Nothing)
          \/ \E ip \in Ips : GetNode(c, "ip", n, [ip |-> ip, status |-> NoRow])
          \/ \E ip \in Ips, s \in NodeStatuses :
                GetNode(c, "heartbeat", n, [ip |-> ip, status |-> s])
          \/ \E s \in NodeStatuses : BeatOnly(c, n, s)
          \/ DeleteNode(c, n)

Progress(c) ==
    /\ UNCHANGED faults
    /\ \/ Insert(c) \/ CacheRegistered(c)
       \/ Select(c) \/ NoSuchNode(c) \/ Refill(c) \/ UpdateIp(c)
       \/ Beat(c) \/ Delete(c) \/ Invalidate(c)
       \/ MarkOffline(c) \/ MarkedDone(c) \/ RemoveInactive(c) \/ RemovedDone(c)
       \/ \E n \in NodeIds : SweepDrop(c, n)

Next ==
    \/ Tick
    \/ \E n \in NodeIds : Lapse(n)
    \/ \E c \in DirCalls : Request(c) \/ Sweep(c) \/ Progress(c)

Spec == Init /\ [][Next]_directory

-----------------------------------------------------------------------------
(* Statements made about the directory that it does not keep. *)

(* "When no heartbeat comes for more than 90 seconds, the node is marked   *)
(* offline" (PROTOCOL.md:150): a sweep leaves no row on the list that has  *)
(* been silent for OfflineAfter = 4 ticks, more than 90 seconds.           *)
OfflineAfterNinetySeconds ==
    [][\A c \in DirCalls : dirAt[c] = "mark" /\ dirAt'[c] = "marked" =>
         \A n \in NodeIds : silence[n] = OfflineAfter => ~ OnList(row'[n])]_directory

(* The heartbeat "maintains the node's being alive" (PROTOCOL.md:148): a   *)
(* node whose heartbeat was answered "ok" is in the table.                 *)
HeartbeatKeepsNode ==
    [][\A c \in DirCalls : dirAt[c] = "beat" /\ dirAt'[c] = "beaten" =>
         row'[about[c]] # NoRow]_directory

(* "Update networkInfo with new public IP" (NodeRegistry.ts:130): the rest *)
(* of the network information stays what it was.                           *)
OnlyTheIpIsUpdated ==
    [][\A c \in DirCalls : dirAt[c] = "ip" /\ dirAt'[c] = "ip.set" /\ row[about[c]] # NoRow =>
         row'[about[c]].net = row[about[c]].net]_directory
=============================================================================
