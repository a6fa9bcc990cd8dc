---------------------------- MODULE NodeDirectory ----------------------------
(***************************************************************************)
(* The node directory of bosonserver, as others see it: what is on record  *)
(* of the nodes, in the table and under the Redis keys, what the calls in  *)
(* flight have in hand, and what is promised of it.  The operations are in *)
(* NodeRegistry.                                                           *)
(***************************************************************************)
EXTENDS Naturals

CONSTANTS
    NodeIds,
    Regs,           \* registrations: what a node says of itself each time
    Ips,            \* public addresses the server sees a node come from
    NoRow,
    DirCalls,       \* the calls that may be in flight
    DirWorlds,      \* which stores may reject commands: one set of stores each
    OfflineAfter,   \* markInactiveNodesOffline(2): two minutes
    RemoveAfter,    \* removeInactiveNodes(10): ten minutes
    NodeTtl,        \* CACHE_TTL: one minute
    SweepEvery      \* CLEANUP_INTERVAL_MS: one minute

ASSUME RegistryWorlds == DirWorlds \subseteq SUBSET {"db", "redis"}
ASSUME Durations ==
    /\ {OfflineAfter, RemoveAfter, NodeTtl, SweepEvery} \subseteq Nat \ {0}
    /\ OfflineAfter < RemoveAfter

NodeStatuses == {"online", "degraded", "offline"}
Row == [status : NodeStatuses, key : Regs, net : Regs, ip : Ips]

ASSUME NoRowAssumption == NoRow \notin Row

VARIABLES
    faults,         \* the stores that may reject commands in this behaviour
    row,            \* row[n]: the row of node n, or NoRow
    silence,        \* silence[n]: ticks since the last_heartbeat of n
    cached,         \* cached[n]: the value of key node:n, or NoRow
    nodeHeld,       \* nodeHeld[n]: ticks since that key was set
    dirAt,          \* dirAt[c]: where call c is
    op,             \* op[c]: the operation it performs
    about,          \* about[c]: the node it is about
    copy,           \* copy[c]: the node as the call has read or built it
    want,           \* want[c]: the address or status the call was given
    todo,           \* todo[c]: nodes whose key a sweep has still to drop
    dirLate,        \* dirLate[c]: the call began before the last tick
    wait            \* ticks since the clean-up timer last fired

store     == <<row, silence, cached, nodeHeld>>
call      == <<dirAt, op, about, copy, want, todo, dirLate>>
directory == <<faults, store, call, wait>>

-----------------------------------------------------------------------------
(* getAllActiveNodes and markInactiveNodesOffline: what counts as active.  *)
OnList(node) == node # NoRow /\ node.status \in {"online", "degraded"}

(* While the table answers, a node that falls silent does not keep an      *)
(* active status: the limit of markInactiveNodesOffline, at most one       *)
(* period of the clean-up task, and the ticks that a sweep may take and    *)
(* that rounding costs.                                                    *)
OfflineInTime ==
    "db" \notin faults => \A n \in NodeIds :
        OnList(row[n]) => silence[n] =< OfflineAfter + SweepEvery + 1

(* The cached copy of a silent node follows, though getNode may write back *)
(* a row it read before the sweep, and though a DEL may be rejected: the   *)
(* copy is read within the time above, written within a tick, and expires. *)
CacheFollowsInTime ==
    "db" \notin faults => \A n \in NodeIds :
        OnList(cached[n]) => silence[n] =< OfflineAfter + SweepEvery + NodeTtl + 2

(* The clean-up task marks and removes nobody who was heard of within its  *)
(* limits, whatever heartbeats and registrations run next to it.           *)
SweepsSpareTheHeard ==
    [][\A n \in NodeIds :
         /\ OnList(row[n]) /\ row'[n] # NoRow /\ row'[n].status = "offline" =>
               \/ silence[n] >= OfflineAfter
               \/ \E c \in DirCalls : op[c] = "heartbeat" /\ about[c] = n
                                     /\ want[c].status = "offline"
         /\ row[n] # NoRow /\ row'[n] = NoRow =>
               \/ silence[n] >= RemoveAfter
               \/ \E c \in DirCalls : op[c] = "delete" /\ about[c] = n]_directory

(* While both stores answer, a node that is silent is gone from the table  *)
(* within ten minutes, a period of the clean-up task, and the same ticks   *)
(* (removeInactiveNodes), however often it is asked for meanwhile.         *)
ForgottenInTime ==
    faults = {} => \A n \in NodeIds : row[n] # NoRow => silence[n] =< RemoveAfter + SweepEvery + 1

(* The three limits on what a silent node can pass for: in the table, in   *)
(* the cache, and for a known one.                                         *)
InTime == OfflineInTime /\ CacheFollowsInTime /\ ForgottenInTime
=============================================================================
