--------------------------- MODULE ConnectionManager ---------------------------
(***************************************************************************)
(* The connection of a HiggsNode to the coordinating server: class         *)
(* ConnectionManager (higgsnode/src/managers), which registers the node,   *)
(* sends its heartbeats and tries again when they fail, with retryRequest  *)
(* and unregister of ApiClient.                                            *)
(*                                                                         *)
(* A step is what runs between two awaits: an interval or a timer fires, a *)
(* request is answered or fails, a caller asks for something.  Requests    *)
(* are in flight together and are answered in any order.  Durations are    *)
(* left out: a timer that is set fires at some later moment.               *)
(***************************************************************************)
EXTENDS Naturals

CONSTANTS
    MaxAttempts,    \* maxReconnectAttempts
    Retries,        \* attempts of retryRequest
    Replies,        \* whether an answer names another interval than ours
    MaxInFlight     \* bound of the model: heartbeats of a kind in flight

ASSUME ConnectionConstants ==
    /\ MaxAttempts \in Nat
    /\ Retries \in Nat \ {0}
    /\ Replies \subseteq BOOLEAN
    /\ MaxInFlight \in Nat \ {0}

(* The two heartbeat loops: startHeartbeat's, and the one restartHeartbeat *)
(* puts in its place.                                                      *)
Loops == {"full", "plain"}
Requests == Loops \cup {"register", "probe", "unregister"}
Statuses == {"disconnected", "connecting", "connected", "reconnecting", "error"}

VARIABLES
    status,         \* state.status
    known,          \* state.nodeId is set
    attempts,       \* reconnectAttempts
    tries,          \* attempts the register call in flight has behind it
    handle,         \* the loop heartbeatTimer stands for, or "none"
    beating,        \* beating[k]: intervals of kind k that run
    pending,        \* the timeout of reconnectTimer has yet to fire
    inflight,       \* inflight[q]: requests of kind q not yet answered
    server          \* "flaky", or for good "up" or "down"

state == <<status, known>>
timers == <<handle, beating, pending>>
vars == <<state, attempts, tries, timers, inflight, server>>

TypeOK ==
    /\ status \in Statuses
    /\ known \in BOOLEAN
    /\ attempts \in 0 .. MaxAttempts
    /\ tries \in 0 .. Retries - 1
    /\ handle \in Loops \cup {"none"}
    /\ beating \in [Loops -> Nat]
    /\ pending \in BOOLEAN
    /\ inflight \in [Requests -> 0 .. MaxInFlight + 1]
    /\ inflight["register"] =< 1 /\ inflight["unregister"] =< 1
    /\ server \in {"flaky", "up", "down"}

Init ==
    /\ status = "disconnected"
    /\ known = FALSE
    /\ attempts = 0
    /\ tries = 0
    /\ handle = "none"
    /\ beating = [k \in Loops |-> 0]
    /\ pending = FALSE
    /\ inflight = [q \in Requests |-> 0]
    /\ server = "flaky"

-----------------------------------------------------------------------------
Send(q) == inflight' = [inflight EXCEPT ![q] = @ + 1]

(* A request of kind q ends well, or badly. *)
Answered(q) ==
    /\ inflight[q] > 0
    /\ server # "down"
    /\ inflight' = [inflight EXCEPT ![q] = @ - 1]

Failed(q) ==
    /\ inflight[q] > 0
    /\ server # "up"
    /\ inflight' = [inflight EXCEPT ![q] = @ - 1]

(* clearInterval(heartbeatTimer): what runs after it. *)
Cleared == IF handle = "none" THEN beating ELSE [beating EXCEPT ![handle] = @ - 1]

(* Mutant: the new interval does not take the place of the old one. *)
SetLoopMutant(k) ==
    /\ beating' = [beating EXCEPT ![k] = @ + 1]
    /\ handle' = k

SetLoop(k) ==
    /\ beating' = [Cleared EXCEPT ![k] = @ + 1]
    /\ handle' = k

(* Mutant: one attempt too many. *)
ScheduleReconnectLate ==
    IF attempts > MaxAttempts
    THEN /\ status' = "error"
         /\ pending' = FALSE
         /\ UNCHANGED attempts
    ELSE /\ status' = "reconnecting"
         /\ pending' = TRUE
         /\ attempts' = attempts + 1

(* Mutant: attempts are not counted. *)
ScheduleReconnectMutant ==
    IF attempts >= MaxAttempts
    THEN /\ status' = "error"
         /\ pending' = FALSE
         /\ UNCHANGED attempts
    ELSE /\ status' = "reconnecting"
         /\ pending' = TRUE
         /\ UNCHANGED attempts

ScheduleReconnect ==
    IF attempts >= MaxAttempts
    THEN /\ status' = "error"
         /\ pending' = FALSE
         /\ UNCHANGED attempts
    ELSE /\ status' = "reconnecting"
         /\ pending' = TRUE
         /\ attempts' = attempts + 1

-----------------------------------------------------------------------------
(* register, called by one caller at a time. *)
Register ==
    /\ status \notin {"connected", "connecting"}
    /\ inflight["register"] = 0
    /\ status' = "connecting"
    /\ tries' = 0
    /\ Send("register")
    /\ UNCHANGED <<known, attempts, timers, server>>

(* The node is registered and sends its first heartbeat at once. *)
Registered ==
    /\ inflight["register"] > 0
    /\ server # "down"
    /\ inflight["full"] =< MaxInFlight
    /\ inflight' = [inflight EXCEPT !["register"] = 0, !["full"] = @ + 1]
    /\ status' = "connected"
    /\ known' = TRUE
    /\ attempts' = 0
    /\ SetLoop("full")
    /\ UNCHANGED <<tries, pending, server>>

(* retryRequest waits and asks again, until its attempts are used up. *)
RegisterRetries ==
    /\ inflight["register"] > 0
    /\ server # "up"
    /\ tries < Retries - 1
    /\ tries' = tries + 1
    /\ UNCHANGED <<state, attempts, timers, inflight, server>>

RegisterFails ==
    /\ tries = Retries - 1
    /\ Failed("register")
    /\ status' = "error"
    /\ UNCHANGED <<known, attempts, tries, timers, server>>

-----------------------------------------------------------------------------
IntervalFires(k) ==
    /\ beating[k] > 0
    /\ inflight[k] < MaxInFlight
    /\ Send(k)
    /\ UNCHANGED <<state, attempts, tries, timers, server>>

(* The first loop counts the reconnection attempts anew and changes over   *)
(* to the interval the server asks for, if it is not the configured one.   *)
FullAnswered ==
    /\ Answered("full")
    /\ attempts' = 0
    /\ \E other \in Replies :
          IF other THEN SetLoop("plain") ELSE UNCHANGED <<handle, beating>>
    /\ UNCHANGED <<state, tries, pending, server>>

FullFailed ==
    /\ Failed("full")
    /\ IF status = "connected" THEN ScheduleReconnect ELSE UNCHANGED <<status, pending, attempts>>
    /\ UNCHANGED <<known, tries, handle, beating, server>>

PlainAnswered ==
    /\ Answered("plain")
    /\ UNCHANGED <<state, attempts, tries, timers, server>>

(* The second loop reconnects in any state. *)
PlainFailed ==
    /\ Failed("plain")
    /\ ScheduleReconnect
    /\ UNCHANGED <<known, tries, handle, beating, server>>

-----------------------------------------------------------------------------
(* attemptReconnect: a heartbeat that tells whether the server is back. *)
ReconnectFires ==
    /\ pending
    /\ pending' = FALSE
    /\ inflight["probe"] < MaxInFlight
    /\ IF known THEN Send("probe") ELSE UNCHANGED inflight
    /\ UNCHANGED <<state, attempts, tries, handle, beating, server>>

(* Mutant: the status is left to the next heartbeat. *)
ProbeAnsweredMutant ==
    /\ Answered("probe")
    /\ attempts' = 0
    /\ UNCHANGED <<state, tries, timers, server>>

ProbeAnswered ==
    /\ Answered("probe")
    /\ status' = "connected"
    /\ attempts' = 0
    /\ UNCHANGED <<known, tries, timers, server>>

(* Mutant: a failed attempt is the last. *)
ProbeFailedMutant ==
    /\ Failed("probe")
    /\ UNCHANGED <<state, attempts, tries, timers, server>>

ProbeFailed ==
    /\ Failed("probe")
    /\ ScheduleReconnect
    /\ UNCHANGED <<known, tries, handle, beating, server>>

-----------------------------------------------------------------------------
(* disconnect: the timers stop, the server is told, the state is cleared.  *)
(* The clean-up that calls it runs once.                                   *)
Disconnect ==
    /\ inflight["unregister"] = 0
    /\ beating' = Cleared
    /\ handle' = "none"
    /\ pending' = FALSE
    /\ attempts' = 0
    /\ IF known THEN Send("unregister") /\ UNCHANGED status
                ELSE status' = "disconnected" /\ UNCHANGED inflight
    /\ UNCHANGED <<known, tries, server>>

(* unregister swallows a failure. *)
Unregistered ==
    /\ Answered("unregister") \/ Failed("unregister")
    /\ status' = "disconnected"
    /\ known' = FALSE
    /\ UNCHANGED <<attempts, tries, timers, server>>

(* From some moment on every request is answered, or none. *)
Settle ==
    /\ server = "flaky"
    /\ server' \in {"up", "down"}
    /\ UNCHANGED <<state, attempts, tries, timers, inflight>>

-----------------------------------------------------------------------------
Finish ==
    \/ Registered \/ RegisterRetries \/ RegisterFails
    \/ ProbeAnswered \/ ProbeFailed
    \/ Unregistered

Next ==
    \/ Register \/ Disconnect \/ Settle
    \/ \E k \in Loops : IntervalFires(k)
    \/ FullAnswered \/ FullFailed \/ PlainAnswered \/ PlainFailed
    \/ ReconnectFires
    \/ Finish

Spec == Init /\ [][Next]_vars

(* Timers fire, and a request is answered or times out (thirty seconds,    *)
(* ApiClient).  A failure of the second loop sets the reconnect timer anew *)
(* before it fires, but no more than MaxAttempts times in a row.           *)
Fairness ==
    /\ \A k \in Loops : WF_vars(IntervalFires(k))
    /\ WF_vars(FullAnswered \/ FullFailed) /\ WF_vars(PlainAnswered \/ PlainFailed)
    /\ WF_vars(Registered \/ RegisterRetries \/ RegisterFails)
    /\ WF_vars(ProbeAnswered \/ ProbeFailed)
    /\ WF_vars(Unregistered)
    /\ WF_vars(ReconnectFires)

FairSpec == Spec /\ Fairness

-----------------------------------------------------------------------------
(* No heartbeat loop is left running when another takes its place: at most *)
(* one interval runs, the one that stopHeartbeat can stop.                 *)
OneHeartbeatLoop ==
    beating = [k \in Loops |-> IF k = handle THEN 1 ELSE 0]

(* A node is never left to itself: one that waits to be registered or to   *)
(* be reconnected has a request or a timer that goes on with it, and one   *)
(* that has registered sends heartbeats, until it is being disconnected.   *)
Attended ==
    /\ status = "connecting" => inflight["register"] > 0
    /\ known /\ inflight["unregister"] = 0 =>
         /\ handle # "none"
         /\ status = "reconnecting" => pending \/ inflight["probe"] > 0

(* When the server is gone for good, the node stops trying. *)
GivesUp ==
    <>[](server = "down" /\ known) => <>[](status \in {"error", "connecting"})

(* When it is back for good, the node does not go on trying: it is         *)
(* connected, unless it had given up before.                               *)
Recovers ==
    <>[](server = "up" /\ known) => <>[](status \in {"connected", "error"})

(* Trying ends, in one way or the other. *)
TryingEnds == GivesUp /\ Recovers

(* "Остановит все сервисы" (START_WINDOWS11.md): a node that is            *)
(* disconnected stays so until it is registered again.                     *)
DisconnectedStays ==
    [][status = "disconnected" /\ inflight["register"] = 0 =>
         status' \in {"disconnected", "connecting"}]_vars
=============================================================================
