------------------------ MODULE ConnectionManagerProofs ------------------------
(***************************************************************************)
(* The invariants of ConnectionManager, for any number of attempts, of     *)
(* retries and of heartbeats in flight.  Their conjunction is inductive:   *)
(* that a registered node keeps its loop (Attended) rests on there being   *)
(* one loop to stop (OneHeartbeatLoop), and both rest on the types.        *)
(***************************************************************************)
EXTENDS ConnectionManager, TLAPS

IInv == TypeOK /\ OneHeartbeatLoop /\ Attended

(* A new manager satisfies the invariant. *)
LEMMA InitIInv == Init => IInv
<1> SUFFICES ASSUME Init PROVE IInv
  OBVIOUS
<1>1. TypeOK
  <2>1. /\ attempts \in 0 .. MaxAttempts
        /\ tries \in 0 .. Retries - 1
        /\ 0 \in 0 .. MaxInFlight + 1
    BY ConnectionConstants DEF Init
  <2>2. /\ inflight \in [Requests -> 0 .. MaxInFlight + 1]
        /\ inflight["register"] =< 1 /\ inflight["unregister"] =< 1
    BY <2>1 DEF Init, Requests
  <2>3. beating \in [Loops -> Nat]
    BY DEF Init
  <2>4. /\ status \in Statuses
        /\ handle \in Loops \cup {"none"}
        /\ server \in {"flaky", "up", "down"}
        /\ known \in BOOLEAN
        /\ pending \in BOOLEAN
    BY DEF Init, Statuses
  <2> QED  BY <2>1, <2>2, <2>3, <2>4 DEF TypeOK
<1>2. OneHeartbeatLoop
  BY DEF Init, OneHeartbeatLoop, Loops
<1>3. Attended
  BY DEF Init, Attended, Requests, Loops
<1> QED  BY <1>1, <1>2, <1>3 DEF IInv

(* Clearing the recorded interval stops whatever runs. *)
LEMMA ClearedNone ==
  ASSUME IInv
  PROVE  Cleared = [l \in Loops |-> 0]
<1>1. beating = [l \in Loops |-> IF l = handle THEN 1 ELSE 0]
  BY DEF IInv, OneHeartbeatLoop
<1>2. handle \in Loops \cup {"none"}
  BY DEF IInv, TypeOK
<1>3. CASE handle = "none"
  BY <1>1, <1>3 DEF Cleared, Loops
<1>4. CASE handle # "none"
  <2>1. handle \in Loops /\ 1 - 1 = 0
    BY <1>2, <1>4
  <2>2. Cleared = [beating EXCEPT ![handle] = beating[handle] - 1]
    BY <1>4 DEF Cleared
  <2>3. beating[handle] - 1 = 0
    BY <1>1, <2>1
  <2> QED  BY <1>1, <2>1, <2>2, <2>3
<1> QED  BY <1>3, <1>4

(* Setting an interval leaves one, of the new kind, on the record. *)
LEMMA SetLoopOne ==
  ASSUME IInv, NEW k \in Loops, SetLoop(k)
  PROVE  /\ handle' = k
         /\ OneHeartbeatLoop'
         /\ beating' \in [Loops -> Nat]
<1>1. handle' = k /\ beating' = [Cleared EXCEPT ![k] = @ + 1]
  BY DEF SetLoop
<1>2. beating' = [l \in Loops |-> IF l = k THEN 1 ELSE 0]
  <2>1. 0 + 1 = 1
    OBVIOUS
  <2> QED  BY <1>1, <2>1, ClearedNone
<1>3. OneHeartbeatLoop'
  BY <1>1, <1>2 DEF OneHeartbeatLoop
<1>4. beating' \in [Loops -> Nat]
  BY <1>2
<1> QED  BY <1>1, <1>3, <1>4

(* Stopping the loop leaves none. *)
LEMMA StopLoopNone ==
  ASSUME IInv, beating' = Cleared, handle' = "none"
  PROVE  /\ OneHeartbeatLoop'
         /\ beating' \in [Loops -> Nat]
<1>1. beating' = [l \in Loops |-> 0]
  BY ClearedNone
<1>2. OneHeartbeatLoop'
  BY <1>1 DEF OneHeartbeatLoop, Loops
<1> QED  BY <1>1, <1>2

(* Scheduling ends in "reconnecting" with a timer, or in "error". *)
LEMMA ScheduleOutcome ==
  ASSUME IInv, ScheduleReconnect
  PROVE  /\ attempts' \in 0 .. MaxAttempts
         /\ pending' \in BOOLEAN
         /\ \/ status' = "reconnecting" /\ pending'
            \/ status' = "error"
<1>1. attempts \in 0 .. MaxAttempts /\ MaxAttempts \in Nat
  BY ConnectionConstants DEF IInv, TypeOK
<1>2. CASE attempts >= MaxAttempts
  BY <1>1, <1>2 DEF ScheduleReconnect
<1>3. CASE ~ (attempts >= MaxAttempts)
  <2>1. attempts' = attempts + 1 /\ pending' = TRUE /\ status' = "reconnecting"
    BY <1>3 DEF ScheduleReconnect
  <2>2. attempts + 1 \in 0 .. MaxAttempts
    BY <1>1, <1>3
  <2> QED  BY <2>1, <2>2
<1> QED  BY <1>2, <1>3

(* An answer, good or bad, takes one request of its kind away. *)
LEMMA AnswerTypes ==
  ASSUME IInv, NEW q \in Requests, Answered(q) \/ Failed(q)
  PROVE  /\ inflight' \in [Requests -> 0 .. MaxInFlight + 1]
         /\ inflight'["register"] =< 1 /\ inflight'["unregister"] =< 1
         /\ \A p \in Requests : p # q => inflight'[p] = inflight[p]
         /\ inflight[q] > 0 /\ inflight'[q] = inflight[q] - 1
<1>1. /\ inflight \in [Requests -> 0 .. MaxInFlight + 1]
      /\ inflight["register"] =< 1 /\ inflight["unregister"] =< 1
      /\ MaxInFlight \in Nat
  BY ConnectionConstants DEF IInv, TypeOK
<1>2. inflight[q] > 0 /\ inflight' = [inflight EXCEPT ![q] = inflight[q] - 1]
  BY DEF Answered, Failed
<1>3. inflight[q] - 1 \in 0 .. MaxInFlight + 1 /\ inflight[q] - 1 =< inflight[q]
  BY <1>1, <1>2
<1>4. inflight' \in [Requests -> 0 .. MaxInFlight + 1]
  BY <1>1, <1>2, <1>3
<1>5. /\ \A p \in Requests : p # q => inflight'[p] = inflight[p]
      /\ inflight'[q] = inflight[q] - 1
  BY <1>1, <1>2
<1>6. /\ inflight'["register"] =< 1 /\ inflight'["unregister"] =< 1
  <2>1. \A p \in Requests : inflight'[p] = inflight[p] \/ inflight'[p] = inflight[p] - 1
    BY <1>5
  <2>2. {"register", "unregister"} \subseteq Requests
    BY DEF Requests
  <2> QED  BY <1>1, <2>1, <2>2
<1> QED  BY <1>2, <1>4, <1>5, <1>6

(* Every step preserves the invariant. *)
LEMMA NextIInv == IInv /\ [Next]_vars => IInv'
<1> SUFFICES ASSUME IInv, [Next]_vars PROVE IInv'
  OBVIOUS
<1> USE ConnectionConstants
<1>T. TypeOK /\ OneHeartbeatLoop /\ Attended
  BY DEF IInv
<1>R. Loops \subseteq Requests /\ {"register", "probe", "unregister"} \subseteq Requests
  BY DEF Requests
<1>1. CASE Register
  BY <1>1, <1>T DEF Register, IInv, TypeOK, OneHeartbeatLoop, Attended, Send, timers,
     Requests, Loops, Statuses
<1>2. CASE Registered
  <2>1. SetLoop("full") /\ "full" \in Loops
    BY <1>2 DEF Registered, Loops
  <2>2. handle' = "full" /\ OneHeartbeatLoop' /\ beating' \in [Loops -> Nat]
    BY <2>1, SetLoopOne
  <2>3. TypeOK'
    BY <1>2, <1>T, <2>2 DEF Registered, TypeOK, Requests, Loops, Statuses
  <2>4. Attended'
    BY <1>2, <2>2 DEF Registered, Attended
  <2> QED  BY <2>2, <2>3, <2>4 DEF IInv
<1>3. CASE RegisterRetries
  BY <1>3, <1>T DEF RegisterRetries, IInv, TypeOK, OneHeartbeatLoop, Attended, state, timers
<1>4. CASE RegisterFails
  <2>1. Failed("register")
    BY <1>4 DEF RegisterFails
  <2>2. TypeOK'
    BY <1>4, <1>T, <1>R, <2>1, AnswerTypes DEF RegisterFails, TypeOK, timers, Statuses
  <2>3. Attended' /\ OneHeartbeatLoop'
    BY <1>4, <1>T, <1>R, <2>1, AnswerTypes
       DEF RegisterFails, Attended, OneHeartbeatLoop, timers
  <2> QED  BY <2>2, <2>3 DEF IInv
<1>5. ASSUME NEW k \in Loops, IntervalFires(k) PROVE IInv'
  BY <1>5, <1>T DEF IntervalFires, Send, IInv, TypeOK, OneHeartbeatLoop, Attended, state,
     timers, Requests, Loops
<1>6. CASE FullAnswered
  <2>1. /\ OneHeartbeatLoop'
        /\ beating' \in [Loops -> Nat]
        /\ handle' \in Loops \cup {"none"}
        /\ handle # "none" => handle' # "none"
    <3>1. CASE SetLoop("plain")
      BY <3>1, SetLoopOne DEF Loops
    <3>2. CASE UNCHANGED <<handle, beating>>
      BY <3>2, <1>T DEF TypeOK, OneHeartbeatLoop
    <3> QED  BY <1>6, <3>1, <3>2 DEF FullAnswered
  <2>2. Answered("full") /\ "full" \in Loops
    BY <1>6 DEF FullAnswered, Loops
  <2>3. TypeOK'
    BY <1>6, <1>T, <1>R, <2>1, <2>2, AnswerTypes DEF FullAnswered, TypeOK, state
  <2>4. Attended'
    BY <1>6, <1>T, <1>R, <2>1, <2>2, AnswerTypes DEF FullAnswered, Attended, state
  <2> QED  BY <2>1, <2>3, <2>4 DEF IInv
<1>7. CASE FullFailed
  <2>1. Failed("full") /\ "full" \in Loops
    BY <1>7 DEF FullFailed, Loops
  <2>2. CASE ScheduleReconnect
    <3>1. TypeOK'
      BY <1>7, <1>T, <1>R, <2>1, <2>2, AnswerTypes, ScheduleOutcome
         DEF FullFailed, TypeOK, Statuses
    <3>2. Attended' /\ OneHeartbeatLoop'
      BY <1>7, <1>T, <1>R, <2>1, <2>2, AnswerTypes, ScheduleOutcome
         DEF FullFailed, Attended, OneHeartbeatLoop
    <3> QED  BY <3>1, <3>2 DEF IInv
  <2>3. CASE UNCHANGED <<status, pending, attempts>>
    <3>1. TypeOK'
      BY <1>7, <1>T, <1>R, <2>1, <2>3, AnswerTypes DEF FullFailed, TypeOK
    <3>2. Attended' /\ OneHeartbeatLoop'
      BY <1>7, <1>T, <1>R, <2>1, <2>3, AnswerTypes DEF FullFailed, Attended, OneHeartbeatLoop
    <3> QED  BY <3>1, <3>2 DEF IInv
  <2> QED  BY <1>7, <2>2, <2>3 DEF FullFailed
<1>8. CASE PlainAnswered
  <2>1. Answered("plain") /\ "plain" \in Loops
    BY <1>8 DEF PlainAnswered, Loops
  <2>2. TypeOK'
    BY <1>8, <1>T, <1>R, <2>1, AnswerTypes DEF PlainAnswered, TypeOK, state, timers
  <2>3. Attended' /\ OneHeartbeatLoop'
    BY <1>8, <1>T, <1>R, <2>1, AnswerTypes
       DEF PlainAnswered, Attended, OneHeartbeatLoop, state, timers
  <2> QED  BY <2>2, <2>3 DEF IInv
<1>9. CASE PlainFailed
  <2>1. Failed("plain") /\ "plain" \in Loops
    BY <1>9 DEF PlainFailed, Loops
  <2>2. TypeOK'
    BY <1>9, <1>T, <1>R, <2>1, AnswerTypes, ScheduleOutcome DEF PlainFailed, TypeOK, Statuses
  <2>3. Attended' /\ OneHeartbeatLoop'
    BY <1>9, <1>T, <1>R, <2>1, AnswerTypes, ScheduleOutcome
       DEF PlainFailed, Attended, OneHeartbeatLoop
  <2> QED  BY <2>2, <2>3 DEF IInv
<1>10. CASE ReconnectFires
  <2>1. CASE known /\ Send("probe")
    <3>1. inflight["probe"] + 1 \in 0 .. MaxInFlight + 1
      BY <1>10, <1>T, <1>R DEF ReconnectFires, TypeOK
    <3>2. /\ inflight' \in [Requests -> 0 .. MaxInFlight + 1]
          /\ inflight'["probe"] > 0
          /\ \A q \in Requests : q # "probe" => inflight'[q] = inflight[q]
      BY <1>T, <1>R, <2>1, <3>1 DEF Send, TypeOK
    <3>3. TypeOK'
      BY <1>10, <1>T, <1>R, <3>2 DEF ReconnectFires, TypeOK, state
    <3>4. Attended' /\ OneHeartbeatLoop'
      BY <1>10, <1>T, <1>R, <3>2 DEF ReconnectFires, Attended, OneHeartbeatLoop, state
    <3> QED  BY <3>3, <3>4 DEF IInv
  <2>2. CASE ~ known /\ UNCHANGED inflight
    BY <1>10, <1>T, <2>2 DEF ReconnectFires, IInv, TypeOK, OneHeartbeatLoop, Attended, state
  <2> QED  BY <1>10, <2>1, <2>2 DEF ReconnectFires
<1>11. CASE ProbeAnswered
  <2>1. Answered("probe")
    BY <1>11 DEF ProbeAnswered
  <2>2. TypeOK'
    BY <1>11, <1>T, <1>R, <2>1, AnswerTypes DEF ProbeAnswered, TypeOK, timers, Statuses
  <2>3. Attended' /\ OneHeartbeatLoop'
    BY <1>11, <1>T, <1>R, <2>1, AnswerTypes
       DEF ProbeAnswered, Attended, OneHeartbeatLoop, timers
  <2> QED  BY <2>2, <2>3 DEF IInv
<1>12. CASE ProbeFailed
  <2>1. Failed("probe")
    BY <1>12 DEF ProbeFailed
  <2>2. TypeOK'
    BY <1>12, <1>T, <1>R, <2>1, AnswerTypes, ScheduleOutcome DEF ProbeFailed, TypeOK, Statuses
  <2>3. Attended' /\ OneHeartbeatLoop'
    BY <1>12, <1>T, <1>R, <2>1, AnswerTypes, ScheduleOutcome
       DEF ProbeFailed, Attended, OneHeartbeatLoop
  <2> QED  BY <2>2, <2>3 DEF IInv
<1>13. CASE Disconnect
  <2>1. OneHeartbeatLoop' /\ beating' \in [Loops -> Nat]
    BY <1>13, StopLoopNone DEF Disconnect
  <2>2. TypeOK'
    <3>1. /\ inflight' \in [Requests -> 0 .. MaxInFlight + 1]
          /\ inflight'["register"] =< 1 /\ inflight'["unregister"] =< 1
      BY <1>13, <1>T, <1>R DEF Disconnect, Send, TypeOK
    <3>2. attempts' \in 0 .. MaxAttempts /\ status' \in Statuses
      BY <1>13, <1>T DEF Disconnect, TypeOK, Statuses
    <3> QED  BY <1>13, <1>T, <2>1, <3>1, <3>2 DEF Disconnect, TypeOK
  <2>3. Attended'
    BY <1>13, <1>T DEF Disconnect, Send, TypeOK, Attended, Requests, Loops
  <2> QED  BY <2>1, <2>2, <2>3 DEF IInv
<1>14. CASE Unregistered
  <2>1. Answered("unregister") \/ Failed("unregister")
    BY <1>14 DEF Unregistered
  <2>2. TypeOK'
    BY <1>14, <1>T, <1>R, <2>1, AnswerTypes DEF Unregistered, TypeOK, timers, Statuses
  <2>3. Attended' /\ OneHeartbeatLoop'
    BY <1>14, <1>T DEF Unregistered, Attended, OneHeartbeatLoop, timers
  <2> QED  BY <2>2, <2>3 DEF IInv
<1>15. CASE Settle
  BY <1>15, <1>T DEF Settle, IInv, TypeOK, OneHeartbeatLoop, Attended, state, timers
<1>16. CASE UNCHANGED vars
  BY <1>16, <1>T DEF vars, state, timers, IInv, TypeOK, OneHeartbeatLoop, Attended
<1> QED
  BY <1>1, <1>2, <1>3, <1>4, <1>5, <1>6, <1>7, <1>8, <1>9, <1>10, <1>11, <1>12, <1>13, <1>14,
     <1>15, <1>16 DEF Next, Finish

(* The type invariant. *)
THEOREM TypeCorrect == Spec => []TypeOK
<1>1. IInv => TypeOK
  BY DEF IInv
<1> QED  BY InitIInv, NextIInv, <1>1, PTL DEF Spec

(* One heartbeat loop runs at most, and it is the one that disconnect can  *)
(* stop, however requests, answers and timers interleave.                  *)
THEOREM OneLoop == Spec => []OneHeartbeatLoop
<1>1. IInv => OneHeartbeatLoop
  BY DEF IInv
<1> QED  BY InitIInv, NextIInv, <1>1, PTL DEF Spec

(* A registered node keeps its heartbeats until it is disconnected, and    *)
(* one that waits has something under way that will end its waiting.       *)
THEOREM NodesAttended == Spec => []Attended
<1>1. IInv => Attended
  BY DEF IInv
<1> QED  BY InitIInv, NextIInv, <1>1, PTL DEF Spec
=============================================================================
