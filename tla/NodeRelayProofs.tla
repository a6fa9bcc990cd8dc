---------------------------- MODULE NodeRelayProofs ----------------------------
(***************************************************************************)
(* Proofs about NodeRelay: the invariants that MCNodeRelay.cfg checks for  *)
(* two names of sockets, two attempts and batches of three hold for any    *)
(* number of each.  The first part is about the sockets and the buffer,    *)
(* the second about the codec of PacketBatch, which is written by          *)
(* recursion, and the third about what is on its way.                      *)
(***************************************************************************)
EXTENDS NodeRelay, SequenceTheorems, WellFoundedInduction, TLAPS

(* The types of the variables, but for wire and beats. *)
Types ==
    /\ begun \in BOOLEAN /\ ended \in BOOLEAN /\ connected \in BOOLEAN
    /\ sock \in [Sockets -> States]
    /\ ws \in Sockets \cup {None}
    /\ watch \subseteq Sockets
    /\ attempts \in 0 .. MaxAttempts
    /\ retry \in BOOLEAN /\ fallback \in BOOLEAN /\ secure \in BOOLEAN
    /\ buffer \in Seq(Small) /\ Len(buffer) < BatchSize
    /\ batchTimer \in {"off", "set", "fired"}

(* A socket that lives is this.ws, unless it is being closed after         *)
(* disconnect(); before connectToRelay there is none, and nothing to send. *)
Current ==
    /\ \A s \in Sockets : sock[s] \in {"connecting", "open"} => ws = s
    /\ ~ begun => Live = {} /\ ~ retry /\ ~ fallback /\ buffer = <<>>

(* The timer of a batch is set exactly while something is buffered, and    *)
(* then this.ws is a socket that has been open, so that the flush empties  *)
(* the buffer.                                                             *)
Buffered ==
    /\ batchTimer = IF buffer = <<>> THEN "off" ELSE "set"
    /\ buffer # <<>> => ws # None /\ sock[ws] # "connecting"

IInv == Types /\ Current /\ Buffered /\ OneAttempt /\ Attended

(* They hold at first. *)
LEMMA InitIInv == Init => IInv
<1> SUFFICES ASSUME Init PROVE IInv
  OBVIOUS
<1>1. Types
  <2>1. buffer \in Seq(Small) /\ Len(buffer) < BatchSize
    BY RelayAssumption DEF Init
  <2>2. attempts \in 0 .. MaxAttempts
    BY RelayAssumption DEF Init
  <2>3. sock \in [Sockets -> States]
    BY DEF Init, States
  <2> QED  BY <2>1, <2>2, <2>3 DEF Init, Types
<1>2. Live = {}
  BY DEF Init, Live
<1> QED
  BY <1>1, <1>2 DEF Init, IInv, Current, Buffered, OneAttempt, Attended

(* A new socket, when there is no other and nothing in the buffer. *)
LEMMA NewSocketIInv ==
  ASSUME IInv, NewSocket, Live = {}, batchTimer # "set", ~ connected,
         begun' = TRUE, retry' = FALSE, fallback' = FALSE,
         UNCHANGED <<ended, connected, attempts, secure, buffer, batchTimer>>
  PROVE  IInv'
<1>1. PICK s \in Sockets \ (Live \cup {ws}) :
          /\ sock' = [sock EXCEPT ![s] = "connecting"]
          /\ ws' = s
          /\ watch' = watch \cup {s}
  BY DEF NewSocket
<1>2. s # None /\ buffer = <<>>
  BY RelayAssumption DEF IInv, Buffered
<1>3. \A t \in Sockets : sock'[t] = IF t = s THEN "connecting" ELSE "closed"
  BY <1>1 DEF IInv, Types, Live
<1>4. watch = {}
  BY DEF IInv, Types, OneAttempt, Live
<1>5. Types'
  BY <1>1 DEF IInv, Types, States
<1>6. Live' = {s}
  BY <1>1, <1>3 DEF Live
<1>7. Current' /\ Buffered'
  BY <1>1, <1>2, <1>3 DEF IInv, Current, Buffered
<1>8. OneAttempt' /\ Attended'
  BY <1>1, <1>3, <1>4, <1>6 DEF OneAttempt, Attended
<1> QED  BY <1>5, <1>7, <1>8 DEF IInv

(* The calls of connect(). *)
LEMMA ConnectIInv ==
  ASSUME IInv, Start \/ RetryFires \/ FallbackFires
  PROVE  IInv'
<1>1. Live = {} /\ ~ connected
  <2>1. Live = {}
    BY DEF Start, RetryFires, FallbackFires, IInv, Current, OneAttempt
  <2> QED  BY <2>1 DEF IInv, OneAttempt, Types, Live
<1>2. batchTimer # "set"
  <2>1. CASE Start
    BY <2>1 DEF Start, IInv, Current, Buffered
  <2> QED  BY <2>1 DEF RetryFires, FallbackFires
<1>3. begun' = TRUE /\ retry' = FALSE /\ fallback' = FALSE
  BY DEF Start, RetryFires, FallbackFires, IInv, Types, Current, OneAttempt
<1>4. NewSocket /\ UNCHANGED <<ended, connected, attempts, secure, buffer, batchTimer>>
  BY DEF Start, RetryFires, FallbackFires, batch
<1> QED
  BY <1>1, <1>2, <1>3, <1>4, NewSocketIInv

(* The events of a socket. *)
LEMMA SocketIInv ==
  ASSUME IInv, NEW s \in Sockets, Opened(s) \/ TimedOut(s) \/ Gone(s) \/ FallsBack(s)
  PROVE  IInv'
<1>1. \A t \in Live : t = s
  <2>1. CASE TimedOut(s)
    BY <2>1 DEF TimedOut, IInv, OneAttempt, Live
  <2>2. CASE Opened(s) \/ Gone(s) \/ FallsBack(s)
    BY <2>2 DEF Opened, Gone, FallsBack, IInv, OneAttempt, Live
  <2> QED  BY <2>1, <2>2
<1>2. s # None /\ sock[s] # "closed" /\ begun
  BY RelayAssumption DEF Opened, TimedOut, Gone, FallsBack, IInv, OneAttempt, Current, Live
<1>3. Live = {s} /\ ~ retry /\ ~ fallback
  BY <1>1, <1>2 DEF IInv, OneAttempt, Live
<1>4. watch \subseteq {s}
  BY <1>3 DEF IInv, Types, OneAttempt, Live
<1>5. CASE Opened(s)
  <2> USE <1>5 DEF Opened
  <2>1. ws = s
    BY DEF IInv, Current
  <2>2. \A t \in Sockets : sock'[t] = IF t = s THEN "open" ELSE "closed"
    BY <1>3 DEF IInv, Types, Live
  <2>3. Types'
    BY RelayAssumption DEF IInv, Types, States, batch
  <2>4. Live' = {s}
    BY <2>2 DEF Live
  <2>5. Current' /\ Buffered'
    BY <1>2, <2>1, <2>2 DEF IInv, Current, Buffered, batch
  <2>6. OneAttempt' /\ Attended'
    BY <1>2, <1>3, <1>4, <2>1, <2>2, <2>4 DEF OneAttempt, Attended
  <2> QED  BY <2>3, <2>5, <2>6 DEF IInv
<1>6. CASE TimedOut(s)
  <2> USE <1>6 DEF TimedOut
  <2>1. ws \in {s, None} /\ sock[s] \in {"connecting", "closing"}
    BY DEF IInv, OneAttempt
  <2>2. \A t \in Sockets : /\ t # s => sock'[t] = "closed"
                           /\ sock'[s] \in {sock[s], "closing"}
    <3>1. \A t \in Sockets : t # s => sock[t] = "closed"
      BY <1>3 DEF Live
    <3> QED  BY <2>1, <3>1 DEF IInv, Types, CloseWs
  <2>3. Types'
    BY DEF IInv, Types, States, CloseWs, batch
  <2>4. Live' = {s}
    BY <1>2, <2>2, <1>3 DEF Live
  <2>5. Current' /\ Buffered'
    BY <1>2, <2>1, <2>2 DEF IInv, Current, Buffered, batch
  <2>6. OneAttempt' /\ Attended'
    BY <1>2, <1>3, <1>4, <2>1, <2>2, <2>4 DEF IInv, OneAttempt, Attended
  <2> QED  BY <2>3, <2>5, <2>6 DEF IInv
<1>7. CASE Gone(s)
  <2> USE <1>7 DEF Gone, ScheduleReconnect
  <2>1. \A t \in Sockets : sock'[t] = "closed"
    BY <1>3 DEF IInv, Types, Live
  <2>2. Types'
    <3>1. attempts' \in 0 .. MaxAttempts /\ retry' \in BOOLEAN
      <4>1. attempts \in Nat /\ MaxAttempts \in Nat /\ attempts =< MaxAttempts
        BY RelayAssumption DEF IInv, Types
      <4>2. attempts' = IF attempts < MaxAttempts THEN attempts + 1 ELSE attempts
        OBVIOUS
      <4>3. retry' = TRUE \/ retry' = retry
        OBVIOUS
      <4>4. attempts' \in 0 .. MaxAttempts
        BY <4>1, <4>2
      <4>5. retry' \in BOOLEAN
        BY <4>3 DEF IInv, Types
      <4> QED  BY <4>4, <4>5
    <3>2. sock' \in [Sockets -> States]
      BY DEF IInv, Types, States
    <3> QED  BY <3>1, <3>2 DEF IInv, Types
  <2>3. Live' = {} /\ watch' = {}
    BY <1>4, <2>1 DEF Live
  <2>4. Current'
    BY <1>2, <2>1 DEF Current
  <2>5. Buffered'
    BY <2>1 DEF IInv, Types, Buffered
  <2>6. OneAttempt' /\ Attended'
    BY <1>3, <2>3, RelayAssumption DEF IInv, Types, OneAttempt, Attended
  <2> QED  BY <2>2, <2>4, <2>5, <2>6 DEF IInv
<1>8. CASE FallsBack(s)
  <2> USE <1>8 DEF FallsBack
  <2>1. \A t \in Sockets : sock'[t] = "closed"
    BY <1>3 DEF IInv, Types, Live
  <2>2. Types'
    BY DEF IInv, Types, States, batch
  <2>3. Live' = {} /\ watch' = {}
    BY <1>4, <2>1 DEF Live
  <2>4. Current'
    BY <1>2, <2>1 DEF Current
  <2>5. Buffered'
    BY DEF IInv, Current, Buffered, batch
  <2>6. OneAttempt' /\ Attended'
    BY <1>3, <2>3 DEF OneAttempt, Attended
  <2> QED  BY <2>2, <2>4, <2>5, <2>6 DEF IInv
<1> QED  BY <1>5, <1>6, <1>7, <1>8

(* What is said of the sockets is kept by a step that leaves them alone.   *)
LEMMA SameLink ==
  ASSUME IInv, begun' = begun, ended' = ended, UNCHANGED link,
         buffer' \in Seq(Small), Len(buffer') < BatchSize, batchTimer' \in {"off", "set"},
         Buffered', begun \/ buffer' = <<>>
  PROVE  IInv'
<1>1. Types' /\ Current'
  BY DEF link, IInv, Types, Current, Live
<1>2. OneAttempt' /\ Attended'
  BY DEF link, IInv, OneAttempt, Attended, Live
<1> QED  BY <1>1, <1>2 DEF IInv

(* Packets that come, fill a batch, or go with its timer. *)
LEMMA BatchIInv ==
  ASSUME IInv, BatchTimerFires \/ \E p \in Small \cup Large : Incoming(p)
  PROVE  IInv'
<1>1. begun' = begun /\ ended' = ended /\ UNCHANGED link
  BY DEF BatchTimerFires, Incoming
<1>2. begun
  BY DEF BatchTimerFires, Incoming, IInv, Types, Current, Buffered, Live
<1>3. CASE BatchTimerFires
  <2>1. buffer # <<>> /\ ws # None
    BY <1>3 DEF BatchTimerFires, IInv, Buffered
  <2>2. buffer' = <<>> /\ batchTimer' = "off"
    BY <1>3, <2>1 DEF BatchTimerFires, Flush
  <2> QED  BY <1>1, <1>2, <2>2, SameLink, RelayAssumption DEF Buffered
<1>4. ASSUME NEW p \in Small \cup Large, Incoming(p) PROVE IInv'
  <2>1. ws # None /\ sock[ws] = "open" /\ ws' = ws /\ sock' = sock
    BY <1>4 DEF Incoming, link
  <2>2. CASE p \in Small
    <3>1. SendSmall(p)
      BY <1>4, <2>2 DEF Incoming
    <3>2. Append(buffer, p) \in Seq(Small) /\ Append(buffer, p) # <<>>
          /\ Len(Append(buffer, p)) = Len(buffer) + 1
      BY <2>2 DEF IInv, Types
    <3>3. CASE Len(buffer) + 1 >= BatchSize
      <4>1. buffer' = <<>> /\ batchTimer' = "off"
        BY <3>1, <3>2, <3>3, <2>1 DEF SendSmall, Flush
      <4> QED  BY <1>1, <1>2, <4>1, SameLink, RelayAssumption DEF Buffered
    <3>4. CASE ~ (Len(buffer) + 1 >= BatchSize)
      <4>1. buffer' = Append(buffer, p) /\ batchTimer' = "set"
        BY <3>1, <3>4 DEF SendSmall, IInv, Buffered
      <4>2. Len(buffer') < BatchSize
        BY <3>2, <3>4, <4>1, RelayAssumption DEF IInv, Types
      <4>3. Buffered'
        BY <2>1, <3>2, <4>1 DEF Buffered
      <4> QED  BY <1>1, <1>2, <3>2, <4>1, <4>2, <4>3, SameLink
    <3> QED  BY <3>3, <3>4
  <2>3. CASE p \notin Small
    <3>1. UNCHANGED <<buffer, batchTimer>>
      BY <1>4, <2>3 DEF Incoming, SendLarge
    <3>2. Buffered' /\ batchTimer' \in {"off", "set"}
      BY <2>1, <3>1 DEF IInv, Buffered
    <3> QED  BY <1>1, <1>2, <3>1, <3>2, SameLink DEF IInv, Types
  <2> QED  BY <2>2, <2>3
<1> QED  BY <1>3, <1>4

(* disconnect(), which sends what is buffered before it lets the socket go.*)
LEMMA DisconnectIInv ==
  ASSUME IInv, Disconnect
  PROVE  IInv'
<1> USE DEF Disconnect
<1>1. buffer' = <<>> /\ batchTimer' = "off"
  BY DEF IInv, Buffered, Flush
<1>2. \A t \in Sockets : sock'[t] = IF t = ws /\ sock[t] \in {"connecting", "open"}
                                    THEN "closing" ELSE sock[t]
  BY RelayAssumption DEF IInv, Types, CloseWs
<1>3. Types'
  <2>1. buffer' \in Seq(Small) /\ Len(buffer') < BatchSize
    BY <1>1, RelayAssumption
  <2>2. sock' \in [Sockets -> States]
    BY DEF IInv, Types, States, CloseWs
  <2> QED  BY <1>1, <2>1, <2>2 DEF IInv, Types
<1>4. Live' = Live
  BY <1>2 DEF Live
<1>5. \A t \in Sockets : sock'[t] \notin {"connecting", "open"}
  BY <1>2 DEF IInv, Current
<1>6. Current' /\ Buffered' /\ Attended'
  BY <1>1, <1>5 DEF Current, Buffered, Attended
<1>7. OneAttempt'
  <2>1. \A s \in watch : s \in Sockets /\ sock[s] \in {"connecting", "closing"}
    BY DEF IInv, Types, OneAttempt
  <2>2. \A s \in watch : sock'[s] = "closing"
    BY <1>2, <1>5, <2>1
  <2> QED  BY <1>4, <2>2 DEF IInv, OneAttempt
<1> QED  BY <1>3, <1>6, <1>7 DEF IInv

(* Heartbeats, messages that arrive, and the server's settling. *)
LEMMA OtherIInv ==
  ASSUME IInv, UNCHANGED <<begun, ended, link, buffer, batchTimer>>
  PROVE  IInv'
<1>1. Buffered' /\ batchTimer' \in {"off", "set"}
  BY DEF IInv, Buffered, link
<1>2. begun \/ buffer' = <<>>
  BY DEF IInv, Types, Current
<1> QED  BY <1>1, <1>2, SameLink DEF IInv, Types

(* Every step keeps them. *)
LEMMA NextIInv == IInv /\ [Next]_vars => IInv'
<1> SUFFICES ASSUME IInv, [Next]_vars PROVE IInv'
  OBVIOUS
<1>1. CASE UNCHANGED vars
  BY <1>1, OtherIInv DEF vars, batch
<1>2. CASE Start \/ RetryFires \/ FallbackFires
  BY <1>2, ConnectIInv
<1>3. CASE \E s \in Sockets : Opened(s) \/ TimedOut(s) \/ Gone(s) \/ FallsBack(s)
  BY <1>3, SocketIInv
<1>4. CASE BatchTimerFires \/ \E p \in Small \cup Large : Incoming(p)
  BY <1>4, BatchIInv
<1>5. CASE Received \/ NodeBeats \/ ServerBeats \/ ServerAnswers \/ NodeAnswers \/ ServerSettles
  BY <1>5, OtherIInv
  DEF Received, NodeBeats, ServerBeats, ServerAnswers, NodeAnswers, ServerSettles, batch
<1>6. CASE Disconnect
  BY <1>6, DisconnectIInv
<1> QED  BY <1>1, <1>2, <1>3, <1>4, <1>5, <1>6 DEF Next

(* However attempts end, by a timeout, an error, the fallback to ws or a   *)
(* close, before or after disconnect(), there is one attempt at a time;    *)
(* and until disconnect() there is one while attempts are left.            *)
THEOREM OneAttemptAtATime == Spec => []OneAtATime
<1>1. IInv => OneAtATime
  BY DEF IInv, OneAtATime
<1>2. QED
  BY <1>1, InitIInv, NextIInv, PTL DEF Spec

(* Packets in the buffer have a timer that sends them, for every size of   *)
(* batch, and nothing is buffered beyond a batch.                          *)
THEOREM NoneIsForgotten == Spec => [](BufferedAreComing /\ Len(buffer) < BatchSize)
<1>1. IInv => BufferedAreComing /\ Len(buffer) < BatchSize
  BY DEF IInv, Types, Buffered, BufferedAreComing
<1>2. QED
  BY <1>1, InitIInv, NextIInv, PTL DEF Spec

-----------------------------------------------------------------------------
(* The codec.  The library's induction takes an operator as a parameter;   *)
(* what is needed of it follows from the least element of a set.           *)

(* < as a set of pairs, in the form of the library's theorems. *)
Less == {ss \in Nat \X Nat : ss[1] < ss[2]}

(* A set of numbers has a least one. *)
LEMMA Least ==
    ASSUME NEW T \in SUBSET Nat, T # {}
    PROVE  \E x \in T : \A y \in T : ~ (y < x)
<1>1. IsWellFoundedOn(Less, Nat)
  BY NatLessThanWellFounded DEF OpToRel, Less
<1>2. \A a, b \in Nat : a < b => <<a, b>> \in Less
  BY DEF Less
<1>3. \E x \in T : \A y \in T : ~ (<<y, x>> \in Less)
  BY <1>1, WFMin
<1> QED
  BY <1>2, <1>3

(* Induction, of a set of numbers up to n. *)
LEMMA UpTo ==
    ASSUME NEW n \in Nat, NEW G, 0 \in G,
           \A k \in 0 .. n : k # n /\ k \in G => k + 1 \in G
    PROVE  \A k \in 0 .. n : k \in G
<1> DEFINE T == {k \in 0 .. n : k \notin G}
<1> SUFFICES ASSUME T # {} PROVE FALSE
  OBVIOUS
<1>1. PICK x \in T : \A y \in T : ~ (y < x)
  <2>1. T \in SUBSET Nat
    OBVIOUS
  <2> HIDE DEF T
  <2> QED  BY <2>1, Least
<1>2. x \in 1 .. n /\ x \notin G
  OBVIOUS
<1>3. x - 1 \in 0 .. n /\ x - 1 # n /\ x - 1 \notin T /\ (x - 1) + 1 = x
  BY <1>1, <1>2
<1>4. x - 1 \in G
  BY <1>3
<1> QED
  BY <1>2, <1>3, <1>4

(* What is defined by recursion over 0 .. N exists. *)
Follows(g, N, S, c, d) ==
    g \in [0 .. N -> S] /\ g[0] = c /\ \A n \in 1 .. N : g[n] = d[n][g[n - 1]]

(* It exists, by induction over the length of the function. *)
LEMMA Recursion ==
    ASSUME NEW N \in Nat, NEW S, NEW c \in S, NEW d \in [1 .. N -> [S -> S]]
    PROVE  \E g : Follows(g, N, S, c, d)
<1> DEFINE Part(k) == {g \in [0 .. k -> S] :
                          g[0] = c /\ \A n \in 1 .. k : g[n] = d[n][g[n - 1]]}
           G == {k \in 0 .. N : Part(k) # {}}
<1>1. 0 \in G
  <2>1. [n \in 0 .. 0 |-> c] \in Part(0)
    OBVIOUS
  <2> QED  BY <2>1
<1>2. ASSUME NEW k \in 0 .. N, k # N, k \in G
      PROVE  k + 1 \in G
  <2>1. PICK g \in [0 .. k -> S] : g[0] = c /\ \A n \in 1 .. k : g[n] = d[n][g[n - 1]]
    BY <1>2
  <2> DEFINE h == [n \in 0 .. k + 1 |-> IF n = k + 1 THEN d[k + 1][g[k]] ELSE g[n]]
  <2>2. k + 1 \in 1 .. N /\ g[k] \in S /\ d[k + 1][g[k]] \in S
    BY <1>2
  <2>3. h \in [0 .. k + 1 -> S] /\ h[0] = c
    BY <2>1, <2>2
  <2>4. ASSUME NEW n \in 1 .. k + 1
        PROVE  h[n] = d[n][h[n - 1]]
    <3>1. n - 1 \in 0 .. k /\ h[n - 1] = g[n - 1]
      OBVIOUS
    <3>2. CASE n = k + 1
      BY <3>1, <3>2
    <3>3. CASE n # k + 1
      BY <2>1, <3>1, <3>3
    <3> QED  BY <3>2, <3>3
  <2>5. h \in Part(k + 1)
    BY <2>3, <2>4
  <2>6. k + 1 \in 0 .. N
    BY <2>2
  <2> HIDE DEF Part
  <2> QED  BY <2>5, <2>6
<1>3. \A k \in 0 .. N : k \in G
  <2> HIDE DEF G
  <2> QED  BY <1>1, <1>2, UpTo
<1>4. N \in 0 .. N
  OBVIOUS
<1>5. Part(N) # {}
  BY <1>3, <1>4
<1> QED
  BY <1>5 DEF Follows

(* The parts of a batch, each with one packet more. *)
Packs(ps, upTo) ==
    /\ upTo \in [0 .. Len(ps) -> Seq(Nat)]
    /\ upTo[0] = <<>>
    /\ \A n \in 1 .. Len(ps) : upTo[n] = upTo[n - 1] \o <<Len(ps[n])>> \o ps[n]

(* Packed is the last of them. *)
LEMMA PackedIs ==
    ASSUME NEW ps \in Seq(Seq(Nat))
    PROVE  \E upTo : Packs(ps, upTo) /\ Packed(ps) = upTo[Len(ps)]
<1> DEFINE N == Len(ps)
           Def(g) == g = [n \in 0 .. N |-> IF n = 0 THEN <<>>
                                           ELSE g[n - 1] \o <<Len(ps[n])>> \o ps[n]]
           upTo == CHOOSE g : Def(g)
<1>1. N \in Nat /\ \A n \in 1 .. N : ps[n] \in Seq(Nat) /\ <<Len(ps[n])>> \in Seq(Nat)
  OBVIOUS
<1>2. \E g : Def(g)
  <2> DEFINE d == [n \in 1 .. N |-> [s \in Seq(Nat) |-> s \o <<Len(ps[n])>> \o ps[n]]]
             c == <<>>
  <2>1. c \in Seq(Nat) /\ d \in [1 .. N -> [Seq(Nat) -> Seq(Nat)]]
    BY <1>1
  <2>2. \A n \in 1 .. N, s \in Seq(Nat) : d[n][s] = s \o <<Len(ps[n])>> \o ps[n]
    OBVIOUS
  <2>3. PICK g \in [0 .. N -> Seq(Nat)] : g[0] = c /\ \A n \in 1 .. N : g[n] = d[n][g[n - 1]]
    <3> DEFINE S == Seq(Nat)
    <3>2. N \in Nat /\ c \in S /\ d \in [1 .. N -> [S -> S]]
      BY <1>1, <2>1
    <3> HIDE DEF d, c, N, S
    <3>3. \E g : Follows(g, N, S, c, d)
      BY <3>2, Recursion
    <3>1. \E g \in [0 .. N -> Seq(Nat)] : g[0] = c /\ \A n \in 1 .. N : g[n] = d[n][g[n - 1]]
      BY <3>3 DEF S, Follows
    <3> QED  BY <3>1
  <2> HIDE DEF d
  <2>4. \A n \in 1 .. N : n - 1 \in 0 .. N
    BY <1>1
  <2>5. \A n \in 1 .. N : g[n] = g[n - 1] \o <<Len(ps[n])>> \o ps[n]
    BY <2>2, <2>3, <2>4
  <2>6. Def(g)
    <3> DEFINE b(n) == IF n = 0 THEN <<>> ELSE g[n - 1] \o <<Len(ps[n])>> \o ps[n]
    <3>1. ASSUME NEW n \in 0 .. N PROVE g[n] = b(n)
      <4>1. CASE n = 0
        BY <2>3, <4>1
      <4>2. CASE n # 0
        <5>1. n \in 1 .. N
          BY <1>1, <4>2
        <5> QED  BY <2>5, <4>2, <5>1
      <4> QED  BY <4>1, <4>2
    <3> HIDE DEF b
    <3>2. g = [n \in 0 .. N |-> b(n)]
      BY <2>3, <3>1
    <3> QED  BY <3>2 DEF b
  <2> QED  BY <2>6
<1>3. Def(upTo)
  <2> HIDE DEF Def
  <2> QED BY <1>2
<1>4. Packed(ps) = upTo[N]
  BY DEF Packed
<1> HIDE DEF upTo
<1>5. upTo[0] = <<>>
  <2>1. 0 \in 0 .. N
    BY <1>1
  <2> HIDE DEF N
  <2> QED  BY <1>3, <2>1
<1>6. \A n \in 1 .. N : upTo[n] = upTo[n - 1] \o <<Len(ps[n])>> \o ps[n]
  <2> SUFFICES ASSUME NEW n \in 1 .. N
               PROVE  upTo[n] = upTo[n - 1] \o <<Len(ps[n])>> \o ps[n]
    OBVIOUS
  <2>1. n \in 0 .. N /\ n # 0
    BY <1>1
  <2> HIDE DEF N
  <2> QED  BY <1>3, <2>1
<1> DEFINE H == {k \in 0 .. N : upTo[k] \in Seq(Nat)}
<1>7. \A k \in 0 .. N : k \in H
  <2>1. 0 \in H
    <3>1. <<>> \in Seq(Nat) /\ 0 \in 0 .. N
      BY <1>1
    <3> HIDE DEF N
    <3> QED  BY <1>5, <3>1
  <2>2. ASSUME NEW k \in 0 .. N, k # N, k \in H PROVE k + 1 \in H
    <3>1. k + 1 \in 1 .. N /\ (k + 1) - 1 = k
      BY <1>1, <2>2
    <3>2. upTo[k + 1] = upTo[k] \o <<Len(ps[k + 1])>> \o ps[k + 1]
      BY <1>6, <3>1
    <3>3. upTo[k] \in Seq(Nat) /\ ps[k + 1] \in Seq(Nat) /\ <<Len(ps[k + 1])>> \in Seq(Nat)
      BY <1>1, <2>2, <3>1
    <3>4. upTo[k + 1] \in Seq(Nat)
      <4> DEFINE a == upTo[k]
                 b == ps[k + 1]
                 l == <<Len(b)>>
      <4>1. a \in Seq(Nat) /\ b \in Seq(Nat) /\ l \in Seq(Nat)
        BY <3>3
      <4>2. upTo[k + 1] = a \o l \o b
        BY <3>2
      <4> HIDE DEF a, b, l
      <4> QED  BY <4>1, <4>2
    <3> QED  BY <3>1, <3>4
  <2> HIDE DEF H, N
  <2> QED  BY <1>1, <2>1, <2>2, UpTo
<1>8. upTo \in [0 .. N -> Seq(Nat)]
  BY <1>3, <1>7
<1> QED
  BY <1>4, <1>5, <1>6, <1>8 DEF Packs

(* The words of a part of a sequence. *)
LEMMA Cut ==
    ASSUME NEW m \in Seq(Nat), NEW o \in Nat, NEW n \in Nat, o + n =< Len(m)
    PROVE  /\ SubSeq(m, o + 1, o + n) \in Seq(Nat)
           /\ Len(SubSeq(m, o + 1, o + n)) = n
           /\ \A i \in 1 .. n : SubSeq(m, o + 1, o + n)[i] = m[o + i]
<1> DEFINE j == o + 1
           k == o + n
<1>1. j \in Nat /\ k \in Nat /\ k =< Len(m) /\ Len(m) \in Nat
  OBVIOUS
<1>2. \A i \in j .. k : m[i] \in Nat
  <2> SUFFICES ASSUME NEW i \in j .. k PROVE m[i] \in Nat
    OBVIOUS
  <2>1. i \in 1 .. Len(m)
    BY <1>1
  <2> QED  BY <2>1
<1> HIDE DEF j, k
<1>3. /\ SubSeq(m, j, k) \in Seq(Nat)
      /\ Len(SubSeq(m, j, k)) = IF j =< k THEN k - j + 1 ELSE 0
      /\ \A i \in 1 .. k - j + 1 : SubSeq(m, j, k)[i] = m[j + i - 1]
  BY <1>1, <1>2, SubSeqProperties
<1>4. k - j + 1 = n /\ (j =< k \/ n = 0)
  BY DEF j, k
<1>5. \A i \in 1 .. n : j + i - 1 = o + i
  BY DEF j
<1> QED
  BY <1>3, <1>4, <1>5 DEF j, k

(* What the loop has after a round, and a round keeps. *)
Taken == [offset : Nat \ {0}, packets : Seq(Seq(Nat))]

(* A round of the loop leaves such a state. *)
LEMMA TookIs ==
    ASSUME NEW m \in Seq(Nat), NEW r \in Taken
    PROVE  Took(m, r) \in Taken
<1> DEFINE o == r.offset
           q == SubSeq(m, o + 1, o + m[o])
<1>1. o \in Nat \ {0} /\ r.packets \in Seq(Seq(Nat))
  BY DEF Taken
<1>2. ASSUME ~ (o > Len(m) \/ o + m[o] > Len(m))
      PROVE  Took(m, r) \in Taken
  <2>1. o \in 1 .. Len(m) /\ m[o] \in Nat /\ o + m[o] =< Len(m)
    BY <1>1, <1>2
  <2>2. q \in Seq(Nat)
    <3> HIDE DEF o
    <3> QED  BY <1>1, <2>1, Cut
  <2>3. Took(m, r) = [offset |-> o + m[o] + 1, packets |-> Append(r.packets, q)]
    BY <1>2 DEF Took
  <2> HIDE DEF q
  <2>4. Append(r.packets, q) \in Seq(Seq(Nat)) /\ o + m[o] + 1 \in Nat \ {0}
    BY <1>1, <2>1, <2>2
  <2> HIDE DEF o
  <2> QED  BY <2>3, <2>4 DEF Taken
<1>3. CASE o > Len(m) \/ o + m[o] > Len(m)
  BY <1>3 DEF Took
<1> QED
  BY <1>2, <1>3

(* What the loop of handleBatch has read after each round. *)
Reads(m, read) ==
    /\ read[0] = [offset |-> 2, packets |-> <<>>]
    /\ \A n \in 1 .. m[1] : read[n] = Took(m, read[n - 1])

(* Unbatched is what it has after the last round. *)
LEMMA UnbatchedIs ==
    ASSUME NEW m \in Seq(Nat), m # <<>>
    PROVE  \E read : Reads(m, read) /\ Unbatched(m) = read[m[1]].packets
<1> DEFINE N == m[1]
           c == [offset |-> 2, packets |-> <<>>]
           Def(g) == g = [n \in 0 .. N |-> IF n = 0 THEN c ELSE Took(m, g[n - 1])]
           read == CHOOSE g : Def(g)
<1>1. N \in Nat
  OBVIOUS
<1>2. \E g : Def(g)
  <2> DEFINE d == [n \in 1 .. N |-> [r \in Taken |-> Took(m, r)]]
  <2>1. c \in Taken
    BY DEF Taken
  <2>2. d \in [1 .. N -> [Taken -> Taken]]
    BY TookIs
  <2>3. \A n \in 1 .. N, r \in Taken : d[n][r] = Took(m, r)
    OBVIOUS
  <2> HIDE DEF d, c, N
  <2>4. PICK g : Follows(g, N, Taken, c, d)
    BY <1>1, <2>1, <2>2, Recursion
  <2>5. g \in [0 .. N -> Taken] /\ g[0] = c /\ \A n \in 1 .. N : g[n] = d[n][g[n - 1]]
    BY <2>4 DEF Follows
  <2>6. \A n \in 1 .. N : n - 1 \in 0 .. N
    BY <1>1
  <2>7. \A n \in 1 .. N : g[n] = Took(m, g[n - 1])
    BY <2>3, <2>5, <2>6
  <2> DEFINE b(n) == IF n = 0 THEN c ELSE Took(m, g[n - 1])
  <2>8. ASSUME NEW n \in 0 .. N PROVE g[n] = b(n)
    <3>1. CASE n = 0
      BY <2>5, <3>1
    <3>2. CASE n # 0
      <4>1. n \in 1 .. N
        BY <1>1, <3>2
      <4> QED  BY <2>7, <3>2, <4>1
    <3> QED  BY <3>1, <3>2
  <2> HIDE DEF b
  <2>9. g = [n \in 0 .. N |-> b(n)]
    BY <2>5, <2>8
  <2> QED  BY <2>9 DEF b
<1>3. Def(read)
  <2> HIDE DEF Def
  <2> QED BY <1>2
<1>4. Unbatched(m) = read[N].packets
  BY DEF Unbatched
<1> HIDE DEF read, c
<1>5. \A n \in 0 .. N : read[n] = IF n = 0 THEN c ELSE Took(m, read[n - 1])
  BY <1>3
<1>6. 0 \in 0 .. N /\ \A n \in 1 .. N : n \in 0 .. N /\ n # 0
  BY <1>1
<1>7. read[0] = c /\ \A n \in 1 .. N : read[n] = Took(m, read[n - 1])
  BY <1>5, <1>6
<1> QED
  BY <1>4, <1>7 DEF Reads, c

(* The part of a batch that has been packed does not change. *)
LEMMA PartsStay ==
    ASSUME NEW ps \in Seq(Seq(Nat)), NEW upTo, Packs(ps, upTo)
    PROVE  \A k \in 0 .. Len(ps) : \A j \in 0 .. k :
              /\ Len(upTo[j]) =< Len(upTo[k])
              /\ \A i \in 1 .. Len(upTo[j]) : upTo[k][i] = upTo[j][i]
<1> DEFINE N == Len(ps)
           Ext(s, t) == Len(t) =< Len(s) /\ \A i \in 1 .. Len(t) : s[i] = t[i]
           G == {k \in 0 .. N : \A j \in 0 .. k : Ext(upTo[k], upTo[j])}
<1>1. N \in Nat /\ upTo \in [0 .. N -> Seq(Nat)] /\ \A n \in 1 .. N : ps[n] \in Seq(Nat)
  BY DEF Packs
<1>2. \A s \in Seq(Nat) : Ext(s, s)
  OBVIOUS
<1>3. 0 \in G
  <2>1. 0 \in 0 .. N /\ \A j \in 0 .. 0 : j = 0
    BY <1>1
  <2>2. upTo[0] \in Seq(Nat)
    BY <1>1, <2>1
  <2> HIDE DEF Ext, N
  <2> QED  BY <1>2, <2>1, <2>2
<1>4. ASSUME NEW k \in 0 .. N, k # N, k \in G
      PROVE  k + 1 \in G
  <2>1. k + 1 \in 1 .. N /\ k + 1 \in 0 .. N /\ (k + 1) - 1 = k
    BY <1>1, <1>4
  <2> DEFINE a == upTo[k]
             b == ps[k + 1]
             l == <<Len(b)>>
  <2>2. a \in Seq(Nat) /\ b \in Seq(Nat) /\ l \in Seq(Nat)
    <3>1. a \in Seq(Nat) /\ b \in Seq(Nat)
      <4> HIDE DEF N
      <4> QED  BY <1>1, <2>1
    <3> HIDE DEF a, b
    <3> QED  BY <3>1
  <2>3. upTo[k + 1] = a \o l \o b /\ upTo[k + 1] \in Seq(Nat)
    BY <1>1, <2>1 DEF Packs
  <2>4. Ext(upTo[k + 1], a)
    <3> HIDE DEF a, b, l
    <3> QED  BY <2>2, <2>3
  <2>5. ASSUME NEW j \in 0 .. k + 1
        PROVE  Ext(upTo[k + 1], upTo[j])
    <3>1. CASE j = k + 1
      <4> HIDE DEF Ext
      <4> QED  BY <1>2, <2>3, <3>1
    <3>2. CASE j # k + 1
      <4>1. j \in 0 .. k /\ j \in 0 .. N
        BY <1>1, <3>2
      <4>2. Ext(a, upTo[j]) /\ upTo[j] \in Seq(Nat)
        <5> HIDE DEF Ext
        <5> QED  BY <1>1, <1>4, <4>1
      <4>3. \A r, s, t \in Seq(Nat) : Ext(r, s) /\ Ext(s, t) => Ext(r, t)
        OBVIOUS
      <4> HIDE DEF Ext, a
      <4> QED  BY <2>2, <2>3, <2>4, <4>2, <4>3
    <3> QED  BY <3>1, <3>2
  <2> HIDE DEF Ext
  <2> QED  BY <2>1, <2>5
<1>5. \A k \in 0 .. N : k \in G
  <2> HIDE DEF G, N
  <2> QED  BY <1>1, <1>3, <1>4, UpTo
<1> QED
  BY <1>5

(* The words of two sequences put together. *)
LEMMA Joined ==
    \A s, t \in Seq(Nat) :
        /\ s \o t \in Seq(Nat) /\ Len(s \o t) = Len(s) + Len(t)
        /\ \A i \in 1 .. Len(s) + Len(t) :
              (s \o t)[i] = IF i <= Len(s) THEN s[i] ELSE t[i - Len(s)]
BY ConcatProperties

(* A buffer that flushBatch packs is read by handleBatch as the packets    *)
(* it held, in their order, whatever the packets and however many.         *)
THEOREM BatchIsRead ==
    ASSUME NEW ps \in Seq(Seq(Nat))
    PROVE  /\ Batch(ps) \in Seq(Nat) /\ Batch(ps) # <<>> /\ Batch(ps)[1] = Len(ps)
           /\ Unbatched(Batch(ps)) = ps
<1> DEFINE N == Len(ps)
           m == Batch(ps)
<1>1. PICK upTo : Packs(ps, upTo) /\ Packed(ps) = upTo[N]
  BY PackedIs
<1>2. N \in Nat /\ upTo \in [0 .. N -> Seq(Nat)] /\ upTo[N] \in Seq(Nat)
  BY <1>1 DEF Packs
<1>3. m \in Seq(Nat) /\ m[1] = N /\ Len(m) = 1 + Len(upTo[N])
      /\ \A i \in 1 .. Len(upTo[N]) : m[i + 1] = upTo[N][i]
  <2> DEFINE l == <<N>>
             t == upTo[N]
  <2>1. l \in Seq(Nat) /\ Len(l) = 1 /\ l[1] = N /\ t \in Seq(Nat)
    BY <1>2
  <2>2. m = l \o t
    BY <1>1 DEF Batch
  <2> HIDE DEF l, t, m, N
  <2>5. /\ m \in Seq(Nat) /\ Len(m) = 1 + Len(t)
        /\ \A i \in 1 .. 1 + Len(t) : m[i] = IF i <= 1 THEN l[i] ELSE t[i - 1]
    <3>1. /\ l \o t \in Seq(Nat) /\ Len(l \o t) = Len(l) + Len(t)
          /\ \A i \in 1 .. Len(l) + Len(t) :
                (l \o t)[i] = IF i <= Len(l) THEN l[i] ELSE t[i - Len(l)]
      BY <2>1, Joined
    <3>2. /\ m \in Seq(Nat) /\ Len(m) = Len(l) + Len(t)
          /\ \A i \in 1 .. Len(l) + Len(t) :
                m[i] = IF i <= Len(l) THEN l[i] ELSE t[i - Len(l)]
      BY <2>2, <3>1
    <3> QED  BY <2>1, <3>2
  <2>6. Len(t) \in Nat
    BY <2>1
  <2>3. m \in Seq(Nat) /\ m[1] = N /\ Len(m) = 1 + Len(t)
    BY <2>1, <2>5, <2>6
  <2>4. \A i \in 1 .. Len(t) : m[i + 1] = t[i]
    <3> SUFFICES ASSUME NEW i \in 1 .. Len(t) PROVE m[i + 1] = t[i]
      OBVIOUS
    <3>1. i + 1 \in 1 .. 1 + Len(t) /\ ~ (i + 1 <= 1) /\ (i + 1) - 1 = i
      BY <2>6
    <3> QED  BY <2>5, <3>1
  <2> QED  BY <2>3, <2>4 DEF t
<1>4. PICK read : Reads(m, read) /\ Unbatched(m) = read[m[1]].packets
  <2>1. m # <<>>
    BY <1>2, <1>3
  <2> HIDE DEF m
  <2> QED  BY <1>3, <2>1, UnbatchedIs
<1> HIDE DEF m
<1> DEFINE At(k) == [offset |-> 2 + Len(upTo[k]), packets |-> SubSeq(ps, 1, k)]
           G == {k \in 0 .. N : read[k] = At(k)}
<1>5. 0 \in G
  <2>1. 0 \in 0 .. N /\ upTo[0] = <<>> /\ SubSeq(ps, 1, 0) = <<>>
    BY <1>1, <1>2 DEF Packs
  <2>2. 2 + Len(upTo[0]) = 2
    BY <2>1
  <2>3. read[0] = [offset |-> 2, packets |-> <<>>]
    BY <1>4 DEF Reads
  <2> HIDE DEF N
  <2> QED  BY <2>1, <2>2, <2>3
<1>6. ASSUME NEW k \in 0 .. N, k # N, k \in G
      PROVE  k + 1 \in G
  <2> DEFINE a == upTo[k]
             b == ps[k + 1]
             c == upTo[k + 1]
             t == upTo[N]
             o == 2 + Len(a)
  <2>1. k + 1 \in 1 .. N /\ k + 1 \in 0 .. N /\ (k + 1) - 1 = k
    BY <1>2, <1>6
  <2>2. a \in Seq(Nat) /\ b \in Seq(Nat) /\ c \in Seq(Nat) /\ t \in Seq(Nat)
    <3>1. b \in Seq(Nat)
      BY <2>1
    <3> HIDE DEF N, b
    <3> QED  BY <1>2, <2>1, <3>1
  <2>3. c = a \o <<Len(b)>> \o b
    BY <1>1, <2>1 DEF Packs
  <2>4. Len(c) =< Len(t) /\ \A i \in 1 .. Len(c) : t[i] = c[i]
    <3>1. N \in 0 .. N /\ k + 1 \in 0 .. N
      BY <1>2, <2>1
    <3>3. \A k_ \in 0 .. Len(ps) : \A j \in 0 .. k_ :
              /\ Len(upTo[j]) =< Len(upTo[k_])
              /\ \A i \in 1 .. Len(upTo[j]) : upTo[k_][i] = upTo[j][i]
      BY <1>1, PartsStay
    <3>2. \A j \in 0 .. N : /\ Len(upTo[j]) =< Len(upTo[N])
                            /\ \A i \in 1 .. Len(upTo[j]) : upTo[N][i] = upTo[j][i]
      BY <3>1, <3>3
    <3> HIDE DEF N
    <3> QED  BY <3>1, <3>2
  <2>5. /\ Len(c) = Len(a) + 1 + Len(b) /\ c[Len(a) + 1] = Len(b)
        /\ \A i \in 1 .. Len(b) : c[Len(a) + 1 + i] = b[i]
    <3> DEFINE l == <<Len(b)>>
    <3>1. l \in Seq(Nat) /\ Len(l) = 1 /\ l[1] = Len(b)
      BY <2>2
    <3>2. c = a \o l \o b
      BY <2>3
    <3> DEFINE al == a \o l
    <3>3. c = al \o b
      BY <3>2
    <3> HIDE DEF a, b, c, l
    <3>4. /\ al \in Seq(Nat) /\ Len(al) = Len(a) + Len(l)
          /\ \A i \in 1 .. Len(a) + Len(l) : al[i] = IF i <= Len(a) THEN a[i] ELSE l[i - Len(a)]
      BY <2>2, <3>1, Joined DEF al
    <3> HIDE DEF al
    <3>5. /\ Len(c) = Len(al) + Len(b)
          /\ \A i \in 1 .. Len(al) + Len(b) : c[i] = IF i <= Len(al) THEN al[i] ELSE b[i - Len(al)]
      BY <2>2, <3>3, <3>4, Joined
    <3>6. Len(a) \in Nat /\ Len(b) \in Nat /\ Len(al) = Len(a) + 1
      BY <2>2, <3>1, <3>4
    <3>7. c[Len(a) + 1] = Len(b)
      <4>1. /\ Len(a) + 1 \in 1 .. Len(al) + Len(b) /\ Len(a) + 1 \in 1 .. Len(a) + Len(l)
            /\ Len(a) + 1 <= Len(al) /\ ~ (Len(a) + 1 <= Len(a)) /\ (Len(a) + 1) - Len(a) = 1
        BY <3>1, <3>6
      <4> QED  BY <3>1, <3>4, <3>5, <4>1
    <3>8. ASSUME NEW i \in 1 .. Len(b) PROVE c[Len(a) + 1 + i] = b[i]
      <4>1. /\ Len(a) + 1 + i \in 1 .. Len(al) + Len(b) /\ ~ (Len(a) + 1 + i <= Len(al))
            /\ (Len(a) + 1 + i) - Len(al) = i
        BY <3>6
      <4> QED  BY <3>5, <4>1
    <3> QED  BY <3>5, <3>6, <3>7, <3>8
  <2>6. read[k + 1] = Took(m, At(k))
    <3>1. read[k + 1] = Took(m, read[k])
      BY <1>3, <1>4, <2>1 DEF Reads
    <3> QED  BY <1>6, <3>1
  <2>7. m[o] = Len(b) /\ o + Len(b) =< Len(m) /\ o \in Nat
        /\ \A i \in 1 .. Len(b) : m[o + i] = b[i]
    <3>1. \A i \in 1 .. Len(c) : m[i + 1] = c[i]
      <4> HIDE DEF c, t
      <4>1. \A i \in 1 .. Len(t) : m[i + 1] = t[i]
        BY <1>3 DEF t
      <4> QED  BY <2>2, <2>4, <4>1
    <3>2. Len(m) = 1 + Len(t)
      BY <1>3
    <3> HIDE DEF a, b, c, t
    <3>3. Len(a) + 1 \in 1 .. Len(c) /\ (Len(a) + 1) + 1 = o
      BY <2>2, <2>5
    <3>4. ASSUME NEW i \in 1 .. Len(b) PROVE m[o + i] = b[i]
      <4>1. Len(a) + 1 + i \in 1 .. Len(c) /\ (Len(a) + 1 + i) + 1 = o + i
        BY <2>2, <2>5
      <4> QED  BY <2>5, <3>1, <4>1
    <3>5. Len(a) \in Nat /\ Len(b) \in Nat /\ Len(c) \in Nat /\ Len(t) \in Nat
      BY <2>2
    <3>6. m[o] = Len(b)
      BY <2>5, <3>1, <3>3
    <3>7. o + Len(b) =< Len(m) /\ o \in Nat
      BY <2>4, <2>5, <3>2, <3>5
    <3> QED  BY <3>4, <3>6, <3>7
  <2>8. SubSeq(m, o + 1, o + m[o]) = b
    <3> DEFINE q == SubSeq(m, o + 1, o + m[o])
    <3> HIDE DEF a, b, c, t, o
    <3>1. Len(b) \in Nat /\ m[o] \in Nat /\ o + m[o] =< Len(m) /\ o \in Nat
      BY <2>2, <2>7
    <3>2. m \in Seq(Nat)
      BY <1>3
    <3>3. q \in Seq(Nat) /\ Len(q) = m[o] /\ \A i \in 1 .. m[o] : q[i] = m[o + i]
      BY <3>1, <3>2, Cut
    <3>4. Len(q) = Len(b) /\ \A i \in 1 .. Len(q) : q[i] = b[i]
      BY <2>7, <3>3
    <3> HIDE DEF q
    <3>6. q = b
      BY <2>2, <3>3, <3>4, SeqEqual
    <3> QED  BY <3>6 DEF q
  <2>9. SubSeq(ps, 1, k + 1) = Append(SubSeq(ps, 1, k), b)
    <3> DEFINE S == Seq(Nat)
    <3>1. ps \in Seq(S) /\ k \in 0 .. Len(ps) /\ k + 1 \in 1 .. Len(ps)
      BY <2>1
    <3> HIDE DEF S
    <3> QED  BY <3>1
  <2>10. Took(m, At(k)) = [offset |-> o + m[o] + 1, packets |-> Append(SubSeq(ps, 1, k), b)]
    <3>1. At(k).offset = o /\ At(k).packets = SubSeq(ps, 1, k)
      OBVIOUS
    <3>2. ~ (o > Len(m) \/ o + m[o] > Len(m))
      <4> DEFINE l == Len(b)
                 e == Len(m)
                 w == m[o]
      <4>1. e \in Nat
        BY <1>3
      <4>2. l \in Nat
        BY <2>2
      <4> HIDE DEF b, o, m
      <4>3. w = l /\ o + l =< e /\ o \in Nat
        BY <2>7
      <4> HIDE DEF l, e, w
      <4>4. ~ (o > e \/ o + w > e)
        BY <4>1, <4>2, <4>3
      <4> QED  BY <4>4 DEF e, w
    <3> HIDE DEF At, o, b
    <3> QED  BY <2>8, <3>1, <3>2 DEF Took
  <2>11. o + m[o] + 1 = 2 + Len(c)
    <3> HIDE DEF a, b, c
    <3> QED  BY <2>2, <2>5, <2>7
  <2>12. read[k + 1] = At(k + 1)
    <3> HIDE DEF o, b
    <3> QED  BY <2>6, <2>9, <2>10, <2>11
  <2> HIDE DEF At
  <2> QED  BY <2>1, <2>12
<1>7. \A k \in 0 .. N : k \in G
  <2> HIDE DEF G, N
  <2> QED  BY <1>2, <1>5, <1>6, UpTo
<1>8. read[N].packets = SubSeq(ps, 1, N)
  <2>1. N \in 0 .. N
    BY <1>2
  <2>2. read[N] = At(N)
    BY <1>7, <2>1
  <2>3. At(N).packets = SubSeq(ps, 1, N)
    OBVIOUS
  <2> HIDE DEF N, At
  <2> QED  BY <2>2, <2>3
<1>9. SubSeq(ps, 1, N) = ps
  BY SubSeqFull
<1>10. m # <<>>
  BY <1>2, <1>3
<1> QED
  BY <1>3, <1>4, <1>8, <1>9, <1>10 DEF m

-----------------------------------------------------------------------------
(* What can be on its way: batches of one to BatchSize small packets, and  *)
(* large packets, each alone.                                              *)
Batches == {ps \in Seq(Small) : Len(ps) \in 1 .. BatchSize}

Messages == {[message |-> Batch(ps), packets |-> ps] : ps \in Batches}
            \cup {[message |-> p, packets |-> <<p>>] : p \in Large}

Wired ==
    /\ wire \in Seq(Messages)
    /\ beats \in [server : Nat, node : Nat] /\ beating \in BOOLEAN
    /\ server \in {"flaky", "up", "down"}

WireInv == IInv /\ Wired
(* What a batch or a large packet is, as the reader finds it. *)
LEMMA MessageIs ==
  ASSUME NEW w \in Messages
  PROVE  /\ w \in [message : Seq(Nat), packets : Seq(Small \cup Large)]
         /\ \/ /\ w.message[1] = Len(w.packets) /\ Len(w.packets) \in 1 .. BatchSize
               /\ Unbatched(w.message) = w.packets
            \/ \E p \in Large : w.message = p /\ w.packets = <<p>>
<1>1. Small \subseteq Seq(Nat) /\ Large \subseteq Seq(Nat)
  BY RelayAssumption
<1>2. ASSUME NEW ps \in Batches, w = [message |-> Batch(ps), packets |-> ps]
      PROVE  /\ w \in [message : Seq(Nat), packets : Seq(Small \cup Large)]
             /\ w.message[1] = Len(w.packets) /\ Len(w.packets) \in 1 .. BatchSize
             /\ Unbatched(w.message) = w.packets
  <2>1. ps \in Seq(Small) /\ Len(ps) \in 1 .. BatchSize
    BY DEF Batches
  <2>2. ps \in Seq(Seq(Nat)) /\ ps \in Seq(Small \cup Large)
    BY <1>1, <2>1
  <2>3. /\ Batch(ps) \in Seq(Nat) /\ Batch(ps)[1] = Len(ps)
        /\ Unbatched(Batch(ps)) = ps
    BY <2>2, BatchIsRead
  <2> QED  BY <1>2, <2>1, <2>2, <2>3
<1>3. ASSUME NEW p \in Large, w = [message |-> p, packets |-> <<p>>]
      PROVE  /\ w \in [message : Seq(Nat), packets : Seq(Small \cup Large)]
             /\ w.message = p /\ w.packets = <<p>>
  <2>1. p \in Seq(Nat) /\ <<p>> \in Seq(Small \cup Large)
    BY <1>1
  <2> QED  BY <1>3, <2>1
<1> QED  BY <1>2, <1>3 DEF Messages

(* A message that is sent is added to what is on its way. *)
LEMMA SendWired ==
  ASSUME wire \in Seq(Messages), NEW m, NEW ps,
         [message |-> m, packets |-> ps] \in Messages, Send(m, ps)
  PROVE  wire' \in Seq(Messages)
BY DEF Send

(* What is flushed is a batch, of packets that fit one. *)
LEMMA FlushWired ==
  ASSUME wire \in Seq(Messages), NEW ps \in Seq(Small), Len(ps) =< BatchSize,
         NEW timer, Flush(ps, timer)
  PROVE  wire' \in Seq(Messages)
<1>1. CASE ps = <<>> \/ ws = None
  BY <1>1 DEF Flush
<1>2. CASE ~ (ps = <<>> \/ ws = None)
  <2>1. Len(ps) \in 1 .. BatchSize
    BY <1>2, RelayAssumption
  <2>2. [message |-> Batch(ps), packets |-> ps] \in Messages
    BY <2>1 DEF Messages, Batches
  <2>3. Send(Batch(ps), ps)
    BY <1>2 DEF Flush
  <2> QED  BY <2>2, <2>3, SendWired
<1> QED  BY <1>1, <1>2

(* A packet that comes is buffered, completes a batch or goes alone. *)
LEMMA IncomingWired ==
  ASSUME WireInv, NEW p \in Small \cup Large, Incoming(p)
  PROVE  wire' \in Seq(Messages)
<1>1. wire \in Seq(Messages) /\ buffer \in Seq(Small) /\ Len(buffer) < BatchSize
  BY DEF WireInv, Wired, IInv, Types
<1>2. CASE p \in Small
  <2>1. SendSmall(p)
    BY <1>2 DEF Incoming
  <2>2. CASE Len(buffer) + 1 >= BatchSize
    <3>1. Append(buffer, p) \in Seq(Small) /\ Len(Append(buffer, p)) =< BatchSize
      BY <1>1, <1>2, RelayAssumption
    <3>2. Flush(Append(buffer, p), batchTimer)
      BY <2>1, <2>2 DEF SendSmall
    <3> QED  BY <1>1, <3>1, <3>2, FlushWired
  <2>3. CASE ~ (Len(buffer) + 1 >= BatchSize)
    BY <1>1, <2>1, <2>3 DEF SendSmall
  <2> QED  BY <2>2, <2>3
<1>3. CASE p \notin Small
  <2>1. p \in Large /\ Send(p, <<p>>)
    BY <1>3 DEF Incoming, SendLarge
  <2>2. [message |-> p, packets |-> <<p>>] \in Messages
    BY <2>1 DEF Messages
  <2> QED  BY <1>1, <2>1, <2>2, SendWired
<1> QED  BY <1>2, <1>3

(* The count of heartbeats is one: an answer is sent for one that came. *)
LEMMA BeatsWired ==
  ASSUME Wired, NodeBeats \/ ServerBeats \/ ServerAnswers \/ NodeAnswers
  PROVE  Wired'
<1>1. beats \in [server : Nat, node : Nat] /\ SendBeat \in {0, 1}
  BY DEF Wired, SendBeat
<1>2. wire' \in Seq(Messages)
  BY DEF Wired, NodeBeats, ServerBeats, ServerAnswers, NodeAnswers, batch
<1>3. CASE NodeBeats
  BY <1>1, <1>2, <1>3 DEF NodeBeats, Wired
<1>4. CASE ServerBeats
  BY <1>1, <1>2, <1>4 DEF ServerBeats, Wired
<1>5. CASE ServerAnswers
  BY <1>1, <1>2, <1>5 DEF ServerAnswers, Wired
<1>6. CASE NodeAnswers
  BY <1>1, <1>2, <1>6 DEF NodeAnswers, Wired
<1> QED  BY <1>3, <1>4, <1>5, <1>6

(* Nothing else is ever on its way. *)
LEMMA InitWired == Init => Wired
<1> SUFFICES ASSUME Init PROVE Wired
  OBVIOUS
<1>1. wire \in Seq(Messages)
  BY DEF Init
<1>2. beats \in [server : Nat, node : Nat]
  BY DEF Init
<1> QED
  BY <1>1, <1>2 DEF Init, Wired

LEMMA NextWired == WireInv /\ [Next]_vars => Wired'
<1> SUFFICES ASSUME WireInv, [Next]_vars PROVE Wired'
  OBVIOUS
<1>1. Wired /\ buffer \in Seq(Small) /\ Len(buffer) =< BatchSize
  BY RelayAssumption DEF WireInv, IInv, Types
<1>2. CASE UNCHANGED vars
  BY <1>1, <1>2 DEF vars, batch, Wired
<1>3. CASE Start \/ RetryFires \/ FallbackFires \/ ServerSettles
  BY <1>1, <1>3 DEF Start, RetryFires, FallbackFires, ServerSettles, batch, Wired
<1>4. ASSUME NEW s \in Sockets, Opened(s) \/ TimedOut(s) \/ Gone(s) \/ FallsBack(s)
      PROVE  Wired'
  <2>1. CASE Gone(s)
    <3>1. wire' = <<>> /\ beats' = [server |-> 0, node |-> 0]
      BY <2>1 DEF Gone
    <3>2. wire' \in Seq(Messages)
      BY <3>1
    <3>3. beats' \in [server : Nat, node : Nat]
      BY <3>1
    <3> QED  BY <1>1, <2>1, <3>2, <3>3 DEF Gone, Wired
  <2>2. CASE Opened(s) \/ TimedOut(s) \/ FallsBack(s)
    BY <1>1, <2>2 DEF Opened, TimedOut, FallsBack, batch, Wired
  <2> QED  BY <1>4, <2>1, <2>2
<1>5. ASSUME NEW p \in Small \cup Large, Incoming(p) PROVE Wired'
  <2>1. wire' \in Seq(Messages)
    BY <1>5, IncomingWired
  <2> QED  BY <1>1, <1>5, <2>1 DEF Incoming, Wired
<1>6. CASE BatchTimerFires
  <2>1. wire' \in Seq(Messages)
    BY <1>1, <1>6, FlushWired DEF BatchTimerFires, Wired
  <2> QED  BY <1>1, <1>6, <2>1 DEF BatchTimerFires, Wired
<1>7. CASE Received
  BY <1>1, <1>7 DEF Received, Wired
<1>8. CASE NodeBeats \/ ServerBeats \/ ServerAnswers \/ NodeAnswers
  BY <1>1, <1>8, BeatsWired
<1>9. CASE Disconnect
  <2>1. wire' \in Seq(Messages)
    BY <1>1, <1>9, FlushWired DEF Disconnect, Wired
  <2> QED  BY <1>1, <1>9, <2>1 DEF Disconnect, Wired
<1> QED  BY <1>2, <1>3, <1>4, <1>5, <1>6, <1>7, <1>8, <1>9 DEF Next

LEMMA WireInvariant == Spec => []WireInv
<1>1. Init => WireInv
  BY InitIInv, InitWired DEF WireInv
<1>2. WireInv /\ [Next]_vars => WireInv'
  BY NextIInv, NextWired DEF WireInv
<1> QED
  BY <1>1, <1>2, PTL DEF Spec

(* The variables of a node's relay have their types, with what its         *)
(* messages are: sequences of words that carry the packets they are for.   *)
THEOREM RelayTypes == Spec => []TypeOK
<1>1. WireInv => TypeOK
  <2> SUFFICES ASSUME WireInv PROVE TypeOK
    OBVIOUS
  <2>1. Messages \subseteq [message : Seq(Nat), packets : Seq(Small \cup Large)]
    BY MessageIs
  <2> DEFINE S == [message : Seq(Nat), packets : Seq(Small \cup Large)]
  <2>2. wire \in Seq(S)
    <3>1. wire \in Seq(Messages) /\ Messages \subseteq S
      BY <2>1 DEF WireInv, Wired
    <3> HIDE DEF S
    <3> QED  BY <3>1
  <2> QED  BY <2>2 DEF WireInv, Wired, IInv, Types, TypeOK
<1> QED
  BY <1>1, WireInvariant, PTL

(* What sendData was given for a session comes out of handleBatch, for     *)
(* every batch of at least two packets of any lengths, whatever filled it  *)
(* or flushed it; and a large packet is read as itself.  The hypothesis is *)
(* about the traffic: a packet of MAX_PACKET_SIZE or more does not begin   *)
(* with a word of 2 to 99.  The headers of WireGuard (256 and up) and of   *)
(* IPv4 (17664 and up) do not.                                             *)
THEOREM BatchesReadWhole ==
  ASSUME \A p \in Large : ~ IsBatch(p)
  PROVE  Spec => []BatchesArriveWhole
<1>1. ASSUME NEW w \in Messages, w.message[1] # 1
      PROVE  ReadAs(w.message) = w.packets
  <2>1. CASE \E p \in Large : w.message = p /\ w.packets = <<p>>
    BY <2>1 DEF ReadAs
  <2>2. CASE /\ w.message[1] = Len(w.packets) /\ Len(w.packets) \in 1 .. BatchSize
             /\ Unbatched(w.message) = w.packets
    <3>1. w.message[1] > 1 /\ w.message[1] < 100
      <4> DEFINE n == w.message[1]
      <4>1. n \in 1 .. BatchSize /\ n # 1
        BY <1>1, <2>2
      <4> HIDE DEF n
      <4>2. n > 1 /\ n < 100
        BY <4>1, RelayAssumption
      <4> QED  BY <4>2 DEF n
    <3>2. IsBatch(w.message)
      BY <3>1 DEF IsBatch
    <3> QED  BY <2>2, <3>2 DEF ReadAs
  <2> QED  BY <2>1, <2>2, MessageIs
<1>2. WireInv => BatchesArriveWhole
  <2> SUFFICES ASSUME WireInv, NEW i \in DOMAIN wire, wire[i].message[1] # 1
               PROVE  ReadAs(wire[i].message) = wire[i].packets
    BY DEF BatchesArriveWhole
  <2>1. wire[i] \in Messages
    BY DEF WireInv, Wired
  <2> QED  BY <1>1, <2>1
<1> QED
  BY <1>2, WireInvariant, PTL
=============================================================================
