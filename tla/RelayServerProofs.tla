-------------------------- MODULE RelayServerProofs --------------------------
(***************************************************************************)
(* Proofs about RelayServer, for any sets of sessions, nodes, sockets and  *)
(* handlers.  The relay takes only steps of SessionManager on its store    *)
(* (UsesSessionManager), so that what is proved of SessionManager is taken *)
(* over here, by way of Store: the same module with its proofs.            *)
(***************************************************************************)
EXTENDS RelayServer, TLAPS

Store == INSTANCE SessionManagerProofs WITH SessionIds <- Ids

-----------------------------------------------------------------------------
(* The invariants. *)

Getting == {"get.redis", "get.db", "get.row", "get.fill", "done"}
Closing == {"close.db", "close.row", "close.evict", "close.del"}

(* A handler works for a socket at the stage that belongs to it, and asks  *)
(* the store about the id of that socket; only one handler admits it,      *)
(* nothing is closed but for a socket that has left, and what is created   *)
(* is a session.                                                           *)
Handlers ==
    /\ \A w \in Sockets : stage[w] # "unused" => target[w] \in Ids
    /\ \A w \in Sockets : stage[w] = "address" => target[w] \in Nodes
    /\ \A c \in Calls : job[c] = "admit" =>
          /\ client[c] \in Sockets /\ stage[client[c]] = "session"
          /\ arg[c] = target[client[c]]
          /\ at[c] \in Getting
    /\ \A c, d \in Calls :
          job[c] = "admit" /\ job[d] = "admit" /\ client[c] = client[d] => c = d
    /\ \A c \in Calls : job[c] = "drop" =>
          /\ client[c] \in Sockets /\ stage[client[c]] = "left"
          /\ arg[c] = target[client[c]]
    /\ \A c \in Calls : at[c] \in Closing => job[c] = "drop"
    /\ \A c \in Calls : job[c] = "create" => arg[c] \in Sessions

(* No session has the id of a node. *)
NodesUnissued == \A n \in Nodes : age[n] = "unissued"

(* What is known of the session of a socket that is about to be admitted.  *)
Live(s) ==
    /\ age[s] # "unissued"
    /\ rows[s] = "active" \/ s \in tainted \cup SM!Removed

Answered ==
    \A c \in Calls :
        job[c] = "admit" /\ at[c] = "done" /\ seen[c] = "active" => Live(arg[c])

StoreInv == SM!TypeOK /\ Store!TruthInv /\ Store!CoherenceInv

(* An interval on record belongs to a socket whose id does not change.     *)
Recorded ==
    /\ RecordsAgree
    /\ \A i \in Ids : heartbeatIntervals[i] # NoSocket => stage[heartbeatIntervals[i]] # "unused"

-----------------------------------------------------------------------------
(* The session store within the relay. *)

(* Both names of the module stand for the same. *)
LEMMA SameStore ==
  /\ SM!Init <=> Store!Init
  /\ SM!Next <=> Store!Next
  /\ SM!TypeOK <=> Store!TypeOK
  /\ SM!vars = Store!vars
<1>1. SM!Init <=> Store!Init
  BY DEF SM!Init, Store!Init
<1>2. SM!Next <=> Store!Next
  BY DEF SM!Next, SM!Environment, SM!Restart, SM!Tick, SM!RedisLapse, SM!Begins, SM!ExpireDelete,
         SM!Stale, SM!CreateInsert, SM!CreateRejected, SM!GetHit, SM!GetMiss, SM!Close,
         SM!Progress, SM!CreateStep, SM!CreateCache, SM!CreateUncached, SM!CreateDone,
         SM!GetStep, SM!GetRedisHit, SM!GetRedisMiss, SM!GetSelect, SM!GetNoRow, SM!GetRow,
         SM!GetFill, SM!GetRejected, SM!CloseStep, SM!CloseUpdate, SM!CloseRejected,
         SM!CloseMark, SM!CloseEvict, SM!CloseEvictRejected, SM!CloseDone, SM!SweepStep,
         SM!StaleSelect, SM!StaleUpdate, SM!SweepRejected, SM!SweepDone, SM!SweepEvict,
         SM!Return, SM!Fresh, SM!Begin, SM!Suspend, SM!SweepWith, SM!LiveRow, SM!CloseRow,
         SM!EvictReady, SM!ExpiredRows, SM!StaleRows, SM!Carried, SM!Removed, SM!Carries,
         SM!Removes, Store!Next, Store!Environment, Store!Restart, Store!Tick, Store!RedisLapse,
         Store!Begins, Store!ExpireDelete, Store!Stale, Store!CreateInsert, Store!CreateRejected,
         Store!GetHit, Store!GetMiss, Store!Close, Store!Progress, Store!CreateStep,
         Store!CreateCache, Store!CreateUncached, Store!CreateDone, Store!GetStep,
         Store!GetRedisHit, Store!GetRedisMiss, Store!GetSelect, Store!GetNoRow, Store!GetRow,
         Store!GetFill, Store!GetRejected, Store!CloseStep, Store!CloseUpdate,
         Store!CloseRejected, Store!CloseMark, Store!CloseEvict, Store!CloseEvictRejected,
         Store!CloseDone, Store!SweepStep, Store!StaleSelect, Store!StaleUpdate,
         Store!SweepRejected, Store!SweepDone, Store!SweepEvict, Store!Return, Store!Fresh,
         Store!Begin, Store!Suspend, Store!SweepWith, Store!LiveRow, Store!CloseRow,
         Store!EvictReady, Store!ExpiredRows, Store!StaleRows, Store!Carried, Store!Removed,
         Store!Carries, Store!Removes
<1>3. SM!TypeOK <=> Store!TypeOK
  BY DEF SM!TypeOK, SM!Copy, SM!Ages, SM!Labels, SM!OnSession,
         Store!TypeOK, Store!Copy, Store!Ages, Store!Labels, Store!OnSession
<1>4. SM!vars = Store!vars
  BY DEF SM!vars, Store!vars
<1> QED  BY <1>1, <1>2, <1>3, <1>4

(* What is proved of a step of SessionManager, in the words of the relay. *)
LEMMA StoreKeeps ==
  ASSUME StoreInv, [SM!Next]_(SM!vars)
  PROVE  StoreInv'
<1>1. [Store!Next]_(Store!vars) /\ Store!TypeOK
  BY SameStore DEF StoreInv, SM!vars, Store!vars
<1>2. Store!TypeOK' /\ Store!TruthInv' /\ Store!CoherenceInv'
  BY <1>1, FaultsAssumption, DistinctIds, Store!NextTypeOK, Store!NextTruthInv,
     Store!NextCoherenceInv DEF StoreInv
<1>3. SM!TypeOK'
  BY <1>2 DEF SM!TypeOK, SM!Copy, SM!Ages, SM!Labels, SM!OnSession,
         Store!TypeOK, Store!Copy, Store!Ages, Store!Labels, Store!OnSession
<1> QED  BY <1>2, <1>3 DEF StoreInv

(* Every step of the relay is one of its session store, or leaves it. *)
LEMMA StoreStep ==
  ASSUME TypeOK, Handlers, [Next]_vars
  PROVE  [SM!Next]_(SM!vars)
<1> USE DEF SM!vars, manager
<1>1. ASSUME NEW c \in Calls, Microtask(c)
      PROVE  SM!Next \/ UNCHANGED SM!vars
  <2>1. CASE StaleBegins(c)
    <3>1. getActiveSessionIds \in SUBSET Ids
      BY DEF getActiveSessionIds
    <3> QED  BY <2>1, <3>1 DEF StaleBegins, SM!Next, SM!Begins
  <2>2. SM!Return(c) => SM!Next
    BY DEF SM!Next
  <2> QED  BY <1>1, <2>1, <2>2 DEF Microtask, AdmitClient, RefuseClient, Dropped, DropThrown,
                                   SessionCreated, Finished, ExpiredCleaned
<1>2. ASSUME NEW c \in Calls, NEW i \in Ids,
             GetSession(c, i) \/ SM!Close(c, i) \/ SM!CreateInsert(c, i) \/ SM!CreateRejected(c, i)
      PROVE  SM!Next
  BY <1>2 DEF GetSession, SM!Next, SM!Begins
<1>3. ASSUME NEW w \in Sockets, SocketEvent(w)
      PROVE  SM!Next \/ UNCHANGED SM!vars
  <2>1. ASSUME NEW c \in Calls, NodeNotFound(w, c) \/ Data(w, c) \/ Closed(w, c) \/ Leave(w, c)
        PROVE  SM!Next \/ UNCHANGED SM!vars
    <3>1. target[w] \in Ids
      BY <2>1 DEF Handlers, NodeNotFound, Data, Closed, Leave
    <3> QED  BY <1>2, <2>1, <3>1 DEF NodeNotFound, Data, Closed, Leave, HandleDisconnection,
                                     DropNode, DropSession
  <2> QED  BY <1>3, <2>1 DEF SocketEvent, Connect, ConnectionStep, NodeFound, NodeOffline,
                             AdmitNode, ClosedUnheard, HeartbeatStops
<1>4. ASSUME NEW c \in Calls, CallEvent(c)
      PROVE  SM!Next
  BY <1>2, <1>4 DEF CallEvent, StoreReply, CleanupBegins, CreateRelaySession, SM!Next,
                    SM!Begins, Ids
<1>5. CASE StoreEvent \/ NodeStatusChanges \/ ShutDown \/ Restart \/ UNCHANGED vars
  BY <1>5 DEF StoreEvent, NodeStatusChanges, ShutDown, Restart, vars, SM!Next,
              SM!Environment, Ids
<1> QED  BY <1>1, <1>3, <1>4, <1>5 DEF Next

-----------------------------------------------------------------------------
(* Types. *)

(* What the relay keeps for itself has its type after every step. *)
LEMMA NextTypeOK ==
  ASSUME TypeOK, Handlers, StoreInv, [Next]_vars
  PROVE  TypeOK'
<1>1. SM!TypeOK'
  BY StoreStep, StoreKeeps DEF StoreInv
<1> USE DEF TypeOK, Stages, Jobs, Enter, Work, Take, Release, maps, sockets, jobs, outside
<1>2. ASSUME NEW w \in Sockets, SocketEvent(w)
      PROVE  TypeOK'
  <2>1. ASSUME NEW id \in Ids, Connect(w, id)
        PROVE  TypeOK'
    BY <1>1, <2>1 DEF Connect
  <2>2. CASE NodeFound(w) \/ NodeOffline(w) \/ ClosedUnheard(w)
    BY <1>1, <2>2 DEF NodeFound, NodeOffline, ClosedUnheard
  <2>3. CASE AdmitNode(w)
    BY <1>1, <2>3 DEF AdmitNode, Admit
  <2>4. CASE HeartbeatStops(w)
    BY <1>1, <2>4 DEF HeartbeatStops
  <2>5. ASSUME NEW c \in Calls, NodeNotFound(w, c) \/ Data(w, c)
        PROVE  TypeOK'
    BY <1>1, <2>5 DEF NodeNotFound, Data
  <2>6. ASSUME NEW c \in Calls, HandleDisconnection(w, c),
               open' \in {open, open \ {w}}, UNCHANGED <<target, outside>>
        PROVE  TypeOK'
    <3>1. CASE DropNode(target[w])
      BY <1>1, <2>6, <3>1 DEF HandleDisconnection, ClearInterval, DropNode
    <3>2. CASE DropSession(c, w, target[w])
      BY <1>1, <2>6, <3>2 DEF HandleDisconnection, ClearInterval, DropSession
    <3> QED  BY <2>6, <3>1, <3>2 DEF HandleDisconnection
  <2> QED
    BY <1>2, <2>1, <2>2, <2>3, <2>4, <2>5, <2>6 DEF SocketEvent, ConnectionStep, Closed, Leave
<1>3. ASSUME NEW c \in Calls, Microtask(c)
      PROVE  TypeOK'
  <2>1. CASE AdmitClient(c)
    BY <1>1, <2>1 DEF AdmitClient, Admit, Handlers
  <2>2. CASE RefuseClient(c)
    BY <1>1, <2>2 DEF RefuseClient
  <2>3. CASE Dropped(c)
    BY <1>1, <2>3 DEF Dropped, ForgetConnection
  <2>4. CASE SessionCreated(c)
    <3>1. told' \in SUBSET Sessions
      BY <2>4 DEF SessionCreated, Handlers
    <3> QED  BY <1>1, <2>4, <3>1 DEF SessionCreated
  <2>5. CASE DropThrown(c) \/ Finished(c) \/ ExpiredCleaned(c) \/ StaleBegins(c)
    BY <1>1, <2>5 DEF DropThrown, Finished, ExpiredCleaned, StaleBegins
  <2> QED  BY <1>3, <2>1, <2>2, <2>3, <2>4, <2>5 DEF Microtask
<1>4. ASSUME NEW c \in Calls, CallEvent(c)
      PROVE  TypeOK'
  BY <1>1, <1>4 DEF CallEvent, StoreReply, CleanupBegins, CreateRelaySession
<1>5. CASE StoreEvent \/ NodeStatusChanges
  BY <1>1, <1>5 DEF StoreEvent, NodeStatusChanges
<1>6. CASE ShutDown
  BY <1>1, <1>6 DEF ShutDown
<1>7. CASE Restart
  BY <1>1, <1>7 DEF Restart
<1>8. CASE UNCHANGED vars
  BY <1>1, <1>8 DEF vars
<1> QED  BY <1>2, <1>3, <1>4, <1>5, <1>6, <1>7, <1>8 DEF Next

-----------------------------------------------------------------------------
(* What a call of the store does on its way. *)

(* A reply to one call leaves the others, what the call is about and every *)
(* age as they are; no call becomes one of closeSession, and a call of     *)
(* getSession stays one until it is done.                                  *)
ReplyOf(c) ==
    /\ age' = age
    /\ arg' = arg
    /\ \A d \in Calls \ {c} : at'[d] = at[d] /\ seen'[d] = seen[d] /\ todo'[d] = todo[d]
    /\ at'[c] \in Closing => at[c] \in Closing
    /\ at[c] \in Getting => at'[c] \in Getting

LEMMA ProgressReplies ==
  ASSUME SM!TypeOK, NEW c \in Calls, SM!Progress(c)
  PROVE  ReplyOf(c)
<1> USE DEF SM!TypeOK, ReplyOf, Closing, Getting
<1>1. CASE SM!CreateStep(c)
  BY <1>1 DEF SM!CreateStep, SM!CreateCache, SM!CreateUncached, SM!CreateDone, SM!Suspend
<1>2. CASE SM!GetStep(c)
  BY <1>2 DEF SM!GetStep, SM!GetRedisHit, SM!GetRedisMiss, SM!GetSelect, SM!GetNoRow, SM!GetRow,
              SM!GetFill, SM!GetRejected, SM!Suspend
<1>3. CASE SM!CloseStep(c)
  BY <1>3 DEF SM!CloseStep, SM!CloseUpdate, SM!CloseRejected, SM!CloseMark, SM!CloseEvict,
              SM!CloseEvictRejected, SM!CloseDone, SM!EvictReady, SM!Suspend
<1>4. CASE SM!SweepStep(c)
  BY <1>4 DEF SM!SweepStep, SM!StaleSelect, SM!StaleUpdate, SM!SweepRejected, SM!SweepDone,
              SM!SweepEvict, SM!SweepWith
<1> QED  BY <1>1, <1>2, <1>3, <1>4 DEF SM!Progress

(* A call of getSession that ends with an active copy in hand read it from *)
(* a store, and the session is one that may be admitted.                   *)
LEMMA AnswerIsLive ==
  ASSUME StoreInv, NEW c \in Calls, SM!Progress(c),
         at[c] \in Getting \ {"done"}, at'[c] = "done", seen'[c] = "active"
  PROVE  Live(arg[c])'
<1> USE DEF StoreInv, SM!TypeOK, Getting
<1>1. SM!GetRedisHit(c) \/ SM!GetFill(c)
  BY DEF SM!Progress, SM!CreateStep, SM!CreateCache, SM!CreateUncached, SM!CreateDone,
         SM!GetStep, SM!GetRedisHit, SM!GetRedisMiss, SM!GetSelect, SM!GetNoRow, SM!GetRow,
         SM!GetFill, SM!GetRejected, SM!Suspend,
         SM!CloseStep, SM!CloseUpdate, SM!CloseRejected, SM!CloseMark, SM!CloseEvict,
         SM!CloseEvictRejected, SM!CloseDone, SM!EvictReady,
         SM!SweepStep, SM!StaleSelect, SM!StaleUpdate, SM!SweepRejected, SM!SweepDone,
         SM!SweepEvict, SM!SweepWith
<1>2. /\ UNCHANGED <<rows, age, tainted, arg>>
      /\ arg[c] \in Ids
      /\ at[c] \in {"get.redis", "get.fill"} /\ seen[c] = "active"
  BY <1>1 DEF SM!GetRedisHit, SM!GetFill, SM!Suspend, SM!OnSession
<1>3. age[arg[c]] # "unissued"
  BY <1>2 DEF Store!TruthInv, Store!Holds, Store!Reads
<1>4. rows[arg[c]] = "active" \/ arg[c] \in tainted
  BY <1>2 DEF Store!CoherenceInv, Store!Carries
<1> QED  BY <1>2, <1>3, <1>4 DEF Live

(* So is the session of an active entry in memory. *)
LEMMA HitIsLive ==
  ASSUME StoreInv, NEW c \in Calls, NEW s \in Ids, GetSession(c, s),
         at'[c] = "done", seen'[c] = "active"
  PROVE  Live(s)'
<1> USE DEF StoreInv, SM!TypeOK
<1>1. SM!GetHit(c, s) /\ mem[s] = "active"
  BY DEF GetSession, SM!GetHit, SM!GetMiss, SM!Begin
<1>2. UNCHANGED <<rows, age, tainted>> /\ age[s] # "unissued"
  BY <1>1 DEF SM!GetHit, Store!TruthInv
<1>3. rows[s] = "active" \/ s \in tainted \cup Store!Removed
  BY <1>1 DEF Store!CoherenceInv, Store!CoherentUnlessTainted, Store!Coherent
<1>4. s \in Store!Removed => s \in SM!Removed'
  BY <1>1 DEF SM!GetHit, SM!Begin, Store!Removed, Store!Removes, SM!Removed, SM!Removes
<1> QED  BY <1>2, <1>3, <1>4 DEF Live

(* A caller that takes its answer, or calls for the stale sweep, changes   *)
(* nothing about any session.                                              *)
LEMMA MicrotaskKeepsLive ==
  ASSUME SM!TypeOK, NEW c \in Calls, Microtask(c), NEW s \in Ids, Live(s)
  PROVE  Live(s)'
<1> USE DEF SM!TypeOK
<1>1. \/ SM!Return(c)
      \/ at[c] = "idle" /\ at' = [at EXCEPT ![c] = "stale.select"]
         /\ UNCHANGED <<rows, age, tainted, arg>> /\ \A d \in Calls \ {c} : todo'[d] = todo[d]
      \/ UNCHANGED manager
  BY DEF Microtask, AdmitClient, RefuseClient, Dropped, DropThrown, SessionCreated, Finished,
         ExpiredCleaned, StaleBegins, SM!Stale, SM!SweepWith
<1>2. UNCHANGED <<rows, age, tainted>> /\ SM!Removed \subseteq SM!Removed'
  BY <1>1 DEF SM!Return, SM!Removed, SM!Removes, manager
<1> QED  BY <1>2 DEF Live

-----------------------------------------------------------------------------
(* The handlers. *)

(* A handler that takes a slot, for a socket or for none. *)
LEMMA TakingKeepsHandlers ==
  ASSUME TypeOK, Handlers, NEW c \in Calls, NEW kind \in Jobs, NEW w \in Sockets \cup {NoSocket},
         Take(c, kind, w) \/ (job[c] = "free" /\ Work(c, kind, w)),
         \A d \in Calls \ {c} : at'[d] = at[d] /\ arg'[d] = arg[d],
         target' = target,
         \/ stage' = stage
         \/ /\ w \in Sockets /\ stage[w] \in {"lookup", "ready", "left"}
            /\ stage' = [stage EXCEPT ![w] = IF kind = "admit" THEN "session" ELSE "left"],
         kind = "admit" => stage'[w] = "session" /\ stage[w] = "lookup"
                           /\ at'[c] \in Getting /\ arg'[c] = target[w] /\ w \in Sockets,
         kind = "drop" => stage'[w] = "left" /\ arg'[c] = target[w] /\ w \in Sockets,
         kind = "create" => arg'[c] \in Sessions,
         at'[c] \in Closing => kind = "drop"
  PROVE  Handlers'
<1> USE DEF TypeOK, Work, Take
<1>1. job' = [job EXCEPT ![c] = kind] /\ client' = [client EXCEPT ![c] = w]
  OBVIOUS
<1>2. (\A v \in Sockets : stage[v] # "unused" => target[v] \in Ids)'
  BY DEF Handlers
<1>3. (\A v \in Sockets : stage[v] = "address" => target[v] \in Nodes)'
  BY DEF Handlers
<1>4. ASSUME NEW d \in Calls, job'[d] = "admit"
      PROVE  (client[d] \in Sockets /\ stage[client[d]] = "session"
              /\ arg[d] = target[client[d]] /\ at[d] \in Getting)'
  BY <1>1, <1>4 DEF Handlers
<1>5. ASSUME NEW d \in Calls, NEW e \in Calls,
             job'[d] = "admit", job'[e] = "admit", client'[d] = client'[e]
      PROVE  d = e
  BY <1>1, <1>5 DEF Handlers
<1>6. ASSUME NEW d \in Calls, job'[d] = "drop"
      PROVE  (client[d] \in Sockets /\ stage[client[d]] = "left" /\ arg[d] = target[client[d]])'
  BY <1>1, <1>6 DEF Handlers
<1>7. (\A d \in Calls : at[d] \in Closing => job[d] = "drop")'
  BY <1>1 DEF Handlers
<1>8. (\A d \in Calls : job[d] = "create" => arg[d] \in Sessions)'
  BY <1>1 DEF Handlers
<1> QED  BY <1>2, <1>3, <1>4, <1>5, <1>6, <1>7, <1>8 DEF Handlers

LEMMA NextHandlers ==
  ASSUME TypeOK, Handlers, [Next]_vars
  PROVE  Handlers'
<1> USE DEF TypeOK, SM!TypeOK, Enter, Work, Release, maps, sockets, jobs, outside, manager
<1>1. ASSUME NEW w \in Sockets, SocketEvent(w)
      PROVE  Handlers'
  <2>1. ASSUME NEW id \in Ids, Connect(w, id)
        PROVE  Handlers'
    BY <1>1, <2>1 DEF Connect, Handlers
  <2>2. CASE NodeFound(w) \/ NodeOffline(w) \/ ClosedUnheard(w) \/ HeartbeatStops(w)
    BY <2>2 DEF NodeFound, NodeOffline, ClosedUnheard, HeartbeatStops, Handlers
  <2>3. CASE AdmitNode(w)
    BY <2>3 DEF AdmitNode, Admit, Handlers
  <2>4. ASSUME NEW c \in Calls, NodeNotFound(w, c)
        PROVE  Handlers'
    <3>1. /\ at'[c] \in {"done", "get.redis"} /\ arg'[c] = target[w]
          /\ \A d \in Calls \ {c} : at'[d] = at[d] /\ arg'[d] = arg[d]
      BY <2>4 DEF NodeNotFound, GetSession, SM!GetHit, SM!GetMiss, SM!Begin
    <3>2. /\ Take(c, "admit", w) /\ target' = target /\ stage[w] = "lookup"
          /\ stage' = [stage EXCEPT ![w] = "session"]
      BY <2>4 DEF NodeNotFound
    <3> QED  BY <3>1, <3>2, TakingKeepsHandlers DEF Getting, Closing, Jobs
  <2>5. ASSUME NEW c \in Calls, Data(w, c)
        PROVE  Handlers'
    <3>1. /\ at'[c] \in {"done", "get.redis"}
          /\ \A d \in Calls \ {c} : at'[d] = at[d] /\ arg'[d] = arg[d]
      BY <2>5 DEF Data, GetSession, SM!GetHit, SM!GetMiss, SM!Begin
    <3>2. Take(c, "data", w) /\ target' = target /\ stage' = stage
      BY <2>5 DEF Data
    <3> QED  BY <3>1, <3>2, TakingKeepsHandlers DEF Closing, Jobs
  <2>6. ASSUME NEW c \in Calls, HandleDisconnection(w, c), target' = target,
               stage[w] \in {"ready", "left"}
        PROVE  Handlers'
    <3>1. CASE DropNode(target[w])
      BY <2>6, <3>1 DEF HandleDisconnection, DropNode, Handlers
    <3>2. CASE DropSession(c, w, target[w])
      BY <2>6, <3>2, TakingKeepsHandlers
         DEF HandleDisconnection, DropSession, SM!Close, SM!Begin, Jobs
    <3> QED  BY <2>6, <3>1, <3>2 DEF HandleDisconnection
  <2> QED
    BY <1>1, <2>1, <2>2, <2>3, <2>4, <2>5, <2>6 DEF SocketEvent, ConnectionStep, Closed, Leave
<1>2. ASSUME NEW c \in Calls, Microtask(c)
      PROVE  Handlers'
  <2> USE DEF Closing
  <2>1. CASE AdmitClient(c)
    BY <2>1 DEF AdmitClient, Admit, SM!Return, Handlers
  <2>2. CASE RefuseClient(c)
    BY <2>2 DEF RefuseClient, SM!Return, Handlers
  <2>3. CASE Dropped(c) \/ DropThrown(c) \/ SessionCreated(c) \/ Finished(c) \/ ExpiredCleaned(c)
    <3>1. SM!Return(c) /\ UNCHANGED <<target, stage>>
      BY <2>3 DEF Dropped, DropThrown, SessionCreated, Finished, ExpiredCleaned
    <3>2. \E kind \in {"free", "between"} : Work(c, kind, NoSocket)
      BY <2>3 DEF Dropped, DropThrown, SessionCreated, Finished, ExpiredCleaned
    <3> QED  BY <3>1, <3>2 DEF SM!Return, Handlers
  <2>4. CASE StaleBegins(c)
    BY <2>4 DEF StaleBegins, SM!Stale, SM!SweepWith, Handlers
  <2> QED  BY <1>2, <2>1, <2>2, <2>3, <2>4 DEF Microtask
<1>3. ASSUME NEW c \in Calls, CallEvent(c)
      PROVE  Handlers'
  <2>1. CASE StoreReply(c)
    BY <2>1, ProgressReplies DEF StoreReply, ReplyOf, Handlers
  <2>2. CASE CleanupBegins(c)
    <3>1. /\ at'[c] \in {"expire.loop", "done"}
          /\ \A d \in Calls \ {c} : at'[d] = at[d] /\ arg'[d] = arg[d]
      BY <2>2 DEF CleanupBegins, SM!ExpireDelete, SM!SweepWith
    <3>2. job[c] = "free" /\ Work(c, "expire", NoSocket) /\ target' = target /\ stage' = stage
      BY <2>2 DEF CleanupBegins
    <3> QED  BY <3>1, <3>2, TakingKeepsHandlers DEF Closing, Jobs
  <2>3. ASSUME NEW s \in Sessions, CreateRelaySession(c, s)
        PROVE  Handlers'
    <3>1. /\ at'[c] \in {"create.row", "failed"} /\ arg'[c] = s
          /\ \A d \in Calls \ {c} : at'[d] = at[d] /\ arg'[d] = arg[d]
      BY <2>3 DEF CreateRelaySession, SM!CreateInsert, SM!CreateRejected, SM!Begin, Ids
    <3>2. Take(c, "create", NoSocket) /\ target' = target /\ stage' = stage
      BY <2>3 DEF CreateRelaySession
    <3> QED  BY <3>1, <3>2, TakingKeepsHandlers DEF Closing, Jobs
  <2> QED  BY <1>3, <2>1, <2>2, <2>3 DEF CallEvent
<1>4. CASE StoreEvent
  BY <1>4 DEF StoreEvent, SM!Tick, SM!RedisLapse, Handlers
<1>5. CASE NodeStatusChanges \/ ShutDown
  BY <1>5 DEF NodeStatusChanges, ShutDown, Handlers
<1>6. CASE Restart
  BY <1>6 DEF Restart, SM!Restart, Closing, Handlers
<1>7. CASE UNCHANGED vars
  BY <1>7 DEF vars, Handlers
<1> QED  BY <1>1, <1>2, <1>3, <1>4, <1>5, <1>6, <1>7 DEF Next

-----------------------------------------------------------------------------
(* What is known of sessions. *)

(* Only createRelaySession issues an id, and it issues those of sessions. *)
LEMMA NextNodesUnissued ==
  ASSUME TypeOK, NodesUnissued, [Next]_vars
  PROVE  NodesUnissued'
<1> USE DistinctIds DEF TypeOK, SM!TypeOK, NodesUnissued, manager
<1>1. ASSUME NEW c \in Calls, Microtask(c)
      PROVE  age' = age
  BY <1>1 DEF Microtask, AdmitClient, RefuseClient, Dropped, DropThrown, SessionCreated, Finished,
              ExpiredCleaned, StaleBegins, SM!Return, SM!Stale
<1>2. ASSUME NEW w \in Sockets, SocketEvent(w)
      PROVE  age' = age
  BY <1>2 DEF SocketEvent, Connect, ConnectionStep, NodeFound, NodeOffline, AdmitNode,
              ClosedUnheard, HeartbeatStops, NodeNotFound, Closed, Leave, Data, GetSession,
              HandleDisconnection, DropNode, DropSession, SM!GetHit, SM!GetMiss, SM!Close
<1>3. ASSUME NEW c \in Calls, StoreReply(c) \/ CleanupBegins(c)
      PROVE  age' = age
  BY <1>3, ProgressReplies DEF StoreReply, ReplyOf, CleanupBegins, SM!ExpireDelete
<1>4. ASSUME NEW c \in Calls, NEW s \in Sessions, CreateRelaySession(c, s)
      PROVE  \A n \in Nodes : age'[n] = age[n]
  BY <1>4 DEF CreateRelaySession, SM!CreateInsert, SM!CreateRejected, Ids
<1>5. CASE StoreEvent
  <2>1. \A n \in Nodes : age'[n] = age[n]
    BY <1>5 DEF StoreEvent, SM!Tick, SM!RedisLapse, Ids
  <2> QED  BY <2>1
<1>6. CASE NodeStatusChanges \/ ShutDown \/ Restart \/ UNCHANGED vars
  BY <1>6 DEF NodeStatusChanges, ShutDown, Restart, SM!Restart, vars
<1> QED  BY <1>1, <1>2, <1>3, <1>4, <1>5, <1>6 DEF Next, CallEvent

(* An answer stays what it was until its handler takes it, in the very next *)
(* step of that handler; only microtasks come in between.                   *)
LEMMA NextAnswered ==
  ASSUME TypeOK, Handlers, StoreInv, Answered, [Next]_vars
  PROVE  Answered'
<1> USE DEF TypeOK, SM!TypeOK
<1>1. ASSUME NEW c \in Calls, Microtask(c)
      PROVE  Answered'
  <2>1. \/ SM!Return(c)
        \/ \E kept \in SUBSET Ids : SM!Stale(c, kept)
        \/ UNCHANGED manager /\ job'[c] = "free"
    BY <1>1 DEF Microtask, AdmitClient, RefuseClient, Dropped, DropThrown, SessionCreated,
                Finished, ExpiredCleaned, StaleBegins, Release, Work, getActiveSessionIds
  <2>2. /\ at'[c] \in {"idle", "stale.select"} \/ job'[c] = "free"
        /\ \A d \in Calls \ {c} : at'[d] = at[d] /\ seen'[d] = seen[d] /\ arg'[d] = arg[d]
    BY <2>1 DEF SM!Return, SM!Stale, SM!SweepWith, manager
  <2>3. \A d \in Calls \ {c} : job'[d] = job[d]
    BY <1>1 DEF Microtask, AdmitClient, RefuseClient, Dropped, DropThrown, SessionCreated,
                Finished, ExpiredCleaned, StaleBegins, Release, Work
  <2> SUFFICES ASSUME NEW d \in Calls \ {c}, job[d] = "admit", at[d] = "done", seen[d] = "active"
               PROVE  Live(arg[d])'
    BY <2>2, <2>3 DEF Answered
  <2>4. Live(arg[d]) /\ arg[d] \in Ids
    BY DistinctIds DEF Answered, Handlers
  <2>5. Live(arg[d])'
    <3>1. PICK s \in Ids : s = arg[d] /\ Live(s)
      BY <2>4 DEF Live
    <3>2. Live(s)'
      BY <1>1, <3>1, MicrotaskKeepsLive
    <3> QED  BY <2>2, <3>1, <3>2 DEF Live
  <2> QED  BY <2>5
<1>2. ASSUME Settled, NEW c \in Calls,
             \A d \in Calls \ {c} : at'[d] = at[d],
             job'[c] = "admit" /\ at'[c] = "done" /\ seen'[c] = "active" => Live(arg[c])'
      PROVE  Answered'
  BY <1>2 DEF Answered, Settled
<1>3. ASSUME Settled, \A d \in Calls : at'[d] # "done"
      PROVE  Answered'
  BY <1>3 DEF Answered
<1>4. ASSUME Settled, NEW w \in Sockets, SocketEvent(w)
      PROVE  Answered'
  <2>1. ASSUME NEW c \in Calls, NodeNotFound(w, c)
        PROVE  Answered'
    <3>1. target[w] \in Ids /\ GetSession(c, target[w])
      BY <2>1 DEF NodeNotFound, Handlers
    <3>2. arg'[c] = target[w] /\ \A d \in Calls \ {c} : at'[d] = at[d]
      BY <3>1 DEF GetSession, SM!GetHit, SM!GetMiss, SM!Begin
    <3>3. ASSUME at'[c] = "done", seen'[c] = "active"
          PROVE  Live(arg[c])'
      <4>1. PICK s \in Ids : s = target[w] /\ GetSession(c, s)
        BY <3>1
      <4>2. Live(s)'
        BY <3>3, <4>1, HitIsLive
      <4> QED  BY <3>2, <4>1, <4>2 DEF Live
    <3> QED  BY <1>2, <1>4, <3>2, <3>3
  <2>2. ASSUME NEW c \in Calls, Data(w, c) \/ Closed(w, c) \/ Leave(w, c),
               ~ UNCHANGED <<manager, jobs>>
        PROVE  Answered'
    <3>1. job'[c] \in {"data", "drop"}
      BY <2>2 DEF Data, Closed, Leave, HandleDisconnection, DropNode, DropSession, Take, Work
    <3>2. \A d \in Calls \ {c} : at'[d] = at[d]
      BY <2>2 DEF Data, Closed, Leave, HandleDisconnection, DropNode, DropSession, GetSession,
                  SM!GetHit, SM!GetMiss, SM!Close, SM!Begin
    <3> QED  BY <1>2, <1>4, <3>1, <3>2
  <2>3. CASE UNCHANGED <<manager, jobs>>
    BY <1>3, <1>4, <2>3 DEF Settled, manager
  <2> QED
    BY <1>4, <2>1, <2>2, <2>3 DEF SocketEvent, Connect, ConnectionStep, NodeFound, NodeOffline,
                                  AdmitNode, ClosedUnheard, HeartbeatStops
<1>5. ASSUME Settled, NEW c \in Calls, StoreReply(c)
      PROVE  Answered'
  <2>1. ReplyOf(c) /\ job' = job
    BY <1>5, ProgressReplies DEF StoreReply, jobs
  <2>2. job[c] = "admit" => at[c] \in Getting \ {"done"}
    BY <1>5 DEF Handlers, Settled
  <2>3. job'[c] = "admit" /\ at'[c] = "done" /\ seen'[c] = "active" => Live(arg[c])'
    BY <1>5, <2>1, <2>2, AnswerIsLive DEF StoreReply
  <2> QED  BY <1>2, <1>5, <2>1, <2>3 DEF ReplyOf
<1>6. ASSUME Settled, NEW c \in Calls,
             CleanupBegins(c) \/ \E s \in Sessions : CreateRelaySession(c, s)
      PROVE  Answered'
  <2>1. job'[c] \in {"expire", "create"}
    BY <1>6 DEF CleanupBegins, CreateRelaySession, Take, Work
  <2>2. \A d \in Calls \ {c} : at'[d] = at[d]
    BY <1>6 DEF CleanupBegins, CreateRelaySession, SM!ExpireDelete, SM!SweepWith,
                SM!CreateInsert, SM!CreateRejected, SM!Begin
  <2> QED  BY <1>2, <1>6, <2>1, <2>2
<1>7. ASSUME Settled, StoreEvent \/ NodeStatusChanges \/ ShutDown \/ Restart
      PROVE  Answered'
  <2>1. \A d \in Calls : at'[d] # "done"
    BY <1>7 DEF Settled, StoreEvent, SM!Tick, SM!RedisLapse, NodeStatusChanges, ShutDown, Restart,
                SM!Restart, manager
  <2> QED  BY <1>3, <1>7, <2>1
<1>8. CASE UNCHANGED vars
  BY <1>8 DEF vars, manager, jobs, Answered, Live, SM!Removed, SM!Removes
<1> QED  BY <1>1, <1>4, <1>5, <1>6, <1>7, <1>8 DEF Next, CallEvent

-----------------------------------------------------------------------------
(* The maps. *)

(* Steps that touch neither a socket nor a map. *)
Quiet == UNCHANGED <<sockets, maps, down>>

LEMMA QuietSteps ==
  ASSUME [Next]_vars
  PROVE  \/ Quiet
         \/ \E w \in Sockets :
               \/ \E id \in Ids : Connect(w, id)
               \/ ConnectionStep(w) \/ ClosedUnheard(w) \/ HeartbeatStops(w)
               \/ \E c \in Calls : NodeNotFound(w, c) \/ Closed(w, c) \/ Leave(w, c)
         \/ \E c \in Calls : AdmitClient(c) \/ RefuseClient(c) \/ Dropped(c)
         \/ ShutDown \/ Restart
<1> USE DEF Quiet, outside
<1>1. ASSUME NEW c \in Calls, DropThrown(c) \/ SessionCreated(c) \/ Finished(c)
                                \/ ExpiredCleaned(c) \/ StaleBegins(c)
      PROVE  Quiet
  BY <1>1 DEF DropThrown, SessionCreated, Finished, ExpiredCleaned, StaleBegins
<1>2. ASSUME NEW c \in Calls, CallEvent(c) \/ \E w \in Sockets : Data(w, c)
      PROVE  Quiet
  BY <1>2 DEF CallEvent, StoreReply, CleanupBegins, CreateRelaySession, Data
<1>3. CASE StoreEvent \/ NodeStatusChanges \/ UNCHANGED vars
  BY <1>3 DEF StoreEvent, NodeStatusChanges, vars
<1> QED  BY <1>1, <1>2, <1>3 DEF Next, Microtask, SocketEvent

(* Wherever a socket is admitted, it is at the stage before. *)
LEMMA AdmittedFrom ==
  ASSUME TypeOK, Handlers, NodesUnissued, Answered,
         NEW c \in Calls, AdmitClient(c)
  PROVE  /\ client[c] \in Sockets /\ stage[client[c]] = "session"
         /\ target[client[c]] \in Ids \ Nodes
         /\ Admit(client[c]) /\ Live(target[client[c]])
<1>1. at[c] = "done"
  BY DEF AdmitClient, Handlers, Getting, SM!Return
<1>2. Live(arg[c]) /\ arg[c] = target[client[c]]
  BY <1>1 DEF AdmitClient, Answered, Handlers
<1> QED  BY <1>2 DEF AdmitClient, Handlers, Live, NodesUnissued

(* The two maps of the relay and its intervals agree after every step. *)
LEMMA NextRecorded ==
  ASSUME TypeOK, Handlers, NodesUnissued, Answered, Recorded, [Next]_vars
  PROVE  Recorded'
<1> USE DistinctSockets
    DEF TypeOK, Recorded, RecordsAgree, NodeMapsAgree, IntervalOnRecord, Enter, sockets, maps, outside
<1>1. CASE Quiet
  BY <1>1 DEF Quiet
<1>2. ASSUME NEW w \in Sockets, Admit(w), target[w] \in Ids, UNCHANGED <<target>>,
             IF target[w] \in Nodes THEN nodeConnections' = [nodeConnections EXCEPT ![target[w]] = w]
                                    ELSE nodeConnections' = nodeConnections
      PROVE  Recorded'
  <2>1. NodeMapsAgree'
    BY <1>2 DEF Admit, Ids
  <2>2. IntervalOnRecord'
    BY <1>2 DEF Admit
  <2>3. (\A i \in Ids : heartbeatIntervals[i] # NoSocket
              => stage[heartbeatIntervals[i]] # "unused")'
    BY <1>2 DEF Admit
  <2> QED  BY <2>1, <2>2, <2>3
<1>3. ASSUME NEW w \in Sockets, NEW id \in Ids, Connect(w, id)
      PROVE  Recorded'
  BY <1>3 DEF Connect
<1>4. ASSUME NEW w \in Sockets, ConnectionStep(w)
      PROVE  Recorded'
  <2>1. CASE AdmitNode(w)
    BY <1>2, <2>1 DEF AdmitNode, Handlers, Ids
  <2>2. CASE NodeFound(w) \/ NodeOffline(w)
    BY <2>2 DEF NodeFound, NodeOffline
  <2> QED  BY <1>4, <2>1, <2>2 DEF ConnectionStep
<1>5. ASSUME NEW w \in Sockets, ClosedUnheard(w) \/ \E c \in Calls : NodeNotFound(w, c)
      PROVE  Recorded'
  BY <1>5 DEF ClosedUnheard, NodeNotFound
<1>6. ASSUME NEW w \in Sockets, HeartbeatStops(w)
      PROVE  Recorded'
  BY <1>6 DEF HeartbeatStops
<1>7. ASSUME NEW w \in Sockets, NEW c \in Calls, Closed(w, c) \/ Leave(w, c)
      PROVE  Recorded'
  <2>1. /\ HandleDisconnection(w, c) /\ target' = target /\ target[w] \in Ids
    BY <1>7 DEF Closed, Leave, Handlers
  <2>2. NodeMapsAgree'
    BY <2>1 DEF HandleDisconnection, DropNode, DropSession, Ids
  <2>3. IntervalOnRecord'
    BY <2>1 DEF HandleDisconnection, ClearInterval
  <2>4. (\A i \in Ids : heartbeatIntervals[i] # NoSocket
              => stage[heartbeatIntervals[i]] # "unused")'
    BY <2>1 DEF HandleDisconnection, ClearInterval
  <2> QED  BY <2>2, <2>3, <2>4
<1>8. ASSUME NEW c \in Calls, AdmitClient(c)
      PROVE  Recorded'
  BY <1>2, <1>8, AdmittedFrom DEF AdmitClient
<1>9. ASSUME NEW c \in Calls, RefuseClient(c)
      PROVE  Recorded'
  BY <1>9 DEF RefuseClient
<1>10. ASSUME NEW c \in Calls, Dropped(c)
      PROVE  Recorded'
  BY <1>10 DEF Dropped, ForgetConnection, Ids
<1>11. CASE ShutDown \/ Restart
  BY <1>11 DEF ShutDown, Restart, Ids
<1> QED  BY <1>1, <1>3, <1>4, <1>5, <1>6, <1>7, <1>8, <1>9, <1>10, <1>11, QuietSteps

(* A socket in service is displaced by rivals, or the shutdown, alone. *)
LEMMA NextOnlyRivals ==
  ASSUME TypeOK, Handlers, NodesUnissued, StoreInv, Answered, Recorded, OnlyRivalsDisplace,
         [Next]_vars
  PROVE  OnlyRivalsDisplace'
<1> USE DistinctSockets DEF TypeOK, Rival, Enter, sockets, maps, outside
<1> DEFINE InService(w) == connections[target[w]] = w /\ w \in ticking
           Kept(w) == w \in open /\ stage[w] = "ready" =>
                         InService(w) \/ (\E v \in Sockets : Rival(v, w)) \/ down
<1> SUFFICES ASSUME NEW w \in Sockets
             PROVE  Kept(w)'
  <2>1. open' \in SUBSET Sockets
    BY NextTypeOK
  <2> QED  BY <2>1 DEF OnlyRivalsDisplace
<1>0. Kept(w)
  BY DEF OnlyRivalsDisplace
<1>1. CASE Quiet
  BY <1>0, <1>1 DEF Quiet
<1>2. ASSUME NEW v \in Sockets, Admit(v), stage[v] \in {"address", "session"},
             target[v] \in Ids, UNCHANGED <<open, target, down>>
      PROVE  Kept(w)'
  BY <1>0, <1>2 DEF Admit
<1>3. ASSUME NEW v \in Sockets, \E id \in Ids : Connect(v, id)
      PROVE  Kept(w)'
  BY <1>0, <1>3 DEF Connect
<1>4. ASSUME NEW v \in Sockets, NEW s \in {"address", "session", "refused"},
             stage[v] \in {"lookup", "session"}, Enter(v, s), open' \in {open, open \ {v}},
             UNCHANGED <<target, maps, down>>
      PROVE  Kept(w)'
  BY <1>0, <1>4
<1>5. ASSUME NEW v \in Sockets, ConnectionStep(v)
      PROVE  Kept(w)'
  <2>1. CASE AdmitNode(v)
    BY <1>2, <2>1 DEF AdmitNode, Handlers
  <2>2. CASE NodeFound(v) \/ NodeOffline(v)
    BY <1>4, <2>2 DEF NodeFound, NodeOffline
  <2> QED  BY <1>5, <2>1, <2>2 DEF ConnectionStep
<1>6. ASSUME NEW v \in Sockets, ClosedUnheard(v)
      PROVE  Kept(w)'
  BY <1>0, <1>6 DEF ClosedUnheard
<1>7. ASSUME NEW v \in Sockets, HeartbeatStops(v)
      PROVE  Kept(w)'
  BY <1>0, <1>7 DEF HeartbeatStops
<1>8. ASSUME NEW v \in Sockets, \E c \in Calls : NodeNotFound(v, c)
      PROVE  Kept(w)'
  BY <1>4, <1>8 DEF NodeNotFound
<1>9. ASSUME NEW v \in Sockets, NEW c \in Calls, Closed(v, c) \/ Leave(v, c)
      PROVE  Kept(w)'
  <2>1. /\ HandleDisconnection(v, c) /\ stage[v] \in {"ready", "left"}
        /\ open' \in {open, open \ {v}} /\ UNCHANGED <<target, down>>
        /\ target[v] \in Ids
    BY <1>9 DEF Closed, Leave, Handlers
  <2>2. stage' = [stage EXCEPT ![v] = "left"]
    BY <2>1 DEF HandleDisconnection
  <2>3. CASE v # w /\ target[v] = target[w]
    <3>1. Rival(v, w)'
      BY <2>1, <2>2, <2>3
    <3> QED  BY <3>1
  <2>4. CASE target[v] # target[w]
    <3>1. stage[w] = "ready" => connections'[target[w]] = connections[target[w]]
      BY <2>1, <2>4 DEF Handlers, HandleDisconnection, DropNode, DropSession
    <3>2. heartbeatIntervals[target[v]] # w
      BY <2>1, <2>4 DEF Recorded, RecordsAgree, IntervalOnRecord
    <3>3. w \in ticking => w \in ticking'
      BY <2>1, <3>2 DEF HandleDisconnection, ClearInterval
    <3>4. \A u \in Sockets : Rival(u, w) => Rival(u, w)'
      BY <2>1, <2>2
    <3> QED  BY <1>0, <2>1, <2>2, <3>1, <3>3, <3>4
  <2> QED  BY <2>2, <2>3, <2>4
<1>10. ASSUME NEW c \in Calls, AdmitClient(c)
      PROVE  Kept(w)'
  BY <1>2, <1>10, AdmittedFrom DEF AdmitClient
<1>11. ASSUME NEW c \in Calls, RefuseClient(c)
      PROVE  Kept(w)'
  BY <1>4, <1>11 DEF RefuseClient, Handlers
<1>12. ASSUME NEW c \in Calls, Dropped(c)
      PROVE  Kept(w)'
  <2>1. /\ client[c] \in Sockets /\ stage[client[c]] = "left"
        /\ connections' = [connections EXCEPT ![target[client[c]]] = NoSocket]
        /\ UNCHANGED <<open, target, stage, ticking, down>>
    BY <1>12 DEF Dropped, ForgetConnection, Handlers
  <2>2. CASE target[client[c]] = target[w]
    BY <2>1, <2>2
  <2>3. CASE target[client[c]] # target[w]
    BY <1>0, <2>1, <2>3
  <2> QED  BY <2>2, <2>3
<1>13. CASE ShutDown \/ Restart
  BY <1>13 DEF ShutDown, Restart
<1> QED  BY <1>1, <1>3, <1>5, <1>6, <1>7, <1>8, <1>9, <1>10, <1>11, <1>12, <1>13, QuietSteps

-----------------------------------------------------------------------------
(* The theorems. *)

IInv ==
    /\ TypeOK /\ StoreInv
    /\ Handlers /\ NodesUnissued /\ Answered
    /\ Recorded /\ OnlyRivalsDisplace

(* The invariants hold at the start and after every step. *)
LEMMA InitIInv == Init => IInv
<1> SUFFICES ASSUME Init
             PROVE  IInv
  OBVIOUS
<1>1. Store!Init
  BY SameStore DEF Init
<1>2. StoreInv
  BY <1>1, SameStore, FaultsAssumption, DistinctIds, Store!InitTypeOK, Store!InitInv DEF StoreInv
<1> USE DEF Init, SM!Init
<1>3. TypeOK
  BY <1>2 DEF TypeOK, StoreInv, Stages, Jobs
<1>4. Handlers /\ Answered
  BY DistinctIds DEF Handlers, Answered, Closing
<1>5. NodesUnissued /\ Recorded /\ OnlyRivalsDisplace
  BY DEF NodesUnissued, Ids, Recorded, RecordsAgree, NodeMapsAgree, IntervalOnRecord,
         OnlyRivalsDisplace
<1> QED  BY <1>2, <1>3, <1>4, <1>5 DEF IInv

LEMMA NextIInv == IInv /\ [Next]_vars => IInv'
<1> SUFFICES ASSUME IInv, [Next]_vars
             PROVE  IInv'
  OBVIOUS
<1>1. TypeOK' /\ Handlers'
  BY NextTypeOK, NextHandlers DEF IInv
<1>2. StoreInv'
  BY StoreStep, StoreKeeps DEF IInv
<1>3. NodesUnissued' /\ Answered'
  BY NextNodesUnissued, NextAnswered DEF IInv
<1>4. Recorded' /\ OnlyRivalsDisplace'
  BY NextRecorded, NextOnlyRivals DEF IInv
<1> QED  BY <1>1, <1>2, <1>3, <1>4 DEF IInv

LEMMA Invariance == Spec => []IInv
  BY InitIInv, NextIInv, PTL DEF Spec

(* Every variable of the relay and of its session store has its type.      *)
THEOREM TypeCorrect == Spec => []TypeOK
<1>1. IInv => TypeOK
  BY DEF IInv
<1> QED  BY <1>1, Invariance, PTL

(* By the way the actions are composed, whatever sockets, timers and       *)
(* clean-ups do to the store is a behaviour of SessionManager; the next    *)
(* theorem rests on it.                                                    *)
LEMMA RelayUsesSessionManager == Spec => UsesSessionManager
<1>1. Init => SM!Init
  BY DEF Init
<1>2. IInv /\ [Next]_vars => [SM!Next]_(SM!vars)
  BY StoreStep DEF IInv
<1> QED  BY <1>1, <1>2, Invariance, PTL DEF Spec, UsesSessionManager, SM!Spec

(* So the relay keeps the promise of SessionLifecycle, and by the theorems *)
(* of SessionManagerProofs alone: with sockets that come and go, their     *)
(* handlers and the clean-ups, a session is issued once, goes from active  *)
(* to closed to gone, and no handler is told of a status it has not had.   *)
THEOREM RelayImplementsLifecycle == Spec => Store!ImplementsLifecycle
<1>1. SM!Init => Store!Init
  BY SameStore
<1>2. [SM!Next]_(SM!vars) => [Store!Next]_(Store!vars)
  BY SameStore DEF SM!vars, Store!vars
<1>3. SM!Spec => Store!Spec
  BY <1>1, <1>2, PTL DEF SM!Spec, Store!Spec
<1>4. Store!Spec => Store!ImplementsLifecycle
  BY FaultsAssumption, DistinctIds, Store!StoreImplementsLifecycle
<1> QED  BY <1>3, <1>4, RelayUsesSessionManager, PTL DEF UsesSessionManager

(* Only another socket of the same id, or the shutdown of the server, can  *)
(* take away the entry and the heartbeat of a socket in service.           *)
THEOREM ServiceIsKept == Spec => []OnlyRivalsDisplace
<1>1. IInv => OnlyRivalsDisplace
  BY DEF IInv
<1> QED  BY <1>1, Invariance, PTL

(* The maps of the relay agree on every node and on every interval.        *)
THEOREM MapsAgree == Spec => []RecordsAgree
<1>1. IInv => RecordsAgree
  BY DEF IInv, Recorded
<1> QED  BY <1>1, Invariance, PTL

(* A client is admitted only on a session that is active, is just being    *)
(* removed, or whose cached copies were left behind.                       *)
THEOREM AdmissionIsLive == Spec => AdmittedSessionsAreLive
<1> DEFINE Step == \A w \in Sockets :
                     stage[w] = "session" /\ stage'[w] = "ready" =>
                         \/ rows[target[w]] = "active"
                         \/ target[w] \in tainted \cup SM!Removed
<1>1. IInv /\ [Next]_vars => [Step]_vars
  <2> SUFFICES ASSUME IInv, Next, NEW w \in Sockets, stage[w] = "session", stage'[w] = "ready"
               PROVE  Live(target[w])
    BY DEF Live
  <2> USE DEF IInv, TypeOK, Enter
  <2>1. ASSUME NEW c \in Calls, AdmitClient(c)
        PROVE  Live(target[w])
    BY <2>1, AdmittedFrom DEF Admit
  <2>2. ~ Quiet
    BY DEF Quiet, sockets
  <2>3. ASSUME NEW v \in Sockets,
               \/ \E id \in Ids : Connect(v, id)
               \/ ConnectionStep(v) \/ ClosedUnheard(v) \/ HeartbeatStops(v)
               \/ \E c \in Calls : NodeNotFound(v, c) \/ Closed(v, c) \/ Leave(v, c)
        PROVE  FALSE
    <3>1. \/ stage' = stage
          \/ stage[v] # "session" /\ \E s \in Stages : stage' = [stage EXCEPT ![v] = s]
      BY <2>3 DEF Connect, ConnectionStep, NodeFound, NodeOffline, AdmitNode, Admit, ClosedUnheard,
                  HeartbeatStops, NodeNotFound, Closed, Leave, HandleDisconnection, sockets, Stages
    <3> QED  BY <3>1
  <2>4. ASSUME NEW c \in Calls, RefuseClient(c) \/ Dropped(c)
        PROVE  FALSE
    BY <2>4 DEF RefuseClient, Dropped, Handlers, sockets
  <2>5. CASE ShutDown \/ Restart
    BY <2>5 DEF ShutDown, Restart, sockets
  <2> QED  BY <2>1, <2>2, <2>3, <2>4, <2>5, QuietSteps
<1> QED  BY <1>1, Invariance, PTL DEF Spec, AdmittedSessionsAreLive

(* A session less than two minutes old is closed by a socket of its own    *)
(* that has gone, never by a sweep.                                        *)
THEOREM YoungAreSpared == Spec => YoungClosedOnlyByItsClient
<1> DEFINE Step == \A s \in Sessions :
                     rows[s] = "active" /\ rows'[s] = "closed" /\ age[s] = "young" =>
                         \E w \in Sockets : target[w] = s /\ stage[w] = "left"
<1>1. IInv /\ [Next]_vars => [Step]_vars
  <2> SUFFICES ASSUME IInv, Next, NEW s \in Sessions,
                      rows[s] = "active", rows'[s] = "closed", age[s] = "young"
               PROVE  \E w \in Sockets : target[w] = s /\ stage[w] = "left"
    OBVIOUS
  <2> USE DEF IInv, TypeOK, SM!TypeOK, Ids, manager
  <2>1. ASSUME NEW c \in Calls, StoreReply(c)
        PROVE  job[c] = "drop" /\ arg[c] = s
    <3>1. ~ SM!CreateStep(c) /\ ~ SM!GetStep(c)
      BY DEF SM!CreateStep, SM!CreateCache, SM!CreateUncached, SM!CreateDone, SM!GetStep,
             SM!GetRedisHit, SM!GetRedisMiss, SM!GetSelect, SM!GetNoRow, SM!GetRow, SM!GetFill,
             SM!GetRejected
    <3>2. ~ SM!SweepStep(c)
      BY DEF SM!SweepStep, SM!StaleSelect, SM!StaleUpdate, SM!SweepRejected, SM!SweepDone,
             SM!SweepEvict, SM!StaleRows
    <3>3. CASE SM!CloseStep(c)
      <4>1. at[c] = "close.db" /\ rows' = SM!CloseRow(rows, arg[c])
        BY <3>3 DEF SM!CloseStep, SM!CloseUpdate, SM!CloseRejected, SM!CloseMark, SM!CloseEvict,
                    SM!CloseEvictRejected, SM!CloseDone
      <4> QED  BY <4>1 DEF SM!CloseRow, Handlers, Closing
    <3> QED  BY <2>1, <3>1, <3>2, <3>3 DEF StoreReply, SM!Progress
  <2>2. ASSUME NEW c \in Calls, CleanupBegins(c) \/ \E i \in Sessions : CreateRelaySession(c, i)
        PROVE  FALSE
    BY <2>2 DEF CleanupBegins, CreateRelaySession, SM!ExpireDelete, SM!CreateInsert,
                SM!CreateRejected
  <2>3. ASSUME NEW c \in Calls, Microtask(c)
        PROVE  FALSE
    BY <2>3 DEF Microtask, AdmitClient, RefuseClient, Dropped, DropThrown, SessionCreated,
                Finished, ExpiredCleaned, StaleBegins, SM!Return, SM!Stale
  <2>4. ASSUME NEW w \in Sockets, SocketEvent(w)
        PROVE  FALSE
    BY <2>4 DEF SocketEvent, Connect, ConnectionStep, NodeFound, NodeOffline, AdmitNode,
                ClosedUnheard, HeartbeatStops, NodeNotFound, Closed, Leave, Data, GetSession,
                HandleDisconnection, DropNode, DropSession, SM!GetHit, SM!GetMiss, SM!Close
  <2>5. ~ (StoreEvent \/ NodeStatusChanges \/ ShutDown \/ Restart)
    BY DEF StoreEvent, SM!Tick, SM!RedisLapse, NodeStatusChanges, ShutDown, Restart, SM!Restart
  <2>6. \E c \in Calls : job[c] = "drop" /\ arg[c] = s
    BY <2>1, <2>2, <2>3, <2>4, <2>5 DEF Next, CallEvent
  <2> QED  BY <2>6 DEF Handlers
<1> QED  BY <1>1, Invariance, PTL DEF Spec, YoungClosedOnlyByItsClient
=============================================================================
