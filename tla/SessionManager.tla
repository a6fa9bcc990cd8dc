--------------------------- MODULE SessionManager ---------------------------
(***************************************************************************)
(* The session store of bosonserver: class SessionManager of               *)
(* bosonserver/src/services/relay/SessionManager.ts over its three tiers,  *)
(* the `sessions` table, the Redis keys `session:<id>` (TTL one hour) and  *)
(* the in-process map activeSessions (no TTL).                             *)
(*                                                                         *)
(* Atomicity.  The process is single threaded: a step is the code between  *)
(* two awaits.  Redis is reached over one connection, which executes       *)
(* commands in the order they are issued, so a Redis command takes effect  *)
(* in the step that issues it and its caller resumes in a later one.       *)
(* PostgreSQL is reached through a pool of connections, so a statement     *)
(* that others may overtake takes effect in a step of its own, after the   *)
(* step that issues it and before the one that resumes the caller.         *)
(*                                                                         *)
(* Data.  Of a session only its status is kept, "none" being no row, no    *)
(* key or no entry.  Of its dates `age' keeps what the queries compare:    *)
(* younger than two minutes, older, past expires_at.  Session ids are      *)
(* fresh UUIDs (RelayService.createRelaySession), so an id is created at   *)
(* most once.                                                              *)
(***************************************************************************)
EXTENDS Naturals

CONSTANTS
    SessionIds,     \* relay session ids
    NoSession,      \* what a call that is not about one session is about
    Calls,          \* the calls of the manager's methods that may be in flight
    Faults          \* the stores whose commands may be rejected

ASSUME FaultsAssumption == Faults \subseteq {"db", "redis"}
ASSUME NoSessionAssumption == NoSession \notin SessionIds

VARIABLES
    rows,           \* rows[s]: status column of the row of s
    age,            \* age[s]: created_at and expires_at of s against NOW()
    redis,          \* redis[s]: status in the value of key session:s
    mem,            \* mem[s]: status in the entry of activeSessions
    at,             \* at[c]: the await at which call c is suspended
    arg,            \* arg[c]: the session id call c is about
    seen,           \* seen[c]: the copy of the session held by call c
    todo,           \* todo[c]: rows a sweep has still to evict (or to spare)
    tainted         \* history: sessions whose caches may be stale for good

store == <<rows, age, redis, mem>>
call  == <<at, arg, seen, todo>>
vars  == <<rows, age, redis, mem, at, arg, seen, todo, tainted>>

Copy == {"none", "active", "closed"}
Ages == {"unissued", "young", "old", "expired"}

Labels == {"idle", "done", "failed",
           "create.row", "create.redis",
           "get.redis", "get.db", "get.row", "get.fill",
           "close.db", "close.row", "close.evict", "close.del",
           "expire.loop", "stale.select", "stale.update", "stale.loop"}

(* The awaits of the methods that are given a session id. *)
OnSession == {"create.row", "create.redis",
              "get.redis", "get.db", "get.row", "get.fill",
              "close.db", "close.row", "close.evict", "close.del"}

TypeOK ==
    /\ rows \in [SessionIds -> Copy]
    /\ age \in [SessionIds -> Ages]
    /\ redis \in [SessionIds -> Copy]
    /\ mem \in [SessionIds -> Copy]
    /\ at \in [Calls -> Labels]
    /\ arg \in [Calls -> SessionIds \cup {NoSession}]
    /\ \A c \in Calls : at[c] \in OnSession => arg[c] \in SessionIds
    /\ seen \in [Calls -> Copy]
    /\ todo \in [Calls -> SUBSET SessionIds]
    /\ tainted \in SUBSET SessionIds

Init ==
    /\ rows = [s \in SessionIds |-> "none"]
    /\ age = [s \in SessionIds |-> "unissued"]
    /\ redis = [s \in SessionIds |-> "none"]
    /\ mem = [s \in SessionIds |-> "none"]
    /\ at = [c \in Calls |-> "idle"]
    /\ arg = [c \in Calls |-> NoSession]
    /\ seen = [c \in Calls |-> "none"]
    /\ todo = [c \in Calls |-> {}]
    /\ tainted = {}

-----------------------------------------------------------------------------
(* A copy of s that call c will write into a cache. *)
Carries(c, s) ==
    /\ arg[c] = s
    /\ seen[c] = "active"
    /\ at[c] \in {"create.row", "create.redis", "get.redis", "get.row", "get.fill"}

(* Call c has taken s out of the table's active rows and has still to drop *)
(* the cached copies.                                                      *)
Removes(c, s) ==
    \/ at[c] \in {"close.row", "close.evict"} /\ arg[c] = s
    \/ at[c] \in {"expire.loop", "stale.loop"} /\ s \in todo[c]

Carried == {s \in SessionIds : \E c \in Calls : Carries(c, s)}
Removed == {s \in SessionIds : \E c \in Calls : Removes(c, s)}

(* The row of s as SELECT ... WHERE expires_at > NOW() returns it. *)
LiveRow(s) == IF age[s] = "expired" THEN "none" ELSE rows[s]

(* Suspend call c at an await, or end it, with the copy v in hand. *)
Suspend(c, label, v) ==
    /\ at' = [at EXCEPT ![c] = label]
    /\ seen' = [seen EXCEPT ![c] = v]
    /\ UNCHANGED <<arg, todo>>

(* Mutant: the call does not record which session it is about. *)
BeginMutant(c, s, label, v) ==
    /\ at[c] = "idle"
    /\ at' = [at EXCEPT ![c] = label]
    /\ seen' = [seen EXCEPT ![c] = v]
    /\ UNCHANGED <<arg, todo>>

Begin(c, s, label, v) ==
    /\ at[c] = "idle"
    /\ at' = [at EXCEPT ![c] = label]
    /\ arg' = [arg EXCEPT ![c] = s]
    /\ seen' = [seen EXCEPT ![c] = v]
    /\ UNCHANGED todo

(* The caller takes the outcome of a call that has ended. *)
Return(c) ==
    /\ at[c] \in {"done", "failed"}
    /\ at' = [at EXCEPT ![c] = "idle"]
    /\ arg' = [arg EXCEPT ![c] = NoSession]
    /\ seen' = [seen EXCEPT ![c] = "none"]
    /\ UNCHANGED todo
    /\ UNCHANGED <<rows, age, redis, mem, tainted>>

-----------------------------------------------------------------------------
(* createSession.  Nobody knows the id before the INSERT, so issuing and   *)
(* executing it are one step; a rejected INSERT may have been executed.    *)

(* A UUID fresh from the generator: never used, asked for by nobody. *)
Fresh(s) == age[s] = "unissued" /\ \A c \in Calls : arg[c] # s

CreateInsert(c, s) ==
    /\ Fresh(s)
    /\ Begin(c, s, "create.row", "active")
    /\ age' = [age EXCEPT ![s] = "young"]
    /\ rows' = [rows EXCEPT ![s] = "active"]
    /\ UNCHANGED <<redis, mem, tainted>>

CreateRejected(c, s) ==
    /\ "db" \in Faults
    /\ Fresh(s)
    /\ Begin(c, s, "failed", "none")
    /\ age' = [age EXCEPT ![s] = "young"]
    /\ rows' \in {rows, [rows EXCEPT ![s] = "active"]}
    /\ UNCHANGED <<redis, mem, tainted>>

CreateCache(c) ==
    /\ at[c] = "create.row"
    /\ redis' = [redis EXCEPT ![arg[c]] = "active"]
    /\ \/ Suspend(c, "create.redis", "active")
       \/ "redis" \in Faults /\ Suspend(c, "failed", "none")
    /\ UNCHANGED <<rows, age, mem, tainted>>

CreateUncached(c) ==
    /\ at[c] = "create.row"
    /\ "redis" \in Faults
    /\ Suspend(c, "failed", "none")
    /\ UNCHANGED <<rows, age, redis, mem, tainted>>

CreateDone(c) ==
    /\ at[c] = "create.redis"
    /\ mem' = [mem EXCEPT ![arg[c]] = "active"]
    /\ Suspend(c, "done", "active")
    /\ UNCHANGED <<rows, age, redis, tainted>>

-----------------------------------------------------------------------------
(* getSession.  A hit in memory answers at once, whatever the age of the   *)
(* session.  A reader that carries an active copy across a removal taints  *)
(* the session: what it writes back outlives the removal.                  *)

GetHit(c, s) ==
    /\ mem[s] # "none"
    /\ Begin(c, s, "done", mem[s])
    /\ UNCHANGED <<rows, age, redis, mem, tainted>>

GetMiss(c, s) ==
    /\ mem[s] = "none"
    /\ Begin(c, s, "get.redis", redis[s])
    /\ tainted' = IF redis[s] = "active" /\ s \in Removed
                  THEN tainted \cup {s} ELSE tainted
    /\ UNCHANGED <<rows, age, redis, mem>>

GetRedisHit(c) ==
    /\ at[c] = "get.redis"
    /\ seen[c] # "none"
    /\ mem' = [mem EXCEPT ![arg[c]] = seen[c]]
    /\ Suspend(c, "done", seen[c])
    /\ UNCHANGED <<rows, age, redis, tainted>>

GetRedisMiss(c) ==
    /\ at[c] = "get.redis"
    /\ seen[c] = "none"
    /\ Suspend(c, "get.db", "none")
    /\ UNCHANGED <<rows, age, redis, mem, tainted>>

GetSelect(c) ==
    /\ at[c] = "get.db"
    /\ Suspend(c, "get.row", LiveRow(arg[c]))
    /\ UNCHANGED <<rows, age, redis, mem, tainted>>

GetNoRow(c) ==
    /\ at[c] = "get.row"
    /\ seen[c] = "none"
    /\ Suspend(c, "done", "none")
    /\ UNCHANGED <<rows, age, redis, mem, tainted>>

GetRow(c) ==
    /\ at[c] = "get.row"
    /\ seen[c] # "none"
    /\ redis' = [redis EXCEPT ![arg[c]] = seen[c]]
    /\ Suspend(c, "get.fill", seen[c])
    /\ UNCHANGED <<rows, age, mem, tainted>>

GetFill(c) ==
    /\ at[c] = "get.fill"
    /\ mem' = [mem EXCEPT ![arg[c]] = seen[c]]
    /\ Suspend(c, "done", seen[c])
    /\ UNCHANGED <<rows, age, redis, tainted>>

(* Any rejected command makes getSession answer null. *)
GetRejected(c) ==
    /\ \/ at[c] \in {"get.redis", "get.fill"} /\ "redis" \in Faults
       \/ at[c] = "get.db" /\ "db" \in Faults
    /\ Suspend(c, "done", "none")
    /\ UNCHANGED <<rows, age, redis, mem, tainted>>

-----------------------------------------------------------------------------
(* closeSession, with updateSessionStatus(s, 'closed') inlined.  A failed  *)
(* UPDATE is logged and forgotten: the caches are dropped all the same.    *)

(* UPDATE ... SET status = 'closed' WHERE session_id = s. *)
CloseRow(r, s) == IF r[s] = "none" THEN r ELSE [r EXCEPT ![s] = "closed"]

(* Mutant: the entry in memory is marked before the UPDATE. *)
CloseMutant(c, s) ==
    /\ Begin(c, s, "close.db", "none")
    /\ mem' = CloseRow(mem, s)
    /\ UNCHANGED <<rows, age, redis, tainted>>

Close(c, s) ==
    /\ Begin(c, s, "close.db", "none")
    /\ UNCHANGED <<rows, age, redis, mem, tainted>>

CloseUpdate(c) ==
    /\ at[c] = "close.db"
    /\ rows' = CloseRow(rows, arg[c])
    /\ Suspend(c, "close.row", "none")
    /\ tainted' = tainted \cup (Carried \cap {arg[c]})
    /\ UNCHANGED <<age, redis, mem>>

(* Mutant: the entry is marked although the UPDATE was rejected. *)
CloseRejectedMutant(c) ==
    /\ at[c] = "close.db"
    /\ "db" \in Faults
    /\ Suspend(c, "close.row", "none")
    /\ UNCHANGED <<rows, age, redis, mem, tainted>>

CloseRejected(c) ==
    /\ at[c] = "close.db"
    /\ "db" \in Faults
    /\ \/ UNCHANGED <<rows, tainted>>
       \/ /\ rows' = CloseRow(rows, arg[c])
          /\ tainted' = tainted \cup (Carried \cap {arg[c]})
    /\ Suspend(c, "close.evict", "none")
    /\ UNCHANGED <<age, redis, mem>>

(* The entry in memory, when there is one, is marked and written through. *)
CloseMark(c) ==
    /\ at[c] = "close.row"
    /\ mem[arg[c]] # "none"
    /\ mem' = [mem EXCEPT ![arg[c]] = "closed"]
    /\ \/ redis' = [redis EXCEPT ![arg[c]] = "closed"]
       \/ "redis" \in Faults /\ UNCHANGED redis
    /\ Suspend(c, "close.evict", "none")
    /\ UNCHANGED <<rows, age, tainted>>

EvictReady(c) ==
    \/ at[c] = "close.evict"
    \/ at[c] = "close.row" /\ mem[arg[c]] = "none"

(* Mutant: the entry in memory is left behind. *)
CloseEvictMutant(c) ==
    /\ EvictReady(c)
    /\ redis' = [redis EXCEPT ![arg[c]] = "none"]
    /\ Suspend(c, "close.del", "none")
    /\ UNCHANGED <<rows, age, mem, tainted>>

CloseEvict(c) ==
    /\ EvictReady(c)
    /\ mem' = [mem EXCEPT ![arg[c]] = "none"]
    /\ redis' = [redis EXCEPT ![arg[c]] = "none"]
    /\ Suspend(c, "close.del", "none")
    /\ UNCHANGED <<rows, age, tainted>>

(* A rejected DEL leaves the key and makes closeSession throw. *)
CloseEvictRejected(c) ==
    /\ EvictReady(c)
    /\ "redis" \in Faults
    /\ mem' = [mem EXCEPT ![arg[c]] = "none"]
    /\ Suspend(c, "failed", "none")
    /\ tainted' = tainted \cup {arg[c]}
    /\ UNCHANGED <<rows, age, redis>>

CloseDone(c) ==
    /\ at[c] = "close.del"
    /\ Suspend(c, "done", "none")
    /\ UNCHANGED <<rows, age, redis, mem, tainted>>

-----------------------------------------------------------------------------
(* cleanupExpiredSessions and cleanupStaleSessions.  Both end by dropping  *)
(* the cached copies of the rows the statement returned, one await each; a *)
(* rejected DEL abandons the rows that are left.                           *)

SweepWith(c, label, set) ==
    /\ at' = [at EXCEPT ![c] = label]
    /\ todo' = [todo EXCEPT ![c] = set]
    /\ UNCHANGED <<arg, seen>>

(* Mutant: only closed sessions are deleted. *)
ExpiredRowsMutant == {s \in SessionIds : rows[s] = "closed" /\ age[s] = "expired"}

ExpiredRows == {s \in SessionIds : rows[s] # "none" /\ age[s] = "expired"}

ExpireDelete(c) ==
    /\ at[c] = "idle"
    /\ rows' = [s \in SessionIds |-> IF s \in ExpiredRows THEN "none" ELSE rows[s]]
    /\ \/ /\ SweepWith(c, "expire.loop", ExpiredRows)
          /\ tainted' = tainted \cup (Carried \cap ExpiredRows)
       \/ /\ "db" \in Faults
          /\ SweepWith(c, "done", {})
          /\ tainted' = tainted \cup ExpiredRows
    /\ UNCHANGED <<age, redis, mem>>

(* spared: sessions with a WebSocket, or whose client is registered with   *)
(* the WireGuard server, as the caller listed them before the call.        *)
Stale(c, spared) ==
    /\ at[c] = "idle"
    /\ SweepWith(c, "stale.select", spared)
    /\ UNCHANGED <<rows, age, redis, mem, tainted>>

StaleSelect(c) ==
    /\ at[c] = "stale.select"
    /\ LET found == {s \in SessionIds \ todo[c] : LiveRow(s) = "active"}
       IN  SweepWith(c, IF found = {} THEN "done" ELSE "stale.update", found)
    /\ UNCHANGED <<rows, age, redis, mem, tainted>>

(* Mutant: sessions younger than two minutes are not spared. *)
StaleRowsMutant(c) == {s \in todo[c] : rows[s] = "active"}

(* Of the candidates, the rows still active and at least two minutes old. *)
StaleRows(c) == {s \in todo[c] : rows[s] = "active" /\ age[s] # "young"}

StaleUpdate(c) ==
    /\ at[c] = "stale.update"
    /\ rows' = [s \in SessionIds |-> IF s \in StaleRows(c) THEN "closed" ELSE rows[s]]
    /\ \/ /\ SweepWith(c, "stale.loop", StaleRows(c))
          /\ tainted' = tainted \cup (Carried \cap StaleRows(c))
       \/ /\ "db" \in Faults
          /\ SweepWith(c, "done", {})
          /\ tainted' = tainted \cup StaleRows(c)
    /\ UNCHANGED <<age, redis, mem>>

(* A statement rejected before it was executed ends the sweep. *)
SweepRejected(c) ==
    /\ "db" \in Faults
    /\ at[c] \in {"stale.select", "stale.update"}
    /\ SweepWith(c, "done", {})
    /\ UNCHANGED <<rows, age, redis, mem, tainted>>

SweepEvict(c, s) ==
    /\ at[c] \in {"expire.loop", "stale.loop"}
    /\ s \in todo[c]
    /\ mem' = [mem EXCEPT ![s] = "none"]
    /\ \/ /\ redis' = [redis EXCEPT ![s] = "none"]
          /\ SweepWith(c, at[c], todo[c] \ {s})
          /\ UNCHANGED tainted
       \/ /\ "redis" \in Faults
          /\ SweepWith(c, "done", {})
          /\ tainted' = tainted \cup todo[c]
          /\ UNCHANGED redis
    /\ UNCHANGED <<rows, age>>

SweepDone(c) ==
    /\ at[c] \in {"expire.loop", "stale.loop"}
    /\ todo[c] = {}
    /\ SweepWith(c, "done", {})
    /\ UNCHANGED <<rows, age, redis, mem, tainted>>

-----------------------------------------------------------------------------
(* Time.  A session does not age past two minutes while it is being        *)
(* created: the commands of createSession take less than that.             *)
Tick(s) ==
    /\ \/ /\ age[s] = "young"
          /\ \A c \in Calls : ~ (arg[c] = s /\ at[c] \in {"create.row", "create.redis"})
          /\ age' = [age EXCEPT ![s] = "old"]
       \/ /\ age[s] = "old"
          /\ age' = [age EXCEPT ![s] = "expired"]
    /\ UNCHANGED <<rows, redis, mem, at, arg, seen, todo, tainted>>

(* The key was written after expires_at was computed and lives as long as  *)
(* the session, so it lapses after the session has expired.                *)
RedisLapse(s) ==
    /\ age[s] = "expired"
    /\ redis[s] # "none"
    /\ redis' = [redis EXCEPT ![s] = "none"]
    /\ UNCHANGED <<rows, age, mem, at, arg, seen, todo, tainted>>

(* The process dies and is started again: the map and the calls are gone.  *)
Restart ==
    /\ mem' = [s \in SessionIds |-> "none"]
    /\ at' = [c \in Calls |-> "idle"]
    /\ arg' = [c \in Calls |-> NoSession]
    /\ seen' = [c \in Calls |-> "none"]
    /\ todo' = [c \in Calls |-> {}]
    /\ tainted' = tainted \cup Removed
    /\ UNCHANGED <<rows, age, redis>>

-----------------------------------------------------------------------------
CreateStep(c) == CreateCache(c) \/ CreateUncached(c) \/ CreateDone(c)

GetStep(c) ==
    \/ GetRedisHit(c) \/ GetRedisMiss(c) \/ GetSelect(c) \/ GetNoRow(c)
    \/ GetRow(c) \/ GetFill(c) \/ GetRejected(c)

CloseStep(c) ==
    \/ CloseUpdate(c) \/ CloseRejected(c) \/ CloseMark(c) \/ CloseEvict(c)
    \/ CloseEvictRejected(c) \/ CloseDone(c)

SweepStep(c) ==
    \/ StaleSelect(c) \/ StaleUpdate(c) \/ SweepRejected(c) \/ SweepDone(c)
    \/ \E s \in SessionIds : SweepEvict(c, s)

(* A call in flight goes on: what the event loop owes every call. *)
Progress(c) == CreateStep(c) \/ GetStep(c) \/ CloseStep(c) \/ SweepStep(c)

Environment == Restart \/ \E s \in SessionIds : Tick(s) \/ RedisLapse(s)

Begins(c) ==
    \/ ExpireDelete(c)
    \/ \E spared \in SUBSET SessionIds : Stale(c, spared)
    \/ \E s \in SessionIds :
          CreateInsert(c, s) \/ CreateRejected(c, s) \/ GetHit(c, s)
          \/ GetMiss(c, s) \/ Close(c, s)

Next == Environment \/ \E c \in Calls : Begins(c) \/ Progress(c) \/ Return(c)

Spec == Init /\ [][Next]_vars

-----------------------------------------------------------------------------
(* Cache coherence.  A cached copy says "active" only while the row does,  *)
(* or while some close or sweep of the session has still to drop it; the   *)
(* exceptions are exactly the tainted sessions: a reader carried an active *)
(* copy across the removal (getSession, lines 77-95, against lines 126-131 *)
(* and 133-210), a store rejected a command of the removal, or the process *)
(* died in the middle of one.                                              *)
Coherent(s) ==
    (mem[s] = "active" \/ redis[s] = "active") =>
        rows[s] = "active" \/ s \in Removed

CoherentUnlessTainted == \A s \in SessionIds \ tainted : Coherent(s)

(* A copy that says "closed" never lies, whatever fails or races: the      *)
(* UPDATE comes before the marking of the entry and the write-through      *)
(* (updateSessionStatus, lines 109-117), and no closed row reopens.        *)
ClosedCopiesAreTrue ==
    \A s \in SessionIds : mem[s] = "closed" \/ redis[s] = "closed" => rows[s] # "active"

(* A session that was closed or deleted is never active again, though      *)
(* createSession would reopen it (ON CONFLICT ... DO UPDATE SET status,    *)
(* line 43) were an id ever issued twice.                                  *)
NeverReopened ==
    [][\A s \in SessionIds :
         rows'[s] = "active" => rows[s] = "active" \/ age[s] = "unissued"]_vars
-----------------------------------------------------------------------------
(* What a session has come to, and what the calls that ended have told. *)
LifeOf == [s \in SessionIds |->
             IF age[s] = "unissued" THEN "unissued"
             ELSE IF rows[s] = "none" THEN "gone" ELSE rows[s]]

AnswerOf == [c \in Calls |->
               IF at[c] = "done" /\ arg[c] # NoSession
               THEN <<arg[c], seen[c]>> ELSE NoSession]

Lifecycle == INSTANCE SessionLifecycle
             WITH life <- LifeOf, answer <- AnswerOf, NoAnswer <- NoSession

(* The three tiers, with their races and failures, implement the promise   *)
(* of SessionLifecycle: in particular getSession never answers with a      *)
(* status the session has not had, and never "closed" for an open session. *)
ImplementsLifecycle == Lifecycle!Spec
=============================================================================
