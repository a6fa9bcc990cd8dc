---------------------------- MODULE RoutingService ----------------------------
(***************************************************************************)
(* How a client is given a route: RoutingService.requestRoute of           *)
(* bosonserver/src/services/routing over the directory of nodes, the       *)
(* session store and the Redis keys `route:<client>:<target>'.             *)
(*                                                                         *)
(* The directory is what getAllActiveNodes returns; how nodes come and go  *)
(* is NodeRegistry's.  The session store does what SessionLifecycle        *)
(* promises, at any time.  Atomicity is that of these modules: a Redis     *)
(* command takes effect in the step that issues it, a statement of         *)
(* PostgreSQL in a step of its own.  The row that storeRoute writes is     *)
(* read by no request for a route and not kept.                            *)
(*                                                                         *)
(* Time passes in ticks of a minute, with the conventions of NodeRegistry: *)
(* a key of CacheTtl ticks is gone after CacheTtl ticks, or one more, and  *)
(* no request takes longer than a tick.                                    *)
(***************************************************************************)
EXTENDS LoadBalancer, FiniteSets

CONSTANTS
    Clients,
    Targets,        \* what may be given as targetNodeId
    Requirements,
    Nets,           \* what clients may say of their network
    SessionIds,     \* bound of the model: no more sessions than these
    NoSession,      \* an id no session has
    Nobody,         \* no node, no key, no answer
    Calls,          \* requests that may be in flight
    Worlds,         \* the circumstances that are looked at, see world
    CacheTtl        \* CACHE_TTL: five minutes

ASSUME RoutingConstants ==
    /\ CacheTtl \in Nat \ {0}
    /\ NoSession \notin SessionIds
    /\ Nobody \notin Nodes

ASSUME BoundsAssumption == IsFiniteSet(Calls) /\ IsFiniteSet(SessionIds)

Keys == Clients \X Targets
Answer == [node : Nodes, session : SessionIds \cup {NoSession}, direct : BOOLEAN]

World == [clients : SUBSET Clients, wishes : SUBSET (Requirements \X Nets),
          statuses : SUBSET {"online", "degraded", "offline"},
          faults : SUBSET {"db", "redis"}, sessions : Nat]

ASSUME NobodyAssumption == Nobody \notin Keys /\ Nobody \notin Answer
ASSUME WorldsAssumption == Worlds \subseteq World

VARIABLES
    world,          \* in this behaviour: who asks, for what, what becomes of the nodes,
                    \* which stores may reject commands, and (bound of the model) how
                    \* many sessions there may be
    status,         \* status[n]: the status of n in the directory, "offline" if not listed
    life,           \* life[s]: the life of session s
    issued,         \* issued[s]: for which key and node it was created, if an answer names it
    age,            \* age[s]: ticks since
    cache,          \* cache[k]: the answer under key k, or Nobody
    held,           \* held[k]: ticks since it was written
    at,             \* at[c]: where request c is
    key,            \* key[c]: who asks, and for which target
    asked,          \* asked[c]: the requirements and the network it states
    hand,           \* hand[c]: what of the answer is known
    late            \* late[c]: request c began before the last tick

sessions == <<life, issued, age>>
redis == <<cache, held>>
requests == <<at, key, asked, hand, late>>
vars == <<world, status, sessions, redis, requests>>

Store == INSTANCE SessionLifecycle WITH
            Calls <- {}, NoAnswer <- Nobody, answer <- [c \in {} |-> Nobody]

Labels == {"idle", "hit", "select", "create", "store", "done"}
Statuses == {"online", "degraded", "offline"}

(* Bound of the model: longer times are not told apart. *)
Long == CacheTtl + 3

TypeOK ==
    /\ world \in World
    /\ status \in [Nodes -> Statuses]
    /\ life \in [SessionIds -> Store!Lives]
    /\ issued \in [SessionIds -> (Keys \X Nodes) \cup {Nobody}]
    /\ age \in [SessionIds -> 0 .. Long]
    /\ cache \in [Keys -> Answer \cup {Nobody}]
    /\ held \in [Keys -> 0 .. CacheTtl]
    /\ at \in [Calls -> Labels]
    /\ key \in [Calls -> Keys \cup {Nobody}]
    /\ asked \in [Calls -> (Requirements \X Nets) \cup {Nobody}]
    /\ hand \in [Calls -> Answer \cup {Nobody}]
    /\ late \in [Calls -> BOOLEAN]
    /\ \A c \in Calls : at[c] \in {"hit", "create", "store", "done"} =>
          key[c] \in Keys /\ hand[c] \in Answer

Init ==
    /\ world \in Worlds
    /\ status \in [Nodes -> world.statuses]
    /\ life = [s \in SessionIds |-> "unissued"]
    /\ issued = [s \in SessionIds |-> Nobody]
    /\ age = [s \in SessionIds |-> 0]
    /\ cache = [k \in Keys |-> Nobody]
    /\ held = [k \in Keys |-> 0]
    /\ at = [c \in Calls |-> "idle"]
    /\ key = [c \in Calls |-> Nobody]
    /\ asked = [c \in Calls |-> Nobody]
    /\ hand = [c \in Calls |-> Nobody]
    /\ late = [c \in Calls |-> FALSE]

-----------------------------------------------------------------------------
Listed == {n \in Nodes : status[n] # "offline"}

(* Request c comes to the next of its awaits with what it knows.           *)
Goto(c, label, answer) ==
    /\ at' = [at EXCEPT ![c] = label]
    /\ hand' = [hand EXCEPT ![c] = answer]
    /\ asked' = [asked EXCEPT ![c] = Nobody]
    /\ UNCHANGED <<key, late>>

(* It ends, with an answer that was taken or with an error.                *)
Over(c) ==
    /\ at' = [at EXCEPT ![c] = "idle"]
    /\ hand' = [hand EXCEPT ![c] = Nobody]
    /\ asked' = [asked EXCEPT ![c] = Nobody]
    /\ key' = [key EXCEPT ![c] = Nobody]
    /\ late' = [late EXCEPT ![c] = FALSE]

(* Bound of the model: a request begins if it can have a session. *)
SessionsSuffice ==
    Cardinality({s \in SessionIds : life[s] # "unissued"})
        + Cardinality({c \in Calls : at[c] \in {"select", "create"}}) < world.sessions

(* Mutant: a key is made of the target alone. *)
KeyOfMutant(client, target) == <<CHOOSE x \in Clients : TRUE, target>>

KeyOf(client, target) == <<client, target>>

(* Mutant: what Redis has is served without a look at what it is. *)
HitMutant(k) == TRUE

Hit(k) == cache[k] # Nobody

RequestRoute(c, client, target, wish) ==
    LET k == KeyOf(client, target)
    IN  /\ at[c] = "idle"
        /\ ~ Hit(k) => SessionsSuffice
        /\ at' = [at EXCEPT ![c] = IF Hit(k) THEN "hit" ELSE "select"]
        /\ key' = [key EXCEPT ![c] = <<client, target>>]
        /\ asked' = [asked EXCEPT ![c] = IF Hit(k) THEN Nobody ELSE wish]
        /\ hand' = [hand EXCEPT ![c] = cache[k]]
        /\ UNCHANGED <<world, status, sessions, redis, late>>

(* Mutant: an answer that was served is cached anew. *)
ServeCachedMutant(c) ==
    /\ at[c] = "hit"
    /\ Goto(c, "done", hand[c])
    /\ cache' = [cache EXCEPT ![key[c]] = hand[c]]
    /\ held' = [held EXCEPT ![key[c]] = 0]
    /\ UNCHANGED <<world, status, sessions>>

(* A cached answer is given as it is. *)
ServeCached(c) ==
    /\ at[c] = "hit"
    /\ Goto(c, "done", hand[c])
    /\ UNCHANGED <<world, status, sessions, redis>>

(* The active nodes are selected, and a route to one of the best. *)
SelectRoute(c) ==
    /\ at[c] = "select"
    /\ LET req == asked[c][1]
           net == asked[c][2]
       IN  \E n \in Best(Listed, status, req) :
              Goto(c, "create", [node |-> n, session |-> NoSession, direct |-> Direct(net, n)])
    /\ UNCHANGED <<world, status, sessions, redis>>

(* "No available nodes", or the query is rejected. *)
NoRoute(c) ==
    /\ at[c] = "select"
    /\ Listed = {} \/ "db" \in world.faults
    /\ Over(c)
    /\ UNCHANGED <<world, status, sessions, redis>>

CreateSession(c, s) ==
    /\ at[c] = "create"
    /\ Store!Issue(s)
    /\ life'[s] = "active"
    /\ issued' = [issued EXCEPT ![s] = <<key[c], hand[c].node>>]
    /\ age' = [age EXCEPT ![s] = 0]
    /\ Goto(c, "store", [hand[c] EXCEPT !.session = s])
    /\ UNCHANGED <<world, status, redis>>

(* createRelaySession throws, because the row or the key was not written:  *)
(* the endpoint names an id that no session has, and the row that was      *)
(* written all the same is a session no answer names.                      *)
FallBack(c) ==
    /\ at[c] = "create"
    /\ world.faults # {}
    /\ \/ "db" \in world.faults /\ UNCHANGED life
       \/ \E s \in SessionIds : Store!Issue(s) /\ life'[s] = "active"
    /\ Goto(c, "store", hand[c])
    /\ UNCHANGED <<world, status, issued, age, redis>>

Cached(k, answer) ==
    /\ cache' = [cache EXCEPT ![k] = answer]
    /\ held' = [held EXCEPT ![k] = 0]

(* Mutant: what another request wrote meanwhile is left alone. *)
SaveMutant(c) ==
    /\ at[c] = "store"
    /\ Goto(c, "done", hand[c])
    /\ UNCHANGED <<world, status, sessions, redis>>

(* storeRoute is over, whatever became of it, and the answer is cached. *)
Save(c) ==
    /\ at[c] = "store"
    /\ \/ Cached(key[c], hand[c]) /\ Goto(c, "done", hand[c])
       \/ "redis" \in world.faults /\ (Cached(key[c], hand[c]) \/ UNCHANGED redis) /\ Over(c)
    /\ UNCHANGED <<world, status, sessions>>

(* The client takes its answer. *)
Return(c) ==
    /\ at[c] = "done"
    /\ Over(c)
    /\ UNCHANGED <<world, status, sessions, redis>>

-----------------------------------------------------------------------------
(* Nodes come, go and degrade, several at once when the clean-up task of   *)
(* the directory marks or removes them.                                    *)
StatusChanges(new) ==
    /\ new # status
    /\ status' = new
    /\ UNCHANGED <<world, sessions, redis, requests>>

(* A session is closed by its client or by a sweep; to a client that it is *)
(* deleted makes no difference.                                            *)
SessionEnds(s) ==
    /\ Store!Shut({s})
    /\ UNCHANGED <<world, status, issued, age, redis, requests>>

Lapse(k) ==
    /\ cache[k] # Nobody
    /\ held[k] = CacheTtl
    /\ Cached(k, Nobody)
    /\ UNCHANGED <<world, status, sessions, requests>>

(* A minute passes. *)
Tick ==
    /\ \A c \in Calls : ~ late[c] /\ at[c] # "done"
    /\ late' = [c \in Calls |-> at[c] # "idle"]
    /\ age' = [s \in SessionIds |-> IF life[s] = "unissued" \/ age[s] = Long
                                    THEN age[s] ELSE age[s] + 1]
    /\ cache' = [k \in Keys |-> IF held[k] = CacheTtl THEN Nobody ELSE cache[k]]
    /\ held' = [k \in Keys |-> IF cache'[k] = Nobody THEN 0 ELSE held[k] + 1]
    /\ UNCHANGED <<world, status, life, issued, at, key, asked, hand>>

Request(c) ==
    \E client \in world.clients, target \in Targets, wish \in world.wishes :
        RequestRoute(c, client, target, wish)

Progress(c) ==
    \/ ServeCached(c) \/ SelectRoute(c) \/ NoRoute(c)
    \/ \E s \in SessionIds : CreateSession(c, s)
    \/ FallBack(c) \/ Save(c) \/ Return(c)

Next ==
    \/ \E c \in Calls : Request(c) \/ Progress(c)
    \/ \E new \in [Nodes -> world.statuses] : StatusChanges(new)
    \/ \E s \in SessionIds : SessionEnds(s)
    \/ \E k \in Keys : Lapse(k)
    \/ Tick

Spec == Init /\ [][Next]_vars

-----------------------------------------------------------------------------
(* The session of an answer was created, and its node on the list, not     *)
(* longer ago than the life of a cached answer and the two requests that   *)
(* may lie around it: no answer is cached anew by being served.            *)
AnswersFresh ==
    \A c \in Calls : at[c] = "done" /\ hand[c].session # NoSession =>
        age[hand[c].session] =< CacheTtl + 2

(* An answer, cached or not, names a session of the client that asked, on  *)
(* the node it names, unless the creation of the session failed.           *)
Own(k, answer) ==
    IF answer.session = NoSession THEN world.faults # {}
    ELSE issued[answer.session] = <<k, answer.node>>

AnswersAreOwn ==
    /\ \A c \in Calls : at[c] = "done" => Own(key[c], hand[c])
    /\ \A k \in Keys : cache[k] # Nobody => Own(k, cache[k])

(* While the stores answer, a client that asks again and again has no more *)
(* sessions created within the life of a cached answer than requests that  *)
(* overlap, which all miss the cache.                                      *)
NoSessionFlood ==
    world.faults = {} =>
        \A k \in Keys :
            Cardinality({s \in SessionIds : /\ life[s] # "unissued"
                                            /\ issued[s][1] = k
                                            /\ age[s] < CacheTtl}) =< Cardinality(Calls)

(* A node that is chosen meets the requirements if an active node does,    *)
(* and is not a degraded one where an online one offers no less; a route   *)
(* is not called direct between two symmetric NATs.                        *)
ChoiceIsSound ==
    [][\A c \in Calls : at[c] = "select" /\ at'[c] = "create" =>
         LET n == hand'[c].node
             req == asked[c][1]
         IN  /\ (\E m \in Listed : Suits(m, req)) => Suits(n, req)
             /\ status[n] = "degraded" =>
                   ~ \E m \in Listed : /\ Suits(m, req) /\ status[m] = "online"
                                       /\ profile[m].down >= profile[n].down
                                       /\ profile[m].connections >= profile[n].connections
             /\ hand'[c].direct => ~ (asked[c][2].symmetric /\ profile[n].symmetric)]_vars

-----------------------------------------------------------------------------
(* Statements made about routing that it does not keep. *)

(* "Session errors: creation of a new session" (PROTOCOL.md:690-691): a    *)
(* client that asks for a route is given a session that has not ended      *)
(* before it asked.                                                        *)
EndedSessionsReplaced ==
    [][\A c \in Calls :
         at[c] = "idle" /\ at'[c] = "hit" /\ hand'[c].session # NoSession
             => life[hand'[c].session] = "active"]_vars
=============================================================================
