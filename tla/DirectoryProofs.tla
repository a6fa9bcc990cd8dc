---------------------------- MODULE DirectoryProofs ----------------------------
(***************************************************************************)
(* Theorems about the directory of nodes and the routes given from it:     *)
(* RoutingService, NodeRegistry, and the two together, for any clients,    *)
(* targets, nodes and profiles, any numbers of sessions and of requests in *)
(* flight, any durations and any failing stores.  The operations of the    *)
(* directory are taken with INSTANCE, over the state of NodeDirectory.     *)
(***************************************************************************)
EXTENDS RoutingService, NodeDirectory, FiniteSetTheorems, TLAPS

Directory == INSTANCE NodeRegistry

-----------------------------------------------------------------------------
(* An answer with a session names one that was created, so that its id is  *)
(* not given to another.                                                   *)
Named(answer) == answer.session # NoSession => life[answer.session] # "unissued"

OwnInv ==
    /\ \A c \in Calls :
          /\ at[c] = "create" => hand[c].session = NoSession
          /\ at[c] \in {"hit", "store", "done"} => Own(key[c], hand[c]) /\ Named(hand[c])
    /\ \A k \in Keys : cache[k] # Nobody => Own(k, cache[k]) /\ Named(cache[k])

(* How old the session of an answer may be, from place to place: a cached  *)
(* answer is at most a tick older than its key, since that is what the     *)
(* request that wrote it may have taken; a request that found it may take  *)
(* a tick more.                                                            *)
Within(answer, t) == answer.session # NoSession => age[answer.session] =< t
Delay(c) == IF late[c] THEN 1 ELSE 0

FreshInv ==
    /\ \A c \in Calls :
          /\ at[c] = "idle" => ~ late[c]
          /\ at[c] = "store" => Within(hand[c], Delay(c))
          /\ at[c] = "hit" => Within(hand[c], CacheTtl + 1 + Delay(c))
          /\ at[c] = "done" => Within(hand[c], CacheTtl + 2)
    /\ \A k \in Keys : cache[k] # Nobody => Within(cache[k], held[k] + 1)

(* The young sessions of a key, and the requests that have missed the      *)
(* cache and may still create one.                                         *)
Young(k) == {s \in SessionIds : /\ life[s] # "unissued"
                                /\ issued[s][1] = k
                                /\ age[s] < CacheTtl}
Missed(k) == {c \in Calls : at[c] \in {"select", "create"} /\ key[c] = k}
Stores(c, k, s) == at[c] = "store" /\ key[c] = k /\ hand[c].session = s

(* While a session is young, its key is cached or its own request is about *)
(* to write the key.                                                       *)
Covered(k, s) ==
    \/ cache[k] # Nobody /\ held[k] =< age[s]
    \/ \E c \in Calls : Stores(c, k, s)

FloodInv ==
    world.faults = {} => \A k \in Keys :
        /\ \A s \in Young(k) : Covered(k, s)
        /\ Cardinality(Young(k)) + Cardinality(Missed(k)) =< Cardinality(Calls)

TypeInv ==
    /\ TypeOK
    /\ \A c \in Calls : at[c] = "select" => key[c] \in Keys

USE RoutingConstants, NobodyAssumption, WorldsAssumption

-----------------------------------------------------------------------------
LEMMA BestAreListed ==
    ASSUME NEW N, NEW st, NEW req
    PROVE  Best(N, st, req) \subseteq N
BY DEF Best, Candidates

LEMMA GrowsOlder ==
    /\ \A a \in 0 .. Long : a # Long => a + 1 \in 0 .. Long
    /\ \A h \in 0 .. CacheTtl : h # CacheTtl => h + 1 \in 0 .. CacheTtl
    /\ 0 \in 0 .. CacheTtl
BY DEF Long

LEMMA TypeInit == Init => TypeInv
<1> SUFFICES ASSUME Init PROVE TypeInv
    OBVIOUS
<1>1. world \in World /\ world.statuses \subseteq Statuses
  BY DEF Init, World, Statuses
<1> QED
  BY <1>1 DEF Init, TypeInv, TypeOK, Labels, Long, Store!Lives, Statuses

(* Each action keeps the types. *)
LEMMA TypeStep == TypeInv /\ [Next]_vars => TypeInv'
<1> SUFFICES ASSUME TypeInv, [Next]_vars PROVE TypeInv'
    OBVIOUS
<1> USE DEF TypeInv, TypeOK, Labels, requests, redis, sessions
<1>1. ASSUME NEW c \in Calls, Request(c) PROVE TypeInv'
  <2>1. PICK client \in world.clients, target \in Targets, wish \in world.wishes :
            RequestRoute(c, client, target, wish)
    BY <1>1 DEF Request
  <2>2. client \in Clients /\ wish \in Requirements \X Nets
    BY DEF World
  <2>3. KeyOf(client, target) = <<client, target>> /\ <<client, target>> \in Keys
    BY <2>2 DEF KeyOf, Keys
  <2> QED
    BY <2>1, <2>2, <2>3 DEF RequestRoute, Hit
<1>2. ASSUME NEW c \in Calls, ServeCached(c) PROVE TypeInv'
  BY <1>2 DEF ServeCached, Goto
<1>3. ASSUME NEW c \in Calls, SelectRoute(c) PROVE TypeInv'
  <2>1. PICK n \in Best(Listed, status, asked[c][1]) :
            Goto(c, "create", [node |-> n, session |-> NoSession,
                               direct |-> Direct(asked[c][2], n)])
    BY <1>3 DEF SelectRoute
  <2>2. n \in Nodes
    BY BestAreListed DEF Listed
  <2>3. Direct(asked[c][2], n) \in BOOLEAN
    BY DEF Direct
  <2>4. [node |-> n, session |-> NoSession, direct |-> Direct(asked[c][2], n)] \in Answer
    BY <2>2, <2>3 DEF Answer
  <2> QED
    BY <1>3, <2>1, <2>4 DEF SelectRoute, Goto
<1>4. ASSUME NEW c \in Calls, NoRoute(c) \/ Return(c) PROVE TypeInv'
  BY <1>4 DEF NoRoute, Return, Over
<1>5. ASSUME NEW c \in Calls, NEW s \in SessionIds, CreateSession(c, s) PROVE TypeInv'
  <2>1. [hand[c] EXCEPT !.session = s] \in Answer /\ hand[c].node \in Nodes
    BY <1>5 DEF CreateSession, Answer
  <2>2. life' \in [SessionIds -> Store!Lives]
    BY <1>5 DEF CreateSession, Store!Issue, Store!Lives
  <2>3. issued' \in [SessionIds -> (Keys \X Nodes) \cup {Nobody}]
    BY <1>5, <2>1 DEF CreateSession
  <2>4. age' \in [SessionIds -> 0 .. Long]
    BY <1>5 DEF CreateSession, Long
  <2> QED
    BY <1>5, <2>1, <2>2, <2>3, <2>4 DEF CreateSession, Goto
<1>6. ASSUME NEW c \in Calls, FallBack(c) PROVE TypeInv'
  <2>1. life' \in [SessionIds -> Store!Lives]
    BY <1>6 DEF FallBack, Store!Issue, Store!Lives
  <2> QED
    BY <1>6, <2>1 DEF FallBack, Goto
<1>7. ASSUME NEW c \in Calls, Save(c) PROVE TypeInv'
  <2>1. key[c] \in Keys /\ hand[c] \in Answer
    BY <1>7 DEF Save
  <2>2. cache' \in [Keys -> Answer \cup {Nobody}] /\ held' \in [Keys -> 0 .. CacheTtl]
    BY <1>7, <2>1 DEF Save, Cached
  <2>3. CASE Goto(c, "done", hand[c])
    BY <1>7, <2>1, <2>2, <2>3 DEF Save, Goto
  <2>4. CASE Over(c)
    BY <1>7, <2>2, <2>4 DEF Save, Over
  <2> QED
    BY <1>7, <2>3, <2>4 DEF Save
<1>8. ASSUME NEW new \in [Nodes -> world.statuses], StatusChanges(new) PROVE TypeInv'
  <2>1. world.statuses \subseteq Statuses
    BY DEF World, Statuses
  <2>2. new \in [Nodes -> Statuses]
    BY <2>1
  <2> QED  BY <1>8, <2>2 DEF StatusChanges
<1>9. ASSUME NEW s \in SessionIds, SessionEnds(s) PROVE TypeInv'
  BY <1>9 DEF SessionEnds, Store!Shut, Store!Lives
<1>10. ASSUME NEW k \in Keys, Lapse(k) PROVE TypeInv'
  BY <1>10 DEF Lapse, Cached
<1>11. ASSUME Tick PROVE TypeInv'
  <2>1. age' \in [SessionIds -> 0 .. Long]
    <3>1. \A s \in SessionIds :
              (IF life[s] = "unissued" \/ age[s] = Long THEN age[s] ELSE age[s] + 1) \in 0 .. Long
      BY GrowsOlder
    <3> QED
      BY <1>11, <3>1 DEF Tick
  <2>2. cache' \in [Keys -> Answer \cup {Nobody}]
    BY <1>11 DEF Tick
  <2>3. \A k \in Keys : held[k] = CacheTtl => cache'[k] = Nobody
    BY <1>11 DEF Tick
  <2>4. held' \in [Keys -> 0 .. CacheTtl]
    <3>1. \A k \in Keys :
              (IF cache'[k] = Nobody THEN 0 ELSE held[k] + 1) \in 0 .. CacheTtl
      BY <2>3, GrowsOlder
    <3> QED
      BY <1>11, <3>1 DEF Tick
  <2> QED
    BY <1>11, <2>1, <2>2, <2>4 DEF Tick
<1>12. ASSUME UNCHANGED vars PROVE TypeInv'
  BY <1>12 DEF vars
<1> QED
  BY <1>1, <1>2, <1>3, <1>4, <1>5, <1>6, <1>7, <1>8, <1>9, <1>10, <1>11, <1>12
  DEF Next, Progress

-----------------------------------------------------------------------------
(* What an answer names stays what it is while sessions are left alone, or *)
(* only end, or another is created.                                        *)
LEMMA OwnInit == Init => OwnInv
BY DEF Init, OwnInv, Own, Named

LEMMA OwnStep == TypeInv /\ OwnInv /\ [Next]_vars => OwnInv'
<1> SUFFICES ASSUME TypeInv, OwnInv, [Next]_vars PROVE OwnInv'
    OBVIOUS
<1> USE DEF TypeInv, TypeOK, Labels, requests, redis, sessions, OwnInv
<1> DEFINE Good(k, answer) == Own(k, answer) /\ Named(answer)
<1>a. ASSUME UNCHANGED <<world, sessions>>
      PROVE  \A k, answer : Good(k, answer) => Good(k, answer)'
  BY <1>a DEF Own, Named
<1>1. ASSUME NEW c \in Calls, Request(c) PROVE OwnInv'
  <2>1. PICK client \in world.clients, target \in Targets, wish \in world.wishes :
            RequestRoute(c, client, target, wish)
    BY <1>1 DEF Request
  <2>2. KeyOf(client, target) = <<client, target>> /\ <<client, target>> \in Keys
    BY DEF KeyOf, Keys, World
  <2>3. UNCHANGED <<world, sessions, redis>>
    BY <2>1 DEF RequestRoute
  <2>4. \A d \in Calls : d # c => at'[d] = at[d] /\ key'[d] = key[d] /\ hand'[d] = hand[d]
    BY <2>1 DEF RequestRoute
  <2>5. /\ at'[c] = IF cache[<<client, target>>] # Nobody THEN "hit" ELSE "select"
        /\ key'[c] = <<client, target>>
        /\ hand'[c] = cache[<<client, target>>]
    BY <2>1, <2>2 DEF RequestRoute, Hit
  <2>6. \A k, answer : Good(k, answer) => Good(k, answer)'
    BY <1>a, <2>3
  <2>7. \A d \in Calls : d # c =>
            /\ at'[d] = "create" => hand'[d].session = NoSession
            /\ at'[d] \in {"hit", "store", "done"} => Good(key[d], hand[d])'
    BY <2>4, <2>6
  <2>8. cache[<<client, target>>] # Nobody =>
            Good(<<client, target>>, cache[<<client, target>>])
    BY <2>2
  <2>9. at'[c] = "hit" => Good(key[c], hand[c])'
    BY <2>5, <2>6, <2>8
  <2> QED
    BY <2>3, <2>5, <2>6, <2>7, <2>9
<1>2. ASSUME NEW c \in Calls, ServeCached(c) PROVE OwnInv'
  BY <1>2, <1>a DEF ServeCached, Goto
<1>3. ASSUME NEW c \in Calls, SelectRoute(c) PROVE OwnInv'
  <2>1. PICK n \in Best(Listed, status, asked[c][1]) :
            Goto(c, "create", [node |-> n, session |-> NoSession,
                               direct |-> Direct(asked[c][2], n)])
    BY <1>3 DEF SelectRoute
  <2> QED
    BY <1>3, <1>a, <2>1 DEF SelectRoute, Goto
<1>4. ASSUME NEW c \in Calls, NoRoute(c) \/ Return(c) PROVE OwnInv'
  BY <1>4, <1>a DEF NoRoute, Return, Over
<1>5. ASSUME NEW c \in Calls, NEW s \in SessionIds, CreateSession(c, s) PROVE OwnInv'
  <2>1. hand[c] \in Answer /\ key[c] \in Keys
    BY <1>5 DEF CreateSession
  <2>2. /\ [hand[c] EXCEPT !.session = s].session = s
        /\ [hand[c] EXCEPT !.session = s].node = hand[c].node
    BY <2>1 DEF Answer
  <2>3. /\ issued'[s] = <<key[c], hand[c].node>>
        /\ life'[s] # "unissued"
        /\ \A t \in SessionIds : t # s => issued'[t] = issued[t] /\ life'[t] = life[t]
        /\ life[s] = "unissued"
        /\ world' = world
    BY <1>5 DEF CreateSession, Store!Issue
  <2>4. \A k, answer : answer \in Answer /\ Good(k, answer) => Good(k, answer)'
    BY <2>3 DEF Own, Named, Answer
  <2>5. /\ at'[c] = "store" /\ key' = key /\ hand'[c] = [hand[c] EXCEPT !.session = s]
        /\ \A d \in Calls : d # c => at'[d] = at[d] /\ hand'[d] = hand[d]
        /\ cache' = cache
    BY <1>5 DEF CreateSession, Goto
  <2>6. Good(key[c], hand[c])'
    BY <2>2, <2>3, <2>5, RoutingConstants DEF Own, Named
  <2> QED
    BY <2>4, <2>5, <2>6
<1>6. ASSUME NEW c \in Calls, FallBack(c) PROVE OwnInv'
  <2>1. \A t \in SessionIds : life[t] # "unissued" => life'[t] = life[t]
    BY <1>6 DEF FallBack, Store!Issue
  <2>2. UNCHANGED <<world, issued, cache, key>> /\ world.faults # {}
    BY <1>6 DEF FallBack, Goto
  <2>3. \A k, answer : answer \in Answer /\ Good(k, answer) => Good(k, answer)'
    BY <2>1, <2>2 DEF Own, Named, Answer
  <2>4. /\ at[c] = "create" /\ at'[c] = "store" /\ hand'[c] = hand[c]
        /\ \A d \in Calls : d # c => at'[d] = at[d] /\ hand'[d] = hand[d]
    BY <1>6 DEF FallBack, Goto
  <2>5. Good(key[c], hand[c])
    BY <2>2, <2>4 DEF Own, Named
  <2> QED
    BY <2>2, <2>3, <2>4, <2>5
<1>7. ASSUME NEW c \in Calls, Save(c) PROVE OwnInv'
  <2>1. /\ key[c] \in Keys /\ hand[c] \in Answer /\ Good(key[c], hand[c])
        /\ UNCHANGED <<world, sessions>>
    BY <1>7 DEF Save
  <2>2. \A k \in Keys : cache'[k] # Nobody =>
            cache'[k] = cache[k] \/ (k = key[c] /\ cache'[k] = hand[c])
    BY <1>7 DEF Save, Cached
  <2>3. \A k \in Keys : cache'[k] # Nobody => Good(k, cache'[k])
    BY <2>1, <2>2
  <2>4. CASE Goto(c, "done", hand[c])
    BY <1>a, <2>1, <2>3, <2>4 DEF Goto
  <2>5. CASE Over(c)
    BY <1>a, <2>1, <2>3, <2>5 DEF Over
  <2> QED
    BY <1>7, <2>4, <2>5 DEF Save
<1>8. ASSUME NEW new \in [Nodes -> world.statuses], StatusChanges(new) PROVE OwnInv'
  BY <1>8, <1>a DEF StatusChanges
<1>9. ASSUME NEW s \in SessionIds, SessionEnds(s) PROVE OwnInv'
  <2>1. \A t \in SessionIds : life[t] # "unissued" => life'[t] # "unissued"
    BY <1>9 DEF SessionEnds, Store!Shut
  <2>2. \A k, answer : answer \in Answer /\ Good(k, answer) => Good(k, answer)'
    BY <1>9, <2>1 DEF SessionEnds, Own, Named, Answer
  <2> QED
    BY <1>9, <2>2 DEF SessionEnds
<1>10. ASSUME NEW k \in Keys, Lapse(k) PROVE OwnInv'
  BY <1>10, <1>a DEF Lapse, Cached
<1>11. ASSUME Tick PROVE OwnInv'
  <2>1. \A k, answer : Good(k, answer) => Good(k, answer)'
    BY <1>11 DEF Tick, Own, Named
  <2>2. \A k \in Keys : cache'[k] # Nobody => cache'[k] = cache[k]
    BY <1>11 DEF Tick
  <2> QED
    BY <1>11, <2>1, <2>2 DEF Tick
<1>12. ASSUME UNCHANGED vars PROVE OwnInv'
  BY <1>12, <1>a DEF vars
<1> QED
  BY <1>1, <1>2, <1>3, <1>4, <1>5, <1>6, <1>7, <1>8, <1>9, <1>10, <1>11, <1>12
  DEF Next, Progress

-----------------------------------------------------------------------------
(* Only a tick makes a session older, and by one. *)
LEMMA FreshInit == Init => FreshInv
BY DEF Init, FreshInv, Within

LEMMA FreshStep == TypeInv /\ OwnInv /\ FreshInv /\ [Next]_vars => FreshInv'
<1> SUFFICES ASSUME TypeInv, OwnInv, FreshInv, [Next]_vars PROVE FreshInv'
    OBVIOUS
<1> USE DEF TypeInv, TypeOK, Labels, requests, redis, sessions, FreshInv, Delay
<1>a. ASSUME UNCHANGED age
      PROVE  \A answer, t : Within(answer, t) => Within(answer, t)'
  BY <1>a DEF Within
<1>b. \A answer \in Answer, t \in Nat, u \in Nat :
         t =< u /\ Within(answer, t) => Within(answer, u)
  BY DEF Within, Answer, Long
<1>1. ASSUME NEW c \in Calls, Request(c) PROVE FreshInv'
  <2>1. PICK client \in world.clients, target \in Targets, wish \in world.wishes :
            RequestRoute(c, client, target, wish)
    BY <1>1 DEF Request
  <2> DEFINE k == <<client, target>>
  <2>2. KeyOf(client, target) = k /\ k \in Keys
    BY DEF KeyOf, Keys, World
  <2>3. UNCHANGED <<age, cache, held, late>> /\ at[c] = "idle"
    BY <2>1 DEF RequestRoute
  <2>4. \A d \in Calls : d # c => at'[d] = at[d] /\ hand'[d] = hand[d]
    BY <2>1 DEF RequestRoute
  <2>5. /\ at'[c] = IF cache[k] # Nobody THEN "hit" ELSE "select"
        /\ hand'[c] = cache[k]
    BY <2>1, <2>2 DEF RequestRoute, Hit
  <2>6. cache[k] # Nobody => Within(cache[k], CacheTtl + 1)
    <3>1. cache[k] # Nobody => cache[k] \in Answer /\ Within(cache[k], held[k] + 1)
      BY <2>2
    <3>2. held[k] + 1 \in Nat /\ CacheTtl + 1 \in Nat /\ held[k] + 1 =< CacheTtl + 1
      BY <2>2
    <3> QED
      BY <3>1, <3>2, <1>b
  <2>7. at'[c] = "hit" => Within(hand[c], CacheTtl + 1 + Delay(c))'
    <3>1. CacheTtl + 1 + Delay(c)' = CacheTtl + 1
      BY <2>3
    <3> QED
      BY <3>1, <2>5, <2>6, <2>3, <1>a
  <2>8. \A d \in Calls : Delay(d)' = Delay(d)
    BY <2>3
  <2>9. \A d \in Calls : d # c =>
          /\ at'[d] = "store" => Within(hand[d], Delay(d))'
          /\ at'[d] = "hit" => Within(hand[d], CacheTtl + 1 + Delay(d))'
          /\ at'[d] = "done" => Within(hand[d], CacheTtl + 2)'
    BY <2>3, <2>4, <2>8, <1>a
  <2> QED
    BY <2>3, <2>4, <2>5, <2>7, <2>9, <1>a
<1>2. ASSUME NEW c \in Calls, ServeCached(c) PROVE FreshInv'
  <2>1. UNCHANGED <<age, cache, held, late>> /\ at[c] = "hit"
    BY <1>2 DEF ServeCached, Goto
  <2>2. hand[c] \in Answer /\ Within(hand[c], CacheTtl + 2)
    <3>1. Within(hand[c], CacheTtl + 1 + Delay(c)) /\ hand[c] \in Answer
      BY <2>1
    <3>2. /\ CacheTtl + 1 + Delay(c) \in Nat /\ CacheTtl + 2 \in Nat
          /\ CacheTtl + 1 + Delay(c) =< CacheTtl + 2
      OBVIOUS
    <3> QED
      BY <3>1, <3>2, <1>b
  <2>3. /\ at'[c] = "done" /\ hand' = hand
        /\ \A d \in Calls : d # c => at'[d] = at[d]
    BY <1>2 DEF ServeCached, Goto
  <2> QED
    BY <2>1, <2>2, <2>3, <1>a
<1>3. ASSUME NEW c \in Calls, SelectRoute(c) PROVE FreshInv'
  <2>1. PICK n \in Best(Listed, status, asked[c][1]) :
            Goto(c, "create", [node |-> n, session |-> NoSession,
                               direct |-> Direct(asked[c][2], n)])
    BY <1>3 DEF SelectRoute
  <2>2. /\ at'[c] = "create" /\ UNCHANGED <<age, cache, held, late>>
        /\ \A d \in Calls : d # c => at'[d] = at[d] /\ hand'[d] = hand[d]
    BY <1>3, <2>1 DEF SelectRoute, Goto
  <2> QED
    BY <2>2, <1>a
<1>4. ASSUME NEW c \in Calls, NoRoute(c) \/ Return(c) PROVE FreshInv'
  <2>1. /\ at'[c] = "idle" /\ ~ late'[c] /\ UNCHANGED <<age, cache, held>>
        /\ \A d \in Calls : d # c => at'[d] = at[d] /\ hand'[d] = hand[d] /\ late'[d] = late[d]
    BY <1>4 DEF NoRoute, Return, Over
  <2> QED
    BY <2>1, <1>a
<1>5. ASSUME NEW c \in Calls, NEW s \in SessionIds, CreateSession(c, s) PROVE FreshInv'
  <2>1. /\ at[c] = "create" /\ at'[c] = "store" /\ hand'[c] = [hand[c] EXCEPT !.session = s]
        /\ \A d \in Calls : d # c => at'[d] = at[d] /\ hand'[d] = hand[d]
        /\ UNCHANGED <<cache, held, late>>
    BY <1>5 DEF CreateSession, Goto
  <2>2. age'[s] = 0 /\ \A t \in SessionIds : t # s => age'[t] = age[t]
    BY <1>5 DEF CreateSession
  <2>3. \A answer \in Answer, t \in Nat : Within(answer, t) => Within(answer, t)'
    BY <2>2 DEF Within, Answer
  <2>4. hand'[c].session = s
    BY <2>1 DEF Answer
  <2>5. Within(hand[c], Delay(c))'
    BY <2>1, <2>2, <2>4 DEF Within
  <2>6. \A d \in Calls : /\ Delay(d)' = Delay(d) /\ Delay(d) \in Nat
                         /\ CacheTtl + 1 + Delay(d) \in Nat /\ CacheTtl + 2 \in Nat
    BY <2>1
  <2>7. \A d \in Calls : d # c =>
          /\ at'[d] = "store" => Within(hand[d], Delay(d))'
          /\ at'[d] = "hit" => Within(hand[d], CacheTtl + 1 + Delay(d))'
          /\ at'[d] = "done" => Within(hand[d], CacheTtl + 2)'
    BY <2>1, <2>3, <2>6
  <2>8. \A k \in Keys : cache'[k] # Nobody => Within(cache[k], held[k] + 1)'
    BY <2>1, <2>3
  <2> QED
    BY <2>1, <2>5, <2>7, <2>8
<1>6. ASSUME NEW c \in Calls, FallBack(c) PROVE FreshInv'
  <2>1. hand[c].session = NoSession
    BY <1>6 DEF FallBack, OwnInv
  <2>2. /\ at'[c] = "store" /\ hand'[c] = hand[c]
        /\ \A d \in Calls : d # c => at'[d] = at[d] /\ hand'[d] = hand[d]
        /\ UNCHANGED <<age, cache, held, late>>
    BY <1>6 DEF FallBack, Goto
  <2>3. Within(hand[c], Delay(c))'
    BY <2>1, <2>2 DEF Within
  <2> QED
    BY <2>2, <2>3, <1>a
<1>7. ASSUME NEW c \in Calls, Save(c) PROVE FreshInv'
  <2>1. /\ at[c] = "store" /\ key[c] \in Keys /\ hand[c] \in Answer
        /\ age' = age
    BY <1>7 DEF Save
  <2>2. \A k \in Keys : cache'[k] # Nobody =>
            \/ cache'[k] = cache[k] /\ held'[k] = held[k]
            \/ cache'[k] = hand[c] /\ held'[k] = 0
    BY <1>7 DEF Save, Cached
  <2>3. Within(hand[c], 1) /\ Within(hand[c], CacheTtl + 2)
    <3>1. Within(hand[c], Delay(c)) /\ Delay(c) \in Nat
      BY <2>1
    <3>2. Delay(c) =< 1 /\ Delay(c) =< CacheTtl + 2 /\ 1 \in Nat /\ CacheTtl + 2 \in Nat
      OBVIOUS
    <3> QED
      BY <3>1, <3>2, <2>1, <1>b
  <2>4. \A k \in Keys : cache'[k] # Nobody => Within(cache[k], held[k] + 1)'
    <3>1. 0 + 1 = 1
      OBVIOUS
    <3> QED
      BY <1>a, <2>1, <2>2, <2>3, <3>1
  <2>5. CASE Goto(c, "done", hand[c])
    <3>1. /\ at'[c] = "done" /\ hand'[c] = hand[c] /\ late' = late
          /\ \A d \in Calls : d # c => at'[d] = at[d] /\ hand'[d] = hand[d]
      BY <2>5 DEF Goto
    <3> QED
      BY <1>a, <2>1, <2>3, <2>4, <3>1
  <2>6. CASE Over(c)
    <3>1. /\ at'[c] = "idle" /\ ~ late'[c]
          /\ \A d \in Calls : d # c => /\ at'[d] = at[d] /\ hand'[d] = hand[d]
                                       /\ late'[d] = late[d]
      BY <2>6 DEF Over
    <3> QED
      BY <1>a, <2>1, <2>4, <3>1
  <2> QED
    BY <1>7, <2>5, <2>6 DEF Save
<1>8. ASSUME NEW new \in [Nodes -> world.statuses], StatusChanges(new) PROVE FreshInv'
  BY <1>8, <1>a DEF StatusChanges
<1>9. ASSUME NEW s \in SessionIds, SessionEnds(s) PROVE FreshInv'
  BY <1>9, <1>a DEF SessionEnds
<1>10. ASSUME NEW k \in Keys, Lapse(k) PROVE FreshInv'
  BY <1>10, <1>a DEF Lapse, Cached
<1>11. ASSUME Tick PROVE FreshInv'
  <2>1. \A answer \in Answer, t \in Nat : Within(answer, t) => Within(answer, t + 1)'
    <3>1. \A s \in SessionIds : age[s] \in Nat /\ age'[s] \in Nat /\ age'[s] =< age[s] + 1
      BY <1>11 DEF Tick, Long
    <3> QED
      BY <3>1 DEF Within, Answer
  <2>2. \A c \in Calls : /\ ~ late[c] /\ at[c] # "done"
                         /\ at'[c] = at[c] /\ hand'[c] = hand[c]
                         /\ (late'[c] <=> at[c] # "idle")
    BY <1>11 DEF Tick
  <2>3. ASSUME NEW c \in Calls
        PROVE  /\ at'[c] = "idle" => ~ late'[c]
               /\ at'[c] = "store" => Within(hand[c], Delay(c))'
               /\ at'[c] = "hit" => Within(hand[c], CacheTtl + 1 + Delay(c))'
               /\ at'[c] = "done" => Within(hand[c], CacheTtl + 2)'
    <3>1. CASE at[c] = "store"
      <4>1. Within(hand[c], 0) /\ hand[c] \in Answer
        BY <3>1, <2>2
      <4>2. Within(hand[c], 0 + 1)'
        BY <4>1, <2>1, <2>2
      <4>3. 0 + 1 = Delay(c)'
        BY <3>1, <2>2
      <4> QED
        BY <3>1, <2>2, <4>2, <4>3
    <3>2. CASE at[c] = "hit"
      <4>1. Within(hand[c], CacheTtl + 1 + 0) /\ hand[c] \in Answer
        BY <3>2, <2>2
      <4>2. CacheTtl + 1 + 0 \in Nat /\ CacheTtl + 1 + 0 + 1 = CacheTtl + 1 + Delay(c)'
        BY <3>2, <2>2
      <4>3. Within(hand[c], CacheTtl + 1 + 0 + 1)'
        BY <4>1, <4>2, <2>1, <2>2
      <4> QED
        BY <3>2, <2>2, <4>2, <4>3
    <3> QED
      BY <3>1, <3>2, <2>2
  <2>4. ASSUME NEW k \in Keys, cache'[k] # Nobody PROVE Within(cache[k], held[k] + 1)'
    <3>1. cache'[k] = cache[k] /\ held'[k] = held[k] + 1
      BY <2>4, <1>11 DEF Tick
    <3>2. Within(cache[k], held[k] + 1) /\ cache[k] \in Answer /\ held[k] + 1 \in Nat
      BY <2>4, <3>1
    <3> QED
      BY <3>1, <3>2, <2>1
  <2> QED
    BY <2>3, <2>4
<1>12. ASSUME UNCHANGED vars PROVE FreshInv'
  BY <1>12, <1>a DEF vars
<1> QED
  BY <1>1, <1>2, <1>3, <1>4, <1>5, <1>6, <1>7, <1>8, <1>9, <1>10, <1>11, <1>12
  DEF Next, Progress

-----------------------------------------------------------------------------
(* How sessions are counted. *)
LEMMA YoungAreFinite ==
    /\ \A k : IsFiniteSet(Young(k)) /\ Cardinality(Young(k)) \in Nat
    /\ \A k : IsFiniteSet(Missed(k)) /\ Cardinality(Missed(k)) \in Nat
    /\ Cardinality(Calls) \in Nat
<1>1. \A k : Young(k) \subseteq SessionIds /\ Missed(k) \subseteq Calls
  BY DEF Young, Missed
<1> QED
  BY <1>1, BoundsAssumption, FS_Subset, FS_CardinalityType

LEMMA Fewer ==
    ASSUME NEW Y, NEW M, IsFiniteSet(Y), IsFiniteSet(M),
           NEW Y1 \in SUBSET Y, NEW M1 \in SUBSET M,
           Cardinality(Y) + Cardinality(M) =< Cardinality(Calls)
    PROVE  Cardinality(Y1) + Cardinality(M1) =< Cardinality(Calls)
<1>1. /\ Cardinality(Y1) =< Cardinality(Y) /\ IsFiniteSet(Y1)
      /\ Cardinality(M1) =< Cardinality(M) /\ IsFiniteSet(M1)
  BY FS_Subset
<1>2. /\ Cardinality(Y) \in Nat /\ Cardinality(Y1) \in Nat
      /\ Cardinality(M) \in Nat /\ Cardinality(M1) \in Nat /\ Cardinality(Calls) \in Nat
  BY <1>1, FS_CardinalityType, BoundsAssumption
<1> QED
  BY <1>1, <1>2

(* One that goes over from the requests to the sessions. *)
LEMMA GoesOver ==
    ASSUME NEW Y, NEW M, IsFiniteSet(Y), IsFiniteSet(M), NEW s, NEW c \in M,
           Cardinality(Y) + Cardinality(M) =< Cardinality(Calls)
    PROVE  Cardinality(Y \cup {s}) + Cardinality(M \ {c}) =< Cardinality(Calls)
<1>1. /\ Cardinality(Y \cup {s}) = IF s \in Y THEN Cardinality(Y) ELSE Cardinality(Y) + 1
      /\ IsFiniteSet(Y \cup {s})
  BY FS_AddElement
<1>2. Cardinality(M \ {c}) = Cardinality(M) - 1 /\ IsFiniteSet(M \ {c})
  BY FS_RemoveElement
<1>3. /\ Cardinality(Y) \in Nat /\ Cardinality(M) \in Nat /\ Cardinality(Calls) \in Nat
  BY FS_CardinalityType, BoundsAssumption
<1> QED
  BY <1>1, <1>2, <1>3

(* Without a cached answer, each young session has a request of its own    *)
(* about to write one: together with those that have missed and one more   *)
(* they are no more than there are.                                        *)
LEMMA RoomForOneMore ==
    ASSUME TypeOK, NEW k \in Keys, NEW c \in Calls, at[c] = "idle",
           cache[k] = Nobody, \A s \in Young(k) : Covered(k, s)
    PROVE  Cardinality(Young(k)) + Cardinality(Missed(k) \cup {c}) =< Cardinality(Calls)
<1> DEFINE Y == Young(k)
           W == {d \in Calls : at[d] = "store" /\ key[d] = k}
           M == Missed(k) \cup {c}
           f == [s \in Y |-> CHOOSE d \in Calls : Stores(d, k, s)]
<1>1. \A s \in Y : f[s] \in Calls /\ Stores(f[s], k, s)
  BY DEF Covered
<1>2. f \in Injection(Y, W)
  <2>1. f \in [Y -> W]
    BY <1>1 DEF Stores
  <2>2. \A s, t \in Y : f[s] = f[t] => s = t
    BY <1>1 DEF Stores
  <2> QED
    BY <2>1, <2>2 DEF Injection, IsInjective
<1>3. /\ W \in SUBSET Calls /\ M \in SUBSET Calls /\ W \cap M = {}
      /\ W \cup M \in SUBSET Calls
  BY DEF Missed
<1> HIDE DEF Y, W, M, f
<1>4. /\ IsFiniteSet(W) /\ IsFiniteSet(M)
      /\ Cardinality(W \cup M) =< Cardinality(Calls)
  BY <1>3, FS_Subset, BoundsAssumption
<1>5. Cardinality(Y) =< Cardinality(W) /\ IsFiniteSet(Y)
  BY <1>2, <1>4, FS_Injection
<1>6. Cardinality(W \cup M) = Cardinality(W) + Cardinality(M)
  <2>1. Cardinality(W \cup M) = Cardinality(W) + Cardinality(M) - Cardinality(W \cap M)
    BY <1>4, FS_Union
  <2>2. Cardinality(W \cap M) = 0
    BY <1>3, FS_EmptySet
  <2> QED
    BY <1>4, <2>1, <2>2, FS_CardinalityType
<1>7. Cardinality(Y) + Cardinality(M) =< Cardinality(Calls)
  BY <1>4, <1>5, <1>6, FS_CardinalityType, BoundsAssumption
<1> QED
  BY <1>7 DEF Y, M

LEMMA FloodInit == Init => FloodInv
<1> SUFFICES ASSUME Init, NEW k \in Keys
             PROVE  /\ \A s \in Young(k) : Covered(k, s)
                    /\ Cardinality(Young(k)) + Cardinality(Missed(k)) =< Cardinality(Calls)
    BY DEF FloodInv
<1>1. Young(k) = {} /\ Missed(k) = {}
  BY DEF Init, Young, Missed
<1> QED
  BY <1>1, FS_EmptySet, YoungAreFinite

(* No step changes the circumstances. *)
LEMMA WorldStays == [Next]_vars => world' = world
BY DEF Next, vars, Request, RequestRoute, Progress, ServeCached, SelectRoute, NoRoute,
       CreateSession, FallBack, Save, Return, StatusChanges, SessionEnds, Lapse, Tick

LEMMA FloodStep == TypeInv /\ FloodInv /\ [Next]_vars => FloodInv'
<1> DEFINE AllCovered(k) == \A s \in Young(k) : Covered(k, s)
           Count(k) == Cardinality(Young(k)) + Cardinality(Missed(k)) =< Cardinality(Calls)
<1> SUFFICES ASSUME TypeInv, FloodInv, [Next]_vars, world.faults = {}, NEW k \in Keys
             PROVE  AllCovered(k)' /\ Count(k)'
  BY WorldStays DEF FloodInv
<1> USE DEF TypeInv, TypeOK, Labels, requests, redis, sessions
<1>a. AllCovered(k) /\ Count(k)
  BY DEF FloodInv
<1>b. ASSUME Young(k)' \subseteq Young(k), Missed(k)' \subseteq Missed(k) PROVE Count(k)'
  BY <1>a, <1>b, Fewer, YoungAreFinite
<1>c. ASSUME UNCHANGED <<cache, held>>,
             \A s \in Young(k)' : s \in Young(k) /\ age'[s] = age[s],
             \A d \in Calls : at[d] = "store" =>
                 at'[d] = "store" /\ key'[d] = key[d] /\ hand'[d] = hand[d]
      PROVE  AllCovered(k)'
  BY <1>a, <1>c DEF Covered, Stores
<1>1. ASSUME NEW c \in Calls, Request(c) PROVE AllCovered(k)' /\ Count(k)'
  <2>1. PICK client \in world.clients, target \in Targets, wish \in world.wishes :
            RequestRoute(c, client, target, wish)
    BY <1>1 DEF Request
  <2> DEFINE j == <<client, target>>
  <2>2. KeyOf(client, target) = j
    BY DEF KeyOf
  <2>3. /\ UNCHANGED <<sessions, redis>> /\ at[c] = "idle"
        /\ \A d \in Calls : d # c => /\ at'[d] = at[d] /\ hand'[d] = hand[d]
                                     /\ key'[d] = key[d]
    BY <2>1 DEF RequestRoute
  <2>4. at'[c] = (IF cache[j] # Nobody THEN "hit" ELSE "select") /\ key'[c] = j
    BY <2>1, <2>2 DEF RequestRoute, Hit
  <2>5. Young(k)' = Young(k)
    BY <2>3 DEF Young
  <2>6. AllCovered(k)'
    BY <1>c, <2>3, <2>5
  <2>7. CASE k = j /\ cache[k] = Nobody
    <3>1. Missed(k)' \subseteq Missed(k) \cup {c}
      BY <2>3, <2>4 DEF Missed
    <3>2. Cardinality(Young(k)) + Cardinality(Missed(k) \cup {c}) =< Cardinality(Calls)
      BY <1>a, <2>3, <2>7, RoomForOneMore
    <3>3. IsFiniteSet(Missed(k) \cup {c}) /\ IsFiniteSet(Young(k))
      BY YoungAreFinite, FS_AddElement
    <3> QED
      BY <2>5, <2>6, <3>1, <3>2, <3>3, Fewer
  <2>8. CASE ~ (k = j /\ cache[k] = Nobody)
    <3>1. Missed(k)' \subseteq Missed(k)
      BY <2>3, <2>4, <2>8 DEF Missed
    <3> QED
      BY <1>b, <2>5, <2>6, <3>1
  <2> QED
    BY <2>7, <2>8
<1>2. ASSUME NEW c \in Calls, ServeCached(c) PROVE AllCovered(k)' /\ Count(k)'
  <2>1. Young(k)' = Young(k) /\ Missed(k)' \subseteq Missed(k)
    BY <1>2 DEF ServeCached, Goto, Young, Missed
  <2>2. AllCovered(k)'
    BY <1>2, <1>c, <2>1 DEF ServeCached, Goto
  <2> QED
    BY <1>b, <2>1, <2>2
<1>3. ASSUME NEW c \in Calls, SelectRoute(c) PROVE AllCovered(k)' /\ Count(k)'
  <2>1. PICK n \in Best(Listed, status, asked[c][1]) :
            Goto(c, "create", [node |-> n, session |-> NoSession,
                               direct |-> Direct(asked[c][2], n)])
    BY <1>3 DEF SelectRoute
  <2>2. Young(k)' = Young(k) /\ Missed(k)' \subseteq Missed(k)
    BY <1>3, <2>1 DEF SelectRoute, Goto, Young, Missed
  <2>3. AllCovered(k)'
    BY <1>3, <1>c, <2>1, <2>2 DEF SelectRoute, Goto
  <2> QED
    BY <1>b, <2>2, <2>3
<1>4. ASSUME NEW c \in Calls, NoRoute(c) \/ Return(c) PROVE AllCovered(k)' /\ Count(k)'
  <2>1. Young(k)' = Young(k) /\ Missed(k)' \subseteq Missed(k)
    BY <1>4 DEF NoRoute, Return, Over, Young, Missed
  <2>2. AllCovered(k)'
    BY <1>4, <1>c, <2>1 DEF NoRoute, Return, Over
  <2> QED
    BY <1>b, <2>1, <2>2
<1>5. ASSUME NEW c \in Calls, NEW s \in SessionIds, CreateSession(c, s)
      PROVE  AllCovered(k)' /\ Count(k)'
  <2>1. /\ at[c] = "create" /\ at'[c] = "store" /\ hand'[c] = [hand[c] EXCEPT !.session = s]
        /\ \A d \in Calls : d # c => at'[d] = at[d] /\ hand'[d] = hand[d]
        /\ UNCHANGED <<cache, held, key>> /\ hand[c] \in Answer
    BY <1>5 DEF CreateSession, Goto
  <2>2. /\ issued'[s] = <<key[c], hand[c].node>>
        /\ \A t \in SessionIds : t # s =>
              issued'[t] = issued[t] /\ age'[t] = age[t] /\ life'[t] = life[t]
    BY <1>5 DEF CreateSession, Store!Issue
  <2>3. Young(k)' \subseteq Young(k) \cup {s}
    BY <2>2 DEF Young
  <2>4. Missed(k)' = Missed(k) \ {c}
    BY <2>1 DEF Missed
  <2>5. hand'[c].session = s
    BY <2>1 DEF Answer
  <2>6. CASE key[c] = k
    <3>1. c \in Missed(k)
      BY <2>1, <2>6 DEF Missed
    <3>2. Cardinality(Young(k) \cup {s}) + Cardinality(Missed(k) \ {c}) =< Cardinality(Calls)
      BY <1>a, <3>1, GoesOver, YoungAreFinite
    <3>3. IsFiniteSet(Young(k) \cup {s}) /\ IsFiniteSet(Missed(k) \ {c})
      BY YoungAreFinite, FS_AddElement, FS_RemoveElement
    <3>4. Count(k)'
      BY <2>3, <2>4, <3>2, <3>3, Fewer
    <3>5. Covered(k, s)'
      BY <2>1, <2>5, <2>6 DEF Covered, Stores
    <3>6. ASSUME NEW t \in Young(k)', t # s PROVE Covered(k, t)'
      <4>1. t \in Young(k) /\ age'[t] = age[t]
        BY <2>2, <2>3, <3>6 DEF Young
      <4> QED
        BY <1>a, <2>1, <4>1 DEF Covered, Stores
    <3> QED
      BY <3>4, <3>5, <3>6
  <2>7. CASE key[c] # k
    <3>1. Young(k)' \subseteq Young(k) /\ s \notin Young(k)'
      BY <2>2, <2>3, <2>7 DEF Young
    <3>2. \A t \in Young(k)' : age'[t] = age[t]
      BY <2>2, <3>1 DEF Young
    <3>3. AllCovered(k)'
      BY <1>c, <2>1, <3>1, <3>2
    <3> QED
      BY <1>b, <2>4, <3>1, <3>3
  <2> QED
    BY <2>6, <2>7
<1>6. ASSUME NEW c \in Calls, FallBack(c) PROVE FALSE
  BY <1>6 DEF FallBack
<1>7. ASSUME NEW c \in Calls, Save(c) PROVE AllCovered(k)' /\ Count(k)'
  <2>1. Young(k)' = Young(k) /\ UNCHANGED age
    BY <1>7 DEF Save, Young
  <2>2. Cached(key[c], hand[c]) /\ Goto(c, "done", hand[c])
    BY <1>7 DEF Save
  <2>3. Missed(k)' \subseteq Missed(k)
    BY <2>2 DEF Goto, Missed
  <2>4. hand[c] # Nobody /\ key[c] \in Keys
    BY <1>7 DEF Save
  <2>5. CASE key[c] = k
    <3>1. cache'[k] # Nobody /\ held'[k] = 0
      BY <2>2, <2>4, <2>5 DEF Cached
    <3>2. \A s \in Young(k)' : held'[k] =< age'[s]
      BY <2>1, <3>1 DEF Young, Long
    <3> QED
      BY <1>b, <2>1, <2>3, <3>1, <3>2 DEF Covered
  <2>6. CASE key[c] # k
    <3>1. cache'[k] = cache[k] /\ held'[k] = held[k]
      BY <2>2, <2>4, <2>6 DEF Cached
    <3>2. \A d \in Calls, s \in SessionIds : Stores(d, k, s) => Stores(d, k, s)'
      BY <2>2, <2>6 DEF Goto, Stores
    <3>3. AllCovered(k)'
      BY <1>a, <2>1, <3>1, <3>2 DEF Covered, Young
    <3> QED
      BY <1>b, <2>1, <2>3, <3>3
  <2> QED
    BY <2>5, <2>6
<1>8. ASSUME NEW new \in [Nodes -> world.statuses], StatusChanges(new)
      PROVE  AllCovered(k)' /\ Count(k)'
  <2>1. Young(k)' = Young(k) /\ Missed(k)' = Missed(k)
    BY <1>8 DEF StatusChanges, Young, Missed
  <2> QED
    BY <1>8, <1>b, <1>c, <2>1 DEF StatusChanges
<1>9. ASSUME NEW s \in SessionIds, SessionEnds(s) PROVE AllCovered(k)' /\ Count(k)'
  <2>1. Young(k)' \subseteq Young(k) /\ Missed(k)' = Missed(k)
    BY <1>9 DEF SessionEnds, Store!Shut, Young, Missed
  <2> QED
    BY <1>9, <1>b, <1>c, <2>1 DEF SessionEnds
<1>10. ASSUME NEW j \in Keys, Lapse(j) PROVE AllCovered(k)' /\ Count(k)'
  <2>1. Young(k)' = Young(k) /\ Missed(k)' = Missed(k) /\ UNCHANGED <<age, requests>>
    BY <1>10 DEF Lapse, Young, Missed
  <2>2. CASE k # j
    <3>1. cache'[k] = cache[k] /\ held'[k] = held[k]
      BY <1>10, <2>2 DEF Lapse, Cached
    <3> QED
      BY <1>a, <1>b, <2>1, <3>1 DEF Covered, Stores
  <2>3. CASE k = j
    <3>1. \A s \in Young(k) : ~ (held[k] =< age[s])
      BY <1>10, <2>3 DEF Lapse, Young, Long
    <3> QED
      BY <1>a, <1>b, <2>1, <3>1 DEF Covered, Stores
  <2> QED
    BY <2>2, <2>3
<1>11. ASSUME Tick PROVE AllCovered(k)' /\ Count(k)'
  <2>1. Young(k)' \subseteq Young(k)
    BY <1>11 DEF Tick, Young, Long
  <2>2. Missed(k)' = Missed(k) /\ UNCHANGED <<at, key, hand>>
    BY <1>11 DEF Tick, Missed
  <2>3. ASSUME NEW s \in Young(k)' PROVE Covered(k, s)'
    <3>1. s \in Young(k) /\ age'[s] = age[s] + 1 /\ age[s] + 1 < CacheTtl
      BY <2>1, <2>3, <1>11 DEF Tick, Young, Long
    <3>2. CASE cache[k] # Nobody /\ held[k] =< age[s]
      <4>1. held[k] # CacheTtl
        BY <3>1, <3>2 DEF Young, Long
      <4>2. cache'[k] = cache[k] /\ held'[k] = held[k] + 1
        BY <1>11, <3>2, <4>1 DEF Tick
      <4>3. held'[k] =< age'[s]
        BY <3>1, <3>2, <4>2 DEF Young, Long
      <4> QED
        BY <3>2, <4>2, <4>3 DEF Covered
    <3> QED
      BY <1>a, <2>2, <3>1, <3>2 DEF Covered, Stores
  <2> QED
    BY <1>b, <2>1, <2>2, <2>3
<1>12. ASSUME UNCHANGED vars PROVE AllCovered(k)' /\ Count(k)'
  <2>1. Young(k)' = Young(k) /\ Missed(k)' = Missed(k)
    BY <1>12 DEF vars, Young, Missed
  <2> QED
    BY <1>12, <1>b, <1>c, <2>1 DEF vars
<1> QED
  BY <1>1, <1>2, <1>3, <1>4, <1>5, <1>6, <1>7, <1>8, <1>9, <1>10, <1>11, <1>12
  DEF Next, Progress

-----------------------------------------------------------------------------
(* A node that LoadBalancer chooses, whatever nodes it chooses from. *)
LEMMA BestIsSound ==
    ASSUME NEW N \in SUBSET Nodes, NEW st, NEW req, NEW n \in Best(N, st, req)
    PROVE  /\ (\E m \in N : Suits(m, req)) => Suits(n, req)
           /\ st[n] = "degraded" =>
                 ~ \E m \in N : /\ Suits(m, req) /\ st[m] = "online"
                                /\ profile[m].down >= profile[n].down
                                /\ profile[m].connections >= profile[n].connections
<1>1. /\ n \in Candidates(N, req) /\ n \in Nodes
      /\ \A m \in Candidates(N, req) : Score(m, st[m]) =< Score(n, st[n])
  BY DEF Best, Candidates
<1>2. (\E m \in N : Suits(m, req)) => Suits(n, req)
  BY <1>1 DEF Candidates
<1>3. ASSUME st[n] = "degraded", NEW m \in N, Suits(m, req), st[m] = "online",
             profile[m].down >= profile[n].down,
             profile[m].connections >= profile[n].connections
      PROVE  FALSE
  <2>1. m \in Candidates(N, req)
    BY <1>3 DEF Candidates
  <2>2. \A x, y \in Nat : \A limit \in Nat :
            x >= y => AtMost(x, limit) >= AtMost(y, limit)
    BY DEF AtMost
  <2>3. /\ profile[n].down \in Nat /\ profile[n].connections \in Nat
        /\ profile[m].down \in Nat /\ profile[m].connections \in Nat
    BY <1>1, ProfileAssumption
  <2>4. 10 * profile[m].connections >= 10 * profile[n].connections
    BY <1>3, <2>3
  <2>5. /\ AtMost(profile[m].down, 5000) >= AtMost(profile[n].down, 5000)
        /\ AtMost(10 * profile[m].connections, 3000) >= AtMost(10 * profile[n].connections, 3000)
    BY <1>3, <2>2, <2>3, <2>4
  <2>6. Score(m, st[m]) > Score(n, st[n])
    <3>1. /\ AtMost(profile[m].down, 5000) \in Nat
          /\ AtMost(profile[n].down, 5000) \in Nat
          /\ AtMost(10 * profile[m].connections, 3000) \in Nat
          /\ AtMost(10 * profile[n].connections, 3000) \in Nat
      BY <2>3 DEF AtMost
    <3> QED
      BY <1>3, <2>5, <3>1 DEF Score
  <2>7. Score(m, st[m]) \in Int /\ Score(n, st[n]) \in Int
    BY <2>3 DEF Score, AtMost
  <2> QED
    BY <1>1, <2>1, <2>6, <2>7
<1> QED
  BY <1>2, <1>3

(* Only SelectRoute takes a request from its selection to the creation of  *)
(* a session.                                                              *)
LEMMA OnlySelectionChooses ==
    ASSUME TypeInv, [Next]_vars, NEW c \in Calls, at[c] = "select", at'[c] = "create"
    PROVE  SelectRoute(c)
<1> USE DEF TypeInv, TypeOK, Labels, requests
<1>1. \A d \in Calls : Request(d) => at'[c] = "select" \/ (d = c /\ at[c] = "idle")
  BY DEF Request, RequestRoute
<1>2. \A d \in Calls : ServeCached(d) \/ NoRoute(d) \/ Save(d) \/ Return(d) \/ FallBack(d)
          => at'[c] # "create"
  BY DEF ServeCached, NoRoute, Save, Return, FallBack, Goto, Over
<1>3. \A d \in Calls, s \in SessionIds : CreateSession(d, s) => at'[c] # "create"
  BY DEF CreateSession, Goto
<1>4. \A d \in Calls : SelectRoute(d) => d = c
  BY DEF SelectRoute, Goto
<1> QED
  BY <1>1, <1>2, <1>3, <1>4
  DEF Next, Progress, StatusChanges, SessionEnds, Lapse, Tick, vars

-----------------------------------------------------------------------------
IInv == TypeInv /\ OwnInv /\ FreshInv /\ FloodInv

LEMMA Inductive == Spec => []IInv
<1>1. Init => IInv
  BY TypeInit, OwnInit, FreshInit, FloodInit DEF IInv
<1>2. IInv /\ [Next]_vars => IInv'
  BY TypeStep, OwnStep, FreshStep, FloodStep DEF IInv
<1> QED
  BY <1>1, <1>2, PTL DEF Spec

(* The type invariant: a request that has a key and an answer in hand has  *)
(* ones of the right kind at each of its awaits.                           *)
THEOREM TypeCorrect == Spec => []TypeOK
<1>1. IInv => TypeOK
  BY DEF IInv, TypeInv
<1> QED
  BY <1>1, Inductive, PTL

(* requestRoute answers with a session of the client that asked, on the    *)
(* node it names, from the cache or not, unless a store failed.            *)
THEOREM AnswersNameOwn == Spec => []AnswersAreOwn
<1>1. IInv => AnswersAreOwn
  BY DEF IInv, OwnInv, AnswersAreOwn
<1> QED
  BY <1>1, Inductive, PTL

(* No session in an answer of requestRoute is older than CACHE_TTL and the *)
(* two requests around it.                                                 *)
THEOREM AnswersStayFresh == Spec => []AnswersFresh
<1>1. IInv => AnswersFresh
  BY DEF IInv, FreshInv, AnswersFresh, Within
<1> QED
  BY <1>1, Inductive, PTL

(* Repeated requests of a client create no more sessions in the life of a  *)
(* cached answer than requests overlap.                                    *)
THEOREM FloodIsBounded == Spec => []NoSessionFlood
<1>1. IInv => NoSessionFlood
  <2> SUFFICES ASSUME IInv, world.faults = {}, NEW k \in Keys
               PROVE  Cardinality(Young(k)) =< Cardinality(Calls)
      BY DEF NoSessionFlood, Young
  <2>1. Cardinality(Young(k)) + Cardinality(Missed(k)) =< Cardinality(Calls)
    BY DEF IInv, FloodInv
  <2> QED
    BY <2>1, YoungAreFinite
<1> QED
  BY <1>1, Inductive, PTL

(* selectNode and attemptDirectRoute choose soundly at every request, from *)
(* the nodes as they are listed at that moment.                            *)
THEOREM SelectionIsSound == Spec => ChoiceIsSound
<1> DEFINE Sound(c) ==
        LET n == hand'[c].node
            req == asked[c][1]
        IN  /\ (\E m \in Listed : Suits(m, req)) => Suits(n, req)
            /\ status[n] = "degraded" =>
                  ~ \E m \in Listed : /\ Suits(m, req) /\ status[m] = "online"
                                      /\ profile[m].down >= profile[n].down
                                      /\ profile[m].connections >= profile[n].connections
            /\ hand'[c].direct => ~ (asked[c][2].symmetric /\ profile[n].symmetric)
<1>1. ASSUME TypeInv, [Next]_vars, NEW c \in Calls, at[c] = "select", at'[c] = "create"
      PROVE  Sound(c)
  <2>1. SelectRoute(c)
    BY <1>1, OnlySelectionChooses
  <2>2. PICK n \in Best(Listed, status, asked[c][1]) :
            Goto(c, "create", [node |-> n, session |-> NoSession,
                               direct |-> Direct(asked[c][2], n)])
    BY <2>1 DEF SelectRoute
  <2>3. hand'[c].node = n /\ hand'[c].direct = Direct(asked[c][2], n)
    BY <1>1, <2>2 DEF Goto, TypeInv, TypeOK
  <2>4. Listed \in SUBSET Nodes
    BY DEF Listed
  <2>5. hand'[c].direct => ~ (asked[c][2].symmetric /\ profile[n].symmetric)
    BY <2>3 DEF Direct
  <2> QED
    BY <2>2, <2>3, <2>4, <2>5, BestIsSound
<1>2. TypeInv /\ [Next]_vars =>
        [\A c \in Calls : at[c] = "select" /\ at'[c] = "create" => Sound(c)]_vars
  BY <1>1
<1>3. IInv => TypeInv
  BY DEF IInv
<1> QED
  BY <1>2, <1>3, Inductive, PTL DEF Spec, ChoiceIsSound

-----------------------------------------------------------------------------
(* The directory.  Its constants are as NodeDirectory assumes. *)
LEMMA DirectoryConstants ==
    /\ DirWorlds \subseteq SUBSET {"db", "redis"}
    /\ {OfflineAfter, RemoveAfter, NodeTtl, SweepEvery} \subseteq Nat \ {0}
    /\ OfflineAfter < RemoveAfter
    /\ NoRow \notin Directory!Row
BY RegistryWorlds, Durations, NoRowAssumption
DEF Row, NodeStatuses, Directory!Row, Directory!NodeStatuses

(* Which operations come to which await. *)
KindAt(label) ==
    CASE label = "idle"                                     -> {"none"}
      [] label \in {"insert", "inserted"}                   -> {"register"}
      [] label \in {"select", "selected", "ip", "ip.set"}   -> {"get", "ip", "heartbeat"}
      [] label \in {"beat", "beaten"}                       -> {"heartbeat"}
      [] label \in {"delete", "deleted"}                    -> {"delete"}
      [] OTHER                                              -> {"sweep"}

(* What a call knows at each of its awaits. *)
Known(c) ==
    /\ op[c] \in KindAt(dirAt[c])
    /\ dirAt[c] = "idle" => ~ dirLate[c]
    /\ dirAt[c] \in {"insert", "inserted"} => copy[c] \in Directory!Row /\ copy[c].status = "online"
    /\ dirAt[c] = "ip" => copy[c] \in Directory!Row /\ want[c].ip \in Ips
    /\ dirAt[c] \in {"select", "selected"} /\ op[c] # "get" => want[c].ip \in Ips
    /\ dirAt[c] = "beat" \/ (dirAt[c] \in {"select", "selected", "ip", "ip.set"}
                               /\ op[c] = "heartbeat") => want[c].status \in Directory!NodeStatuses

DirTypeInv == Directory!TypeOK /\ \A c \in DirCalls : Known(c)

Wants == [ip : Ips \cup {NoRow}, status : Directory!NodeStatuses \cup {NoRow}]

LEMMA StillTypes ==
    ASSUME NEW label, NEW given \in Wants, NEW node \in Directory!Row \cup {NoRow}
    PROVE  /\ Directory!StillWanted(label, given) \in Wants
           /\ Directory!StillHeld(label, node) \in Directory!Row \cup {NoRow}
           /\ label \in {"select", "selected", "ip", "ip.set"} =>
                 Directory!StillWanted(label, given) = given
           /\ label = "beat" => Directory!StillWanted(label, given).status = given.status
           /\ label \in {"insert", "inserted", "selected", "ip"} =>
                 Directory!StillHeld(label, node) = node
BY DEF Wants, Directory!StillWanted, Directory!StillHeld, Directory!Nothing

(* What a call is after a step to its next await. *)
LEMMA GotoTypes ==
    ASSUME DirTypeInv, NEW c \in DirCalls, NEW label \in Directory!Labels,
           NEW node \in Directory!Row \cup {NoRow}, Directory!Goto(c, label, node),
           label = "idle" \/ op[c] \in KindAt(label),
           label = "inserted" => node \in Directory!Row /\ node.status = "online",
           label # "insert",
           label = "ip" => node \in Directory!Row /\ want[c].ip \in Ips,
           label \in {"select", "selected"} /\ op[c] # "get" => want[c].ip \in Ips,
           label = "beat" \/ (label \in {"select", "selected", "ip", "ip.set"}
                                /\ op[c] = "heartbeat") => want[c].status \in Directory!NodeStatuses
    PROVE  /\ dirAt' \in [DirCalls -> Directory!Labels]
           /\ op' \in [DirCalls -> Directory!Ops]
           /\ about' \in [DirCalls -> NodeIds \cup {NoRow}]
           /\ \A d \in DirCalls : op'[d] \notin {"none", "sweep"} => about'[d] \in NodeIds
           /\ copy' \in [DirCalls -> Directory!Row \cup {NoRow}]
           /\ want' \in [DirCalls -> Wants]
           /\ todo' \in [DirCalls -> SUBSET NodeIds]
           /\ dirLate' \in [DirCalls -> BOOLEAN]
           /\ \A d \in DirCalls : Known(d)'
<1> USE DEF Directory!Goto, DirTypeInv, Directory!TypeOK, Wants
<1>1. want[c] \in Wants
  OBVIOUS
<1>2. /\ Directory!StillWanted(label, want[c]) \in Wants
      /\ Directory!StillHeld(label, node) \in Directory!Row \cup {NoRow}
      /\ label \in {"select", "selected", "ip", "ip.set"} =>
            Directory!StillWanted(label, want[c]) = want[c]
      /\ label = "beat" => Directory!StillWanted(label, want[c]).status = want[c].status
      /\ label \in {"insert", "inserted", "selected", "ip"} =>
            Directory!StillHeld(label, node) = node
  BY <1>1, StillTypes
<1>3. /\ dirAt'[c] = label
      /\ op'[c] = (IF label = "idle" THEN "none" ELSE op[c])
      /\ about'[c] = (IF label = "idle" THEN NoRow ELSE about[c])
      /\ copy'[c] = Directory!StillHeld(label, node)
      /\ want'[c] = Directory!StillWanted(label, want[c])
      /\ label = "idle" => ~ dirLate'[c]
  OBVIOUS
<1>4. \A d \in DirCalls : d # c =>
          /\ dirAt'[d] = dirAt[d] /\ op'[d] = op[d] /\ about'[d] = about[d]
          /\ copy'[d] = copy[d] /\ want'[d] = want[d] /\ dirLate'[d] = dirLate[d]
  OBVIOUS
<1>5. /\ dirAt' \in [DirCalls -> Directory!Labels]
      /\ about' \in [DirCalls -> NodeIds \cup {NoRow}]
      /\ todo' \in [DirCalls -> SUBSET NodeIds]
      /\ dirLate' \in [DirCalls -> BOOLEAN]
  OBVIOUS
<1>6. op' \in [DirCalls -> Directory!Ops]
  BY DEF Directory!Ops
<1>7. /\ copy' \in [DirCalls -> Directory!Row \cup {NoRow}]
      /\ want' \in [DirCalls -> Wants]
  BY <1>2
<1>8. \A d \in DirCalls : op'[d] \notin {"none", "sweep"} => about'[d] \in NodeIds
  BY <1>3, <1>4
<1>9. Known(c)'
  <2> op'[c] \in KindAt(label)
    BY <1>3 DEF KindAt
  <2> QED
    BY <1>2, <1>3 DEF Known
<1>10. \A d \in DirCalls : d # c => Known(d)'
  BY <1>4 DEF Known
<1> QED
  BY <1>5, <1>6, <1>7, <1>8, <1>9, <1>10

(* What a call is when it has begun. *)
LEMMA BeginTypes ==
    ASSUME DirTypeInv, NEW c \in DirCalls, NEW kind \in Directory!Ops \ {"none"}, NEW n,
           NEW label \in Directory!Labels \ {"idle"}, NEW node \in Directory!Row \cup {NoRow},
           NEW given \in Wants, Directory!Begin(c, kind, n, label, node, given),
           kind \in KindAt(label), n \in NodeIds \/ (n = NoRow /\ kind = "sweep"),
           label \in {"insert", "inserted"} => node \in Directory!Row /\ node.status = "online",
           label = "ip" => node \in Directory!Row /\ given.ip \in Ips,
           label \in {"select", "selected"} /\ kind # "get" => given.ip \in Ips,
           label = "beat" \/ (label \in {"select", "selected", "ip", "ip.set"}
                                /\ kind = "heartbeat") => given.status \in Directory!NodeStatuses
    PROVE  /\ dirAt' \in [DirCalls -> Directory!Labels]
           /\ op' \in [DirCalls -> Directory!Ops]
           /\ about' \in [DirCalls -> NodeIds \cup {NoRow}]
           /\ \A d \in DirCalls : op'[d] \notin {"none", "sweep"} => about'[d] \in NodeIds
           /\ copy' \in [DirCalls -> Directory!Row \cup {NoRow}]
           /\ want' \in [DirCalls -> Wants]
           /\ todo' \in [DirCalls -> SUBSET NodeIds]
           /\ dirLate' \in [DirCalls -> BOOLEAN]
           /\ \A d \in DirCalls : Known(d)'
<1> USE DEF Directory!Begin, DirTypeInv, Directory!TypeOK, Wants
<1>1. /\ dirAt'[c] = label /\ op'[c] = kind /\ about'[c] = n /\ copy'[c] = node
      /\ want'[c] = given /\ dirLate' = dirLate /\ todo' = todo /\ dirAt[c] = "idle"
  OBVIOUS
<1>2. \A d \in DirCalls : d # c =>
          /\ dirAt'[d] = dirAt[d] /\ op'[d] = op[d] /\ about'[d] = about[d]
          /\ copy'[d] = copy[d] /\ want'[d] = want[d]
  OBVIOUS
<1>3. /\ dirAt' \in [DirCalls -> Directory!Labels]
      /\ op' \in [DirCalls -> Directory!Ops]
      /\ about' \in [DirCalls -> NodeIds \cup {NoRow}]
      /\ copy' \in [DirCalls -> Directory!Row \cup {NoRow}]
      /\ want' \in [DirCalls -> Wants]
  OBVIOUS
<1>4. \A d \in DirCalls : op'[d] \notin {"none", "sweep"} => about'[d] \in NodeIds
  BY <1>1, <1>2
<1>5. Known(c)'
  BY <1>1 DEF Known
<1>6. \A d \in DirCalls : d # c => Known(d)'
  BY <1>1, <1>2 DEF Known
<1> QED
  BY <1>1, <1>3, <1>4, <1>5, <1>6

LEMMA DirTypeInit == Directory!Init => DirTypeInv
<1> SUFFICES ASSUME Directory!Init PROVE DirTypeInv
    OBVIOUS
<1>1. Directory!MaxSilence \in Nat
  BY DirectoryConstants DEF Directory!MaxSilence
<1>2. Directory!TypeOK
  BY <1>1, DirectoryConstants
  DEF Directory!Init, Directory!TypeOK, Directory!Labels, Directory!Ops,
      Directory!Nothing
<1>3. \A c \in DirCalls : Known(c)
  BY DEF Directory!Init, Known, KindAt
<1> QED
  BY <1>2, <1>3 DEF DirTypeInv

(* What calls know and what the stores hold, typed apart. *)
CallTypes ==
    /\ dirAt \in [DirCalls -> Directory!Labels]
    /\ op \in [DirCalls -> Directory!Ops]
    /\ about \in [DirCalls -> NodeIds \cup {NoRow}]
    /\ \A d \in DirCalls : op[d] \notin {"none", "sweep"} => about[d] \in NodeIds
    /\ copy \in [DirCalls -> Directory!Row \cup {NoRow}]
    /\ want \in [DirCalls -> Wants]
    /\ todo \in [DirCalls -> SUBSET NodeIds]
    /\ dirLate \in [DirCalls -> BOOLEAN]
    /\ \A d \in DirCalls : Known(d)

RowTypes ==
    /\ row \in [NodeIds -> Directory!Row \cup {NoRow}]
    /\ silence \in [NodeIds -> 0 .. Directory!MaxSilence]

KeyTypes ==
    /\ cached \in [NodeIds -> Directory!Row \cup {NoRow}]
    /\ nodeHeld \in [NodeIds -> 0 .. NodeTtl]

OtherTypes == faults \in DirWorlds /\ wait \in 0 .. SweepEvery

LEMMA DirTypesApart ==
    /\ DirTypeInv <=> CallTypes /\ RowTypes /\ KeyTypes /\ OtherTypes
    /\ DirTypeInv' <=> CallTypes' /\ RowTypes' /\ KeyTypes' /\ OtherTypes'
BY DEF OtherTypes, DirTypeInv, CallTypes, RowTypes, KeyTypes, Directory!TypeOK, Wants

(* A Redis command, carried out or not, keeps the type of the keys. *)
LEMMA SetKeyTypes ==
    ASSUME KeyTypes, NEW n, NEW node \in Directory!Row \cup {NoRow},
           Directory!SetKey(n, node)
    PROVE  KeyTypes'
<1>1. 0 \in 0 .. NodeTtl
  BY DirectoryConstants
<1> QED
  BY <1>1 DEF KeyTypes, Directory!SetKey

(* So do the statements of PostgreSQL with the rows. *)
LEMMA RowStatements ==
    ASSUME DirTypeInv, NEW c \in DirCalls
    PROVE  /\ dirAt[c] = "insert" /\ Directory!Upsert(c) => RowTypes'
           /\ dirAt[c] = "ip" /\ Directory!SetIp(c) /\ UNCHANGED silence => RowTypes'
           /\ dirAt[c] = "beat" /\ Directory!SetHeartbeat(c) => RowTypes'
           /\ Directory!DeleteRow(c) /\ UNCHANGED silence => RowTypes'
           /\ \A T \in SUBSET Directory!ListedIds :
                 Directory!MarkRows(T) /\ UNCHANGED silence => RowTypes'
           /\ \A T : Directory!RemoveRows(T) /\ UNCHANGED silence => RowTypes'
<1> USE DEF RowTypes, CallTypes
<1>0. CallTypes /\ RowTypes /\ 0 \in 0 .. Directory!MaxSilence /\ 1 \in 0 .. Directory!MaxSilence
  BY DirTypesApart, DirectoryConstants DEF Directory!MaxSilence
<1>1. ASSUME dirAt[c] = "insert", Directory!Upsert(c) PROVE RowTypes'
  <2>1. copy[c] \in Directory!Row
    BY <1>0, <1>1 DEF Known
  <2> QED
    BY <1>0, <1>1, <2>1 DEF Directory!Upsert
<1>2. ASSUME dirAt[c] = "ip", Directory!SetIp(c), UNCHANGED silence PROVE RowTypes'
  <2>1. copy[c] \in Directory!Row /\ want[c].ip \in Ips
    BY <1>0, <1>2 DEF Known
  <2>2. copy[c].net \in Regs
    BY <2>1 DEF Directory!Row
  <2>3. \A x \in Directory!Row :
            [[x EXCEPT !.net = copy[c].net] EXCEPT !.ip = want[c].ip] \in Directory!Row
    BY <2>1, <2>2 DEF Directory!Row
  <2> QED
    BY <1>0, <1>2, <2>1, <2>2, <2>3 DEF Directory!SetIp, Directory!Row
<1>3. ASSUME dirAt[c] = "beat", Directory!SetHeartbeat(c) PROVE RowTypes'
  <2>1. want[c].status \in Directory!NodeStatuses
    BY <1>0, <1>3 DEF Known
  <2>2. \A x \in Directory!Row : [x EXCEPT !.status = want[c].status] \in Directory!Row
    BY <2>1 DEF Directory!Row
  <2> QED
    BY <1>0, <1>3, <2>1, <2>2 DEF Directory!SetHeartbeat
<1>4. ASSUME Directory!DeleteRow(c), UNCHANGED silence PROVE RowTypes'
  BY <1>0, <1>4 DEF Directory!DeleteRow
<1>5. ASSUME NEW T \in SUBSET Directory!ListedIds, Directory!MarkRows(T), UNCHANGED silence
      PROVE  RowTypes'
  <2>1. \A n \in T : row[n] \in Directory!Row
    BY <1>0 DEF Directory!ListedIds, Directory!OnList
  <2>2. \A x \in Directory!Row : [x EXCEPT !.status = "offline"] \in Directory!Row
    BY DEF Directory!Row, Directory!NodeStatuses
  <2> QED
    BY <1>0, <1>5, <2>1, <2>2 DEF Directory!MarkRows
<1>6. ASSUME NEW T, Directory!RemoveRows(T), UNCHANGED silence PROVE RowTypes'
  BY <1>0, <1>6 DEF Directory!RemoveRows
<1> QED
  BY <1>1, <1>2, <1>3, <1>4, <1>5, <1>6

LEMMA RequestTypes ==
    ASSUME DirTypeInv, NEW c \in DirCalls, Directory!Request(c)
    PROVE  DirTypeInv'
<1> USE DEF CallTypes
<1>0. CallTypes /\ Directory!Nothing \in Wants /\ NoRow \in Directory!Row \cup {NoRow}
  BY DirTypesApart DEF Directory!Nothing, Wants
<1>1. UNCHANGED <<faults, row, silence, cached, nodeHeld, wait>>
  BY DEF Directory!Request, Directory!Register, Directory!GetNode, Directory!BeatOnly,
         Directory!DeleteNode, Directory!store
<1>2. ASSUME NEW n \in NodeIds, NEW r \in Regs, NEW ip \in Ips, Directory!Register(c, n, r, ip)
      PROVE  CallTypes'
  <2> DEFINE node == [status |-> "online", key |-> r, net |-> r, ip |-> ip]
  <2>1. node \in Directory!Row /\ node.status = "online"
    BY DEF Directory!Row, Directory!NodeStatuses
  <2>2. Directory!Begin(c, "register", n, "insert", node, Directory!Nothing)
    BY <1>2 DEF Directory!Register
  <2>3. /\ "register" \in Directory!Ops \ {"none"} /\ "insert" \in Directory!Labels \ {"idle"}
        /\ "register" \in KindAt("insert")
    BY DEF Directory!Ops, Directory!Labels, KindAt
  <2> HIDE DEF node
  <2> QED
    BY <1>0, <2>1, <2>2, <2>3, BeginTypes
<1>3. ASSUME NEW n \in NodeIds, NEW kind \in {"get", "ip", "heartbeat"}, NEW given \in Wants,
             kind # "get" => given.ip \in Ips,
             kind = "heartbeat" => given.status \in Directory!NodeStatuses,
             Directory!GetNode(c, kind, n, given)
      PROVE  CallTypes'
  <2> DEFINE next == IF cached[n] = NoRow THEN "select"
                     ELSE Directory!Found(kind, cached[n], given.ip)
             node == Directory!StillHeld(next, cached[n])
             wanted == Directory!StillWanted(next, given)
  <2>1. next # "idle" /\ Directory!Begin(c, kind, n, next, node, wanted)
    BY <1>3 DEF Directory!GetNode
  <2>2. cached[n] \in Directory!Row \cup {NoRow}
    BY DEF DirTypeInv, Directory!TypeOK
  <2>3. /\ next \in {"select", "beat", "ip"}
        /\ next = "ip" => cached[n] \in Directory!Row /\ kind # "get"
        /\ next = "beat" => kind = "heartbeat"
    BY <2>1, <2>2, <1>3 DEF Directory!Found, Directory!AfterIp
  <2>4. /\ node \in Directory!Row \cup {NoRow} /\ wanted \in Wants
        /\ next = "ip" => node = cached[n]
        /\ next \in {"select", "ip"} => wanted = given
        /\ next = "beat" => wanted.status = given.status
    BY <2>2, <2>3, StillTypes
  <2> HIDE DEF next, node, wanted
  <2>5. /\ kind \in Directory!Ops \ {"none"} /\ next \in Directory!Labels \ {"idle"}
        /\ kind \in KindAt(next)
    BY <2>3 DEF Directory!Ops, Directory!Labels, KindAt
  <2> QED
    BY <1>3, <2>1, <2>3, <2>4, <2>5, BeginTypes
<1>4. ASSUME NEW n \in NodeIds, NEW s \in Directory!NodeStatuses, Directory!BeatOnly(c, n, s)
      PROVE  CallTypes'
  <2> DEFINE given == [ip |-> NoRow, status |-> s]
  <2>1. given \in Wants /\ given.status = s
    BY DEF Wants
  <2>2. Directory!Begin(c, "heartbeat", n, "beat", NoRow, given)
    BY <1>4 DEF Directory!BeatOnly
  <2>3. /\ "heartbeat" \in Directory!Ops \ {"none"} /\ "beat" \in Directory!Labels \ {"idle"}
        /\ "heartbeat" \in KindAt("beat")
    BY DEF Directory!Ops, Directory!Labels, KindAt
  <2> HIDE DEF given
  <2> QED
    BY <1>0, <2>1, <2>2, <2>3, BeginTypes
<1>5. ASSUME NEW n \in NodeIds, Directory!DeleteNode(c, n) PROVE CallTypes'
  <2>1. Directory!Begin(c, "delete", n, "delete", NoRow, Directory!Nothing)
    BY <1>5 DEF Directory!DeleteNode
  <2>2. /\ "delete" \in Directory!Ops \ {"none"} /\ "delete" \in Directory!Labels \ {"idle"}
        /\ "delete" \in KindAt("delete")
    BY DEF Directory!Ops, Directory!Labels, KindAt
  <2> QED
    BY <1>0, <2>1, <2>2, BeginTypes
<1>6. CallTypes'
  <2>1. PICK n \in NodeIds :
          \/ \E r \in Regs, ip \in Ips : Directory!Register(c, n, r, ip)
          \/ Directory!GetNode(c, "get", n, Directory!Nothing)
          \/ \E ip \in Ips : Directory!GetNode(c, "ip", n, [ip |-> ip, status |-> NoRow])
          \/ \E ip \in Ips, s \in Directory!NodeStatuses :
                Directory!GetNode(c, "heartbeat", n, [ip |-> ip, status |-> s])
          \/ \E s \in Directory!NodeStatuses : Directory!BeatOnly(c, n, s)
          \/ Directory!DeleteNode(c, n)
    BY DEF Directory!Request
  <2>2. \A ip \in Ips, s \in Directory!NodeStatuses \cup {NoRow} :
            [ip |-> ip, status |-> s] \in Wants
    BY DEF Wants
  <2>3. CASE Directory!GetNode(c, "get", n, Directory!Nothing)
    BY <1>0, <1>3, <2>3
  <2>4. ASSUME NEW ip \in Ips, Directory!GetNode(c, "ip", n, [ip |-> ip, status |-> NoRow])
        PROVE  CallTypes'
    BY <1>3, <2>2, <2>4
  <2>5. ASSUME NEW ip \in Ips, NEW s \in Directory!NodeStatuses,
               Directory!GetNode(c, "heartbeat", n, [ip |-> ip, status |-> s])
        PROVE  CallTypes'
    BY <1>3, <2>2, <2>5
  <2> QED
    BY <1>2, <1>4, <1>5, <2>1, <2>3, <2>4, <2>5
<1> QED
  BY <1>1, <1>6, DirTypesApart DEF RowTypes, KeyTypes, OtherTypes

LEMMA SweepTypes ==
    ASSUME DirTypeInv, NEW c \in DirCalls, Directory!Sweep(c)
    PROVE  DirTypeInv'
<1>1. Directory!Begin(c, "sweep", NoRow, "mark", NoRow, Directory!Nothing)
  BY DEF Directory!Sweep
<1>2. Directory!Nothing \in Wants /\ NoRow \in Directory!Row \cup {NoRow}
  BY DEF Directory!Nothing, Wants
<1>3. /\ "sweep" \in Directory!Ops \ {"none"} /\ "mark" \in Directory!Labels \ {"idle"}
      /\ "sweep" \in KindAt("mark")
  BY DEF Directory!Ops, Directory!Labels, KindAt
<1>4. CallTypes'
  BY <1>1, <1>2, <1>3, BeginTypes DEF CallTypes
<1>5. wait' \in 0 .. SweepEvery
  BY DirectoryConstants DEF Directory!Sweep
<1> QED
  BY <1>4, <1>5, DirTypesApart DEF Directory!Sweep, Directory!store, RowTypes, KeyTypes, OtherTypes

(* A step of a call: to the next of its awaits, or to its end. *)
LEMMA ProgressCallTypes ==
    ASSUME DirTypeInv, NEW c \in DirCalls, Directory!Progress(c)
    PROVE  CallTypes'
<1> USE DEF CallTypes
<1>0. CallTypes /\ RowTypes /\ KeyTypes /\ NoRow \in Directory!Row \cup {NoRow}
  BY DirTypesApart
<1>k. Known(c)
  BY <1>0
<1>a. ASSUME NEW node \in Directory!Row \cup {NoRow}, Directory!Goto(c, "idle", node)
      PROVE  CallTypes'
  BY <1>0, <1>a, GotoTypes DEF Directory!Labels
<1>b. ASSUME NEW label \in {"beaten", "deleted"}, op[c] \in KindAt(label),
             Directory!Goto(c, label, NoRow)
      PROVE  CallTypes'
  <2>1. label \in Directory!Labels
    BY DEF Directory!Labels
  <2> QED
    BY <1>0, <1>b, <2>1, GotoTypes
<1>c. ASSUME dirAt[c] \in {"select", "selected", "ip", "ip.set"},
             Directory!Goto(c, Directory!AfterIp(op[c]), NoRow)
      PROVE  CallTypes'
  <2>1. CASE op[c] = "heartbeat"
    <3>1. /\ Directory!AfterIp(op[c]) = "beat" /\ "beat" \in Directory!Labels
          /\ op[c] \in KindAt("beat") /\ want[c].status \in Directory!NodeStatuses
      BY <1>k, <1>c, <2>1 DEF Directory!AfterIp, Directory!Labels, KindAt, Known
    <3> QED
      BY <1>0, <1>c, <3>1, GotoTypes
  <2>2. CASE op[c] # "heartbeat"
    <3>1. Directory!AfterIp(op[c]) = "idle"
      BY <2>2 DEF Directory!AfterIp
    <3> QED
      BY <1>0, <1>a, <1>c, <3>1
  <2> QED
    BY <2>1, <2>2
<1>1. ASSUME Directory!Insert(c) PROVE CallTypes'
  <2>1. dirAt[c] = "insert" /\ copy[c] \in Directory!Row /\ copy[c].status = "online"
    BY <1>k, <1>1 DEF Directory!Insert, Known
  <2>2. "inserted" \in Directory!Labels /\ op[c] \in KindAt("inserted")
    BY <1>k, <2>1 DEF Directory!Labels, KindAt, Known
  <2>3. CASE Directory!Goto(c, "inserted", copy[c])
    BY <1>0, <2>1, <2>2, <2>3, GotoTypes
  <2> QED
    BY <1>0, <1>1, <1>a, <2>3 DEF Directory!Insert
<1>2. ASSUME Directory!CacheRegistered(c) PROVE CallTypes'
  BY <1>0, <1>2, <1>a DEF Directory!CacheRegistered
<1>3. ASSUME Directory!Select(c) PROVE CallTypes'
  <2>1. dirAt[c] = "select" /\ about[c] \in NodeIds
    BY <1>0, <1>k, <1>3 DEF Directory!Select, Known, KindAt
  <2>2. /\ "selected" \in Directory!Labels /\ op[c] \in KindAt("selected")
        /\ row[about[c]] \in Directory!Row \cup {NoRow}
    BY <1>0, <1>k, <2>1 DEF Directory!Labels, KindAt, Known, RowTypes
  <2>3. /\ op[c] # "get" => want[c].ip \in Ips
        /\ op[c] = "heartbeat" => want[c].status \in Directory!NodeStatuses
    BY <1>k, <2>1 DEF Known
  <2>4. CASE Directory!Goto(c, "selected", row[about[c]])
    BY <1>0, <2>1, <2>2, <2>3, <2>4, GotoTypes
  <2> QED
    BY <1>3, <1>c, <2>1, <2>4 DEF Directory!Select
<1>4. ASSUME Directory!NoSuchNode(c) PROVE CallTypes'
  BY <1>4, <1>c DEF Directory!NoSuchNode
<1>5. ASSUME Directory!Refill(c) PROVE CallTypes'
  <2>1. dirAt[c] = "selected" /\ copy[c] # NoRow /\ copy[c] \in Directory!Row
    BY <1>0, <1>5 DEF Directory!Refill
  <2>2. CASE Directory!Goto(c, Directory!Found(op[c], copy[c], want[c].ip), copy[c])
    <3>1. CASE Directory!Found(op[c], copy[c], want[c].ip) = "ip"
      <4>1. op[c] # "get"
        BY <3>1 DEF Directory!Found, Directory!AfterIp
      <4>2. /\ want[c].ip \in Ips
            /\ op[c] = "heartbeat" => want[c].status \in Directory!NodeStatuses
        BY <1>k, <2>1, <4>1 DEF Known
      <4>3. "ip" \in Directory!Labels /\ op[c] \in KindAt("ip")
        BY <1>k, <2>1 DEF Directory!Labels, KindAt, Known
      <4> QED
        BY <1>0, <2>1, <2>2, <3>1, <4>2, <4>3, GotoTypes
    <3>2. CASE Directory!Found(op[c], copy[c], want[c].ip) = Directory!AfterIp(op[c])
      <4>1. CASE op[c] = "heartbeat"
        <5>1. /\ Directory!AfterIp(op[c]) = "beat" /\ "beat" \in Directory!Labels
              /\ op[c] \in KindAt("beat") /\ want[c].status \in Directory!NodeStatuses
          BY <1>k, <2>1, <4>1 DEF Directory!AfterIp, Directory!Labels, KindAt, Known
        <5> QED
          BY <1>0, <2>1, <2>2, <3>2, <5>1, GotoTypes
      <4>2. CASE op[c] # "heartbeat"
        <5>1. Directory!AfterIp(op[c]) = "idle"
          BY <4>2 DEF Directory!AfterIp
        <5> QED
          BY <1>0, <1>a, <2>2, <3>2, <5>1
      <4> QED
        BY <4>1, <4>2
    <3> QED
      BY <3>1, <3>2 DEF Directory!Found
  <2> QED
    BY <1>5, <1>c, <2>1, <2>2 DEF Directory!Refill
<1>6. ASSUME Directory!UpdateIp(c) PROVE CallTypes'
  <2>1. dirAt[c] = "ip" /\ op[c] \in KindAt("ip.set")
    BY <1>k, <1>6 DEF Directory!UpdateIp, Known, KindAt
  <2>2. op[c] = "heartbeat" => want[c].status \in Directory!NodeStatuses
    BY <1>k, <2>1 DEF Known
  <2>3. "ip.set" \in Directory!Labels
    BY DEF Directory!Labels
  <2>4. CASE Directory!Goto(c, "ip.set", NoRow)
    BY <1>0, <2>1, <2>2, <2>3, <2>4, GotoTypes
  <2> QED
    BY <1>6, <1>c, <2>1, <2>4 DEF Directory!UpdateIp
<1>7. ASSUME Directory!Beat(c) PROVE CallTypes'
  <2>1. op[c] \in KindAt("beaten")
    BY <1>k, <1>7 DEF Directory!Beat, Known, KindAt
  <2> QED
    BY <1>0, <1>7, <1>a, <1>b, <2>1 DEF Directory!Beat
<1>8. ASSUME Directory!Delete(c) PROVE CallTypes'
  <2>1. op[c] \in KindAt("deleted")
    BY <1>k, <1>8 DEF Directory!Delete, Known, KindAt
  <2> QED
    BY <1>0, <1>8, <1>a, <1>b, <2>1 DEF Directory!Delete
<1>9. ASSUME Directory!Invalidate(c) PROVE CallTypes'
  <2>1. CASE dirAt[c] = "ip.set"
    BY <1>9, <1>c, <2>1 DEF Directory!Invalidate
  <2>2. CASE dirAt[c] # "ip.set"
    BY <1>0, <1>9, <1>a, <2>2 DEF Directory!Invalidate
  <2> QED
    BY <2>1, <2>2
<1>d. ASSUME NEW T \in SUBSET NodeIds, NEW label \in {"marked", "remove", "removed"},
             op[c] = "sweep", Directory!SweepRows(c, T, label)
      PROVE  CallTypes'
  <2>1. label \in Directory!Labels /\ op[c] \in KindAt(label) /\ dirAt[c] # "idle"
    BY <1>k, <1>d DEF Directory!Labels, KindAt, Known
  <2>2. /\ dirAt' \in [DirCalls -> Directory!Labels] /\ dirAt'[c] = label
        /\ \A d \in DirCalls : d # c => dirAt'[d] = dirAt[d]
        /\ todo' \in [DirCalls -> SUBSET NodeIds]
        /\ UNCHANGED <<op, about, copy, want, dirLate>>
    BY <1>0, <1>d, <2>1 DEF Directory!SweepRows
  <2>3. Known(c)'
    BY <2>1, <2>2 DEF Known
  <2>4. \A d \in DirCalls : d # c => Known(d)'
    BY <1>0, <2>2 DEF Known
  <2> QED
    BY <1>0, <2>2, <2>3, <2>4
<1>10. ASSUME Directory!MarkOffline(c) PROVE CallTypes'
  <2>1. op[c] = "sweep"
    BY <1>k, <1>10 DEF Directory!MarkOffline, Known, KindAt
  <2>2. \A T \in Directory!Overdue(Directory!ListedIds, OfflineAfter) : T \in SUBSET NodeIds
    BY DEF Directory!Overdue, Directory!ListedIds
  <2> QED
    BY <1>0, <1>10, <1>a, <1>d, <2>1, <2>2 DEF Directory!MarkOffline
<1>11. ASSUME Directory!RemoveInactive(c) PROVE CallTypes'
  <2>1. op[c] = "sweep"
    BY <1>k, <1>11 DEF Directory!RemoveInactive, Known, KindAt
  <2>2. \A T \in Directory!Overdue(Directory!KnownIds, RemoveAfter) : T \in SUBSET NodeIds
    BY DEF Directory!Overdue, Directory!KnownIds
  <2> QED
    BY <1>0, <1>11, <1>a, <1>d, <2>1, <2>2 DEF Directory!RemoveInactive
<1>12. ASSUME Directory!MarkedDone(c) \/ Directory!RemovedDone(c) PROVE CallTypes'
  <2>1. op[c] = "sweep"
    BY <1>k, <1>12 DEF Directory!MarkedDone, Directory!RemovedDone, Known, KindAt
  <2> QED
    BY <1>0, <1>12, <1>a, <1>d, <2>1 DEF Directory!MarkedDone, Directory!RemovedDone
<1>13. ASSUME NEW n \in NodeIds, Directory!SweepDrop(c, n) PROVE CallTypes'
  <2>1. op[c] = "sweep" /\ dirAt[c] \in {"marked", "removed"} /\ todo[c] \ {n} \in SUBSET NodeIds
    BY <1>0, <1>k, <1>13 DEF Directory!SweepDrop, Known, KindAt
  <2> QED
    BY <1>0, <1>13, <1>a, <1>d, <2>1 DEF Directory!SweepDrop
<1> QED
  BY <1>1, <1>2, <1>3, <1>4, <1>5, <1>6, <1>7, <1>8, <1>9, <1>10, <1>11, <1>12, <1>13
  DEF Directory!Progress

LEMMA ProgressStoreTypes ==
    ASSUME DirTypeInv, NEW c \in DirCalls, Directory!Progress(c)
    PROVE  RowTypes' /\ KeyTypes' /\ OtherTypes'
<1>0. CallTypes /\ RowTypes /\ KeyTypes /\ OtherTypes /\ Known(c)
  BY DirTypesApart DEF CallTypes
<1>1. UNCHANGED <<faults, wait>>
  BY DEF Directory!Progress, Directory!Insert, Directory!CacheRegistered, Directory!Select,
         Directory!NoSuchNode, Directory!Refill, Directory!UpdateIp, Directory!Beat,
         Directory!Delete, Directory!Invalidate, Directory!MarkOffline, Directory!MarkedDone,
         Directory!RemoveInactive, Directory!RemovedDone, Directory!SweepDrop, Directory!store
<1>2. RowTypes'
  <2>0. UNCHANGED <<row, silence>> => RowTypes'
    BY <1>0 DEF RowTypes
  <2>1. Directory!Insert(c) => RowTypes'
    BY <2>0, RowStatements DEF Directory!Insert, Directory!Rejected
  <2>2. Directory!UpdateIp(c) => RowTypes'
    BY <2>0, RowStatements DEF Directory!UpdateIp, Directory!Rejected
  <2>3. Directory!Beat(c) => RowTypes'
    BY <2>0, RowStatements DEF Directory!Beat, Directory!Rejected
  <2>4. Directory!Delete(c) => RowTypes'
    BY <2>0, RowStatements DEF Directory!Delete, Directory!Rejected
  <2>5. \A T \in Directory!Overdue(Directory!ListedIds, OfflineAfter) :
            T \in SUBSET Directory!ListedIds
    BY DEF Directory!Overdue
  <2>6. Directory!MarkOffline(c) => RowTypes'
    BY <2>0, <2>5, RowStatements DEF Directory!MarkOffline, Directory!Rejected
  <2>7. Directory!RemoveInactive(c) => RowTypes'
    BY <2>0, RowStatements DEF Directory!RemoveInactive, Directory!Rejected
  <2> QED
    BY <2>0, <2>1, <2>2, <2>3, <2>4, <2>6, <2>7
    DEF Directory!Progress, Directory!CacheRegistered, Directory!Select,
        Directory!NoSuchNode, Directory!Refill, Directory!Invalidate, Directory!MarkedDone,
        Directory!RemovedDone, Directory!SweepDrop, Directory!store
<1>3. KeyTypes'
  <2>0. UNCHANGED <<cached, nodeHeld>> => KeyTypes'
    BY <1>0 DEF KeyTypes
  <2>a. \A n : \A node \in Directory!Row \cup {NoRow} : Directory!SetKey(n, node) => KeyTypes'
    BY <1>0, SetKeyTypes
  <2>b. copy[c] \in Directory!Row \cup {NoRow}
    BY <1>0 DEF CallTypes
  <2>c. \A n : Directory!DelKey(n) => KeyTypes'
    BY <2>a DEF Directory!DelKey
  <2>1. Directory!CacheRegistered(c) => KeyTypes'
    BY <2>0, <2>a, <2>b DEF Directory!CacheRegistered
  <2>2. Directory!Refill(c) => KeyTypes'
    BY <2>0, <2>a, <2>b DEF Directory!Refill, Directory!Rejected
  <2>3. Directory!Invalidate(c) => KeyTypes'
    BY <2>0, <2>c DEF Directory!Invalidate
  <2>4. \A n \in NodeIds : Directory!SweepDrop(c, n) => KeyTypes'
    BY <2>0, <2>c DEF Directory!SweepDrop, Directory!Rejected
  <2> QED
    BY <2>0, <2>1, <2>2, <2>3, <2>4
    DEF Directory!Progress, Directory!Insert, Directory!Select, Directory!NoSuchNode,
        Directory!UpdateIp, Directory!Beat, Directory!Delete, Directory!MarkOffline,
        Directory!MarkedDone, Directory!RemoveInactive, Directory!RemovedDone, Directory!store
<1> QED
  BY <1>0, <1>1, <1>2, <1>3 DEF OtherTypes

LEMMA TimeTypes ==
    ASSUME DirTypeInv, Directory!Tick \/ \E n \in NodeIds : Directory!Lapse(n)
    PROVE  DirTypeInv'
<1>0. CallTypes /\ RowTypes /\ KeyTypes /\ OtherTypes
  BY DirTypesApart
<1>1. ASSUME NEW n \in NodeIds, Directory!Lapse(n) PROVE DirTypeInv'
  <2>1. KeyTypes'
    BY <1>0, <1>1, SetKeyTypes DEF Directory!Lapse, Directory!DelKey
  <2> QED
    BY <1>0, <1>1, <2>1, DirTypesApart
    DEF Directory!Lapse, Directory!call, CallTypes, RowTypes, OtherTypes, Known
<1>2. ASSUME Directory!Tick PROVE DirTypeInv'
  <2>1. CallTypes'
    <3>1. /\ UNCHANGED <<dirAt, op, about, copy, want, todo>>
          /\ dirLate' = [c \in DirCalls |-> dirAt[c] # "idle"]
      BY <1>2 DEF Directory!Tick
    <3>2. \A c \in DirCalls : Known(c)'
      BY <1>0, <3>1 DEF CallTypes, Known
    <3> QED
      BY <1>0, <3>1, <3>2 DEF CallTypes
  <2>2. RowTypes'
    <3>1. \A s \in 0 .. Directory!MaxSilence :
              s # Directory!MaxSilence => s + 1 \in 0 .. Directory!MaxSilence
      BY DirectoryConstants DEF Directory!MaxSilence
    <3> QED
      BY <1>0, <1>2, <3>1 DEF Directory!Tick, RowTypes
  <2>3. KeyTypes'
    <3>1. \A h \in 0 .. NodeTtl : h # NodeTtl => h + 1 \in 0 .. NodeTtl
      BY DirectoryConstants
    <3>2. \A n \in NodeIds : cached'[n] = IF nodeHeld[n] = NodeTtl THEN NoRow ELSE cached[n]
      BY <1>2 DEF Directory!Tick
    <3>3. \A n \in NodeIds :
              (IF cached'[n] = NoRow THEN 0 ELSE nodeHeld[n] + 1) \in 0 .. NodeTtl
      BY <1>0, <3>1, <3>2, DirectoryConstants DEF KeyTypes
    <3>4. cached' \in [NodeIds -> Directory!Row \cup {NoRow}]
      BY <1>0, <1>2 DEF Directory!Tick, KeyTypes
    <3> QED
      BY <1>2, <3>3, <3>4 DEF Directory!Tick, KeyTypes
  <2>4. OtherTypes'
    BY <1>0, <1>2, DirectoryConstants DEF Directory!Tick, OtherTypes
  <2> QED
    BY <2>1, <2>2, <2>3, <2>4, DirTypesApart
<1> QED
  BY <1>1, <1>2

LEMMA DirTypeStep ==
    DirTypeInv /\ [Directory!Next]_(Directory!directory) => DirTypeInv'
<1> SUFFICES ASSUME DirTypeInv, [Directory!Next]_(Directory!directory) PROVE DirTypeInv'
    OBVIOUS
<1>1. ASSUME UNCHANGED Directory!directory PROVE DirTypeInv'
  BY <1>1, DirTypesApart
  DEF Directory!directory, Directory!store, Directory!call, CallTypes, RowTypes, KeyTypes,
      OtherTypes,
      Known
<1>2. ASSUME NEW c \in DirCalls, Directory!Progress(c) PROVE DirTypeInv'
  BY <1>2, ProgressCallTypes, ProgressStoreTypes, DirTypesApart
<1> QED
  BY <1>1, <1>2, TimeTypes, RequestTypes, SweepTypes DEF Directory!Next

-----------------------------------------------------------------------------
(* What the steps of a call do to a row: they say that its node was just   *)
(* heard of, or list and add nothing.                                      *)
Calmer(n) ==
    \/ silence'[n] =< 1
    \/ /\ silence'[n] = silence[n]
       /\ Directory!OnList(row'[n]) => Directory!OnList(row[n])
       /\ row'[n] # NoRow => row[n] # NoRow

LEMMA ProgressCalms ==
    ASSUME DirTypeInv, NEW c \in DirCalls, Directory!Progress(c), NEW n \in NodeIds
    PROVE  Calmer(n)
<1>0. CallTypes /\ RowTypes /\ Known(c) /\ silence[n] \in Nat
  BY DirTypesApart DEF CallTypes, RowTypes
<1> USE DEF Calmer
<1>a. UNCHANGED <<row, silence>> => Calmer(n)
  OBVIOUS
<1>1. ASSUME Directory!Insert(c) PROVE Calmer(n)
  <2>1. CASE Directory!Upsert(c)
    BY <1>0, <2>1 DEF Directory!Upsert, RowTypes, CallTypes
  <2> QED
    BY <1>a, <1>1, <2>1 DEF Directory!Insert, Directory!Rejected
<1>2. ASSUME Directory!UpdateIp(c) PROVE Calmer(n)
  <2>1. CASE Directory!SetIp(c)
    <3>1. row[n] # NoRow /\ Directory!OnList(row'[n]) => Directory!OnList(row[n])
      BY <1>0, <2>1 DEF Directory!SetIp, RowTypes, Directory!OnList, Directory!Row
    <3>2. row[n] = NoRow => row'[n] = NoRow
      BY <1>0, <2>1 DEF Directory!SetIp, RowTypes
    <3> QED
      BY <1>2, <3>1, <3>2 DEF Directory!UpdateIp, Directory!OnList
  <2> QED
    BY <1>a, <1>2, <2>1 DEF Directory!UpdateIp, Directory!Rejected
<1>3. ASSUME Directory!Beat(c) PROVE Calmer(n)
  <2>1. CASE Directory!SetHeartbeat(c)
    BY <1>0, <2>1 DEF Directory!SetHeartbeat, RowTypes, CallTypes
  <2> QED
    BY <1>a, <1>3, <2>1 DEF Directory!Beat, Directory!Rejected
<1>4. ASSUME Directory!Delete(c) PROVE Calmer(n)
  <2>1. CASE Directory!DeleteRow(c)
    BY <1>0, <1>4, <2>1 DEF Directory!DeleteRow, Directory!Delete, RowTypes, Directory!OnList
  <2> QED
    BY <1>a, <1>4, <2>1 DEF Directory!Delete, Directory!Rejected
<1>5. ASSUME Directory!MarkOffline(c) PROVE Calmer(n)
  <2>1. PICK T \in Directory!Overdue(Directory!ListedIds, OfflineAfter) :
            Directory!MarkRows(T) \/ UNCHANGED row
    BY <1>5 DEF Directory!MarkOffline, Directory!Rejected
  <2>2. \A m \in T : row[m] \in Directory!Row
    BY <1>0 DEF Directory!Overdue, Directory!ListedIds, Directory!OnList, RowTypes
  <2>3. \A x \in Directory!Row : ~ Directory!OnList([x EXCEPT !.status = "offline"])
    BY DEF Directory!Row, Directory!OnList
  <2>4. n \in T => Directory!OnList(row[n])
    BY DEF Directory!Overdue, Directory!ListedIds
  <2> QED
    BY <1>5, <2>1, <2>2, <2>3, <2>4
    DEF Directory!MarkOffline, Directory!MarkRows, Directory!OnList
<1>6. ASSUME Directory!RemoveInactive(c) PROVE Calmer(n)
  <2>1. \A T : Directory!RemoveRows(T) => row'[n] = NoRow \/ row'[n] = row[n]
    BY DEF Directory!RemoveRows
  <2> QED
    BY <1>6, <2>1 DEF Directory!RemoveInactive, Directory!Rejected, Directory!OnList
<1> QED
  BY <1>a, <1>1, <1>2, <1>3, <1>4, <1>5, <1>6
  DEF Directory!Progress, Directory!CacheRegistered, Directory!Select, Directory!NoSuchNode,
      Directory!Refill, Directory!Invalidate, Directory!MarkedDone, Directory!RemovedDone,
      Directory!SweepDrop, Directory!store

(* What they do to a key: they drop it, or write what the call has in      *)
(* hand.                                                                   *)
LEMMA ProgressKeys ==
    ASSUME DirTypeInv, NEW c \in DirCalls, Directory!Progress(c), NEW n \in NodeIds
    PROVE  \/ cached'[n] = cached[n] /\ nodeHeld'[n] = nodeHeld[n]
           \/ cached'[n] = NoRow
           \/ /\ dirAt[c] \in {"inserted", "selected"} /\ n = about[c]
              /\ cached'[n] = copy[c] /\ nodeHeld'[n] = 0 /\ UNCHANGED <<row, silence>>
<1>0. KeyTypes
  BY DirTypesApart
<1>1. \A m, node : Directory!SetKey(m, node) =>
          \/ cached'[n] = cached[n] /\ nodeHeld'[n] = nodeHeld[n]
          \/ n = m /\ cached'[n] = node /\ nodeHeld'[n] = 0
  BY <1>0 DEF KeyTypes, Directory!SetKey
<1>2. \A m : Directory!DelKey(m) =>
          \/ cached'[n] = cached[n] /\ nodeHeld'[n] = nodeHeld[n]
          \/ cached'[n] = NoRow
  BY <1>1 DEF Directory!DelKey
<1>3. CASE Directory!CacheRegistered(c) \/ Directory!Refill(c)
  BY <1>1, <1>3 DEF Directory!CacheRegistered, Directory!Refill, Directory!Rejected
<1>4. CASE Directory!Invalidate(c) \/ \E m \in NodeIds : Directory!SweepDrop(c, m)
  BY <1>2, <1>4 DEF Directory!Invalidate, Directory!SweepDrop, Directory!Rejected
<1> QED
  BY <1>3, <1>4
  DEF Directory!Progress, Directory!Insert, Directory!Select, Directory!NoSuchNode,
      Directory!UpdateIp, Directory!Beat, Directory!Delete, Directory!MarkOffline,
      Directory!MarkedDone, Directory!RemoveInactive, Directory!RemovedDone, Directory!store

(* And to the calls: no other call moves, and one that comes to hold a     *)
(* copy has just read or written the row.                                  *)
LEMMA ProgressMoves ==
    ASSUME DirTypeInv, NEW c \in DirCalls, Directory!Progress(c)
    PROVE  /\ UNCHANGED <<faults, wait>>
           /\ \A d \in DirCalls : d # c =>
                 /\ dirAt'[d] = dirAt[d] /\ dirLate'[d] = dirLate[d]
                 /\ about'[d] = about[d] /\ copy'[d] = copy[d]
           /\ dirAt'[c] = "inserted" => Directory!Insert(c) /\ Directory!Upsert(c)
           /\ dirAt'[c] = "selected" =>
                 /\ UNCHANGED <<row, silence>> /\ about'[c] = about[c] /\ about[c] \in NodeIds
                 /\ copy'[c] = row[about[c]] /\ dirLate'[c] = dirLate[c]
           /\ dirAt[c] = "mark" => Directory!MarkOffline(c)
           /\ dirAt[c] = "marked" =>
                 Directory!MarkedDone(c) \/ \E n \in NodeIds : Directory!SweepDrop(c, n)
           /\ dirAt[c] = "remove" => Directory!RemoveInactive(c)
           /\ dirAt'[c] # "mark"
<1> USE DEF CallTypes
<1>0. CallTypes /\ Known(c)
  BY DirTypesApart
<1>1. UNCHANGED <<faults, wait>>
  BY DEF Directory!Progress, Directory!Insert, Directory!CacheRegistered, Directory!Select,
         Directory!NoSuchNode, Directory!Refill, Directory!UpdateIp, Directory!Beat,
         Directory!Delete, Directory!Invalidate, Directory!MarkOffline, Directory!MarkedDone,
         Directory!RemoveInactive, Directory!RemovedDone, Directory!SweepDrop, Directory!store
<1>a. ASSUME NEW label, NEW node, Directory!Goto(c, label, node)
      PROVE  /\ \A d \in DirCalls : d # c =>
                   /\ dirAt'[d] = dirAt[d] /\ dirLate'[d] = dirLate[d]
                   /\ about'[d] = about[d] /\ copy'[d] = copy[d]
             /\ dirAt'[c] = label
             /\ label = "selected" => /\ copy'[c] = node /\ about'[c] = about[c]
                                      /\ dirLate'[c] = dirLate[c]
  BY <1>0, <1>a DEF Directory!Goto, Directory!StillHeld
<1>b. ASSUME NEW T, NEW label, Directory!SweepRows(c, T, label)
      PROVE  /\ \A d \in DirCalls : d # c =>
                   /\ dirAt'[d] = dirAt[d] /\ dirLate'[d] = dirLate[d]
                   /\ about'[d] = about[d] /\ copy'[d] = copy[d]
             /\ dirAt'[c] = label
  BY <1>0, <1>b DEF Directory!SweepRows
<1>c. /\ \A label, node : Directory!Goto(c, label, node) => dirAt'[c] = label
      /\ \A T, label : Directory!SweepRows(c, T, label) => dirAt'[c] = label
  BY <1>a, <1>b
<1>2. \A d \in DirCalls : d # c =>
          /\ dirAt'[d] = dirAt[d] /\ dirLate'[d] = dirLate[d]
          /\ about'[d] = about[d] /\ copy'[d] = copy[d]
  BY <1>a, <1>b
  DEF Directory!Progress, Directory!Insert, Directory!CacheRegistered, Directory!Select,
      Directory!NoSuchNode, Directory!Refill, Directory!UpdateIp, Directory!Beat,
      Directory!Delete, Directory!Invalidate, Directory!MarkOffline, Directory!MarkedDone,
      Directory!RemoveInactive, Directory!RemovedDone, Directory!SweepDrop
<1>3. Directory!Insert(c) =>
          /\ dirAt'[c] = "inserted" => Directory!Upsert(c)
          /\ dirAt'[c] \in {"inserted", "idle"}
  BY <1>c DEF Directory!Insert
<1>4. Directory!Select(c) /\ dirAt'[c] = "selected" =>
          /\ UNCHANGED <<row, silence>> /\ about'[c] = about[c] /\ about[c] \in NodeIds
          /\ copy'[c] = row[about[c]] /\ dirLate'[c] = dirLate[c]
  BY <1>0, <1>a DEF Directory!Select, Directory!AfterIp, Known, KindAt, Directory!store
<1>5. Directory!CacheRegistered(c) \/ Directory!NoSuchNode(c) \/ Directory!Refill(c)
        \/ Directory!UpdateIp(c) \/ Directory!Beat(c) \/ Directory!Delete(c)
        \/ Directory!Invalidate(c)
          => dirAt'[c] \notin {"inserted", "selected", "mark"}
  BY <1>c
  DEF Directory!CacheRegistered, Directory!NoSuchNode, Directory!Refill, Directory!UpdateIp,
      Directory!Beat, Directory!Delete, Directory!Invalidate, Directory!AfterIp, Directory!Found
<1>6. Directory!MarkOffline(c) \/ Directory!MarkedDone(c) \/ Directory!RemoveInactive(c)
        \/ Directory!RemovedDone(c) \/ (\E n \in NodeIds : Directory!SweepDrop(c, n))
          => dirAt'[c] \notin {"inserted", "selected", "mark"}
  BY <1>c
  DEF Directory!MarkOffline, Directory!MarkedDone, Directory!RemoveInactive,
      Directory!RemovedDone, Directory!SweepDrop
<1>7. Directory!Select(c) => dirAt'[c] # "inserted" /\ dirAt'[c] # "mark"
  BY <1>c DEF Directory!Select, Directory!AfterIp
<1>8. /\ dirAt[c] = "mark" => Directory!MarkOffline(c)
      /\ dirAt[c] = "marked" =>
            Directory!MarkedDone(c) \/ \E n \in NodeIds : Directory!SweepDrop(c, n)
      /\ dirAt[c] = "remove" => Directory!RemoveInactive(c)
  BY DEF Directory!Progress, Directory!Insert, Directory!CacheRegistered, Directory!Select,
      Directory!NoSuchNode, Directory!Refill, Directory!UpdateIp, Directory!Beat,
      Directory!Delete, Directory!Invalidate, Directory!MarkOffline, Directory!MarkedDone,
      Directory!RemoveInactive, Directory!RemovedDone, Directory!SweepDrop
<1> QED
  BY <1>1, <1>2, <1>3, <1>4, <1>5, <1>6, <1>7, <1>8 DEF Directory!Progress

-----------------------------------------------------------------------------
(* The limits of InTime, with the clean-up timer in them: while no query   *)
(* of the clean-up task is due, the silence of a listed node is that       *)
(* limit and the time since the timer fired; while one is due, a period    *)
(* more and what the task itself has taken.                                *)
DirDelay(c) == IF dirLate[c] THEN 1 ELSE 0

ListedInTime(n) ==
    \/ silence[n] =< OfflineAfter + wait
    \/ \E c \in DirCalls : /\ dirAt[c] = "mark"
                           /\ silence[n] =< OfflineAfter + SweepEvery + DirDelay(c)

KnownInTime(n) ==
    \/ silence[n] =< RemoveAfter + wait
    \/ \E c \in DirCalls : /\ dirAt[c] \in {"mark", "marked", "remove"}
                           /\ silence[n] =< RemoveAfter + SweepEvery + DirDelay(c)

(* A copy that goes to the cache is of a row that was within its limit     *)
(* when it was read, and so a cached one, for as long as it is kept.       *)
CopyInTime(c) ==
    /\ dirAt[c] = "inserted" => silence[about[c]] =< 1 + DirDelay(c)
    /\ dirAt[c] = "selected" /\ Directory!OnList(copy[c]) =>
          silence[about[c]] =< OfflineAfter + SweepEvery + 1 + DirDelay(c)

CachedInTime(n) ==
    Directory!OnList(cached[n]) => silence[n] =< OfflineAfter + SweepEvery + 2 + nodeHeld[n]

ListedInv ==
    "db" \notin faults =>
        /\ \A n \in NodeIds : Directory!OnList(row[n]) => ListedInTime(n)
        /\ \A c \in DirCalls : CopyInTime(c)
        /\ \A n \in NodeIds : CachedInTime(n)

KnownInv == faults = {} => \A n \in NodeIds : row[n] # NoRow => KnownInTime(n)

LEMMA InTimeInit ==
    Directory!Init => ListedInv /\ KnownInv
BY DEF Directory!Init, ListedInv, KnownInv, CopyInTime, CachedInTime, Directory!OnList

(* A call that begins holds no row and is not a sweep. *)
LEMMA RequestMoves ==
    ASSUME DirTypeInv, NEW c \in DirCalls, Directory!Request(c)
    PROVE  /\ UNCHANGED <<faults, wait, row, silence, cached, nodeHeld>>
           /\ dirAt[c] = "idle" /\ dirAt'[c] \notin {"mark", "inserted", "selected"}
           /\ \A d \in DirCalls : d # c =>
                 /\ dirAt'[d] = dirAt[d] /\ dirLate'[d] = dirLate[d]
                 /\ about'[d] = about[d] /\ copy'[d] = copy[d]
<1>1. UNCHANGED <<faults, wait, row, silence, cached, nodeHeld>>
  BY DEF Directory!Request, Directory!Register, Directory!GetNode, Directory!BeatOnly,
         Directory!DeleteNode, Directory!store
<1> DEFINE Moved == /\ dirAt[c] = "idle"
                    /\ dirAt'[c] \notin {"mark", "inserted", "selected"}
                    /\ \A d \in DirCalls : d # c =>
                         /\ dirAt'[d] = dirAt[d] /\ dirLate'[d] = dirLate[d]
                         /\ about'[d] = about[d] /\ copy'[d] = copy[d]
<1>2. ASSUME NEW kind, NEW n, NEW label, NEW node, NEW given,
             Directory!Begin(c, kind, n, label, node, given),
             label \notin {"mark", "inserted", "selected"}
      PROVE  Moved
  BY <1>2 DEF Directory!Begin, DirTypeInv, Directory!TypeOK
<1> HIDE DEF Moved
<1>3. \A kind, n, given : Directory!GetNode(c, kind, n, given) => Moved
  BY <1>2 DEF Directory!GetNode, Directory!Found, Directory!AfterIp
<1>4. /\ \A n, r, ip : Directory!Register(c, n, r, ip) => Moved
      /\ \A n, s : Directory!BeatOnly(c, n, s) => Moved
      /\ \A n : Directory!DeleteNode(c, n) => Moved
  BY <1>2 DEF Directory!Register, Directory!BeatOnly, Directory!DeleteNode
<1>5. Moved
  BY <1>3, <1>4 DEF Directory!Request
<1> QED
  BY <1>1, <1>5 DEF Moved

LEMMA SweepMoves ==
    ASSUME DirTypeInv, NEW c \in DirCalls, Directory!Sweep(c)
    PROVE  /\ UNCHANGED <<faults, row, silence, cached, nodeHeld>>
           /\ wait = SweepEvery /\ wait' = 0
           /\ dirAt[c] = "idle" /\ dirAt'[c] = "mark"
           /\ \A d \in DirCalls : d # c =>
                 /\ dirAt'[d] = dirAt[d] /\ dirLate'[d] = dirLate[d]
                 /\ about'[d] = about[d] /\ copy'[d] = copy[d]
BY DEF Directory!Sweep, Directory!Begin, Directory!store, DirTypeInv, Directory!TypeOK

(* The queries of the clean-up task leave nobody beyond their limits. *)
LEMMA QueriesReach ==
    ASSUME DirTypeInv, NEW c \in DirCalls, "db" \notin faults
    PROVE  /\ Directory!MarkOffline(c) => \A n \in NodeIds : Directory!OnList(row'[n]) =>
                 silence'[n] = silence[n] /\ silence[n] =< OfflineAfter
           /\ Directory!RemoveInactive(c) => \A n \in NodeIds : row'[n] # NoRow =>
                 silence'[n] = silence[n] /\ silence[n] =< RemoveAfter
<1>0. RowTypes /\ \A n \in NodeIds : silence[n] \in Nat
  BY DirTypesApart DEF RowTypes
<1>1. ASSUME Directory!MarkOffline(c), NEW n \in NodeIds, Directory!OnList(row'[n])
      PROVE  silence'[n] = silence[n] /\ silence[n] =< OfflineAfter
  <2>1. PICK T \in Directory!Overdue(Directory!ListedIds, OfflineAfter) : Directory!MarkRows(T)
    BY <1>1 DEF Directory!MarkOffline, Directory!Rejected
  <2>2. n \in T => ~ Directory!OnList(row'[n])
    <3>1. n \in T => row[n] \in Directory!Row
      BY <1>0 DEF Directory!Overdue, Directory!ListedIds, Directory!OnList, RowTypes
    <3> QED
      BY <2>1, <3>1 DEF Directory!MarkRows, Directory!OnList, Directory!Row
  <2>3. n \notin T /\ Directory!OnList(row[n])
    BY <1>1, <2>1, <2>2 DEF Directory!MarkRows
  <2>4. ~ (silence[n] > OfflineAfter)
    BY <2>3 DEF Directory!Overdue, Directory!ListedIds
  <2> QED
    BY <1>0, <1>1, <2>4, DirectoryConstants DEF Directory!MarkOffline
<1>2. ASSUME Directory!RemoveInactive(c), NEW n \in NodeIds, row'[n] # NoRow
      PROVE  silence'[n] = silence[n] /\ silence[n] =< RemoveAfter
  <2>1. PICK T \in Directory!Overdue(Directory!KnownIds, RemoveAfter) : Directory!RemoveRows(T)
    BY <1>2 DEF Directory!RemoveInactive, Directory!Rejected
  <2>2. n \notin T /\ row[n] # NoRow
    BY <1>2, <2>1 DEF Directory!RemoveRows
  <2>3. ~ (silence[n] > RemoveAfter)
    BY <2>2 DEF Directory!Overdue, Directory!KnownIds
  <2> QED
    BY <1>0, <1>2, <2>3, DirectoryConstants DEF Directory!RemoveInactive
<1> QED
  BY <1>1, <1>2

(* The bounds are kept by each kind of step. *)
LEMMA InTimeProgress ==
    ASSUME DirTypeInv, ListedInv, KnownInv,
           NEW c \in DirCalls, Directory!Progress(c)
    PROVE  ListedInv' /\ KnownInv'
<1>0. /\ CallTypes /\ RowTypes /\ KeyTypes /\ OtherTypes
      /\ \A n \in NodeIds : silence[n] \in Nat /\ nodeHeld[n] \in Nat /\ silence'[n] \in Nat
      /\ wait \in Nat /\ wait =< SweepEvery
      /\ {OfflineAfter, RemoveAfter, NodeTtl, SweepEvery} \subseteq Nat \ {0}
  BY DirTypesApart, ProgressStoreTypes, DirectoryConstants DEF RowTypes, KeyTypes, OtherTypes
<1>1. /\ UNCHANGED <<faults, wait>>
      /\ \A d \in DirCalls : d # c =>
            /\ dirAt'[d] = dirAt[d] /\ dirLate'[d] = dirLate[d]
            /\ about'[d] = about[d] /\ copy'[d] = copy[d]
  BY ProgressMoves
<1>2. \A n \in NodeIds : Calmer(n)
  BY ProgressCalms
<1>3. ASSUME "db" \notin faults, NEW n \in NodeIds, Directory!OnList(row'[n])
      PROVE  ListedInTime(n)'
  <2>1. CASE silence'[n] =< 1
    BY <1>0, <1>1, <2>1 DEF ListedInTime, Calmer
  <2>2. CASE dirAt[c] = "mark"
    <3>1. silence'[n] = silence[n] /\ silence[n] =< OfflineAfter
      BY <1>3, <2>2, ProgressMoves, QueriesReach
    <3> QED
      BY <1>0, <1>1, <3>1 DEF ListedInTime
  <2>3. CASE dirAt[c] # "mark" /\ ~ (silence'[n] =< 1)
    <3>1. silence'[n] = silence[n] /\ ListedInTime(n)
      BY <1>2, <1>3, <2>3 DEF Calmer, ListedInv
    <3> QED
      BY <1>1, <2>3, <3>1 DEF ListedInTime, DirDelay
  <2> QED
    BY <2>1, <2>2, <2>3
<1>4. ASSUME faults = {}, NEW n \in NodeIds, row'[n] # NoRow
      PROVE  KnownInTime(n)'
  <2>1. CASE silence'[n] =< 1
    BY <1>0, <1>1, <2>1 DEF KnownInTime
  <2>2. CASE dirAt[c] = "remove"
    <3>1. silence'[n] = silence[n] /\ silence[n] =< RemoveAfter
      BY <1>4, <2>2, ProgressMoves, QueriesReach
    <3> QED
      BY <1>0, <1>1, <3>1 DEF KnownInTime
  <2>3. CASE dirAt[c] \in {"mark", "marked"} /\ ~ (silence'[n] =< 1)
    <3>1. silence'[n] = silence[n] /\ KnownInTime(n)
      BY <1>2, <1>4, <2>3 DEF Calmer, KnownInv
    <3>2. dirAt'[c] \in {"marked", "remove"} /\ dirLate'[c] = dirLate[c]
      <4>1. CASE dirAt[c] = "mark"
        BY <1>0, <1>4, <4>1, ProgressMoves
        DEF CallTypes, Directory!MarkOffline, Directory!Rejected, Directory!SweepRows
      <4>2. CASE dirAt[c] = "marked"
        BY <1>0, <1>4, <4>2, ProgressMoves
        DEF CallTypes, Directory!MarkedDone, Directory!SweepDrop, Directory!Rejected,
            Directory!SweepRows
      <4> QED
        BY <2>3, <4>1, <4>2
    <3> QED
      BY <1>1, <3>1, <3>2 DEF KnownInTime, DirDelay
  <2>4. CASE dirAt[c] \notin {"mark", "marked", "remove"} /\ ~ (silence'[n] =< 1)
    <3>1. silence'[n] = silence[n] /\ KnownInTime(n)
      BY <1>2, <1>4, <2>4 DEF Calmer, KnownInv
    <3> QED
      BY <1>1, <2>4, <3>1 DEF KnownInTime, DirDelay
  <2> QED
    BY <2>1, <2>2, <2>3, <2>4
<1>5. \A n \in NodeIds : silence'[n] =< 1 \/ silence'[n] = silence[n]
  BY <1>2 DEF Calmer
<1>6. ASSUME "db" \notin faults, NEW d \in DirCalls PROVE CopyInTime(d)'
  <2>1. CASE d # c
    <3>1. dirAt[d] \in {"inserted", "selected"} => about[d] \in NodeIds
      BY <1>0 DEF CallTypes, Known, KindAt
    <3>2. CopyInTime(d)
      BY <1>6 DEF ListedInv
    <3>3. DirDelay(d)' = DirDelay(d) /\ DirDelay(d) \in Nat
      BY <1>1, <2>1 DEF DirDelay
    <3> QED
      BY <1>0, <1>1, <1>5, <2>1, <3>1, <3>2, <3>3 DEF CopyInTime
  <2>2. CASE d = c /\ dirAt'[c] = "inserted"
    <3>1. Directory!Upsert(c) /\ Directory!Insert(c)
      BY <2>2, ProgressMoves
    <3>2. about'[c] = about[c] /\ about[c] \in NodeIds
      BY <1>0, <2>2, <3>1
      DEF Directory!Insert, Directory!Goto, CallTypes, Known, KindAt
    <3>3. silence'[about[c]] =< 1
      BY <1>0, <3>1, <3>2 DEF Directory!Upsert, RowTypes
    <3>4. DirDelay(c)' \in Nat
      BY DEF DirDelay
    <3> QED
      BY <1>0, <2>2, <3>2, <3>3, <3>4 DEF CopyInTime
  <2>3. CASE d = c /\ dirAt'[c] = "selected"
    <3>1. /\ UNCHANGED <<row, silence>> /\ about'[c] = about[c] /\ about[c] \in NodeIds
          /\ copy'[c] = row[about[c]]
      BY <2>3, ProgressMoves
    <3>2. CASE Directory!OnList(row[about[c]])
      <4>1. ListedInTime(about[c])
        BY <1>6, <3>1, <3>2 DEF ListedInv
      <4>2. \A e \in DirCalls : DirDelay(e) \in {0, 1}
        BY DEF DirDelay
      <4>3. silence[about[c]] =< OfflineAfter + SweepEvery + 1
        BY <1>0, <3>1, <4>1, <4>2 DEF ListedInTime
      <4>4. DirDelay(c)' \in Nat
        BY DEF DirDelay
      <4> QED
        BY <1>0, <2>3, <3>1, <4>3, <4>4 DEF CopyInTime
    <3>3. CASE ~ Directory!OnList(row[about[c]])
      BY <2>3, <3>1, <3>3 DEF CopyInTime, Directory!OnList
    <3> QED
      BY <3>2, <3>3
  <2>4. CASE d = c /\ dirAt'[c] \notin {"inserted", "selected"}
    BY <2>4 DEF CopyInTime
  <2> QED
    BY <2>1, <2>2, <2>3, <2>4
<1>7. ASSUME "db" \notin faults, NEW n \in NodeIds PROVE CachedInTime(n)'
  <2>1. CachedInTime(n) /\ CopyInTime(c)
    BY <1>7 DEF ListedInv
  <2>2. CASE cached'[n] = cached[n] /\ nodeHeld'[n] = nodeHeld[n]
    BY <1>0, <1>5, <2>1, <2>2 DEF CachedInTime, Directory!OnList
  <2>3. CASE cached'[n] = NoRow
    BY <2>3 DEF CachedInTime, Directory!OnList
  <2>4. CASE /\ dirAt[c] \in {"inserted", "selected"} /\ n = about[c]
             /\ cached'[n] = copy[c] /\ nodeHeld'[n] = 0 /\ UNCHANGED <<row, silence>>
    <3>1. DirDelay(c) \in {0, 1}
      BY DEF DirDelay
    <3>2. Directory!OnList(copy[c]) => silence[n] =< OfflineAfter + SweepEvery + 2
      BY <1>0, <2>1, <2>4, <3>1 DEF CopyInTime
    <3> QED
      BY <1>0, <2>4, <3>2 DEF CachedInTime, Directory!OnList
  <2> QED
    BY <2>2, <2>3, <2>4, ProgressKeys
<1> QED
  BY <1>1, <1>3, <1>4, <1>6, <1>7 DEF ListedInv, KnownInv

LEMMA InTimeRequest ==
    ASSUME DirTypeInv, ListedInv, KnownInv,
           NEW c \in DirCalls, Directory!Request(c)
    PROVE  ListedInv' /\ KnownInv'
<1>1. /\ UNCHANGED <<faults, wait, row, silence, cached, nodeHeld>>
      /\ dirAt[c] = "idle" /\ dirAt'[c] \notin {"mark", "inserted", "selected"}
      /\ \A d \in DirCalls : d # c =>
            /\ dirAt'[d] = dirAt[d] /\ dirLate'[d] = dirLate[d]
            /\ about'[d] = about[d] /\ copy'[d] = copy[d]
  BY RequestMoves
<1>2. \A n \in NodeIds : ListedInTime(n) => ListedInTime(n)'
  BY <1>1 DEF ListedInTime, DirDelay
<1>3. \A n \in NodeIds : KnownInTime(n) => KnownInTime(n)'
  BY <1>1 DEF KnownInTime, DirDelay
<1>4. \A d \in DirCalls : CopyInTime(d) => CopyInTime(d)'
  <2>1. CopyInTime(c)'
    BY <1>1 DEF CopyInTime
  <2>2. ASSUME NEW d \in DirCalls, d # c, CopyInTime(d) PROVE CopyInTime(d)'
    BY <1>1, <2>2 DEF CopyInTime, DirDelay, Directory!OnList
  <2> QED
    BY <2>1, <2>2
<1>5. \A n \in NodeIds : CachedInTime(n) => CachedInTime(n)'
  BY <1>1 DEF CachedInTime, Directory!OnList
<1> QED
  BY <1>1, <1>2, <1>3, <1>4, <1>5 DEF ListedInv, KnownInv, Directory!OnList

LEMMA InTimeSweep ==
    ASSUME DirTypeInv, ListedInv, KnownInv,
           NEW c \in DirCalls, Directory!Sweep(c)
    PROVE  ListedInv' /\ KnownInv'
<1>0. /\ \A n \in NodeIds : silence[n] \in Nat
      /\ {OfflineAfter, RemoveAfter, SweepEvery} \subseteq Nat \ {0} /\ Known(c)
  BY DirTypesApart, DirectoryConstants DEF RowTypes, CallTypes
<1>1. /\ UNCHANGED <<faults, row, silence, cached, nodeHeld>>
      /\ wait = SweepEvery /\ wait' = 0
      /\ dirAt[c] = "idle" /\ dirAt'[c] = "mark"
      /\ \A d \in DirCalls : d # c =>
            /\ dirAt'[d] = dirAt[d] /\ dirLate'[d] = dirLate[d]
            /\ about'[d] = about[d] /\ copy'[d] = copy[d]
  BY SweepMoves
<1>2. DirDelay(c)' \in Nat
  BY DEF DirDelay
<1>3. \A n \in NodeIds : ListedInTime(n) => ListedInTime(n)'
  <2> SUFFICES ASSUME NEW n \in NodeIds, ListedInTime(n) PROVE ListedInTime(n)'
      OBVIOUS
  <2>1. CASE silence[n] =< OfflineAfter + wait
    BY <1>0, <1>1, <1>2, <2>1 DEF ListedInTime
  <2>2. CASE \E d \in DirCalls : /\ dirAt[d] = "mark"
                                 /\ silence[n] =< OfflineAfter + SweepEvery + DirDelay(d)
    BY <1>1, <2>2 DEF ListedInTime, DirDelay
  <2> QED
    BY <2>1, <2>2 DEF ListedInTime
<1>4. \A n \in NodeIds : KnownInTime(n) => KnownInTime(n)'
  <2> SUFFICES ASSUME NEW n \in NodeIds, KnownInTime(n) PROVE KnownInTime(n)'
      OBVIOUS
  <2>1. CASE silence[n] =< RemoveAfter + wait
    BY <1>0, <1>1, <1>2, <2>1 DEF KnownInTime
  <2>2. CASE \E d \in DirCalls : /\ dirAt[d] \in {"mark", "marked", "remove"}
                                 /\ silence[n] =< RemoveAfter + SweepEvery + DirDelay(d)
    BY <1>1, <2>2 DEF KnownInTime, DirDelay
  <2> QED
    BY <2>1, <2>2 DEF KnownInTime
<1>5. \A d \in DirCalls : CopyInTime(d) => CopyInTime(d)'
  <2>1. CopyInTime(c)'
    BY <1>1 DEF CopyInTime
  <2>2. ASSUME NEW d \in DirCalls, d # c, CopyInTime(d) PROVE CopyInTime(d)'
    BY <1>1, <2>2 DEF CopyInTime, DirDelay, Directory!OnList
  <2> QED
    BY <2>1, <2>2
<1>6. \A n \in NodeIds : CachedInTime(n) => CachedInTime(n)'
  BY <1>1 DEF CachedInTime, Directory!OnList
<1> QED
  BY <1>1, <1>3, <1>4, <1>5, <1>6 DEF ListedInv, KnownInv, Directory!OnList

(* A tick, in which no call may be late already, and the expiry of a key.  *)
LEMMA InTimeTick ==
    ASSUME DirTypeInv, ListedInv, KnownInv, Directory!Tick
    PROVE  ListedInv' /\ KnownInv'
<1>0. /\ CallTypes /\ RowTypes /\ KeyTypes /\ OtherTypes
      /\ \A n \in NodeIds : silence[n] \in Nat /\ nodeHeld[n] \in Nat
      /\ wait \in Nat
      /\ {OfflineAfter, RemoveAfter, NodeTtl, SweepEvery} \subseteq Nat \ {0}
  BY DirTypesApart, DirectoryConstants DEF RowTypes, KeyTypes, OtherTypes
<1>1. /\ UNCHANGED <<faults, row, dirAt, about, copy>> /\ wait' = wait + 1
      /\ \A n \in NodeIds : silence'[n] \in Nat /\ silence'[n] =< silence[n] + 1
  BY <1>0 DEF Directory!Tick
<1>2. \A d \in DirCalls : ~ dirLate[d] /\ (dirAt[d] # "idle" => dirLate'[d])
  BY DEF Directory!Tick
<1>3. \A n \in NodeIds : ListedInTime(n) => ListedInTime(n)'
  <2> SUFFICES ASSUME NEW n \in NodeIds, ListedInTime(n) PROVE ListedInTime(n)'
      OBVIOUS
  <2>1. CASE silence[n] =< OfflineAfter + wait
    BY <1>0, <1>1, <2>1 DEF ListedInTime
  <2>2. CASE \E d \in DirCalls : /\ dirAt[d] = "mark"
                                 /\ silence[n] =< OfflineAfter + SweepEvery + DirDelay(d)
    <3>1. PICK d \in DirCalls : /\ dirAt[d] = "mark"
                                /\ silence[n] =< OfflineAfter + SweepEvery + DirDelay(d)
      BY <2>2
    <3>2. DirDelay(d) = 0 /\ DirDelay(d)' = 1
      BY <1>2, <3>1 DEF DirDelay
    <3>3. silence[n] =< OfflineAfter + SweepEvery
      BY <1>0, <3>1, <3>2
    <3>4. silence'[n] =< OfflineAfter + SweepEvery + 1
      BY <1>0, <1>1, <3>3
    <3> QED
      BY <1>1, <3>1, <3>2, <3>4 DEF ListedInTime
  <2> QED
    BY <2>1, <2>2 DEF ListedInTime
<1>4. \A n \in NodeIds : KnownInTime(n) => KnownInTime(n)'
  <2> SUFFICES ASSUME NEW n \in NodeIds, KnownInTime(n) PROVE KnownInTime(n)'
      OBVIOUS
  <2>1. CASE silence[n] =< RemoveAfter + wait
    BY <1>0, <1>1, <2>1 DEF KnownInTime
  <2>2. CASE \E d \in DirCalls : /\ dirAt[d] \in {"mark", "marked", "remove"}
                                 /\ silence[n] =< RemoveAfter + SweepEvery + DirDelay(d)
    <3>1. PICK d \in DirCalls : /\ dirAt[d] \in {"mark", "marked", "remove"}
                                /\ silence[n] =< RemoveAfter + SweepEvery + DirDelay(d)
      BY <2>2
    <3>2. DirDelay(d) = 0 /\ DirDelay(d)' = 1
      BY <1>2, <3>1 DEF DirDelay
    <3>3. silence[n] =< RemoveAfter + SweepEvery
      BY <1>0, <3>1, <3>2
    <3>4. silence'[n] =< RemoveAfter + SweepEvery + 1
      BY <1>0, <1>1, <3>3
    <3> QED
      BY <1>1, <3>1, <3>2, <3>4 DEF KnownInTime
  <2> QED
    BY <2>1, <2>2 DEF KnownInTime
<1>5. ASSUME NEW d \in DirCalls, CopyInTime(d) PROVE CopyInTime(d)'
  <2>1. dirAt[d] \in {"inserted", "selected"} => about[d] \in NodeIds
    BY <1>0 DEF CallTypes, Known, KindAt
  <2>2. CASE dirAt[d] = "inserted"
    <3>1. DirDelay(d) = 0 /\ DirDelay(d)' = 1
      BY <1>2, <2>2 DEF DirDelay
    <3>2. silence[about[d]] =< 1
      BY <1>0, <1>5, <2>1, <2>2, <3>1 DEF CopyInTime
    <3>3. silence'[about[d]] =< 1 + 1
      BY <1>0, <1>1, <2>1, <2>2, <3>2
    <3> QED
      BY <1>1, <2>2, <3>1, <3>3 DEF CopyInTime
  <2>3. CASE dirAt[d] = "selected" /\ Directory!OnList(copy[d])
    <3>1. DirDelay(d) = 0 /\ DirDelay(d)' = 1
      BY <1>2, <2>3 DEF DirDelay
    <3>2. silence[about[d]] =< OfflineAfter + SweepEvery + 1
      BY <1>0, <1>5, <2>1, <2>3, <3>1 DEF CopyInTime
    <3>3. silence'[about[d]] =< OfflineAfter + SweepEvery + 1 + 1
      BY <1>0, <1>1, <2>1, <2>3, <3>2
    <3> QED
      BY <1>1, <2>3, <3>1, <3>3 DEF CopyInTime
  <2> QED
    BY <1>1, <2>2, <2>3 DEF CopyInTime, Directory!OnList
<1>6. ASSUME NEW n \in NodeIds, CachedInTime(n) PROVE CachedInTime(n)'
  <2>1. cached'[n] # NoRow => cached'[n] = cached[n] /\ nodeHeld'[n] = nodeHeld[n] + 1
    BY DEF Directory!Tick
  <2> QED
    BY <1>0, <1>1, <1>6, <2>1 DEF CachedInTime, Directory!OnList
<1> QED
  BY <1>1, <1>3, <1>4, <1>5, <1>6 DEF ListedInv, KnownInv, Directory!OnList

LEMMA InTimeLapse ==
    ASSUME DirTypeInv, ListedInv, KnownInv, NEW m \in NodeIds, Directory!Lapse(m)
    PROVE  ListedInv' /\ KnownInv'
<1>1. UNCHANGED <<faults, row, silence, wait, dirAt, dirLate, about, copy>>
  BY DEF Directory!Lapse, Directory!call
<1>2. ASSUME NEW n \in NodeIds, CachedInTime(n) PROVE CachedInTime(n)'
  <2>1. \/ cached'[n] = cached[n] /\ nodeHeld'[n] = nodeHeld[n]
        \/ cached'[n] = NoRow
    BY DirTypesApart DEF Directory!Lapse, Directory!DelKey, Directory!SetKey, KeyTypes
  <2> QED
    BY <1>1, <1>2, <2>1 DEF CachedInTime, Directory!OnList
<1>3. \A n \in NodeIds : ListedInTime(n) => ListedInTime(n)'
  BY <1>1 DEF ListedInTime, DirDelay
<1>4. \A n \in NodeIds : KnownInTime(n) => KnownInTime(n)'
  BY <1>1 DEF KnownInTime, DirDelay
<1>5. \A d \in DirCalls : CopyInTime(d) => CopyInTime(d)'
  BY <1>1 DEF CopyInTime, DirDelay, Directory!OnList
<1> QED
  BY <1>1, <1>2, <1>3, <1>4, <1>5 DEF ListedInv, KnownInv, Directory!OnList

DirIInv == DirTypeInv /\ ListedInv /\ KnownInv

LEMMA DirInductive == Directory!Spec => []DirIInv
<1>1. Directory!Init => DirIInv
  BY DirTypeInit, InTimeInit DEF DirIInv
<1>2. DirIInv /\ [Directory!Next]_(Directory!directory) => DirIInv'
  <2> SUFFICES ASSUME DirIInv, [Directory!Next]_(Directory!directory) PROVE ListedInv' /\ KnownInv'
      BY DirTypeStep DEF DirIInv
  <2>1. CASE UNCHANGED Directory!directory
    <3>1. UNCHANGED <<faults, row, silence, cached, nodeHeld, wait,
                      dirAt, dirLate, about, copy>>
      BY <2>1 DEF Directory!directory, Directory!store, Directory!call
    <3>2. ListedInv'
      BY <3>1 DEF DirIInv, ListedInv, ListedInTime, CopyInTime, CachedInTime, DirDelay,
                  Directory!OnList
    <3>3. KnownInv'
      BY <3>1 DEF DirIInv, KnownInv, KnownInTime, DirDelay
    <3> QED
      BY <3>2, <3>3
  <2> QED
    BY <2>1, InTimeProgress, InTimeRequest, InTimeSweep, InTimeTick, InTimeLapse
    DEF DirIInv, Directory!Next
<1> QED
  BY <1>1, <1>2, PTL DEF Directory!Spec

-----------------------------------------------------------------------------
(* The type invariant of the directory. *)
THEOREM DirectoryTypeCorrect == Directory!Spec => []Directory!TypeOK
<1>1. DirIInv => Directory!TypeOK
  BY DEF DirIInv, DirTypeInv
<1> QED
  BY <1>1, DirInductive, PTL

(* The three limits on what a silent node can pass for: its row is on the  *)
(* list, its cached copy is listed, and its row is there, for so long only *)
(* as the limits of the clean-up task, its period, the life of a key and   *)
(* the ticks in between, whatever calls run next to it.                    *)
THEOREM SilentNodesLeave == Directory!Spec => []InTime
<1>1. DirIInv => InTime
  <2> SUFFICES ASSUME DirIInv PROVE InTime
      OBVIOUS
  <2>1. /\ \A n \in NodeIds : silence[n] \in Nat /\ nodeHeld[n] \in 0 .. NodeTtl
        /\ wait \in 0 .. SweepEvery
        /\ {OfflineAfter, RemoveAfter, NodeTtl, SweepEvery} \subseteq Nat \ {0}
    BY DirTypesApart, DirectoryConstants DEF DirIInv, RowTypes, KeyTypes, OtherTypes
  <2>2. \A c \in DirCalls : DirDelay(c) \in {0, 1}
    BY DEF DirDelay
  <2>3. OfflineInTime
    BY <2>1, <2>2 DEF DirIInv, ListedInv, ListedInTime, OfflineInTime, OnList,
            Directory!OnList
  <2>4. CacheFollowsInTime
    BY <2>1 DEF DirIInv, ListedInv, CachedInTime, CacheFollowsInTime, OnList,
            Directory!OnList
  <2>5. ForgottenInTime
    BY <2>1, <2>2 DEF DirIInv, KnownInv, KnownInTime, ForgottenInTime
  <2> QED
    BY <2>3, <2>4, <2>5 DEF InTime
<1> QED
  BY <1>1, DirInductive, PTL

(* markInactiveNodesOffline and removeInactiveNodes touch nobody who was   *)
(* heard of within their limits: a row goes offline or away otherwise only *)
(* by a heartbeat that says so or a deletion.                              *)
THEOREM SweepsSpareNodes == Directory!Spec => SweepsSpareTheHeard
<1> DEFINE Spared(n) ==
        /\ OnList(row[n]) /\ row'[n] # NoRow /\ row'[n].status = "offline" =>
              \/ silence[n] >= OfflineAfter
              \/ \E c \in DirCalls : op[c] = "heartbeat" /\ about[c] = n
                                       /\ want[c].status = "offline"
        /\ row[n] # NoRow /\ row'[n] = NoRow =>
              \/ silence[n] >= RemoveAfter
              \/ \E c \in DirCalls : op[c] = "delete" /\ about[c] = n
<1>1. ASSUME DirTypeInv, [Directory!Next]_(Directory!directory), NEW n \in NodeIds
      PROVE  Spared(n)
  <2>0. CallTypes /\ RowTypes /\ \A c \in DirCalls : Known(c)
    BY <1>1, DirTypesApart DEF CallTypes
  <2>a. row' = row => Spared(n)
    BY <2>0 DEF OnList, RowTypes, Directory!Row
  <2>1. ASSUME NEW c \in DirCalls, Directory!Insert(c) PROVE Spared(n)
    <3>1. copy[c] \in Directory!Row /\ copy[c].status = "online"
      BY <2>0, <2>1 DEF Directory!Insert, Known
    <3>2. CASE Directory!Upsert(c)
      <4>1. row'[n] = row[n] \/ row'[n] = copy[c]
        BY <2>0, <3>2 DEF Directory!Upsert, RowTypes
      <4>2. copy[c] # NoRow
        BY <3>1, DirectoryConstants
      <4> QED
        BY <3>1, <4>1, <4>2 DEF OnList
    <3> QED
      BY <2>a, <2>1, <3>2 DEF Directory!Insert, Directory!Rejected
  <2>2. ASSUME NEW c \in DirCalls, Directory!UpdateIp(c) PROVE Spared(n)
    <3>1. CASE Directory!SetIp(c)
      <4>1. /\ row'[n] = NoRow <=> row[n] = NoRow
            /\ row[n] # NoRow => row'[n].status = row[n].status
        <5>1. CASE row[n] = NoRow
          BY <2>0, <3>1, <5>1 DEF Directory!SetIp, RowTypes
        <5>2. CASE row[n] # NoRow
          <6>1. row[n] \in Directory!Row /\ NoRow \notin Directory!Row
            BY <2>0, <5>2, DirectoryConstants DEF RowTypes
          <6>2. row'[n] = row[n] \/
                row'[n] = [[row[n] EXCEPT !.net = copy[c].net] EXCEPT !.ip = want[c].ip]
            BY <2>0, <3>1 DEF Directory!SetIp, RowTypes
          <6>3. copy[c].net \in Regs /\ want[c].ip \in Ips
            BY <2>0, <2>2 DEF Directory!UpdateIp, Known, Directory!Row
          <6>4. row'[n] \in Directory!Row /\ row'[n].status = row[n].status
            BY <6>1, <6>2, <6>3 DEF Directory!Row
          <6> QED
            BY <6>1, <6>4
        <5> QED
          BY <5>1, <5>2
      <4> QED
        BY <4>1 DEF OnList
    <3> QED
      BY <2>a, <2>2, <3>1 DEF Directory!UpdateIp, Directory!Rejected
  <2>3. ASSUME NEW c \in DirCalls, Directory!Beat(c) PROVE Spared(n)
    <3>1. op[c] = "heartbeat"
      BY <2>0, <2>3 DEF Directory!Beat, Known, KindAt
    <3>2. want[c].status \in Directory!NodeStatuses
      BY <2>0, <2>3 DEF Directory!Beat, Known
    <3>3. CASE Directory!SetHeartbeat(c) /\ about[c] = n /\ row[n] # NoRow
      <4>1. row[n] \in Directory!Row /\ NoRow \notin Directory!Row
        BY <2>0, <3>3, DirectoryConstants DEF RowTypes
      <4>2. row'[n] = [row[n] EXCEPT !.status = want[c].status]
        BY <2>0, <3>3 DEF Directory!SetHeartbeat, RowTypes
      <4>3. row'[n] \in Directory!Row /\ row'[n].status = want[c].status
        BY <3>2, <4>1, <4>2 DEF Directory!Row
      <4> QED
        BY <3>1, <3>3, <4>1, <4>3
    <3>4. CASE Directory!SetHeartbeat(c) /\ ~ (about[c] = n /\ row[n] # NoRow)
      <4>1. row'[n] = row[n]
        BY <2>0, <3>4 DEF Directory!SetHeartbeat, RowTypes
      <4> QED
        BY <4>1 DEF OnList
    <3> QED
      BY <2>a, <2>3, <3>3, <3>4 DEF Directory!Beat, Directory!Rejected
  <2>4. ASSUME NEW c \in DirCalls, Directory!Delete(c) PROVE Spared(n)
    <3>1. op[c] = "delete"
      BY <2>0, <2>4 DEF Directory!Delete, Known, KindAt
    <3>2. CASE Directory!DeleteRow(c)
      <4>1. row'[n] = row[n] \/ (about[c] = n /\ row'[n] = NoRow)
        BY <2>0, <3>2 DEF Directory!DeleteRow, RowTypes
      <4> QED
        BY <3>1, <4>1 DEF OnList
    <3> QED
      BY <2>a, <2>4, <3>2 DEF Directory!Delete, Directory!Rejected
  <2>5. ASSUME NEW c \in DirCalls, Directory!MarkOffline(c) PROVE Spared(n)
    <3>1. PICK T \in Directory!Overdue(Directory!ListedIds, OfflineAfter) :
              Directory!MarkRows(T) \/ row' = row
      BY <2>5 DEF Directory!MarkOffline, Directory!Rejected
    <3>2. n \in T => silence[n] >= OfflineAfter /\ row[n] \in Directory!Row
      BY <2>0 DEF Directory!Overdue, Directory!ListedIds, OnList, Directory!OnList,
          RowTypes
    <3>3. CASE Directory!MarkRows(T) /\ n \in T
      <4>1. row'[n] = [row[n] EXCEPT !.status = "offline"]
        BY <3>3 DEF Directory!MarkRows
      <4>2. row'[n] \in Directory!Row
        BY <3>2, <3>3, <4>1 DEF Directory!Row, Directory!NodeStatuses
      <4> QED
        BY <3>2, <3>3, <4>2, DirectoryConstants
    <3>4. CASE Directory!MarkRows(T) /\ n \notin T
      BY <3>4 DEF Directory!MarkRows, OnList
    <3> QED
      BY <2>a, <3>1, <3>3, <3>4
  <2>6. ASSUME NEW c \in DirCalls, Directory!RemoveInactive(c) PROVE Spared(n)
    <3>1. PICK T \in Directory!Overdue(Directory!KnownIds, RemoveAfter) :
              Directory!RemoveRows(T) \/ row' = row
      BY <2>6 DEF Directory!RemoveInactive, Directory!Rejected
    <3>2. n \in T => silence[n] >= RemoveAfter
      BY DEF Directory!Overdue
    <3>3. CASE Directory!RemoveRows(T)
      BY <3>2, <3>3 DEF Directory!RemoveRows, OnList
    <3> QED
      BY <2>a, <3>1, <3>3
  <2>7. CASE \E c \in DirCalls : Directory!Request(c) \/ Directory!Sweep(c)
    BY <1>1, <2>7, <2>a, RequestMoves, SweepMoves
  <2>8. CASE Directory!Tick \/ (\E m \in NodeIds : Directory!Lapse(m))
                \/ UNCHANGED Directory!directory
    BY <2>8, <2>a
    DEF Directory!Tick, Directory!Lapse, Directory!directory, Directory!store
  <2>9. ASSUME NEW c \in DirCalls, Directory!Progress(c) PROVE Spared(n)
    BY <2>a, <2>1, <2>2, <2>3, <2>4, <2>5, <2>6, <2>9
    DEF Directory!Progress, Directory!CacheRegistered, Directory!Select, Directory!NoSuchNode,
        Directory!Refill, Directory!Invalidate, Directory!MarkedDone, Directory!RemovedDone,
        Directory!SweepDrop, Directory!store
  <2> QED
    BY <1>1, <2>7, <2>8, <2>9 DEF Directory!Next
<1>2. DirTypeInv /\ [Directory!Next]_(Directory!directory) =>
          [\A n \in NodeIds : Spared(n)]_directory
  BY <1>1 DEF Directory!directory, Directory!store, Directory!call, directory, store, call
<1>3. DirIInv => DirTypeInv
  BY DEF DirIInv
<1> QED
  BY <1>2, <1>3, DirInductive, PTL DEF Directory!Spec, SweepsSpareTheHeard

-----------------------------------------------------------------------------
(* The two together: getAllActiveNodes, from which RoutingService chooses, *)
(* reads the status that NodeRegistry keeps.                               *)
Linked ==
    /\ Nodes = NodeIds
    /\ \A n \in Nodes : status[n] = IF row[n] = NoRow THEN "offline" ELSE row[n].status

(* A node that is listed has not been silent for longer than that, and a   *)
(* listed one is chosen.                                                   *)
LEMMA ChosenInTime ==
    ASSUME TypeInv, DirIInv, Linked, [Next]_vars, "db" \notin faults,
           NEW c \in Calls, at[c] = "select", at'[c] = "create"
    PROVE  /\ hand'[c].node \in NodeIds
           /\ silence[hand'[c].node] =< OfflineAfter + SweepEvery + 1
<1>1. PICK n \in Best(Listed, status, asked[c][1]) :
          Goto(c, "create", [node |-> n, session |-> NoSession,
                             direct |-> Direct(asked[c][2], n)])
  BY OnlySelectionChooses DEF SelectRoute
<1>2. hand'[c].node = n
  BY <1>1 DEF Goto, TypeInv, TypeOK
<1>3. n \in Nodes /\ n \in NodeIds /\ status[n] # "offline"
  BY BestAreListed DEF Listed, Linked
<1>4. row[n] \in Directory!Row /\ row[n].status # "offline"
  BY <1>3, DirTypesApart DEF Linked, DirIInv, RowTypes
<1>5. Directory!OnList(row[n])
  BY <1>4, DirectoryConstants DEF Directory!OnList, Directory!Row, Directory!NodeStatuses
<1>6. ListedInTime(n)
  BY <1>3, <1>5 DEF DirIInv, ListedInv
<1>7. silence[n] \in Nat /\ wait \in 0 .. SweepEvery
  BY <1>3, DirTypesApart DEF DirIInv, RowTypes, OtherTypes
<1>8. /\ {OfflineAfter, SweepEvery} \subseteq Nat
      /\ \A d \in DirCalls : DirDelay(d) \in {0, 1}
  BY DirectoryConstants DEF DirDelay
<1>9. silence[n] =< OfflineAfter + SweepEvery + 1
  BY <1>6, <1>7, <1>8 DEF ListedInTime
<1> QED
  BY <1>2, <1>3, <1>9

(* While the table answers, a node that requestRoute chooses was heard of  *)
(* within the limit of markInactiveNodesOffline, a period of the clean-up  *)
(* task and the tick that it may take.                                     *)
THEOREM ChosenWereHeard ==
    Spec /\ Directory!Spec /\ []Linked =>
        [][\A c \in Calls : "db" \notin faults /\ at[c] = "select" /\ at'[c] = "create" =>
               silence[hand'[c].node] =< OfflineAfter + SweepEvery + 1]_vars
<1>1. ASSUME TypeInv, DirIInv, Linked, [Next]_vars, "db" \notin faults,
             NEW c \in Calls, at[c] = "select", at'[c] = "create"
      PROVE  silence[hand'[c].node] =< OfflineAfter + SweepEvery + 1
  BY <1>1, ChosenInTime
<1>2. TypeInv /\ DirIInv /\ Linked /\ [Next]_vars =>
          [\A c \in Calls : "db" \notin faults /\ at[c] = "select" /\ at'[c] = "create" =>
               silence[hand'[c].node] =< OfflineAfter + SweepEvery + 1]_vars
  BY <1>1
<1>3. IInv => TypeInv
  BY DEF IInv
<1> QED
  BY <1>2, <1>3, Inductive, DirInductive, PTL DEF Spec

-----------------------------------------------------------------------------
(* And to the answers that are given, which may be cached ones.  A tick of *)
(* RoutingService is a minute and one of NodeRegistry half a minute: what  *)
(* ties the two clocks together is a count of the halves of the minute.  A *)
(* minute in which RoutingService has nothing that ages changes none of    *)
(* its variables: a step of the directory is not taken for one.            *)
VARIABLE halves

Minute == Tick /\ halves = 2 /\ halves' = 0
HalfMinute == Directory!Tick /\ halves < 2 /\ halves' = halves + 1

Paces ==
    /\ Minute \/ HalfMinute \/ UNCHANGED halves
    /\ Tick => Minute \/ UNCHANGED vars
    /\ Directory!Tick => HalfMinute

Paced == halves = 0 /\ [][Paces]_<<vars, directory, halves>>

(* How long ago, in half minutes, the node of an answer was heard of, if   *)
(* it was chosen t half minutes before the current minute.                 *)
Reach == OfflineAfter + SweepEvery + 1
Heard(answer, t) == silence[answer.node] =< Reach + t + halves
Waits(c) == IF late[c] THEN 2 ELSE 0

HeardInv ==
    "db" \notin faults =>
      /\ \A c \in Calls :
            /\ at[c] \in {"create", "store"} => Heard(hand[c], Waits(c))
            /\ at[c] = "hit" => Heard(hand[c], 2 * (CacheTtl + 1) + Waits(c))
            /\ at[c] = "done" => Heard(hand[c], 2 * (CacheTtl + 2))
      /\ \A k \in Keys : cache[k] # Nobody => Heard(cache[k], 2 * (held[k] + 1))

(* A step makes a silence shorter, leaves it, or is a tick. *)
LEMMA SilenceGrows ==
    ASSUME DirIInv, [Directory!Next]_(Directory!directory)
    PROVE  /\ UNCHANGED faults
           /\ \A n \in NodeIds :
                 /\ silence[n] \in Nat /\ silence'[n] \in Nat
                 /\ \/ silence'[n] =< 1 \/ silence'[n] = silence[n]
                    \/ Directory!Tick /\ silence'[n] =< silence[n] + 1
<1>1. DirTypeInv /\ RowTypes /\ RowTypes'
  BY DirTypeStep, DirTypesApart DEF DirIInv
<1>2. \A n \in NodeIds : silence[n] \in Nat /\ silence'[n] \in Nat
  BY <1>1, DirectoryConstants DEF RowTypes, Directory!MaxSilence
<1>3. CASE Directory!Tick
  <2>1. UNCHANGED faults /\ \A n \in NodeIds : silence'[n] =< silence[n] + 1
    BY <1>2, <1>3 DEF Directory!Tick
  <2> QED  BY <1>2, <1>3, <2>1
<1>4. ASSUME NEW c \in DirCalls, Directory!Progress(c)
      PROVE  UNCHANGED faults /\ \A n \in NodeIds : silence'[n] =< 1 \/ silence'[n] = silence[n]
  BY <1>1, <1>4, ProgressCalms, ProgressMoves DEF Calmer
<1>5. ASSUME \/ \E c \in DirCalls : Directory!Request(c) \/ Directory!Sweep(c)
             \/ \E n \in NodeIds : Directory!Lapse(n)
             \/ UNCHANGED Directory!directory
      PROVE  UNCHANGED <<faults, silence>>
  BY <1>1, <1>5, RequestMoves, SweepMoves
  DEF Directory!Lapse, Directory!directory, Directory!store
<1> QED
  BY <1>2, <1>3, <1>4, <1>5 DEF Directory!Next

(* What is said of an answer stays true, with two halves more for a minute. *)
LEMMA HeardStays ==
    ASSUME DirIInv, [Directory!Next]_(Directory!directory), Paces, halves \in 0 .. 2,
           NEW answer, answer.node \in NodeIds, NEW t \in Nat, Heard(answer, t)
    PROVE  /\ ~ Minute => Heard(answer, t)'
           /\ Minute => Heard(answer, t + 2)'
<1> DEFINE n == answer.node
<1>1. /\ silence[n] \in Nat /\ silence'[n] \in Nat
      /\ \/ silence'[n] =< 1 \/ silence'[n] = silence[n]
         \/ Directory!Tick /\ silence'[n] =< silence[n] + 1
  BY SilenceGrows
<1>2. Reach \in Nat /\ Reach >= 1
  BY DirectoryConstants DEF Reach
<1>3. silence[n] =< Reach + t + halves
  BY DEF Heard
<1>4. /\ ~ Minute => silence'[n] =< Reach + t + halves'
      /\ Minute => silence'[n] =< Reach + (t + 2) + halves'
  BY <1>1, <1>2, <1>3 DEF Paces, Minute, HalfMinute
<1>5. Reach' = Reach
  BY DEF Reach
<1> QED
  BY <1>4, <1>5 DEF Heard

(* Where an answer comes from: it is chosen, goes from await to await, is  *)
(* read from the cache, and is written to it.                              *)
Keeps(c) == at'[c] = at[c] /\ hand'[c] = hand[c] /\ late'[c] = late[c]
Moves(c) ==
    \/ at'[c] \in {"idle", "select"}
    \/ Keeps(c)
    \/ at[c] = "select" /\ at'[c] = "create"
    \/ /\ at[c] = "create" /\ at'[c] = "store"
       /\ hand'[c].node = hand[c].node /\ late'[c] = late[c]
    \/ at[c] \in {"hit", "store"} /\ at'[c] = "done" /\ hand'[c] = hand[c]
    \/ at'[c] = "hit" /\ \E k \in Keys : cache[k] # Nobody /\ hand'[c] = cache[k]
Holds(k) ==
    \/ cache'[k] = Nobody
    \/ cache'[k] = cache[k] /\ held'[k] = held[k]
    \/ \E c \in Calls : at[c] = "store" /\ cache'[k] = hand[c]

LEMMA AnswersMove ==
    ASSUME TypeInv, [Next]_vars, Tick => UNCHANGED vars
    PROVE  (\A c \in Calls : Moves(c)) /\ (\A k \in Keys : Holds(k))
<1> USE DEF TypeInv, TypeOK, Labels, requests, redis, sessions, Moves, Keeps, Holds
<1>1. ASSUME NEW c \in Calls, Request(c)
      PROVE  (\A d \in Calls : Moves(d)) /\ (\A k \in Keys : Holds(k))
  <2>1. PICK client \in world.clients, target \in Targets, wish \in world.wishes :
            RequestRoute(c, client, target, wish)
    BY <1>1 DEF Request
  <2> DEFINE k == <<client, target>>
  <2>2. KeyOf(client, target) = k /\ k \in Keys
    BY DEF KeyOf, Keys, World
  <2>3. /\ at' = [at EXCEPT ![c] = IF cache[k] # Nobody THEN "hit" ELSE "select"]
        /\ hand' = [hand EXCEPT ![c] = cache[k]]
        /\ UNCHANGED <<cache, held, late>>
    BY <2>1, <2>2 DEF RequestRoute, Hit
  <2> HIDE DEF k
  <2>4. Moves(c)
    BY <2>2, <2>3
  <2>5. \A d \in Calls : d # c => Keeps(d)
    BY <2>3
  <2> QED
    BY <2>3, <2>4, <2>5
<1>2. ASSUME NEW c \in Calls, ServeCached(c) \/ NoRoute(c) \/ Return(c)
      PROVE  (\A d \in Calls : Moves(d)) /\ (\A k \in Keys : Holds(k))
  BY <1>2 DEF ServeCached, NoRoute, Return, Goto, Over
<1>3. ASSUME NEW c \in Calls, SelectRoute(c)
      PROVE  (\A d \in Calls : Moves(d)) /\ (\A k \in Keys : Holds(k))
  BY <1>3 DEF SelectRoute, Goto
<1>4. ASSUME NEW c \in Calls, FallBack(c) \/ \E s \in SessionIds : CreateSession(c, s)
      PROVE  (\A d \in Calls : Moves(d)) /\ (\A k \in Keys : Holds(k))
  <2>1. hand[c] \in Answer
    BY <1>4 DEF FallBack, CreateSession
  <2>2. \A s : [hand[c] EXCEPT !.session = s].node = hand[c].node
    BY <2>1 DEF Answer
  <2>3. /\ at[c] = "create" /\ at' = [at EXCEPT ![c] = "store"]
        /\ UNCHANGED <<cache, held, late>>
        /\ \E answer : hand' = [hand EXCEPT ![c] = answer] /\ answer.node = hand[c].node
    <3>1. CASE FallBack(c)
      BY <3>1 DEF FallBack, Goto
    <3>2. ASSUME NEW s \in SessionIds, CreateSession(c, s)
          PROVE  /\ at[c] = "create" /\ at' = [at EXCEPT ![c] = "store"]
                 /\ UNCHANGED <<cache, held, late>>
                 /\ hand' = [hand EXCEPT ![c] = [hand[c] EXCEPT !.session = s]]
      BY <3>2 DEF CreateSession, Goto
    <3> QED
      BY <1>4, <2>2, <3>1, <3>2
  <2>4. Moves(c)
    BY <2>3
  <2>5. \A d \in Calls : d # c => Keeps(d)
    BY <2>3
  <2> QED
    BY <2>3, <2>4, <2>5
<1>5. ASSUME NEW c \in Calls, Save(c)
      PROVE  (\A d \in Calls : Moves(d)) /\ (\A k \in Keys : Holds(k))
  <2>1. (\A d \in Calls : Moves(d))
    BY <1>5 DEF Save, Goto, Over
  <2>2. ASSUME NEW k \in Keys PROVE Holds(k)
    <3>1. CASE Cached(key[c], hand[c])
      BY <1>5, <3>1 DEF Save, Cached
    <3>2. CASE UNCHANGED redis
      BY <3>2
    <3> QED
      BY <1>5, <3>1, <3>2 DEF Save
  <2> QED
    BY <2>1, <2>2
<1>6. ASSUME NEW k \in Keys, Lapse(k)
      PROVE  (\A d \in Calls : Moves(d)) /\ (\A l \in Keys : Holds(l))
  BY <1>6 DEF Lapse, Cached
<1>7. ASSUME \/ \E new \in [Nodes -> world.statuses] : StatusChanges(new)
             \/ \E s \in SessionIds : SessionEnds(s)
             \/ UNCHANGED vars
      PROVE  (\A d \in Calls : Moves(d)) /\ (\A k \in Keys : Holds(k))
  BY <1>7 DEF StatusChanges, SessionEnds, vars
<1> HIDE DEF Moves, Holds
<1> QED
  BY <1>1, <1>2, <1>3, <1>4, <1>5, <1>6, <1>7 DEF Next, Progress
(* At first there are no answers, and no step makes one older than that.   *)
LEMMA HeardInit ==
    ASSUME Init PROVE HeardInv
BY DEF Init, HeardInv

LEMMA HeardStep ==
    ASSUME TypeInv, DirIInv, Linked, halves \in 0 .. 2, HeardInv,
           [Next]_vars, [Directory!Next]_(Directory!directory), Paces
    PROVE  HeardInv'
<1> SUFFICES ASSUME "db" \notin faults'
             PROVE  /\ \A c \in Calls :
                          /\ at'[c] \in {"create", "store"} => Heard(hand[c], Waits(c))'
                          /\ at'[c] = "hit" => Heard(hand[c], 2 * (CacheTtl + 1) + Waits(c))'
                          /\ at'[c] = "done" => Heard(hand[c], 2 * (CacheTtl + 2))'
                    /\ \A k \in Keys : cache'[k] # Nobody => Heard(cache[k], 2 * (held[k] + 1))'
  BY DEF HeardInv
<1> USE DEF Labels
<1>1. "db" \notin faults
  BY SilenceGrows
<1>2. /\ \A c \in Calls :
            /\ at[c] \in {"create", "store"} => Heard(hand[c], Waits(c))
            /\ at[c] = "hit" => Heard(hand[c], 2 * (CacheTtl + 1) + Waits(c))
            /\ at[c] = "done" => Heard(hand[c], 2 * (CacheTtl + 2))
      /\ \A k \in Keys : cache[k] # Nobody => Heard(cache[k], 2 * (held[k] + 1))
  BY <1>1 DEF HeardInv
<1>3. /\ \A c \in Calls : Waits(c) \in {0, 2} /\ Waits(c)' \in {0, 2}
      /\ CacheTtl \in Nat /\ \A k \in Keys : held[k] \in Nat /\ held'[k] \in Nat
      /\ \A k \in Keys : held[k] =< CacheTtl
  BY TypeStep DEF Waits, TypeInv, TypeOK
<1>4. /\ \A c \in Calls : at[c] \in {"hit", "create", "store", "done"} =>
                hand[c].node \in NodeIds
      /\ \A k \in Keys : cache[k] # Nobody => cache[k].node \in NodeIds
  BY DEF TypeInv, TypeOK, Answer, Linked
<1>5. CASE Minute
  <2>1. /\ \A c \in Calls : ~ late[c] /\ at[c] # "done"
        /\ UNCHANGED <<at, hand>>
        /\ \A c \in Calls : at[c] # "idle" => late'[c]
        /\ \A k \in Keys : cache'[k] # Nobody =>
                cache'[k] = cache[k] /\ held'[k] = held[k] + 1 /\ cache[k] # Nobody
    BY <1>5 DEF Minute, Tick, TypeInv, TypeOK
  <2>2. \A c \in Calls : at[c] # "idle" => Waits(c) = 0 /\ Waits(c)' = 2
    BY <2>1 DEF Waits
  <2>3. ASSUME NEW c \in Calls
        PROVE  /\ at'[c] \in {"create", "store"} => Heard(hand[c], Waits(c))'
               /\ at'[c] = "hit" => Heard(hand[c], 2 * (CacheTtl + 1) + Waits(c))'
               /\ at'[c] = "done" => Heard(hand[c], 2 * (CacheTtl + 2))'
    <3>1. CASE at[c] \in {"create", "store"}
      <4>1. Heard(hand[c], 0) /\ hand[c].node \in NodeIds
        BY <1>2, <1>4, <2>2, <3>1
      <4>2. Heard(hand[c], 0 + 2)'
        BY <1>5, <2>1, <4>1, HeardStays DEF Heard
      <4> QED
        BY <2>1, <2>2, <3>1, <4>2 DEF Heard
    <3>2. CASE at[c] = "hit"
      <4> DEFINE t == 2 * (CacheTtl + 1)
      <4>1. Heard(hand[c], t) /\ hand[c].node \in NodeIds /\ t \in Nat
        BY <1>2, <1>3, <1>4, <2>2, <3>2
      <4>2. Heard(hand[c], t + 2)'
        BY <1>5, <2>1, <4>1, HeardStays DEF Heard
      <4> QED
        BY <2>1, <2>2, <3>2, <4>2 DEF Heard
    <3> QED
      BY <2>1, <3>1, <3>2
  <2>4. ASSUME NEW k \in Keys, cache'[k] # Nobody
        PROVE  Heard(cache[k], 2 * (held[k] + 1))'
    <3> DEFINE t == 2 * (held[k] + 1)
    <3>1. Heard(cache[k], t) /\ cache[k].node \in NodeIds /\ t \in Nat
      BY <1>2, <1>3, <1>4, <2>1, <2>4
    <3>2. silence'[cache[k].node] =< Reach + (t + 2) + halves'
      BY <1>5, <3>1, HeardStays DEF Heard, Reach
    <3>3. t + 2 = 2 * (held'[k] + 1)
      BY <1>3, <2>1, <2>4
    <3> QED
      BY <2>1, <2>4, <3>2, <3>3 DEF Heard, Reach
  <2> QED
    BY <2>3, <2>4
<1>6. CASE ~ Minute
  <2>1. (\A c \in Calls : Moves(c)) /\ (\A k \in Keys : Holds(k))
    BY <1>6, AnswersMove DEF Paces
  <2> DEFINE Ago(n, t) == silence'[n] =< Reach + t + halves'
  <2>2. ASSUME NEW answer, answer.node \in NodeIds, NEW t \in Nat, Heard(answer, t)
        PROVE  Ago(answer.node, t)
    BY <1>6, <2>2, HeardStays DEF Heard, Reach
  <2>3. ASSUME NEW n \in NodeIds, NEW t \in Nat, NEW u \in Nat, t =< u, Ago(n, t)
        PROVE  Ago(n, u)
    <3>1. Reach \in Nat /\ halves' \in Nat /\ silence'[n] \in Nat
      BY SilenceGrows, DirectoryConstants DEF Reach, Paces, Minute, HalfMinute
    <3> QED  BY <2>3, <3>1
  <2>4. /\ 2 * (CacheTtl + 1) \in Nat /\ 2 * (CacheTtl + 2) \in Nat
        /\ \A c \in Calls : /\ Waits(c) \in Nat /\ Waits(c)' \in Nat
                            /\ Waits(c) =< 2 * (CacheTtl + 2)
                            /\ 2 * (CacheTtl + 1) + Waits(c) =< 2 * (CacheTtl + 2)
                            /\ 2 * (CacheTtl + 1) + Waits(c) \in Nat
                            /\ 2 * (CacheTtl + 1) =< 2 * (CacheTtl + 1) + Waits(c)'
                            /\ 2 * (CacheTtl + 1) + Waits(c)' \in Nat
        /\ \A k \in Keys : /\ 2 * (held[k] + 1) \in Nat /\ 2 * (held'[k] + 1) \in Nat
                           /\ 2 * (held[k] + 1) =< 2 * (CacheTtl + 1)
        /\ \A c \in Calls, k \in Keys : Waits(c) =< 2 * (held'[k] + 1)
    BY <1>3
  <2> HIDE DEF Ago
  <2>5. ASSUME NEW c \in Calls
        PROVE  /\ at'[c] \in {"create", "store"} => Ago(hand'[c].node, Waits(c)')
               /\ at'[c] = "hit" => Ago(hand'[c].node, 2 * (CacheTtl + 1) + Waits(c)')
               /\ at'[c] = "done" => Ago(hand'[c].node, 2 * (CacheTtl + 2))
    <3>1. CASE Keeps(c)
      <4>1. Waits(c)' = Waits(c)
        BY <3>1 DEF Keeps, Waits
      <4> QED
        BY <1>2, <1>4, <2>2, <2>4, <3>1, <4>1 DEF Keeps
    <3>2. CASE at[c] = "select" /\ at'[c] = "create"
      <4>1. hand'[c].node \in NodeIds /\ silence[hand'[c].node] =< Reach
        BY <1>1, <3>2, ChosenInTime DEF Reach
      <4>2. Heard(hand'[c], 0)
        BY <4>1, SilenceGrows, DirectoryConstants DEF Heard, Reach
      <4>3. Ago(hand'[c].node, 0)
        BY <4>1, <4>2, <2>2
      <4>4. Waits(c)' \in Nat /\ 0 =< Waits(c)'
        BY <1>3
      <4> QED
        BY <2>3, <3>2, <4>1, <4>3, <4>4
    <3>3. CASE /\ at[c] = "create" /\ at'[c] = "store"
               /\ hand'[c].node = hand[c].node /\ late'[c] = late[c]
      <4>1. Waits(c)' = Waits(c)
        BY <3>3 DEF Waits
      <4> QED
        BY <1>2, <1>4, <2>2, <2>4, <3>3, <4>1
    <3>4. CASE at[c] \in {"hit", "store"} /\ at'[c] = "done" /\ hand'[c] = hand[c]
      <4>1. \E t \in Nat : t =< 2 * (CacheTtl + 2) /\ Heard(hand[c], t)
        BY <1>2, <2>4, <3>4
      <4>2. \E t \in Nat : t =< 2 * (CacheTtl + 2) /\ Ago(hand[c].node, t)
        BY <1>4, <2>2, <3>4, <4>1
      <4> QED
        BY <1>4, <2>3, <2>4, <3>4, <4>2
    <3>5. ASSUME at'[c] = "hit", NEW k \in Keys, cache[k] # Nobody, hand'[c] = cache[k]
          PROVE  Ago(hand'[c].node, 2 * (CacheTtl + 1) + Waits(c)')
      <4>1. Ago(cache[k].node, 2 * (held[k] + 1)) /\ cache[k].node \in NodeIds
        BY <1>2, <1>4, <2>2, <2>4, <3>5
      <4>2. Ago(cache[k].node, 2 * (CacheTtl + 1))
        BY <2>3, <2>4, <4>1
      <4> QED
        BY <2>3, <2>4, <3>5, <4>1, <4>2
    <3> QED
      BY <2>1, <3>1, <3>2, <3>3, <3>4, <3>5 DEF Moves
  <2>6. ASSUME NEW k \in Keys, cache'[k] # Nobody
        PROVE  Ago(cache'[k].node, 2 * (held'[k] + 1))
    <3>1. CASE cache'[k] = cache[k] /\ held'[k] = held[k]
      BY <1>2, <1>4, <2>2, <2>4, <2>6, <3>1
    <3>2. ASSUME NEW c \in Calls, at[c] = "store", cache'[k] = hand[c]
          PROVE  Ago(cache'[k].node, 2 * (held'[k] + 1))
      <4>1. Ago(hand[c].node, Waits(c)) /\ hand[c].node \in NodeIds
        BY <1>2, <1>4, <2>2, <2>4, <3>2
      <4> QED
        BY <2>3, <2>4, <3>2, <4>1
    <3> QED
      BY <2>1, <2>6, <3>1, <3>2 DEF Holds
  <2> QED
    BY <2>5, <2>6 DEF Ago, Heard, Reach
<1> QED
  BY <1>5, <1>6

(* A node that an answer names when it is given, fresh or cached, was      *)
(* heard of within the time above, the life of a cached answer, and the    *)
(* three minutes that the two requests and the count of halves may cost:   *)
(* that is what a heartbeat that fails to come can still mean for a        *)
(* client, across the table, the clean-up task and the cache of routes.    *)
THEOREM AnsweredWereHeard ==
    Spec /\ Directory!Spec /\ []Linked /\ Paced =>
        [](\A c \in Calls : "db" \notin faults /\ at[c] = "done" =>
               silence[hand[c].node] =< OfflineAfter + SweepEvery + 1 + 2 * (CacheTtl + 3))
<1> DEFINE Said == \A c \in Calls : "db" \notin faults /\ at[c] = "done" =>
                silence[hand[c].node] =< OfflineAfter + SweepEvery + 1 + 2 * (CacheTtl + 3)
           Joint == TypeInv /\ DirIInv /\ Linked /\ halves \in 0 .. 2 /\ HeardInv
<1>1. Joint => Said
  <2> SUFFICES ASSUME Joint, NEW c \in Calls, "db" \notin faults, at[c] = "done"
               PROVE  silence[hand[c].node] =< OfflineAfter + SweepEvery + 1 + 2 * (CacheTtl + 3)
    OBVIOUS
  <2>1. Heard(hand[c], 2 * (CacheTtl + 2)) /\ hand[c].node \in NodeIds
    BY DEF HeardInv, TypeInv, TypeOK, Answer, Linked
  <2>2. silence[hand[c].node] \in Nat
    BY <2>1, DirTypesApart DEF DirIInv, RowTypes, Directory!MaxSilence
  <2> QED
    BY <2>1, <2>2, DirectoryConstants DEF Heard, Reach
<1>2. Init /\ halves = 0 => HeardInv /\ halves \in 0 .. 2
  BY HeardInit
<1>3. HeardInv /\ halves \in 0 .. 2 /\ TypeInv /\ DirIInv /\ Linked /\ [Next]_vars
      /\ [Directory!Next]_(Directory!directory) /\ [Paces]_<<vars, directory, halves>>
      => HeardInv' /\ (halves \in 0 .. 2)'
  <2> SUFFICES ASSUME HeardInv, halves \in 0 .. 2, TypeInv, DirIInv, Linked, [Next]_vars,
                      [Directory!Next]_(Directory!directory), [Paces]_<<vars, directory, halves>>
               PROVE  HeardInv' /\ (halves \in 0 .. 2)'
    OBVIOUS
  <2>1. CASE Paces
    <3>1. (halves \in 0 .. 2)'
      BY <2>1 DEF Paces, Minute, HalfMinute
    <3> QED
      BY <2>1, <3>1, HeardStep
  <2>2. CASE UNCHANGED <<vars, directory, halves>>
    <3>1. UNCHANGED <<at, hand, late, cache, held, faults, silence, halves>>
      BY <2>2 DEF vars, requests, redis, directory, store
    <3> QED
      BY <3>1 DEF HeardInv, Heard, Waits, Reach
  <2> QED
    BY <2>1, <2>2
<1>4. IInv => TypeInv
  BY DEF IInv
<1> QED
  BY <1>1, <1>2, <1>3, <1>4, Inductive, DirInductive, PTL
  DEF Spec, Directory!Spec, Paced
==============================================================================
