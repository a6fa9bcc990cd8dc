# A verification of Higgs VPN in TLA+

Higgs VPN has three programs. **bosonserver** (`bosonserver/`) coordinates: nodes register
with it, clients ask it for a route, and a WebSocket relay in it carries their packets.
**HiggsNode** (`higgsnode/`) is an exit: it registers, keeps a heartbeat, opens a relay
connection and translates the packets of clients to the Internet. **higgsvpn-client**
(`higgsvpn-client/`) asks for a route, brings a WireGuard interface up and sends its
packets through the relay. All three are TypeScript on Node.js: single threaded, and
concurrent at every `await`, timer and socket event.

This directory holds models of what is hard in them: the interleavings at awaits, the
failures of PostgreSQL and Redis, restarts, timers that race answers. TLC checks the
models on small instances; TLAPS proves the safety properties for all values of the
constants.

Contents: 1 inventory; 2 modules; 3 runs and bounds; 4 fairness; 5 findings; 6 proofs;
7 what is not modelled; 8 plan.

## 1. Inventory

### The parts, their state and what makes them correct

| Part | State | Operations | Correct when |
|---|---|---|---|
| **Session store** `services/relay/SessionManager.ts` | table `sessions`, Redis keys `session:<id>` (1 h), map `activeSessions` (no expiry) | createSession, getSession, closeSession, expiry sweep, stale sweep | caches follow the table; a session that ended is not served; ids do not reopen |
| **WebSocket relay** `WebSocketRelay.ts`, `RelayService.ts` | maps `connections`, `nodeConnections`, `heartbeatIntervals`; clean-up timer | upgrade, close, error, disconnect message, heartbeat, clean-up every 5 min, shutdown | only live sessions are admitted; a socket in service stays in the maps; nothing leaks |
| **Node directory** `services/discovery/*` | table `nodes`, Redis keys `node:<id>` (60 s) | register, heartbeat, address update, lookup, delete, sweep every minute | silent nodes leave the list in time, others do not |
| **Routing** `services/routing/*` | Redis keys `route:<client>:<target>` (5 min), table `routes` | requestRoute | the answer is fresh, the client's own, on a suitable node; sessions do not pile up |
| **WireGuard server** `services/wireguard/WireGuardServer.ts` | `clientSessions` by `address:port` (5 min) | register, datagram in, answer from a node, sweep, stop | a datagram goes to its client's node, an answer to its client; registrations stand, silent entries go |
| **Gateway and packets** `api/gateway.ts`, `api/routes/packets.ts`, data frames of the relay | none of its own | packets between WireGuard server, relay and the API of nodes | a packet does not come to another client |
| **Other routes, TURN, metrics** `api/`, `services/turn`, `services/metrics` | counters | requests passed on | |
| **Node connection** `higgsnode/src/managers/ConnectionManager.ts` | status, heartbeat interval, reconnection timer and counter | register, heartbeats, reconnect, disconnect | one loop; never left with nothing under way; gives up or recovers |
| **Node life** `NodeService.ts`, `CleanupManager.ts`, `index.ts` | clean-up tasks; the packet filter of the host | start, signal, clean-up, forced exit, crash | a node that is up forwards; a clean exit takes back what start set up |
| **Host NAT** `engines/RoutingEngine.ts` | iptables chains, rules, `natEnabled` | enableNat, disableNat | as above, over several processes |
| **Node relay** `higgsnode/src/services/WebSocketRelay.ts` | socket, timers, packet buffer | connect, reconnect, batch, disconnect | one attempt at a time, and none lacking while tries are left; no packet stays in the buffer; a batch is read as it was packed |
| **Node packets** `PacketForwarder.ts`, `TCPConnectionManager.ts`, `DNSHandler.ts` | TCP connections by flow | packet in, data back, clean-up, stop | the table knows the socket of a flow, and no other takes it out; no packet waits for ever |
| **Port forwarding** `PortForwardingService.ts` | mappings, refresh timers | add, refresh, remove, clean up | a node that is up stays reachable |
| **Health checks** `HealthCheckManager.ts` and the managers it drives | failure counter | check, recover | a recovery mends what the check found |
| **Client** `higgsvpn-client/src/services/*` | relay, forwarder, `status.connected`, interface | connect, disconnect, relay events | "connected" means something is; relays come back; connect() ends |
| **Client host** `higgsvpn-client/src/services/WireGuardManager.ts` | interface, rules and routes of the host | createInterface, setupRouting, removeInterface | packets of the tunnel do not enter the tunnel; traffic does |

### How they interact

- The router calls `RelayService.createRelaySession`, which calls `SessionManager`; the
  client opens a WebSocket on the id it was given; the relay looks the session up, and
  closes it when the socket goes.
- The clean-up timer of `RelayService` runs the expiry sweep, then lists the connected ids
  and the clients of the WireGuard server, then runs the stale sweep with these lists.
- The relay asks the node directory whether an id is a node's, and tells it the address
  the node comes from. The router reads the directory's list of active nodes.
- `ApiGateway` hands packets of the WireGuard server to the relay, on the session of the
  client, and packets of the relay to the WireGuard server.
- `NodeService` opens a relay at each 'registered' event of `ConnectionManager`; at the
  end its `CleanupManager` runs 'connection' first, then 'portForwarding', and 'routing' near
  the end.
- `ClientService` calls `WireGuardManager` before it opens its relay and when it disconnects;
  interface and routes belong to the host and outlive the process.
- Redis is reached over one connection (its commands take effect in the order in which
  they are issued), PostgreSQL through a pool (a statement may overtake another).

### What is hard

- State read before an `await` and used after it: the copy of a session or a node written
  back into a cache after the original changed; the lists of the stale sweep; the lookup
  during which a socket closes.
- Maps keyed by id while several sockets, relays or requests share the id.
- Errors that are swallowed (`updateSessionStatus`, `storeRoute`) or that end a sweep
  half way; a process that dies between two writes, or between two `iptables` commands.
- Timers that reschedule one another and race the answers they wait for.
- Durations that add up: a limit, the period of a sweep, the life of a cache entry.

- Things outside the process that outlive it: rules of the packet filter, interfaces and
  routes, the mapping of a port, a node on the list.

`PROJECT.json` lists these hazards by line, each with the properties that cover it. Where
the code falls to a hazard, no property can hold; the note names what shows it (5).

## 2. The modules

| Module | Models | State and actions |
|---|---|---|
| `SessionLifecycle` | the promise of the session store: a session's life goes forward (unissued, active, closed, gone), and an answer is a status it has really had | `life`, `answer`; Issue, Shut, Purge, Answer |
| `SessionManager` | the class, one action per stretch between awaits | `rows`, `redis`, `mem` are the three tiers; `at`, `arg`, `seen`, `todo` the calls in flight; `age` what the SQL compares; `tainted` a history variable |
| `RelayServer` | `WebSocketRelay` and the timer of `RelayService`, composed with `SessionManager` (`SM == INSTANCE ...`) | the three maps, the sockets with the stage of their handlers, the calls with the handler they work for |
| `NodeDirectory` | the state of the directory of nodes and what it promises | `row`, `silence`; `cached`, `nodeHeld`; the calls; time in ticks of half a minute |
| `NodeRegistry` | `NodeRegistry`, `HeartbeatManager`, the routes of `nodes.ts`; EXTENDS `NodeDirectory` | the operations: requests, the clean-up task, the steps of a call, time |
| `LoadBalancer` | the choice of node and of kind of route | operators only; what a node says of itself is the constant `profile` |
| `RoutingService` | `requestRoute` over the directory, the session store (as `SessionLifecycle`) and its Redis keys | `cache`, `held`; `life`, `issued`, `age`; the requests; time in ticks of a minute |
| `ConnectionManager` | the class, with `retryRequest` and `unregister` of `ApiClient` | `status`, the two heartbeat loops and the handle, the reconnection timer, requests in flight by kind |
| `HostNat` | enableNat and disableNat: the commands of Linux and what the kernel keeps, the two ways of Windows | `chains`, `rules` (how many copies), `script` (commands to come), `enabled`, forwarding of Windows |
| `PortForwarding` | the one mapping that the node asks the router for | the service's map and timer; request and answer to a refresh, removal, the router's own expiry |
| `NodeLifecycle` | `NodeService.start`, signals, `CleanupManager`, the ten-second limit, crashes; EXTENDS `HostNat` and `PortForwarding` | `phase`, the clean-up tasks, requests to the server, `ended`, `unclean` |
| `PacketBatch` | the codec of batches, at both ends of a relay socket | operators only, on packets of 16-bit words |
| `NodeRelay` | `WebSocketRelay` of the node with the socket of the server's side | sockets by name, `ws`, the five timers, buffer, messages and heartbeats on their way |
| `TCPTable` | the table of a node's TCP connections and what it promises | the table by flow, sockets with their state and idle time, callers that wait |
| `TCPConnections` | `TCPConnectionManager`, `PacketForwarder` and the packet handlers of `NodeService`; EXTENDS `TCPTable` | the operations: packets of a flow, events of its socket, the clean-up, time |
| `PacketPath` | `WireGuardServer`, the listeners of `ApiGateway`, data frames of the relay, `/wireguard` and `/packets` | entries by address and the order in which their keys were inserted (`before`), objects that two keys may share, packets with the await they are at |
| `ClientService` | connect() and disconnect() with every relay ever created | `phase`, `connected`, `relay`, `forwarder`; per relay its socket and timer |
| `ClientHost` | the same on a Linux host: interface, rules and routes of `WireGuardManager`; EXTENDS `ClientService` | `device`, `rules`, `default`, `pinned` |
| `MC...` | instances for TLC | |
| `...Proofs` | theorems (6) | |

`NodeDirectory` and `TCPTable` are apart from their operations so that a module of proofs can
extend the state of two components, whose actions have names in common, and take the
operations of the second with INSTANCE.

Conventions:

- **A step** is the code between two awaits. A Redis command takes effect in the step that
  issues it, a PostgreSQL statement in a step of its own. A caller resumes in the microtask
  after its call ends, before any other event (`Settled` in `RelayServer`).
- **A rejected command** may or may not have been executed, where the store can have
  executed it before the connection was lost.
- **`tainted`** names the sessions whose cached copies may be wrong for good: a reader
  carried an active copy across the removal, a command of the removal was rejected, or the
  process died in the middle. The code has these races; the property says that they are
  the only ones.
- **Rigid variables** (`faults`, `world`, `platform`, `faulty`, `deaf`, `kind`) are chosen in the initial state
  and never change: one run looks at several circumstances, and each property says
  under which of them it holds.
- **Ticks**. A duration of k ticks is more than k-1 and less than k+1 of them. In
  `NodeRegistry` and `RoutingService` no call takes longer than a tick.
- **`TypeOK`** is proved where a module has proofs, so that no run repeats it; for the others
  it can be put into the cfg.
- **Properties that belong together** are one name (`InTime`, `RunningServes`, `TryingEnds`):
  a conjunction of named parts, each with its own comment.
- **Mutants**. `XMutant` beside `X` is `X` with a plausible mistake; the property it is
  paired with in `PROJECT.json` is violated when it takes the place of `X`.

## 3. Runs and bounds

| Run | Instance | What it shows |
|---|---|---|
| `sessions` | 1 session, 3 calls, both stores may reject, restarts; 0.14 M states | `CoherentUnlessTainted`, `ClosedCopiesAreTrue`; `ImplementsLifecycle`: the three tiers with all their races implement `SessionLifecycle` |
| `relay_clients` | 1 session, 2 sockets, 1 handler and the clean-up timer, failures, restarts; 0.9 M | a socket in service is displaced only by another of its id (`OnlyRivalsDisplace`); only live sessions are admitted; a young session is closed only by its client |
| `relay_nodes` | 1 node, 2 sockets, failures, restarts, fairness | the maps agree and the interval on record runs (`RecordsAgree`); no interval outlives its socket for good |
| `relay_live` | 1 session, 1 socket, Redis may reject, fairness; 7.8 k | a disconnection that was noticed is carried through unless closeSession threw, every session ends |
| `registry` | 1 node, 2 calls, the real durations, either store may reject | `InTime`: a silent node is off the list within 4 minutes, out of the cache within 5.5, gone within 12; sweeps spare every node heard of |
| `routing` | 2 nodes, 2 requests; one client with nodes coming, going and degrading, two clients, or one client with a failing store; 5 min = 5 ticks | answers are at most seven ticks old, of the client's own session; repeated requests create no flood of sessions; the node chosen is sound |
| `connection` | 3 attempts, 2 tries, 2 requests of a kind, fairness | one heartbeat loop; never left alone; `TryingEnds`: it gives up, or recovers |
| `lifecycle` | 2 processes on Linux or Windows, with and without failing commands and requests, fairness; 0.62 M | a clean exit clears the three IPv4 rules that translate and accept packets, and the node is off the server's list (IPv6 and the switches for forwarding are not covered); what other exits leave of IPv4 rules is bounded; `RunningServes`: a node that is up forwards and its port is mapped; a shutdown ends |
| `client` | 2 calls of connect(), 2 endpoints of which one by host name, hosts with and without wg-quick, uplink and leftovers, fairness; 0.43 M | "connected" is backed by a socket and a forwarder; `OnTheHost`: the tunnel's packets stay out of it where the endpoint can have a route of its own, and traffic goes through it, with the exceptions that the definitions name; `ConnectsAgain`: relays come back and connect() ends, unless the server lets a handshake hang |
| `packets` | 2 clients with the same private address, 1 packet on its way, sweeps; 0.16 M | a packet goes to a socket or a node of the client it is taken for, and a datagram is taken for its sender except at an address of two clients or where the search was mistaken once (`StaysWithTheClient`); `TableHolds`: the last registration stands, silent entries go; answers go where their client was |
| `node_relay` | 2 sockets, 2 attempts, batches of up to 3, a server flaky at first and then up or down for good, fairness; 43 k | one attempt at a time; buffered packets are sent; batches are read as packed; the trying ends. An ASSUME evaluates the codec on batches of two to ten |
| `tcp` | 2 flows, 3 sockets, fairness; 0.17 M | a flow without overlapping attempts has one socket, and the table knows it; only a rival of the flow cuts a connection; no packet waits for ever, an error before the connection excepted (5) |

Why the bounds are enough: the components keep state per id and ids do not touch one
another except in sweeps, so one id with several actors shows the races
(`MCSessionSweeps.cfg`, kept beside the runs, checks two ids for a sweep that fails between
them). Three calls at once cover reader, closer and sweep; two sockets of an id cover replacement, and a third
could only repeat it. Two packets of one flow and a third socket show what a late close does
to its successor's successor. In `PacketPath` handlers meet in the table alone, between the
steps of one packet everything else may happen to it, and three objects for one address
are as many as two addresses and one handler can hold. Two processes in a row show what the first leaves to the second. The
real durations are used where a property adds durations, short ones where it is about
order. Bounds of the models themselves are named there (`MaxSilence`, `Long`, `MaxRuns`,
`MaxRelays`, `MaxInFlight`, `SessionsSuffice`, `MaxWire`, `MaxBeats`, `Copies`); of `Copies`
it is proved that it hides nothing (`ObjectsSuffice`).

`CHECK_DEADLOCK FALSE` stands where the instance is used up: all relays created, all
processes run, all sessions issued. Symmetry is used in runs without liveness only.

## 4. Fairness

- `RelayServer`: the event loop runs every microtask, delivers every reply and fires every
  timer; strong fairness, since events of other sockets may keep coming first. Nothing is
  assumed of peers.
- `ConnectionManager`: timers fire, and each request is answered or times out (thirty
  seconds in `ApiClient`).
- `NodeLifecycle`: the process runs on, and the ten-second timer fires; nothing is assumed
  of the server or the router.
- `ClientService`, `ClientHost`: requests are answered or time out (thirty seconds in
  `ApiClient`), timers fire, closes complete, and a socket that does not hang opens or fails.
  The socket has no timeout for its handshake, so a server that accepts the connection may
  leave it without an answer for good: `Hangs` takes a socket there, at any time, and nothing
  is assumed of a socket that hangs. A server that is tried for ever opens a socket some time
  (strong fairness of `Opened`), without which no client could promise to reconnect.
- `NodeRelay`: timers fire, a socket that closes is closed some time, messages arrive, a
  server that is up for good accepts and one that is down for good is noticed.
- `TCPConnections`: time passes and an attempt times out (strong fairness, since other
  events may keep coming first), destroyed sockets emit their close.
- `SessionManager`, `NodeRegistry`, `RoutingService`, `PacketPath` state safety only; their bounds
  on time rest on a timer that is not later than its period and a tick.

## 5. Where code and documents disagree

None of these is a run. Each is a definition of the module with its comment; put its name in
the place of the properties of the configuration, and `tlc -config <cfg> <module>` shows the
counterexample.

| Property | Configuration, module | What happens |
|---|---|---|
| `JustConnectedNotClosed` | `MCRelayClients`, `MCRelayServer` | the stale sweep closes the session of a client that connects after the connected ids were listed (`SessionManager.ts:185`), though `:184` says the two-minute rule is there "to avoid closing sessions that just connected": a session may be old and its client new |
| `OpenSocketKeepsHeartbeat` | `MCRelayNodes`, `MCRelayServer` | the heartbeat of a newer socket stops when the older one of the id closes (`WebSocketRelay.ts:422`; PROTOCOL.md:360,375) |
| `LeftSocketsAlwaysForgotten` | `MCRelayLive`, `MCRelayServer` | a rejected DEL makes closeSession throw, and the entry of the closed socket stays (`WebSocketRelay.ts:436-440`); to the stale sweep the id counts as connected (`RelayService.ts:125`: "sessions without active WebSocket connections") |
| `DeadSocketsForgotten` | `MCRelayLive`, `MCRelayServer` | a socket that closes during the lookup of its session is admitted and stays in the maps, for its close handler is attached too late (`:166`; PROTOCOL.md:376) |
| `ConnectionsCloseAtExpiry` | `MCRelayLive`, `MCRelayServer` | the expiry sweep leaves the sockets open (`SessionManager.ts:135`; PROTOCOL.md:402) |
| `OfflineAfterNinetySeconds` | `MCRegistry`, `MCNodeRegistry` | the limit is two minutes (`NodeRegistry.ts:184`; PROTOCOL.md:150) |
| `HeartbeatKeepsNode` (PROPERTY) | `MCRegistry`, `MCNodeRegistry` | the heartbeat of a removed node is answered with "ok" (`NodeRegistry.ts:101`; PROTOCOL.md:148) |
| `OnlyTheIpIsUpdated` (PROPERTY) | `MCRegistryIp` as it stands, `MCNodeRegistry` | an address update writes network information back that a registration has replaced (`NodeRegistry.ts:130-139`) |
| `EndedSessionsReplaced` | `MCRouting`, `MCRoutingService` | a client whose session has ended is given the same session again while its answer is cached (`RoutingService.ts:63`; PROTOCOL.md:690) |
| `DisconnectedStays` | `MCConnection`, `ConnectionManager` | a request in flight revives the status after disconnect() (`ConnectionManager.ts:213`; START_WINDOWS11.md:175) |
| `CleanExitClearsAll` | `MCLifecycle`, `MCNodeLifecycle` | the IPv6 FORWARD rules are never deleted (`RoutingEngine.ts:692` against `:561,565`; README.md:610), and forwarding that was turned on in Windows stays on |
| `SignalClears` | `MCLifecycle`, `MCNodeLifecycle` | a signal during start leaves NAT enabled, its task not being registered yet (`NodeService.ts:245-262`; README.md:611) |
| `TimersCleared` | `MCLifecycle`, `MCNodeLifecycle` | the answer to a refresh in flight sets the timer and the mapping again after the clean-up (`PortForwardingService.ts:261`) |
| `DisconnectReleases` | `MCClient`, `MCClientHost` | disconnect() returns early and keeps the relay of a client that lost its connection (`ClientService.ts:268`; `ClientService.test.ts:80,101`) |
| `ReleasedStaysClosed` | `MCClient`, `MCClientHost` | a relay that was disconnected is open again after five seconds, for its own close event schedules a reconnection (client `WebSocketRelay.ts:100`; `WebSocketRelay.test.ts:85,91`) |
| `NeverLoops` | `MCClient`, `MCClientHost` | packets of the tunnel enter the tunnel: to an endpoint given by name, of which `ip route` makes nothing (`WireGuardManager.ts:560`); on a host without an uplink; and over an interface that another process left half made, which keeps its peer while the route is made for the endpoint of the new one (`:553`) |
| `AllTrafficTunnelled` | `MCClient`, `MCClientHost` | an interface set up by hand beside a default route of metric zero carries no traffic, nor does one left half made where wg-quick cannot be run: it is kept without its routing (`WireGuardManager.ts:316-324,349-358`; bosonserver `RoutingService.ts:166`) |
| `ConnectEndsInTime` (PROPERTY) | `MCClient`, `MCClientHost` | a server that accepts the connection and never answers the upgrade leaves connect() waiting for good (client `WebSocketRelay.ts:42-46`), though its other requests have thirty seconds (`ApiClient.ts:56`) |
| `DatagramsAreTheirSenders` | `MCPacketPath` | a datagram from an unknown address is taken for one of the first client that is registered and has a relay connection (`WireGuardServer.ts:85-105`), whoever sent it, and goes to a node or a socket of that client |
| `NeverEchoed` | `MCPacketPath` | a datagram is first sent back to its own client, on whose session the listener forwards it (`gateway.ts`, sendToSession) |
| `ExchangesEnd` (PROPERTY) | `MCNodeRelay` | each heartbeat is answered by a heartbeat on both sides, without end (`WebSocketRelay.ts:272`; PROTOCOL.md:360 says one in 30 s) |
| `PacketsArriveUnchanged` | `MCNodeRelay` | a batch of one packet is not read as a batch, and a packet whose first word is 2 to 99 is (`WebSocketRelay.ts:212`; PROTOCOL.md:329) |
| `OneConnectionPerFlow` | `MCTCPConnections`, `TCPConnections` | packets that come while an attempt is under way open more connections (`TCPConnectionManager.ts:21`) |
| `NoneHangs` | `MCTCPConnections`, `TCPConnections` | an error before the connection is made settles nobody's promise (`:157`) |

By reading alone: `RelayService.ts:124-125` leaves "sessions that have WireGuard registrations"
out of the stale sweep, but `setWireGuardServer` has no caller. Frames on the socket of a node
are dropped, since a node's id is no session; the node has no HTTP server to which
`/api/v1/packets` could be sent; the client's frames of type "packet" are not among those the
relay knows. `PacketForwarder` reads the destination where IPv4 has the source.

## 6. Proofs

Every safety property that a run checks, invariant or action property, is a theorem, for every
value of the constants. The assumptions are the named ASSUMEs of the modules: kinds of
constants, which values are told apart, relations that the source fixes (a socket's own
timeout is below that of the clean-up, `TcpAssumption`; a node is marked offline before it is
removed, `Durations`; a batch holds fewer packets than the hundred from which the reader no
longer takes a message for one, `RelayAssumption`, where BATCH_SIZE is 10), and that only
finitely many requests are in flight and sessions stored (`BoundsAssumption` of
`RoutingService`, for counting them). Three kinds of theorem state hypotheses of their own:
`BatchesReadWhole` about packets, `ObjectsSuffice` about the bound `Copies`, and those about
both halves of the directory about what links the two. The sets of sessions, nodes, sockets,
addresses, packets and calls, the stores that may fail, the number of relays, the limits of
attempts and the durations are arbitrary.

### At the server

- **`SessionManagerProofs`**. `TypeCorrect` by cases over the actions. `ClosedCopies` (a
  cached "closed" is right) needs `TruthInv`: a call that still holds a "closed" copy or has
  just updated the row speaks of a row that is not active, and an id nobody has issued is
  nowhere. `Coherence` (`CoherentUnlessTainted`) needs `CoherenceInv`: an active copy that a
  call carries to a cache is of an active row, unless the session is tainted; without it a
  step that writes the copy could break coherence out of the blue. `SessionsStayClosed`: no
  session is active a second time. `StoreImplementsLifecycle` is the refinement,
  `SessionLifecycle` under the mapping of `ImplementsLifecycle`: a lemma per operation shows
  that each of its steps is one step of the session's life, one answer, or a stutter
  (`Untold`, `Told`, `Shuts`). It needs `TruthInv` and `Unconcerned`: a call that is not about
  one session has none on record, without which the end of a sweep would be an answer about a
  session nobody asked for.
- **`RelayServerProofs`**. By the lemma `RelayUsesSessionManager` every step of the relay is a
  step of the store or leaves it alone, as its actions are put together. So the invariants of `SessionManagerProofs` hold of the relay's
  store too, and are cited here (`StoreInv`). `Handlers` says what a call in flight and the
  stage of its socket have to do with one another; `Answered`, that an active answer a handler
  is about to act upon was about a session that lives, or is tainted; `Recorded`, that an
  interval on record has a socket with an id. `ServiceIsKept` (`OnlyRivalsDisplace`),
  `MapsAgree` (`RecordsAgree`), `AdmissionIsLive` and `YoungAreSpared` follow.
  `RelayImplementsLifecycle` closes the chain of refinements: the relay with its sockets and
  timers is a session store, and so keeps the promise of `SessionLifecycle`.
- **`DirectoryProofs`**, of `NodeRegistry`: `SilentNodesLeave` (`InTime`) with the real bound
  of each place in terms of the timer. A row on the list has been silent for no longer than
  the limit and the time since the last sweep, or the sweep's UPDATE is under way
  (`ListedInv`, `KnownInv`); a copy on its way to the cache adds a tick, a cached one its age.
  The sums are the 4, 5.5 and 12 minutes of the run when the source's durations are put in.
  `SweepsSpareNodes`: no sweep takes a node heard of within its limit.
- **`DirectoryProofs`**, of `RoutingService`: `AnswersNameOwn` by `OwnInv` (cached answers,
  and those of a request at every await, are of the session that was created for their key),
  `AnswersStayFresh` by `FreshInv` (the age an answer may have, place by place),
  `FloodIsBounded` by `FloodInv`, which counts: the young sessions of a key and the requests
  that have missed its cache are together no more than the requests there may be, since a
  young session keeps its key cached (`Covered`) and so nobody misses. `SelectionIsSound`:
  what `LoadBalancer` picks meets the requirements if an active node does, and is no degraded
  node where an online one offers as much.
- **`DirectoryProofs`**, of both: `ChosenWereHeard` takes the two specifications in
  conjunction, linked by what `getAllActiveNodes` reads, and concludes that a node to which a
  client is sent was heard of within the limit, a period of the sweep and a tick.
  `AnsweredWereHeard` carries this on to the answers given later from the cache of routes: two
  ticks of the directory are one of routing (`Paces`, counted by `halves`; a minute in which
  routing has nothing that ages is counted too, though it changes no variable of
  `RoutingService`, and no other step is taken for one), and `HeardInv` says
  place by place how long ago the node of an answer may have been heard of: when the answer is
  with a request, cached, or found in the cache. With the source's durations it is 23 half
  minutes: so long after a node fell silent, and no longer while the table of nodes answers, a
  client may still be sent to it. No run states
  either, since no instance composes the two.
- **`PacketProofs`**, of `PacketPath`: `PacketsStay` by `PacketInv` (what a handler knows of
  client, node and session belongs together), `TakenInv` (a handler has taken its packet for its
  sender, or is at an address of both or one where the search was mistaken) and `ObjectInv` (so do the fields of every
  object, and a handler has the client of the object it read). `TableIsHeld` by `StandInv` (a
  handler that may put an object back has the one of the last registration, or began before
  it) and `AgeInv` (an entry is older than the timeout by no more than the time since the last
  sweep). `AnswersFindTheClient` by `PlaceInv`: an entry that was not made by mistake is of a
  client that is where its address is. The lemma `Outcomes` sorts all steps of handlers by
  what they do to the table (`Reads`, `PutsBack`, `Takes`), and the three proofs start from
  it. `ObjectsSuffice`: with as many objects for an address as there are addresses and handlers
  together, which the run has, one is free in every state, by counting who may hold one; so the
  model stops no registration and no datagram that the program would handle.

### At the node and the client

- **`ConnectionManagerProofs`**. `IInv` is the type invariant with `OneHeartbeatLoop` and
  `Attended`; it is inductive as it stands. Lemmas say what the timer helpers do to the loops
  and what `scheduleReconnect` can leave behind.
- **`NodeLifecycleProofs`**. `NodesServe` (`RunningServes`), `CleanExits` (`CleanExitUndoes`)
  and `Leftovers` (`LeftoversCounted`). The invariant says how far a script of commands has
  come: `Half` (the commands before position k have had their effect; those after it have not
  added to what unclean ends left) and `HalfUndone`; `PhaseInv`, `ServerInv` and `PortInv` say
  what goes with each phase. `Scripts` is what has to be known of the scripts of Linux and
  Windows; the steps are proved from that alone.
- **`NodeRelayProofs`**. `OneAttemptAtATime` and `NoneIsForgotten` by one invariant: sockets
  other than `ws` are on their way out, at most one of timer, fallback and attempt is pending,
  and a buffer that holds something has its timer set, or open socket and room.
  `RelayTypes` adds what is on its way in either direction (`WireInv`): each message is a
  batch of small packets as flushBatch makes one, or a large packet as it is (`Messages`).
  `BatchIsRead` is about the codec alone, for any number of packets of any length: what
  `Batch` packs, `Unbatched` takes apart. Packing and reading are recursive functions over the
  number of packets; that such a function exists (`Recursion`) and what it computes comes
  from induction in the form of the least element of a set of numbers (`Least`, `UpTo`), which
  needs no induction theorem with an operator for a parameter. The loop invariant of
  handleBatch (`UnbatchedIs`) is that after n rounds it has the first n packets, and its offset
  is where flushBatch has put the next (`PartsStay`). `BatchesReadWhole`
  (`BatchesArriveWhole`) puts the two together, under the hypothesis that no large packet
  begins with a word of 2 to 99, which the headers of WireGuard and of IPv4 do not.
- **`PacketProofs`**, of `TCPConnections`: `OneSocketForAFlow` and `NoneIsCut`. A socket under
  a key was made for it (`UnderKey`), a flow without overlap has one live socket (`One`), and
  the clean-up never finds a connection idle for so long, since the socket's own timeout is
  shorter (`Brisk`, `CleanupTakesNone`).
- **`ClientProofs`**. `IInv` joins the type invariant, `ConnectHasSocket`, `Equipped`,
  `ConnectedMeansOpen`, `Attended` and `OneSocketPerRelay`: that connect() awaits a socket
  that is opening is what makes the step to connected safe, and that a timer never stands
  beside a socket is what keeps the other relays from touching it. Theorems: `TypeCorrect`,
  `ConnectedIsEquipped`, `ConnectedIsOpen`, `RelaysAttended`, `ConnectNotLost`. `IsClient`:
  with the host added, the client is still a `ClientService`, so that all of them carry over
  to `ClientHost`. `TunnelStandsOnHost` proves `OnTheHost` by `HostIInv`: without an interface
  no route leads into it; an interface that was not left half made has the route to its
  endpoint past the tunnel; and what createInterface says is up is there, with a way into it.

### Only model-checked

- All liveness: `LeftSocketsForgotten`, `SessionsEnd`, `NoIntervalLeak`, `TryingEnds`,
  `ShutdownEnds`, `ConnectsAgain`, `CallsSettle`. Fairness and ENABLED are
  out of the prover's reach.
- `HostNat` and `PortForwarding` have no specification of their own: they are proved about as
  parts of `NodeLifecycle`.

## 7. Not modelled

- Control messages of the relays, whose events nobody listens for; `packetToClient`, which
  nobody emits; `/wireguard/unregister`, which does nothing. Contents of packets, beyond what
  the codec of batches looks at.
- Health checks of the node: the check fails only when `natEnabled` is false, which it is in
  a running node at no time, and commands are run with execSync, so that a recovery that
  overlaps the next check cannot happen.
- The table `routes`: written by `requestRoute` and read by nobody in the model;
  `cleanupExpiredRoutes`, `distributeLoad`, `calculateDistance` have no caller. A limit on
  latency is accepted and not looked at.
- NAT on macOS, which is logged only; `setupRouting` of the node and the firewall rules of
  Windows, which have no caller; NAT-PMP, the same calls as UPnP; platforms of the client
  other than Linux.
- DNSHandler (one query, nothing kept), limits and wrappers of `tc`, STUN, metrics, TURN
  credentials, `ApiClient` beyond that a request is answered or fails, parsing of what
  commands print, CLI, logging.

## 8. Plan

Every module planned is written, in this order: session store and its promise; relay; node
directory; node connection; life of the node over the host; client and its host; routing;
packets through the server; relay of the node and its codec; TCP connections.

Theorems left: how old the interval of a socket may be when its id was taken by another
(`RelayServer`); that the packets of a session reach its node only while `RelayServer` has it
admitted, for which the two specifications would be taken in conjunction as those of the
directory are.
