---------------------------- MODULE NodeLifecycle ----------------------------
(***************************************************************************)
(* How a HiggsNode process comes up and goes down: NodeService.start, the  *)
(* start command, the signal handlers of higgsnode/src/index.ts and the    *)
(* CleanupManager, over the packet filter of HostNat, the port that the    *)
(* router forwards (PortForwarding) and the list of nodes that the server  *)
(* keeps.  Of the clean-up tasks those are modelled that leave traces      *)
(* outside the process: "connection", which takes the node off the         *)
(* server's list, "portForwarding", and "routing", which disables NAT.     *)
(*                                                                         *)
(* A process that ends, in whatever way, may be followed by another, on    *)
(* the packet filter that the first one left.                              *)
(***************************************************************************)
EXTENDS HostNat, PortForwarding, SequencesExt

CONSTANTS
    Hosts,          \* the cases to look at: the platform, and which of commands and
                    \* requests may fail
    MaxRuns         \* bound of the model: processes, one after another

ASSUME LifecycleConstants ==
    /\ Hosts \subseteq [platform : {"linux", "windows"}, faulty : BOOLEAN, deaf : BOOLEAN]
    /\ MaxRuns \in Nat

VARIABLES
    deaf,           \* whether requests to the server and to the router may fail or
                    \* hang; never changes
    phase,          \* where the process is
    tasks,          \* clean-up tasks, as registered
    left,           \* clean-up tasks still to run
    asked,          \* the request to register: "no", "sent", "done"
    telling,        \* the request to unregister, likewise
    listed,         \* the server lists the node
    ended,          \* how the last process ended
    runs,           \* processes so far
    unclean         \* those that ended without disabling NAT

server == <<asked, telling, listed>>
cleanup == <<tasks, left>>
history == <<ended, runs, unclean>>
host == <<platform, faulty, deaf>>
vars == <<host, nat, ports, phase, cleanup, server, history>>

Phases == {"down", "starting", "enabling", "registering", "launching", "mapping",
           "running", "cleaning"}
Ends == {"never", "clean", "early", "forced", "failed", "killed"}
Tasks == <<"routing", "portForwarding", "connection">>
Requests == {"no", "sent", "done"}

TypeOK ==
    /\ NatTypeOK /\ PortsTypeOK
    /\ deaf \in BOOLEAN
    /\ phase \in Phases
    /\ tasks \in {<<>>, Tasks}
    /\ left \in {<<>>, <<"routing">>, <<"portForwarding", "routing">>, Reverse(Tasks)}
    /\ asked \in Requests /\ telling \in Requests
    /\ listed \in BOOLEAN
    /\ ended \in Ends
    /\ runs \in 0 .. MaxRuns
    /\ unclean \in 0 .. runs
    /\ Busy => phase \in {"enabling", "cleaning"}

Init ==
    /\ \E h \in Hosts : platform = h.platform /\ faulty = h.faulty /\ deaf = h.deaf
    /\ NatInit /\ PortsInit
    /\ phase = "down"
    /\ tasks = <<>>
    /\ left = <<>>
    /\ asked = "no"
    /\ telling = "no"
    /\ listed = FALSE
    /\ ended = "never"
    /\ runs = 0
    /\ unclean = 0

-----------------------------------------------------------------------------
(* The process is gone, and its memory with it.  A request on its way may  *)
(* still arrive.                                                           *)
End(how) ==
    /\ phase' = "down"
    /\ ended' = how
    /\ unclean' = IF how = "clean" THEN unclean ELSE unclean + 1
    /\ enabled' = FALSE
    /\ script' = <<>>
    /\ tasks' = <<>>
    /\ left' = <<>>
    /\ PortsForgotten
    /\ UNCHANGED runs

Killed ==
    /\ phase # "down"
    /\ End("killed")
    /\ UNCHANGED <<forwards, chains, rules, server>>

(* A new process begins when nothing of the last one is on its way.        *)
Launch ==
    /\ phase = "down"
    /\ runs < MaxRuns
    /\ asked # "sent" /\ telling # "sent" /\ adding = "no" /\ ~ removing
    /\ phase' = "starting"
    /\ runs' = runs + 1
    /\ asked' = "no"
    /\ telling' = "no"
    /\ UNCHANGED <<nat, ports, cleanup, listed, ended, unclean>>

(* start throws before NAT is enabled (no key, no interface): the start    *)
(* command exits.  stop has done nothing, for the node is not running.     *)
StartFails ==
    /\ phase = "starting"
    /\ End("failed")
    /\ UNCHANGED <<forwards, chains, rules, server>>

EnableNat ==
    /\ phase = "starting"
    /\ phase' = "enabling"
    /\ script' = EnableScript
    /\ UNCHANGED <<forwards, chains, rules, enabled, ports, cleanup, server, history>>

(* Mutant: a rule that cannot be appended is forgiven. *)
RunCommandMutant ==
    /\ Busy
    /\ \/ Done(Head(script))
       \/ /\ MayFail(Head(script))
          /\ script' = AfterFailure(Head(script))
          /\ UNCHANGED <<forwards, chains, rules, enabled>>
    /\ UNCHANGED <<ports, phase, cleanup, server, history>>

RunCommand ==
    /\ Busy
    /\ Done(Head(script)) \/ Forgiven(Head(script))
    /\ UNCHANGED <<ports, phase, cleanup, server, history>>

EnableFails ==
    /\ Busy
    /\ Required(Head(script)) /\ MayFail(Head(script))
    /\ End("failed")
    /\ UNCHANGED <<forwards, chains, rules, server>>

(* NAT detection is over, and the node asks to be registered. *)
Register ==
    /\ phase = "enabling" /\ ~ Busy
    /\ phase' = "registering"
    /\ asked' = "sent"
    /\ UNCHANGED <<nat, ports, cleanup, telling, listed, history>>

Registered ==
    /\ phase = "registering"
    /\ asked = "done"
    /\ phase' = "launching"
    /\ UNCHANGED <<nat, ports, cleanup, server, history>>

RegisterFails ==
    /\ deaf
    /\ phase = "registering"
    /\ End("failed")
    /\ UNCHANGED <<forwards, chains, rules, server>>

(* The packet forwarder is started, then the router is asked.              *)
AskRouter ==
    /\ phase = "launching"
    /\ phase' = "mapping"
    /\ Initialize
    /\ UNCHANGED <<nat, cleanup, server, history>>

(* The router has answered, if there is one; DNS and the rest; then the    *)
(* clean-up tasks are registered.                                          *)
Launched ==
    /\ phase = "mapping"
    /\ adding = "no"
    /\ phase' = "running"
    /\ tasks' = Tasks
    /\ UNCHANGED <<nat, ports, left, server, history>>

(* The packet forwarder throws. *)
LaunchFails ==
    /\ phase = "launching"
    /\ End("failed")
    /\ UNCHANGED <<forwards, chains, rules, server>>

-----------------------------------------------------------------------------
(* The callbacks and the timer of PortForwarding, while the process lives. *)
Forwarded ==
    /\ phase # "down" /\ ~ Busy
    /\ Added \/ (deaf /\ AddFails) \/ RefreshFires
    /\ UNCHANGED <<nat, phase, cleanup, server, history>>

(* The router, and the network: what nobody waits for any more may be lost *)
(* with the process.                                                       *)
Router ==
    /\ \/ RouterAdds \/ RouterRemoves \/ Lapse(deaf)
       \/ phase = "down" /\ AddFails
       \/ phase = "down" /\ removing /\ removing' = FALSE
          /\ UNCHANGED <<holding, refresh, adding, mapped>>
    /\ UNCHANGED <<nat, phase, cleanup, server, history>>

-----------------------------------------------------------------------------
(* The server's part.  A request may be lost, and the answer to it.  The   *)
(* clean-up task of the server drops a node that has gone silent.          *)
ServerRegisters ==
    /\ asked = "sent"
    /\ asked' = "done"
    /\ listed' = TRUE
    /\ UNCHANGED <<nat, ports, phase, cleanup, telling, history>>

RegisterLost ==
    /\ deaf
    /\ asked = "sent"
    /\ phase = "down"
    /\ asked' = "no"
    /\ UNCHANGED <<nat, ports, phase, cleanup, telling, listed, history>>

ServerUnregisters ==
    /\ telling = "sent"
    /\ telling' = "done"
    /\ listed' = FALSE
    /\ UNCHANGED <<nat, ports, phase, cleanup, asked, history>>

UnregisterLost ==
    /\ deaf
    /\ telling = "sent"
    /\ phase = "down"
    /\ telling' = "no"
    /\ UNCHANGED <<nat, ports, phase, cleanup, asked, listed, history>>

ServerForgets ==
    /\ phase = "down"
    /\ listed
    /\ listed' = FALSE
    /\ UNCHANGED <<nat, ports, phase, cleanup, asked, telling, history>>

-----------------------------------------------------------------------------
(* A signal.  Before start is through, no clean-up task is registered, and *)
(* the process exits at once.                                              *)
Signal ==
    /\ phase \in {"starting", "enabling", "registering", "launching", "mapping", "running"}
    /\ ~ Busy
    /\ IF tasks = <<>>
       THEN End("early") /\ UNCHANGED <<forwards, chains, rules>>
       ELSE /\ phase' = "cleaning"
            /\ left' = Reverse(tasks)
            /\ UNCHANGED <<nat, ports, tasks, history>>
    /\ UNCHANGED server

Due(task) == phase = "cleaning" /\ ~ Busy /\ left # <<>> /\ Head(left) = task

Unregister ==
    /\ Due("connection")
    /\ telling = "no"
    /\ telling' = "sent"
    /\ UNCHANGED <<nat, ports, phase, cleanup, asked, listed, history>>

(* unregister is answered, or fails and nobody minds. *)
Unregistered ==
    /\ Due("connection")
    /\ telling = "done" \/ (deaf /\ telling = "sent")
    /\ left' = Tail(left)
    /\ UNCHANGED <<nat, ports, phase, tasks, server, history>>

RemoveMapping ==
    /\ Due("portForwarding")
    /\ RemovePort
    /\ left' = Tail(left)
    /\ UNCHANGED <<nat, phase, tasks, server, history>>

DisableNat ==
    /\ Due("routing")
    /\ script' = IF enabled THEN DisableScript ELSE <<>>
    /\ left' = Tail(left)
    /\ UNCHANGED <<forwards, chains, rules, enabled, ports, phase, tasks, server, history>>

Exit ==
    /\ phase = "cleaning" /\ ~ Busy
    /\ left = <<>>
    /\ End("clean")
    /\ UNCHANGED <<forwards, chains, rules, server>>

(* Mutant: the process waits for the clean-up as long as it takes. *)
ForceExitMutant ==
    /\ Due("connection")
    /\ telling = "done"
    /\ End("forced")
    /\ UNCHANGED <<forwards, chains, rules, server>>

(* Ten seconds are over, and the process exits as it is; a request to the  *)
(* server takes up to thirty.  No timer fires amid the commands of NAT.    *)
ForceExit ==
    /\ Due("connection")
    /\ telling # "no"
    /\ End("forced")
    /\ UNCHANGED <<forwards, chains, rules, server>>

-----------------------------------------------------------------------------
Start ==
    \/ Launch \/ StartFails \/ EnableNat \/ EnableFails \/ Register \/ Registered
    \/ RegisterFails \/ AskRouter \/ Launched \/ LaunchFails

CleanUp == Unregister \/ Unregistered \/ RemoveMapping \/ DisableNat \/ Exit

Server ==
    \/ ServerRegisters \/ RegisterLost \/ ServerUnregisters \/ UnregisterLost
    \/ ServerForgets

Next ==
    /\ \/ Start \/ RunCommand \/ Signal \/ CleanUp \/ ForceExit \/ Killed
       \/ Forwarded \/ Router \/ Server
    /\ UNCHANGED host

Spec == Init /\ [][Next]_vars

(* The process runs on, and the ten-second timer fires.  Nothing is asked  *)
(* of the server or of the timeout of the request.                         *)
Fairness ==
    /\ WF_vars(RunCommand /\ UNCHANGED host)
    /\ WF_vars(ForceExit /\ UNCHANGED host)
    /\ WF_vars((Unregister \/ RemoveMapping \/ DisableNat \/ Exit) /\ UNCHANGED host)

FairSpec == Spec /\ Fairness

-----------------------------------------------------------------------------
(* A node that is up forwards packets, whatever earlier processes left in  *)
(* the packet filter and whichever commands failed.                        *)
RunningForwards == phase = "running" => Forwarding

(* A node that is up and believes that its port is forwarded, has it       *)
(* forwarded by a router that answers: the mapping does not lapse while    *)
(* refreshes come and go.                                                  *)
Reachable == phase = "running" /\ ~ deaf /\ holding => mapped

RunningServes == RunningForwards /\ Reachable

(* A clean exit on Linux leaves none of the IPv4 rules that translate or   *)
(* accept packets (MASQUERADE and the two ACCEPT) in the filter, also when *)
(* earlier processes were killed: they stand in chains of the node's own,  *)
(* which disableNat flushes.  (Commands that could succeed do.)  And the   *)
(* node is off the list of a server that can be reached.  Nothing is said  *)
(* of the jumps, which LeftoversCounted counts, nor of the IPv6 rules, of  *)
(* which the two of FORWARD are never deleted (RoutingEngine.ts:561-568),  *)
(* nor of ip_forward and the forwarding of Windows, which stay on.         *)
CleanExitUndoes ==
    phase = "down" /\ ended = "clean" =>
        /\ ~ faulty => rules["masquerade"] = 0 /\ rules["out"] = 0 /\ rules["in"] = 0
        /\ ~ deaf => ~ listed

(* Processes leave at most one copy of an IPv4 rule behind for each of     *)
(* them that did not exit cleanly.                                         *)
LeftoversCounted ==
    ~ faulty /\ phase = "down" => \A r \in IPv4 : rules[r] =< unclean

(* A shutdown ends, also when the server does not answer any more. *)
ShutdownEnds == phase = "cleaning" ~> phase = "down"

-----------------------------------------------------------------------------
(* Statements of the documentation that do not hold. *)

(* "Graceful shutdown - очистка всех правил при остановке" (README.md:610):*)
(* a clean exit after clean exits leaves nothing in the packet filter.     *)
CleanExitClearsAll ==
    ~ faulty /\ phase = "down" /\ ended = "clean" /\ unclean = 0 => \A r \in Rules : rules[r] = 0

(* "Signal handlers - обработка SIGTERM, SIGINT для очистки"               *)
(* (README.md:611): after a signal no IPv4 rule is left.                   *)
SignalClears ==
    ~ faulty /\ phase = "down" /\ ended \in {"clean", "early", "forced"} /\ runs = 1 =>
        \A r \in IPv4 : rules[r] = 0

(* "Очистить все таймеры" (PortForwardingService.ts:261, clear all timers): *)
(* once the clean-up task has run, nothing refreshes the mapping.  The     *)
(* answer to a refresh that was on its way sets the timer again.           *)
TimersCleared ==
    phase = "cleaning" /\ left \in {<<>>, <<"routing">>} => ~ refresh
=============================================================================
