------------------------------ MODULE ClientHost ------------------------------
(***************************************************************************)
(* The client of the VPN on its host: ClientService, with what the class   *)
(* WireGuardManager of higgsvpn-client/src does to the interface and the   *)
(* routes of a Linux host.  Its commands run one after the other and       *)
(* nothing of the process runs in between, so that createInterface and     *)
(* removeInterface are parts of the steps of ClientService that call them. *)
(*                                                                         *)
(* The host outlives the process.  A process that was killed leaves its    *)
(* interface and its routes, set up in part or in full, to the next one;   *)
(* so does a container, for it uses the network of the host.               *)
(*                                                                         *)
(* wg-quick up makes no interface when one of the name is there, takes     *)
(* back what it did when a command of it fails, and routes by rules of its *)
(* own, packets of the tunnel itself excepted.  A route goes when its      *)
(* interface does; a default route that is there bars another of the same  *)
(* metric, and `ip route add default' gives metric zero.                   *)
(*                                                                         *)
(* Left out: a device of the name that is not WireGuard's, or that `wg'    *)
(* cannot show, and allowedIPs other than 0.0.0.0/0, which the server      *)
(* always sends.                                                           *)
(***************************************************************************)
EXTENDS ClientService

CONSTANTS
    Servers,        \* WireGuard endpoints that routes name
    Named,          \* those given by a host name, of which `ip route' makes nothing
    NoServer,
    Hosts           \* kinds of hosts to look at: whether wg-quick can be run, and the
                    \* configuration is outside /etc/wireguard, the metric of the uplink,
                    \* and whether a process was killed half way through createInterface

ASSUME HostConstants ==
    /\ Named \subseteq Servers /\ NoServer \notin Servers
    /\ Hosts \subseteq [quick : BOOLEAN, byPath : BOOLEAN, uplink : {"none", "zero", "high"},
                         half : BOOLEAN]

VARIABLES
    kind,           \* the kind of host; never changes
    device,         \* the endpoint of the interface's peer, NoServer for no interface
    rules,          \* the routing rules of wg-quick are there
    default,        \* the main table has a default route over the interface
    pinned          \* the route to each endpoint: "no", "out" (the uplink) or "in"

host == <<device, rules, default, pinned>>
allVars == <<vars, kind, host>>

HostTypeOK ==
    /\ TypeOK
    /\ kind \in Hosts
    /\ device \in Servers \cup {NoServer}
    /\ rules \in BOOLEAN /\ default \in BOOLEAN
    /\ pinned \in [Servers -> {"no", "out", "in"}]

(* There can be a route past the tunnel to the endpoint: none is made to   *)
(* one that is given by name, and without an uplink it has nowhere to go.  *)
Routable(s) == s \notin Named /\ kind.uplink # "none"

(* The endpoint has its route past the tunnel, where there can be one.     *)
Past(s) == Routable(s) => pinned[s] = "out"

(* No interface, or one that a process has left, half made perhaps. *)
HostInit ==
    /\ Init
    /\ kind \in Hosts
    /\ device \in Servers \cup {NoServer}
    /\ pinned \in [Servers -> IF kind.uplink = "none" THEN {"no"} ELSE {"no", "out"}]
    /\ \A s \in Named : pinned[s] = "no"
    /\ rules \in IF device = NoServer THEN {FALSE} ELSE BOOLEAN
    /\ default \in IF device = NoServer \/ kind.uplink = "zero" THEN {FALSE} ELSE BOOLEAN
    /\ default => Past(device)
    /\ device # NoServer /\ ~ kind.half => Past(device) /\ default = (kind.uplink # "zero")

-----------------------------------------------------------------------------
(* The interface of the first default route that `ip route' shows: the one *)
(* with the least metric.                                                  *)
FirstDefault ==
    IF default THEN "in" ELSE IF kind.uplink = "none" THEN "no" ELSE "out"

(* Mutant: the default route is taken first, and the first one shown is it. *)
PinMutant(s) ==
    pinned' = IF pinned[s] = "no" /\ s \notin Named
              THEN [pinned EXCEPT ![s] = IF kind.uplink = "zero" THEN "out" ELSE "in"]
              ELSE pinned

(* The route to the endpoint, past the tunnel; one that is there stays.    *)
Pin(s) ==
    pinned' = IF pinned[s] = "no" /\ s \notin Named
              THEN [pinned EXCEPT ![s] = FirstDefault] ELSE pinned

(* The default route over the interface is made anew. *)
TakeDefault == default' = (kind.uplink # "zero")

SetupRouting(s) == Pin(s) /\ TakeDefault

(* wg-quick up *)
MadeByQuick(s) ==
    /\ device = NoServer
    /\ kind.quick
    /\ device' = s
    /\ rules' = TRUE
    /\ SetupRouting(s)

(* createInterfaceManually: no rules, and setupRouting alone for a route. *)
MadeByHand(s) ==
    /\ device = NoServer
    /\ device' = s
    /\ rules' = FALSE
    /\ SetupRouting(s)

(* wg-quick says that the interface is there, with the peer it has: it is  *)
(* kept, and its routing set up.                                           *)
Kept(s) ==
    /\ device # NoServer
    /\ kind.quick
    /\ SetupRouting(s)
    /\ UNCHANGED <<device, rules>>

(* createInterfaceManually finds it there, and leaves it as it is. *)
LeftAsIs ==
    /\ device # NoServer
    /\ ~ kind.quick
    /\ UNCHANGED host

(* wg-quick fails, and the setup by hand as well, which deletes the        *)
(* interface; the route to the endpoint may have been added.               *)
NotMade(s) ==
    /\ device = NoServer
    /\ Pin(s) \/ UNCHANGED pinned
    /\ UNCHANGED <<device, rules, default>>

(* removeInterface: wg-quick down.  It is given a name, for which it looks *)
(* in /etc/wireguard, also where the configuration is elsewhere.           *)
Removed ==
    /\ kind.quick /\ ~ kind.byPath
    /\ device' = NoServer
    /\ rules' = FALSE
    /\ default' = FALSE
    /\ pinned' = [s \in Servers |-> IF pinned[s] = "in" THEN "no" ELSE pinned[s]]

-----------------------------------------------------------------------------
(* createInterface, whichever of its ways makes an interface: by hand when  *)
(* wg-quick cannot be run, or fails for any reason but an interface that    *)
(* is there.                                                               *)
WithInterface ==
    /\ RouteWithInterface
    /\ \/ \E s \in Servers : MadeByQuick(s) \/ MadeByHand(s) \/ Kept(s)
       \/ LeftAsIs

(* No wireguardConfig; or no interface can be made of it, for want of keys *)
(* at the least.                                                           *)
WithoutInterface ==
    /\ RouteWithoutInterface
    /\ interface' = interface
    /\ UNCHANGED host \/ (offered' /\ \E s \in Servers : NotMade(s))

DisconnectFromHost ==
    /\ Disconnect
    /\ \/ Removed
       \/ UNCHANGED host
    /\ interface' = (interface /\ device' # NoServer)

Elsewhere ==
    \/ Connect \/ DisconnectIgnored \/ Healthy \/ Refused \/ InterfaceRegistered
    \/ \E r \in Relays : Relaying(r)

HostNext ==
    /\ \/ WithInterface \/ WithoutInterface \/ DisconnectFromHost
       \/ Elsewhere /\ UNCHANGED host
    /\ UNCHANGED kind

HostFairness ==
    /\ WF_allVars((WithInterface \/ WithoutInterface) /\ UNCHANGED kind)
    /\ WF_allVars((Healthy \/ Refused \/ InterfaceRegistered) /\ UNCHANGED <<kind, host>>)
    /\ \A r \in Relays :
          /\ WF_allVars((Opened(r) \/ OpenFails(r)) /\ UNCHANGED <<kind, host>>)
          /\ WF_allVars(Closed(r) /\ UNCHANGED <<kind, host>>)
          /\ WF_allVars(TimerFires(r) /\ UNCHANGED <<kind, host>>)
          /\ SF_allVars(Opened(r) /\ UNCHANGED <<kind, host>>)

HostSpec == HostInit /\ [][HostNext]_allVars /\ HostFairness

-----------------------------------------------------------------------------
(* The packets of the tunnel do not go into the tunnel: while the default  *)
(* route is the interface, an endpoint that can have a route of its own    *)
(* past it has one, whatever was left on the host, however often connect() *)
(* was called over an interface that was there, and whichever endpoint the *)
(* calls were for.  Nothing is said of an endpoint given by name and of a  *)
(* host without an uplink, whose packets do go into the tunnel, nor of an  *)
(* interface that was half made by a process that was killed.              *)
NoLoop == default /\ ~ kind.half => Past(device)

(* A client that is connected with an interface sends its traffic through  *)
(* it, by rules or by the default route, also over an interface that a     *)
(* killed process left without either; except next to an uplink of metric  *)
(* zero, where the setup by hand gives it no way in, and except over one   *)
(* that was half made where wg-quick cannot be run, which is left as it is.*)
TrafficTunnelled ==
    connected /\ interface =>
        /\ device # NoServer
        /\ rules \/ default \/ kind.uplink = "zero" \/ (kind.half /\ ~ kind.quick)

OnTheHost == NoLoop /\ TrafficTunnelled

-----------------------------------------------------------------------------
(* Statements that do not hold. *)

(* The route to the endpoint is made "чтобы избежать loop"                 *)
(* (WireGuardManager.ts:553, to avoid a loop).  An endpoint given by name  *)
(* has none, nor has one on a host without an uplink; and over an interface*)
(* that was half made it is the route to another endpoint than its own.    *)
NeverLoops == default => pinned[device] = "out"

(* "Разрешить весь трафик через VPN" (RoutingService.ts:166, allow all     *)
(* traffic through the VPN): all traffic of a connected client.            *)
AllTrafficTunnelled == connected /\ interface => rules \/ default
=============================================================================
