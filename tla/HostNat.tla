-------------------------------- MODULE HostNat --------------------------------
(***************************************************************************)
(* The packet filter of the host as class RoutingEngine (higgsnode/src/    *)
(* engines) uses it on Linux: the chains and rules that enableLinuxNat     *)
(* appends and disableLinuxNat deletes, command after command.  The filter *)
(* is the kernel's: it outlives the process.  On Windows the node asks for *)
(* forwarding and no more.  (On macOS it writes to its log.)               *)
(*                                                                         *)
(* All commands run in execSync, so that nothing of the node runs between  *)
(* two of them; the process may be killed there.  A command that fails has *)
(* done nothing.                                                           *)
(***************************************************************************)
EXTENDS Naturals, Sequences

(* HIGGSNODE_NAT and HIGGSNODE_FORWARD, what they hold, the jumps to them, *)
(* and the IPv6 rules, which have no chain of their own.                   *)
Chains == {"nat", "forward"}
Held == [nat |-> {"masquerade"}, forward |-> {"out", "in"}]
Jump == [nat |-> "jump.nat", forward |-> "jump.forward"]
IPv4 == {"masquerade", "out", "in", "jump.nat", "jump.forward"}
IPv6 == {"masquerade6", "out6", "in6"}
Rules == IPv4 \cup IPv6

VARIABLES
    platform,       \* "linux" or "windows"; never changes
    faulty,         \* whether commands may fail that could succeed; never changes
    forwards,         \* the host has been told to forward packets
    chains,         \* the chains that exist
    rules,          \* rules[r]: how many times rule r is in the filter
    script,         \* commands still to run
    enabled         \* natEnabled

nat == <<forwards, chains, rules, script, enabled>>

NatTypeOK ==
    /\ platform \in {"linux", "windows"}
    /\ faulty \in BOOLEAN /\ forwards \in BOOLEAN
    /\ chains \subseteq Chains
    /\ rules \in [Rules -> Nat]
    /\ enabled \in BOOLEAN

NatInit ==
    /\ forwards = FALSE
    /\ chains = {}
    /\ rules = [r \in Rules |-> 0]
    /\ script = <<>>
    /\ enabled = FALSE

-----------------------------------------------------------------------------
(* A command creates a chain, appends a rule, deletes one occurrence of a  *)
(* rule, flushes a chain or deletes it, or turns forwarding on; "on" and   *)
(* "off" set natEnabled.                                                   *)
Cmd(do, what) == [do |-> do, what |-> what]

LinuxEnable ==
    << Cmd("sysctl", "ip_forward"),
       Cmd("create", "forward"), Cmd("create", "nat"),
       Cmd("append", "masquerade"), Cmd("append", "jump.nat"),
       Cmd("append", "out"), Cmd("append", "in"), Cmd("append", "jump.forward"),
       Cmd("append6", "masquerade6"), Cmd("append6", "out6"), Cmd("append6", "in6"),
       Cmd("on", "nat") >>

(* Mutant: the chain of the nat table is not flushed. *)
LinuxDisableMutant ==
    << Cmd("remove", "jump.forward"), Cmd("remove", "jump.nat"),
       Cmd("flush", "forward"), Cmd("drop", "forward"),
       Cmd("drop", "nat"),
       Cmd("remove", "masquerade6"),
       Cmd("off", "nat") >>

(* Mutant: the jumps are left in the tables. *)
LinuxDisableJumps ==
    << Cmd("flush", "forward"), Cmd("drop", "forward"),
       Cmd("flush", "nat"), Cmd("drop", "nat"),
       Cmd("remove", "masquerade6"),
       Cmd("off", "nat") >>

LinuxDisable ==
    << Cmd("remove", "jump.forward"), Cmd("remove", "jump.nat"),
       Cmd("flush", "forward"), Cmd("drop", "forward"),
       Cmd("flush", "nat"), Cmd("drop", "nat"),
       Cmd("remove", "masquerade6"),
       Cmd("off", "nat") >>

(* The registry by PowerShell, or else netsh. *)
WindowsEnable == << Cmd("registry", "router"), Cmd("netsh", "router"), Cmd("on", "nat") >>

(* No rule was added, so that none is deleted; forwarding stays on. *)
WindowsDisable == << Cmd("off", "nat") >>

EnableScript == IF platform = "windows" THEN WindowsEnable ELSE LinuxEnable

DisableScript == IF platform = "windows" THEN WindowsDisable ELSE LinuxDisable

(* What the filter accepts. *)
Possible(c) ==
    CASE c.do = "create" -> c.what \notin chains
      [] c.do = "append" -> \/ c.what \in {Jump[h] : h \in chains}
                            \/ c.what \in UNION {Held[h] : h \in chains}
      [] c.do = "remove" -> rules[c.what] > 0
      [] c.do = "flush"  -> c.what \in chains
      [] c.do = "drop"   -> /\ c.what \in chains
                            /\ rules[Jump[c.what]] = 0
                            /\ \A r \in Held[c.what] : rules[r] = 0
      [] OTHER           -> TRUE

Effect(c) ==
    /\ forwards' = (forwards \/ c.do \in {"sysctl", "registry", "netsh"})
    /\ chains' = CASE c.do = "create" -> chains \cup {c.what}
                   [] c.do = "drop"   -> chains \ {c.what}
                   [] OTHER           -> chains
    /\ rules' = CASE c.do \in {"append", "append6"} -> [rules EXCEPT ![c.what] = @ + 1]
                  [] c.do = "remove" -> [rules EXCEPT ![c.what] = @ - 1]
                  [] c.do = "flush"  -> [r \in Rules |-> IF r \in Held[c.what] THEN 0
                                                         ELSE rules[r]]
                  [] OTHER           -> rules
    /\ enabled' = CASE c.do = "on" -> TRUE [] c.do = "off" -> FALSE [] OTHER -> enabled

MayFail(c) == c.do \notin {"on", "off"} /\ (faulty \/ ~ Possible(c))

Required(c) == c.do \in {"sysctl", "append", "netsh"}

(* A failed "flush" or "out6" takes along the command that follows it in   *)
(* its try block.                                                          *)
AfterFailure(c) ==
    IF c.do = "flush" \/ c.what = "out6" THEN Tail(Tail(script)) ELSE Tail(script)

Done(c) ==
    /\ Possible(c)
    /\ Effect(c)
    /\ script' = IF c.do = "registry" THEN Tail(Tail(script)) ELSE Tail(script)

Forgiven(c) ==
    /\ ~ Required(c)
    /\ MayFail(c)
    /\ script' = AfterFailure(c)
    /\ UNCHANGED <<forwards, chains, rules, enabled>>

Busy == script # <<>>

(* Packets are translated and forwarded. *)
Forwarding ==
    /\ forwards
    /\ platform = "linux" => \A r \in IPv4 : rules[r] > 0
=============================================================================
