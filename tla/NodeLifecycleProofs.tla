------------------------- MODULE NodeLifecycleProofs -------------------------
(***************************************************************************)
(* Proofs about NodeLifecycle, for any number of processes one after       *)
(* another, on both platforms, with and without failing commands.          *)
(*                                                                         *)
(* The argument follows the script that is being run: what the commands    *)
(* before the next one have done, and what those to come will find.        *)
(***************************************************************************)
EXTENDS NodeLifecycle, SequenceTheorems, TLAPS

-----------------------------------------------------------------------------
(* Scripts. *)

(* What is left of a script from its k-th command on. *)
Rest(full, k) == SubSeq(full, k, Len(full))

LEMMA RestOf ==
  ASSUME NEW S, NEW full \in Seq(S), NEW k \in 1 .. Len(full)
  PROVE  /\ Rest(full, k) # <<>>
         /\ Head(Rest(full, k)) = full[k]
         /\ Tail(Rest(full, k)) = Rest(full, k + 1)
<1>1. Rest(full, k) \in Seq(S) /\ Len(Rest(full, k)) = Len(full) - k + 1
  BY SubSeqProperties DEF Rest
<1>2. Rest(full, k) # <<>>
  BY <1>1
<1> QED  BY <1>2, HeadTailOfSubSeq DEF Rest

LEMMA RestEnds ==
  ASSUME NEW S, NEW full \in Seq(S)
  PROVE  Rest(full, 1) = full /\ Rest(full, Len(full) + 1) = <<>>
  BY SubSeqFull, SubSeqEmpty DEF Rest

Enabling == {"sysctl", "create", "append", "append6", "on", "registry", "netsh"}
Disabling == {"remove", "flush", "drop", "off"}

(* A command has done its part, once and for all while NAT is enabled. *)
Did(c) ==
    /\ c.do \in {"sysctl", "netsh"} => forwards
    /\ c.do = "append" => rules[c.what] > 0
    /\ c.do = "create" /\ ~ faulty => c.what \in chains
    /\ c.do = "on" => enabled

(* NAT is enabled, with all that there is to it. *)
Up ==
    /\ Forwarding
    /\ enabled
    /\ platform = "linux" /\ ~ faulty => Chains \subseteq chains

(* The same of a command that disables NAT, when no command fails that     *)
(* could succeed; and what such a command has to find.                     *)
Undid(c) ==
    /\ c.do = "remove" /\ c.what \in IPv4 => rules[c.what] =< unclean
    /\ c.do = "flush" => \A r \in Held[c.what] : rules[r] = 0

Ready(c) == c.do = "flush" => c.what \in chains

(* What matters of the commands of a script that enables NAT ... *)
Enables(full) ==
    /\ \E S : full \in Seq(S)
    /\ \A i \in 1 .. Len(full) :
          /\ full[i].do \in Enabling
          /\ full[i].do = "create" => full[i].what \in Chains
          /\ full[i].do = "append" => full[i].what \in IPv4
          /\ full[i].do = "append6" => full[i].what \in IPv6
          /\ full[i].do \in {"append", "append6"} => platform = "linux"
          /\ full[i].what = "out6" => full[i].do = "append6"
          /\ full[i].do = "registry" => i < Len(full) /\ full[i + 1].do = "netsh"
          /\ full[i].what = "out6" => i < Len(full) /\ full[i + 1].do = "append6"
    /\ \A i, j \in 1 .. Len(full) :
          full[i].do = "append" /\ full[j].do = "append" /\ full[i].what = full[j].what => i = j
    /\ (\A i \in 1 .. Len(full) : Did(full[i])) => Up

(* ... and of one that disables it. *)
Disables(full) ==
    /\ \E S : full \in Seq(S)
    /\ \A i \in 1 .. Len(full) :
          /\ full[i].do \in Disabling
          /\ full[i].do = "remove" => full[i].what \in Rules
          /\ full[i].do \in {"flush", "drop"} => full[i].what \in Chains
          /\ full[i].do \in {"remove", "flush", "drop"} => platform = "linux"
          /\ full[i].what # "out6"
          /\ full[i].do = "flush" => i < Len(full)
    /\ \A i, j \in 1 .. Len(full) :
          full[i].do = "drop" /\ full[j].do = "flush" /\ full[i].what = full[j].what => j < i
    /\ platform = "linux" /\ (\A i \in 1 .. Len(full) : Undid(full[i])) =>
          /\ \A r \in {"jump.nat", "jump.forward"} : rules[r] =< unclean
          /\ \A r \in {"masquerade", "out", "in"} : rules[r] = 0

LEMMA LinuxEnables == platform = "linux" => Enables(LinuxEnable)
<1> SUFFICES ASSUME platform = "linux"
             PROVE  Enables(LinuxEnable)
  OBVIOUS
<1>1. LinuxEnable \in Seq({LinuxEnable[i] : i \in 1 .. 12}) /\ Len(LinuxEnable) = 12
  BY DEF LinuxEnable
<1>2. /\ LinuxEnable[1] = Cmd("sysctl", "ip_forward")
      /\ LinuxEnable[2] = Cmd("create", "forward") /\ LinuxEnable[3] = Cmd("create", "nat")
      /\ LinuxEnable[4] = Cmd("append", "masquerade") /\ LinuxEnable[5] = Cmd("append", "jump.nat")
      /\ LinuxEnable[6] = Cmd("append", "out") /\ LinuxEnable[7] = Cmd("append", "in")
      /\ LinuxEnable[8] = Cmd("append", "jump.forward")
      /\ LinuxEnable[9] = Cmd("append6", "masquerade6") /\ LinuxEnable[10] = Cmd("append6", "out6")
      /\ LinuxEnable[11] = Cmd("append6", "in6") /\ LinuxEnable[12] = Cmd("on", "nat")
  BY DEF LinuxEnable
<1> HIDE DEF LinuxEnable
<1>3. \A i \in 1 .. 12 :
          /\ LinuxEnable[i].do \in Enabling
          /\ LinuxEnable[i].do = "create" => LinuxEnable[i].what \in Chains
          /\ LinuxEnable[i].do = "append" => LinuxEnable[i].what \in IPv4
          /\ LinuxEnable[i].do = "append6" => LinuxEnable[i].what \in IPv6
          /\ LinuxEnable[i].what = "out6" => LinuxEnable[i].do = "append6"
          /\ LinuxEnable[i].do # "registry"
          /\ LinuxEnable[i].what = "out6" => i < 12 /\ LinuxEnable[i + 1].do = "append6"
  BY <1>2 DEF Cmd, Enabling, Chains, IPv4, IPv6
<1>4. \A i, j \in 1 .. 12 :
          LinuxEnable[i].do = "append" /\ LinuxEnable[j].do = "append"
             /\ LinuxEnable[i].what = LinuxEnable[j].what => i = j
  BY <1>2 DEF Cmd
<1>5. (\A i \in 1 .. 12 : Did(LinuxEnable[i])) => Up
  BY <1>2 DEF Cmd, Did, Up, Forwarding, Chains, IPv4
<1> QED  BY <1>1, <1>3, <1>4, <1>5 DEF Enables

LEMMA WindowsEnables == platform = "windows" => Enables(WindowsEnable)
<1> SUFFICES ASSUME platform = "windows"
             PROVE  Enables(WindowsEnable)
  OBVIOUS
<1>1. WindowsEnable \in Seq({WindowsEnable[i] : i \in 1 .. 3}) /\ Len(WindowsEnable) = 3
  BY DEF WindowsEnable
<1>2. /\ WindowsEnable[1] = Cmd("registry", "router") /\ WindowsEnable[2] = Cmd("netsh", "router")
      /\ WindowsEnable[3] = Cmd("on", "nat")
  BY DEF WindowsEnable
<1> HIDE DEF WindowsEnable
<1> QED  BY <1>1, <1>2 DEF Enables, Cmd, Did, Up, Forwarding, Enabling

LEMMA LinuxDisables == platform = "linux" => Disables(LinuxDisable)
<1> SUFFICES ASSUME platform = "linux"
             PROVE  Disables(LinuxDisable)
  OBVIOUS
<1>1. LinuxDisable \in Seq({LinuxDisable[i] : i \in 1 .. 8}) /\ Len(LinuxDisable) = 8
  BY DEF LinuxDisable
<1>2. /\ LinuxDisable[1] = Cmd("remove", "jump.forward")
      /\ LinuxDisable[2] = Cmd("remove", "jump.nat")
      /\ LinuxDisable[3] = Cmd("flush", "forward") /\ LinuxDisable[4] = Cmd("drop", "forward")
      /\ LinuxDisable[5] = Cmd("flush", "nat") /\ LinuxDisable[6] = Cmd("drop", "nat")
      /\ LinuxDisable[7] = Cmd("remove", "masquerade6") /\ LinuxDisable[8] = Cmd("off", "nat")
  BY DEF LinuxDisable
<1> HIDE DEF LinuxDisable
<1>3. \A i \in 1 .. 8 :
          /\ LinuxDisable[i].do \in Disabling
          /\ LinuxDisable[i].do = "remove" => LinuxDisable[i].what \in Rules
          /\ LinuxDisable[i].do \in {"flush", "drop"} => LinuxDisable[i].what \in Chains
          /\ LinuxDisable[i].what # "out6"
          /\ LinuxDisable[i].do = "flush" => i < 8
  BY <1>2 DEF Cmd, Disabling, Chains, Rules, IPv4, IPv6
<1>4. \A i, j \in 1 .. 8 :
          LinuxDisable[i].do = "drop" /\ LinuxDisable[j].do = "flush"
             /\ LinuxDisable[i].what = LinuxDisable[j].what => j < i
  BY <1>2 DEF Cmd
<1>5. (\A i \in 1 .. 8 : Undid(LinuxDisable[i])) =>
          /\ \A r \in {"jump.nat", "jump.forward"} : rules[r] =< unclean
          /\ \A r \in {"masquerade", "out", "in"} : rules[r] = 0
  BY <1>2 DEF Cmd, Undid, Held, IPv4
<1> QED  BY <1>1, <1>3, <1>4, <1>5 DEF Disables

LEMMA WindowsDisables == platform = "windows" => Disables(WindowsDisable)
<1> SUFFICES ASSUME platform = "windows"
             PROVE  Disables(WindowsDisable)
  OBVIOUS
<1>1. WindowsDisable \in Seq({WindowsDisable[i] : i \in 1 .. 1}) /\ Len(WindowsDisable) = 1
  BY DEF WindowsDisable
<1>2. WindowsDisable[1] = Cmd("off", "nat")
  BY DEF WindowsDisable
<1> HIDE DEF WindowsDisable
<1> QED  BY <1>1, <1>2 DEF Disables, Cmd, Disabling

(* The scripts of both platforms. *)
LEMMA Scripts ==
  ASSUME NatTypeOK
  PROVE  Enables(EnableScript) /\ Disables(DisableScript)
  BY LinuxEnables, WindowsEnables, LinuxDisables, WindowsDisables
     DEF NatTypeOK, EnableScript, DisableScript

-----------------------------------------------------------------------------
(* The invariant. *)

Booting == {"starting", "enabling", "registering", "launching"}
Alive == Booting \cup {"mapping", "running"}

(* Disabling NAT is the last of the clean-up tasks. *)
Ending == phase = "cleaning" /\ left = <<>>

(* Where the process is, and what goes with it. *)
PhaseInv ==
    /\ tasks = <<>> <=> phase \notin {"running", "cleaning"}
    /\ phase # "cleaning" => left = <<>>
    /\ phase # "enabling" /\ ~ Ending => script = <<>>
    /\ phase # "down" => unclean < runs

(* The packet filter, and how far the script at hand has come. *)
Half(k) ==
    /\ script = Rest(EnableScript, k)
    /\ \A j \in 1 .. k - 1 : Did(EnableScript[j])
    /\ ~ faulty => \A j \in k .. Len(EnableScript) :
          EnableScript[j].do = "append" => rules[EnableScript[j].what] =< unclean

HalfUndone(k) ==
    /\ script = Rest(DisableScript, k)
    /\ ~ faulty =>
          /\ \A j \in 1 .. k - 1 : Undid(DisableScript[j])
          /\ \A j \in k .. Len(DisableScript) : Ready(DisableScript[j])

FilterInv ==
    /\ platform = "windows" => \A r \in Rules : rules[r] = 0
    /\ phase = "enabling" => \E k \in 1 .. Len(EnableScript) + 1 : Half(k)
    /\ phase \in {"registering", "launching", "mapping", "running", "cleaning"} /\ ~ Ending => Up
    /\ Ending => \E k \in 1 .. Len(DisableScript) + 1 : HalfUndone(k)
    /\ ~ faulty => \A r \in IPv4 :
          rules[r] =< IF phase \in {"down", "starting"} THEN unclean ELSE unclean + 1
    /\ ~ faulty /\ phase = "down" /\ ended = "clean" =>
          rules["masquerade"] = 0 /\ rules["out"] = 0 /\ rules["in"] = 0

(* The requests of the node to the server, and its list. *)
ServerInv ==
    /\ phase \in {"launching", "mapping", "running", "cleaning"} => asked = "done"
    /\ telling # "no" => asked = "done" /\ phase \in {"cleaning", "down"}
    /\ telling = "done" => ~ listed
    /\ ~ deaf /\ phase = "cleaning" /\ (left = <<>> \/ Head(left) # "connection") => telling = "done"
    /\ ~ deaf /\ phase = "down" /\ ended = "clean" => ~ listed /\ asked = "done"

(* The mapping of the port, until it is removed. *)
PortInv ==
    /\ phase \in Booting \cup {"down"} => ~ holding /\ ~ refresh
    /\ phase \in Booting => adding = "no"
    /\ phase \in Alive => ~ removing
    /\ phase \in Alive /\ ~ deaf => (adding = "done" => mapped)
    /\ phase \in Alive /\ ~ deaf /\ holding => mapped /\ (refresh \/ adding # "no")

IInv == TypeOK /\ PhaseInv /\ FilterInv /\ ServerInv /\ PortInv

-----------------------------------------------------------------------------
(* Commands. *)

(* What one command does, which the filter has executed or the node has    *)
(* forgiven, of those that enable NAT.                                     *)
LEMMA CommandEnables ==
  ASSUME NatTypeOK, UNCHANGED host, NEW c, c.do \in Enabling,
         c.do = "create" => c.what \in Chains,
         c.do = "append" => c.what \in IPv4,
         c.do = "append6" => c.what \in IPv6,
         Done(c) \/ Forgiven(c)
  PROVE  /\ NatTypeOK' /\ Did(c)'
         /\ forwards => forwards'
         /\ chains \subseteq chains'
         /\ enabled => enabled'
         /\ \A r \in Rules : \/ rules'[r] = rules[r]
                             \/ /\ rules'[r] = rules[r] + 1
                                /\ c.do \in {"append", "append6"} /\ c.what = r
         /\ \/ script' = Tail(script)
            \/ /\ script' = Tail(Tail(script))
               /\ (c.do = "registry" /\ forwards') \/ c.what = "out6"
<1> USE DEF NatTypeOK, Enabling, host, Did, Rules
<1>1. CASE Forgiven(c)
  <2>1. UNCHANGED <<forwards, chains, rules, enabled>>
    BY <1>1 DEF Forgiven
  <2>2. c.do = "create" /\ ~ faulty => c.what \in chains
    BY <1>1 DEF Forgiven, MayFail, Possible
  <2>3. c.do \notin {"sysctl", "netsh", "append", "on"}
    BY <1>1 DEF Forgiven, MayFail, Required
  <2>4. \/ script' = Tail(script)
        \/ script' = Tail(Tail(script)) /\ c.what = "out6"
    BY <1>1 DEF Forgiven, AfterFailure
  <2> QED  BY <2>1, <2>2, <2>3, <2>4
<1>2. CASE Done(c)
  <2>1. /\ forwards' = (forwards \/ c.do \in {"sysctl", "registry", "netsh"})
        /\ chains' = IF c.do = "create" THEN chains \cup {c.what} ELSE chains
        /\ rules' = IF c.do \in {"append", "append6"} THEN [rules EXCEPT ![c.what] = @ + 1]
                    ELSE rules
        /\ enabled' = IF c.do = "on" THEN TRUE ELSE enabled
    BY <1>2 DEF Done, Effect
  <2>2. \/ script' = Tail(script)
        \/ script' = Tail(Tail(script)) /\ c.do = "registry"
    BY <1>2 DEF Done
  <2>3. /\ rules' \in [Rules -> Nat]
        /\ c.do = "append" => rules'[c.what] > 0
        /\ \A r \in Rules : \/ rules'[r] = rules[r]
                            \/ /\ rules'[r] = rules[r] + 1
                               /\ c.do \in {"append", "append6"} /\ c.what = r
    BY <2>1
  <2>4. forwards' \in BOOLEAN /\ chains' \subseteq Chains /\ enabled' \in BOOLEAN
    BY <2>1
  <2> QED  BY <2>1, <2>2, <2>3, <2>4
<1> QED  BY <1>1, <1>2

(* And of those that disable it. *)
LEMMA CommandDisables ==
  ASSUME NatTypeOK, UNCHANGED <<host, unclean>>, unclean \in Nat, NEW c, c.do \in Disabling,
         c.do = "remove" => c.what \in Rules,
         c.do \in {"flush", "drop"} => c.what \in Chains,
         c.what # "out6",
         Done(c) \/ Forgiven(c)
  PROVE  /\ NatTypeOK'
         /\ \A r \in Rules : rules'[r] =< rules[r]
         /\ \A h \in chains : h \notin chains' => c.do = "drop" /\ h = c.what
         /\ ~ faulty /\ Ready(c) /\ (\A r \in IPv4 : rules[r] =< unclean + 1) => Undid(c)'
         /\ \/ script' = Tail(script)
            \/ script' = Tail(Tail(script)) /\ c.do = "flush" /\ (Ready(c) => faulty)
<1> USE DEF NatTypeOK, Disabling, host, Undid, Ready, Rules
<1>1. CASE Forgiven(c)
  <2>1. UNCHANGED <<forwards, chains, rules, enabled>>
    BY <1>1 DEF Forgiven
  <2>2. /\ ~ faulty /\ c.do = "remove" => rules[c.what] = 0
        /\ ~ faulty /\ c.do = "flush" => c.what \notin chains
    BY <1>1 DEF Forgiven, MayFail, Possible
  <2>3. \/ script' = Tail(script)
        \/ script' = Tail(Tail(script)) /\ c.do = "flush"
    BY <1>1 DEF Forgiven, AfterFailure
  <2>4. NatTypeOK' /\ \A r \in Rules : rules'[r] =< rules[r]
    BY <2>1
  <2>5. ~ faulty /\ Ready(c) => Undid(c)'
    BY <2>1, <2>2 DEF IPv4
  <2>6. c.do = "flush" /\ Ready(c) => faulty
    BY <2>2
  <2> QED  BY <2>1, <2>3, <2>4, <2>5, <2>6
<1>2. CASE Done(c)
  <2>1. /\ forwards' = forwards
        /\ chains' = IF c.do = "drop" THEN chains \ {c.what} ELSE chains
        /\ rules' = CASE c.do = "remove" -> [rules EXCEPT ![c.what] = @ - 1]
                      [] c.do = "flush" -> [r \in Rules |-> IF r \in Held[c.what] THEN 0
                                                            ELSE rules[r]]
                      [] OTHER -> rules
        /\ enabled' = IF c.do = "off" THEN FALSE ELSE enabled
        /\ script' = Tail(script)
    BY <1>2 DEF Done, Effect
  <2>2. c.do = "remove" => rules[c.what] > 0
    BY <1>2 DEF Done, Possible
  <2>3. c.do = "flush" => Held[c.what] \subseteq Rules
    BY DEF Held, Chains, IPv4
  <2>4. rules' \in [Rules -> Nat] /\ \A r \in Rules : rules'[r] =< rules[r]
    <3>1. CASE c.do = "remove"
      BY <2>1, <2>2, <3>1
    <3>2. CASE c.do = "flush"
      BY <2>1, <3>2
    <3>3. CASE c.do \in {"drop", "off"}
      BY <2>1, <3>3
    <3> QED  BY <3>1, <3>2, <3>3
  <2>5. NatTypeOK'
    BY <2>1, <2>4
  <2>6. (\A r \in IPv4 : rules[r] =< unclean + 1) => Undid(c)'
    <3>1. CASE c.do = "remove"
      BY <2>1, <2>2, <3>1
    <3>2. CASE c.do = "flush"
      BY <2>1, <2>3, <3>2
    <3>3. CASE c.do \in {"drop", "off"}
      BY <3>3
    <3> QED  BY <3>1, <3>2, <3>3
  <2> QED  BY <2>1, <2>4, <2>5, <2>6
<1> QED  BY <1>1, <1>2

-----------------------------------------------------------------------------
(* Steps. *)

LEMMA ReversedTasks ==
  /\ Reverse(Tasks) = <<"connection", "portForwarding", "routing">>
  /\ Len(Tasks) = 3 /\ Tasks # <<>>
  BY DEF Reverse, Tasks

(* A command of the script that enables NAT. *)
LEMMA RunEnables ==
  ASSUME NatTypeOK, unclean \in Nat, UNCHANGED <<host, unclean>>, RunCommand,
         NEW k \in 1 .. Len(EnableScript) + 1, Half(k)
  PROVE  /\ NatTypeOK'
         /\ \E m \in 1 .. Len(EnableScript) + 1 : Half(m)'
         /\ platform = "windows" => \A r \in Rules : rules'[r] = rules[r]
         /\ ~ faulty /\ (\A r \in IPv4 : rules[r] =< unclean + 1)
              => \A r \in IPv4 : rules'[r] =< unclean + 1
<1> DEFINE n == Len(EnableScript)
<1>1. Enables(EnableScript)
  BY Scripts
<1>2. PICK S : EnableScript \in Seq(S)
  BY <1>1 DEF Enables
<1>3. n \in Nat /\ EnableScript' = EnableScript
  BY <1>2, LenProperties DEF host, EnableScript
<1>4. script # <<>>
  BY DEF RunCommand, Busy
<1>5. k \in 1 .. n
  BY <1>2, <1>3, <1>4, RestEnds DEF Half
<1>6. PICK c : c = EnableScript[k]
  OBVIOUS
<1>7. Head(script) = c /\ Tail(script) = Rest(EnableScript, k + 1)
  BY <1>2, <1>5, <1>6, RestOf DEF Half
<1>8. Done(c) \/ Forgiven(c)
  BY <1>7 DEF RunCommand
<1>9. /\ c.do \in Enabling
      /\ c.do = "create" => c.what \in Chains
      /\ c.do = "append" => c.what \in IPv4
      /\ c.do = "append6" => c.what \in IPv6
      /\ c.do \in {"append", "append6"} => platform = "linux"
      /\ c.do = "registry" => k < n /\ EnableScript[k + 1].do = "netsh"
      /\ c.what = "out6" => k < n /\ EnableScript[k + 1].do = "append6" /\ c.do = "append6"
  BY <1>1, <1>5, <1>6 DEF Enables
<1>10. /\ NatTypeOK' /\ Did(c)'
       /\ forwards => forwards'
       /\ chains \subseteq chains'
       /\ enabled => enabled'
       /\ \A r \in Rules : \/ rules'[r] = rules[r]
                           \/ /\ rules'[r] = rules[r] + 1
                              /\ c.do \in {"append", "append6"} /\ c.what = r
       /\ \/ script' = Tail(script)
          \/ /\ script' = Tail(Tail(script))
             /\ (c.do = "registry" /\ forwards') \/ c.what = "out6"
  BY <1>8, <1>9, CommandEnables
<1>11. \A j \in 1 .. k : Did(EnableScript[j])'
  <2> SUFFICES ASSUME NEW j \in 1 .. k
               PROVE  Did(EnableScript[j])'
    OBVIOUS
  <2>1. CASE j = k
    BY <1>3, <1>6, <1>10, <2>1 DEF Did
  <2>2. CASE j # k
    <3>1. Did(EnableScript[j])
      BY <1>5, <2>2 DEF Half
    <3>2. EnableScript[j].do = "append" => EnableScript[j].what \in Rules
      BY <1>1, <1>5 DEF Enables, Rules
    <3> QED  BY <1>3, <1>10, <3>1, <3>2 DEF Did, NatTypeOK, host
  <2> QED  BY <2>1, <2>2
<1>12. ~ faulty => \A j \in k + 1 .. n :
          EnableScript[j].do = "append" => rules'[EnableScript[j].what] =< unclean
  <2> SUFFICES ASSUME ~ faulty, NEW j \in k + 1 .. n, EnableScript[j].do = "append"
               PROVE  rules'[EnableScript[j].what] =< unclean
    OBVIOUS
  <2>1. rules[EnableScript[j].what] =< unclean
    BY <1>3, <1>5 DEF Half
  <2>2. EnableScript[j].what \in IPv4
    BY <1>1, <1>5 DEF Enables
  <2>3. ~ (c.do = "append" /\ c.what = EnableScript[j].what)
    BY <1>1, <1>5, <1>6 DEF Enables
  <2>4. ~ (c.do = "append6" /\ c.what = EnableScript[j].what)
    BY <1>9, <2>2 DEF IPv4, IPv6
  <2> QED  BY <1>10, <2>1, <2>2, <2>3, <2>4 DEF Rules
<1>13. ASSUME script' = Tail(script)
       PROVE  k + 1 \in 1 .. n + 1 /\ Half(k + 1)'
  BY <1>3, <1>5, <1>7, <1>11, <1>12, <1>13 DEF Half, host
<1>14. ASSUME script' = Tail(Tail(script)), (c.do = "registry" /\ forwards') \/ c.what = "out6"
       PROVE  k + 2 \in 1 .. n + 1 /\ Half(k + 2)'
  <2>1. k + 1 \in 1 .. n
    BY <1>3, <1>5, <1>9, <1>14
  <2>2. script' = Rest(EnableScript, k + 2)
    <3>1. Tail(Rest(EnableScript, k + 1)) = Rest(EnableScript, k + 1 + 1)
      BY <1>2, <2>1, RestOf
    <3>2. k + 1 + 1 = k + 2
      BY <1>5
    <3> QED  BY <1>7, <1>14, <3>1, <3>2
  <2>3. Did(EnableScript[k + 1])'
    BY <1>3, <1>9, <1>14 DEF Did
  <2>4. \A j \in 1 .. k + 1 : Did(EnableScript[j])'
    BY <1>5, <1>11, <2>3
  <2> QED  BY <1>3, <1>12, <2>1, <2>2, <2>4 DEF Half, host
<1>15. \E m \in 1 .. Len(EnableScript) + 1 : Half(m)'
  BY <1>3, <1>5, <1>10, <1>13, <1>14
<1>16. platform = "windows" => \A r \in Rules : rules'[r] = rules[r]
  BY <1>9, <1>10
<1>17. ASSUME ~ faulty, \A r \in IPv4 : rules[r] =< unclean + 1, NEW r \in IPv4
       PROVE  rules'[r] =< unclean + 1
  <2>1. rules[r] \in Nat /\ r \in Rules /\ r \notin IPv6
    BY DEF NatTypeOK, Rules, IPv4, IPv6
  <2>2. c.do = "append" /\ c.what = r => rules[r] =< unclean
    BY <1>3, <1>5, <1>6, <1>17 DEF Half
  <2> QED  BY <1>9, <1>10, <1>17, <2>1, <2>2
<1> QED  BY <1>10, <1>15, <1>16, <1>17

(* A command of the script that disables it. *)
LEMMA RunDisables ==
  ASSUME NatTypeOK, unclean \in Nat, UNCHANGED <<host, unclean>>, RunCommand,
         NEW k \in 1 .. Len(DisableScript) + 1, HalfUndone(k),
         ~ faulty => \A r \in IPv4 : rules[r] =< unclean + 1
  PROVE  /\ NatTypeOK'
         /\ \E m \in 1 .. Len(DisableScript) + 1 : HalfUndone(m)'
         /\ \A r \in Rules : rules'[r] =< rules[r]
<1> DEFINE n == Len(DisableScript)
<1>1. Disables(DisableScript)
  BY Scripts
<1>2. PICK S : DisableScript \in Seq(S)
  BY <1>1 DEF Disables
<1>3. n \in Nat /\ DisableScript' = DisableScript
  BY <1>2, LenProperties DEF host, DisableScript
<1>4. script # <<>>
  BY DEF RunCommand, Busy
<1>5. k \in 1 .. n
  BY <1>2, <1>3, <1>4, RestEnds DEF HalfUndone
<1>6. PICK c : c = DisableScript[k]
  OBVIOUS
<1>7. Head(script) = c /\ Tail(script) = Rest(DisableScript, k + 1)
  BY <1>2, <1>5, <1>6, RestOf DEF HalfUndone
<1>8. Done(c) \/ Forgiven(c)
  BY <1>7 DEF RunCommand
<1>9. /\ c.do \in Disabling
      /\ c.do = "remove" => c.what \in Rules
      /\ c.do \in {"flush", "drop"} => c.what \in Chains
      /\ c.what # "out6"
      /\ c.do = "flush" => k < n
  BY <1>1, <1>5, <1>6 DEF Disables
<1>10. /\ NatTypeOK'
       /\ \A r \in Rules : rules'[r] =< rules[r]
       /\ \A h \in chains : h \notin chains' => c.do = "drop" /\ h = c.what
       /\ ~ faulty /\ Ready(c) => Undid(c)'
       /\ \/ script' = Tail(script)
          \/ script' = Tail(Tail(script)) /\ c.do = "flush" /\ (Ready(c) => faulty)
  BY <1>8, <1>9, CommandDisables
<1>11. ASSUME ~ faulty
       PROVE  /\ \A j \in 1 .. k : Undid(DisableScript[j])'
              /\ \A j \in k + 1 .. n : Ready(DisableScript[j])'
              /\ script' = Tail(script)
  <2>1. Ready(c)
    BY <1>3, <1>5, <1>6, <1>11 DEF HalfUndone, Ready
  <2>2. ASSUME NEW j \in 1 .. k
        PROVE  Undid(DisableScript[j])'
    <3>1. CASE j = k
      BY <1>3, <1>6, <1>10, <1>11, <2>1, <3>1 DEF Undid
    <3>2. CASE j # k
      <4>1. Undid(DisableScript[j])
        BY <1>5, <1>11, <3>2 DEF HalfUndone
      <4>2. /\ DisableScript[j].do = "remove" => DisableScript[j].what \in Rules
            /\ DisableScript[j].do = "flush" => Held[DisableScript[j].what] \subseteq Rules
        BY <1>1, <1>5 DEF Disables, Held, Chains, Rules, IPv4
      <4>3. \A r \in Rules : rules[r] \in Nat /\ rules'[r] \in Nat
        BY <1>10 DEF NatTypeOK
      <4>4. DisableScript[j].do = "remove" /\ DisableScript[j].what \in IPv4
               => rules'[DisableScript[j].what] =< unclean
        BY <1>10, <4>1, <4>2, <4>3 DEF Undid
      <4>5. DisableScript[j].do = "flush" => \A r \in Held[DisableScript[j].what] : rules'[r] = 0
        BY <1>10, <4>1, <4>2, <4>3 DEF Undid
      <4> QED  BY <1>3, <4>4, <4>5 DEF Undid
    <3> QED  BY <3>1, <3>2
  <2>3. ASSUME NEW j \in k + 1 .. n
        PROVE  Ready(DisableScript[j])'
    <3>1. Ready(DisableScript[j])
      BY <1>3, <1>5, <1>11 DEF HalfUndone
    <3>2. ~ (c.do = "drop" /\ DisableScript[j].do = "flush" /\ c.what = DisableScript[j].what)
      BY <1>1, <1>3, <1>5, <1>6 DEF Disables
    <3> QED  BY <1>3, <1>10, <3>1, <3>2 DEF Ready
  <2> QED  BY <1>10, <1>11, <2>1, <2>2, <2>3
<1>12. ASSUME script' = Tail(script)
       PROVE  k + 1 \in 1 .. n + 1 /\ HalfUndone(k + 1)'
  BY <1>3, <1>5, <1>7, <1>11, <1>12 DEF HalfUndone, host
<1>13. ASSUME script' = Tail(Tail(script)), c.do = "flush", faulty
       PROVE  k + 2 \in 1 .. n + 1 /\ HalfUndone(k + 2)'
  <2>1. k + 1 \in 1 .. n
    BY <1>3, <1>5, <1>9, <1>13
  <2>2. script' = Rest(DisableScript, k + 2)
    <3>1. Tail(Rest(DisableScript, k + 1)) = Rest(DisableScript, k + 1 + 1)
      BY <1>2, <2>1, RestOf
    <3>2. k + 1 + 1 = k + 2
      BY <1>5
    <3> QED  BY <1>7, <1>13, <3>1, <3>2
  <2> QED  BY <1>3, <1>13, <2>1, <2>2 DEF HalfUndone, host
<1>14. script' # Tail(script) => faulty /\ c.do = "flush" /\ script' = Tail(Tail(script))
  BY <1>10, <1>11
<1> QED  BY <1>3, <1>5, <1>10, <1>12, <1>13, <1>14

(* The process ends. *)
Over(how) == phase # "down" /\ End(how) /\ UNCHANGED <<forwards, chains, rules, server>>

(* A signal finds clean-up tasks. *)
Heard ==
    /\ tasks # <<>> /\ ~ Busy /\ phase \notin {"down", "cleaning"}
    /\ phase' = "cleaning"
    /\ left' = Reverse(tasks)
    /\ UNCHANGED <<nat, ports, tasks, history, server>>

LEMMA Steps ==
  ASSUME TypeOK, [Next]_vars
  PROVE  /\ UNCHANGED host
         /\ \/ \E how \in Ends \ {"clean"} : Over(how)
            \/ Exit \/ Launch \/ EnableNat \/ RunCommand \/ Register \/ Registered
            \/ AskRouter \/ Launched \/ Heard
            \/ Unregister \/ Unregistered \/ RemoveMapping \/ DisableNat
            \/ Forwarded \/ Router \/ Server \/ UNCHANGED vars
<1>1. ASSUME StartFails \/ EnableFails \/ RegisterFails \/ LaunchFails \/ ForceExit \/ Killed
      PROVE  \E how \in Ends \ {"clean"} : Over(how)
  <2>1. phase # "down"
    BY <1>1 DEF StartFails, EnableFails, RegisterFails, LaunchFails, ForceExit, Killed, Due, TypeOK
  <2> QED
    BY <1>1, <2>1 DEF StartFails, EnableFails, RegisterFails, LaunchFails, ForceExit, Killed,
                      Over, Ends
<1>2. Signal => Over("early") \/ Heard
  BY DEF Signal, Over, Heard, server
<1>3. "early" \in Ends \ {"clean"}
  BY DEF Ends
<1>4. UNCHANGED host
  BY DEF Next, vars, host
<1> QED  BY <1>1, <1>2, <1>3, <1>4 DEF Next, Start, CleanUp

(* A command runs while NAT is being enabled, or at the end of a clean-up. *)
LEMMA CommandsKeep ==
  ASSUME IInv, UNCHANGED host, RunCommand
  PROVE  /\ NatTypeOK' /\ FilterInv'
         /\ phase = "enabling" \/ Ending
<1> USE DEF IInv, TypeOK
<1>1. phase = "enabling" \/ Ending
  BY DEF RunCommand, Busy, PhaseInv
<1>2. UNCHANGED <<ports, phase, cleanup, server, history>> /\ unclean \in Nat
  BY DEF RunCommand
<1> USE DEF history, cleanup, Ending, host
<1>3. CASE phase = "enabling"
  <2>1. PICK k \in 1 .. Len(EnableScript) + 1 : Half(k)
    BY <1>3 DEF FilterInv
  <2>2. /\ NatTypeOK'
        /\ \E m \in 1 .. Len(EnableScript) + 1 : Half(m)'
        /\ platform = "windows" => \A r \in Rules : rules'[r] = rules[r]
        /\ ~ faulty /\ (\A r \in IPv4 : rules[r] =< unclean + 1)
             => \A r \in IPv4 : rules'[r] =< unclean + 1
    BY <1>2, <2>1, RunEnables
  <2>3. EnableScript' = EnableScript
    BY DEF EnableScript
  <2> QED  BY <1>2, <1>3, <2>2, <2>3 DEF FilterInv
<1>4. CASE Ending
  <2>1. PICK k \in 1 .. Len(DisableScript) + 1 : HalfUndone(k)
    BY <1>4 DEF FilterInv
  <2>2. ~ faulty => \A r \in IPv4 : rules[r] =< unclean + 1
    BY <1>4 DEF FilterInv
  <2>3. /\ NatTypeOK'
        /\ \E m \in 1 .. Len(DisableScript) + 1 : HalfUndone(m)'
        /\ \A r \in Rules : rules'[r] =< rules[r]
    BY <1>2, <2>1, <2>2, RunDisables
  <2>4. DisableScript' = DisableScript
    BY DEF DisableScript
  <2>5. \A r \in Rules : rules[r] \in Nat /\ rules'[r] \in Nat
    BY <2>3 DEF NatTypeOK
  <2>6. platform = "windows" => \A r \in Rules : rules'[r] = 0
    BY <2>3, <2>5 DEF FilterInv
  <2>7. ~ faulty => \A r \in IPv4 : rules'[r] =< unclean + 1
    BY <1>2, <2>2, <2>3, <2>5 DEF Rules
  <2> QED  BY <1>2, <1>4, <2>3, <2>4, <2>6, <2>7 DEF FilterInv
<1> QED  BY <1>1, <1>2, <1>3, <1>4

(* The lists of clean-up tasks, one shorter than the other. *)
LEMMA TaskLists ==
  ASSUME left \in {<<"routing">>, <<"portForwarding", "routing">>, Reverse(Tasks)}
  PROVE  /\ left # <<>>
         /\ Head(left) = "connection" => Tail(left) = <<"portForwarding", "routing">>
         /\ Head(left) = "portForwarding" => Tail(left) = <<"routing">>
         /\ Head(left) = "routing" => Tail(left) = <<>>
<1>1. CASE left = <<"routing">>
  BY <1>1
<1>2. CASE left = <<"portForwarding", "routing">>
  BY <1>2
<1>3. CASE left = <<"connection", "portForwarding", "routing">>
  BY <1>3
<1> QED  BY <1>1, <1>2, <1>3, ReversedTasks

(* The types of the host and of the port. *)
LEMMA NextHost ==
  ASSUME IInv, [Next]_vars
  PROVE  NatTypeOK' /\ PortsTypeOK'
<1> USE DEF IInv, TypeOK, host, nat, ports
<1>1. UNCHANGED host
  BY Steps
<1>2. ASSUME UNCHANGED <<forwards, chains, rules>>, enabled' \in BOOLEAN
      PROVE  NatTypeOK'
  BY <1>1, <1>2 DEF NatTypeOK
<1>3. enabled \in BOOLEAN
  BY DEF NatTypeOK
<1>4. ASSUME \E how \in Ends : Over(how)
      PROVE  NatTypeOK' /\ PortsTypeOK'
  BY <1>2, <1>4 DEF Over, End, PortsForgotten, PortsTypeOK
<1>5. CASE Exit
  <2>1. Over("clean") /\ "clean" \in Ends
    BY <1>5 DEF Exit, Over, Ends
  <2> QED  BY <1>4, <2>1
<1>6. CASE RunCommand
  BY <1>1, <1>6, CommandsKeep DEF RunCommand, PortsTypeOK
<1>7. CASE Launch \/ EnableNat \/ Register \/ Registered \/ Launched \/ Heard \/ Unregister
             \/ Unregistered \/ DisableNat \/ Server \/ UNCHANGED vars
  <2>1. UNCHANGED <<forwards, chains, rules, enabled, ports>>
    BY <1>7 DEF Launch, EnableNat, Register, Registered, Launched, Heard, Unregister, Unregistered,
                DisableNat, Server, ServerRegisters, RegisterLost, ServerUnregisters,
                UnregisterLost, ServerForgets, vars
  <2> QED  BY <1>2, <1>3, <2>1 DEF PortsTypeOK
<1>8. CASE AskRouter \/ RemoveMapping
  BY <1>2, <1>3, <1>8 DEF AskRouter, Initialize, RemoveMapping, RemovePort, PortsTypeOK
<1>9. CASE Forwarded
  BY <1>2, <1>3, <1>9 DEF Forwarded, Added, AddFails, RefreshFires, PortsTypeOK
<1>10. CASE Router
  BY <1>2, <1>3, <1>10 DEF Router, RouterAdds, RouterRemoves, Lapse, AddFails, PortsTypeOK
<1> QED  BY <1>4, <1>5, <1>6, <1>7, <1>8, <1>9, <1>10, Steps

(* Types, and where the process is. *)
LEMMA NextPhases ==
  ASSUME IInv, [Next]_vars
  PROVE  TypeOK' /\ PhaseInv'
<1>1. UNCHANGED host
  BY Steps DEF IInv
<1> USE <1>1, NextHost, LifecycleConstants
    DEF IInv, TypeOK, PhaseInv, Ending, host, nat, cleanup, server, history,
        Busy, Phases, Ends, Requests
<1>2. ASSUME NEW how \in Ends, Over(how)
      PROVE  TypeOK' /\ PhaseInv'
  <2>1. /\ phase' = "down" /\ script' = <<>> /\ tasks' = <<>> /\ left' = <<>> /\ ended' = how
        /\ UNCHANGED <<runs, server>> /\ unclean' \in {unclean, unclean + 1} /\ phase # "down"
    BY <1>2 DEF Over, End
  <2>2. unclean' \in 0 .. runs
    BY <2>1
  <2> QED  BY <2>1, <2>2
<1>3. CASE Exit
  <2>1. Over("clean")
    BY <1>3 DEF Exit, Over
  <2> QED  BY <1>2, <2>1
<1>4. CASE Launch
  BY <1>4 DEF Launch
<1>5. CASE EnableNat
  BY <1>5 DEF EnableNat
<1>6. CASE RunCommand
  BY <1>6, CommandsKeep DEF RunCommand
<1>7. CASE Register \/ Registered
  BY <1>7 DEF Register, Registered
<1>8. CASE AskRouter \/ Launched
  BY <1>8, ReversedTasks DEF AskRouter, Launched, Initialize
<1>9. CASE Heard
  BY <1>9, ReversedTasks DEF Heard
<1>10. CASE Unregister \/ Unregistered \/ RemoveMapping
  <2>1. /\ phase = "cleaning" /\ left # <<>> /\ script = <<>>
        /\ Head(left) \in {"connection", "portForwarding"}
    BY <1>10 DEF Unregister, Unregistered, RemoveMapping, Due
  <2>2. Tail(left) \in {<<"portForwarding", "routing">>, <<"routing">>}
    BY <2>1, TaskLists
  <2>3. UNCHANGED <<nat, phase, tasks, asked, listed, history>>
    BY <1>10 DEF Unregister, Unregistered, RemoveMapping
  <2>4. telling' \in Requests /\ left' \in {left, Tail(left)}
    BY <1>10 DEF Unregister, Unregistered, RemoveMapping
  <2> QED  BY <2>1, <2>2, <2>3, <2>4
<1>11. CASE DisableNat
  <2>1. phase = "cleaning" /\ left # <<>> /\ Head(left) = "routing"
    BY <1>11 DEF DisableNat, Due
  <2>2. Tail(left) = <<>>
    BY <2>1, TaskLists
  <2> QED  BY <1>11, <2>1, <2>2 DEF DisableNat
<1>12. CASE Forwarded
  BY <1>12 DEF Forwarded
<1>13. CASE Router
  BY <1>13 DEF Router
<1>14. CASE Server
  <2>1. /\ UNCHANGED <<nat, phase, cleanup, history>>
        /\ asked' \in Requests /\ telling' \in Requests /\ listed' \in BOOLEAN
    BY <1>14 DEF Server, ServerRegisters, RegisterLost, ServerUnregisters, UnregisterLost,
                 ServerForgets
  <2> QED  BY <2>1
<1>15. CASE UNCHANGED vars
  BY <1>15 DEF vars
<1> QED  BY <1>2, <1>3, <1>4, <1>5, <1>6, <1>7, <1>8, <1>9, <1>10, <1>11, <1>12, <1>13, <1>14,
            <1>15, Steps

(* When a script is through, all of it was done. *)
LEMMA EnabledThrough ==
  ASSUME NatTypeOK, NEW k \in 1 .. Len(EnableScript) + 1, Half(k), script = <<>>
  PROVE  Up
<1>1. PICK S : EnableScript \in Seq(S)
  BY Scripts DEF Enables
<1>2. k = Len(EnableScript) + 1
  <2>1. Len(EnableScript) \in Nat
    BY <1>1, LenProperties
  <2>2. k \notin 1 .. Len(EnableScript)
    BY <1>1, RestOf DEF Half
  <2> QED  BY <2>1, <2>2
<1> QED  BY <1>1, <1>2, Scripts, LenProperties DEF Half, Enables

LEMMA DisabledThrough ==
  ASSUME NatTypeOK, ~ faulty, platform = "linux",
         NEW k \in 1 .. Len(DisableScript) + 1, HalfUndone(k), script = <<>>
  PROVE  /\ \A r \in {"jump.nat", "jump.forward"} : rules[r] =< unclean
         /\ \A r \in {"masquerade", "out", "in"} : rules[r] = 0
<1>1. PICK S : DisableScript \in Seq(S)
  BY Scripts DEF Disables
<1>2. k = Len(DisableScript) + 1
  <2>1. Len(DisableScript) \in Nat
    BY <1>1, LenProperties
  <2>2. k \notin 1 .. Len(DisableScript)
    BY <1>1, RestOf DEF HalfUndone
  <2> QED  BY <2>1, <2>2
<1> QED  BY <1>1, <1>2, Scripts, LenProperties DEF HalfUndone, Disables

LEMMA NextFilter ==
  ASSUME IInv, [Next]_vars
  PROVE  FilterInv'
<1>1. UNCHANGED host /\ unclean \in Nat /\ \A r \in Rules : rules[r] \in Nat
  BY Steps DEF IInv, TypeOK, NatTypeOK
<1> USE <1>1 DEF IInv, FilterInv, PhaseInv, Ending, host, history, cleanup, nat
<1>2. ASSUME NEW how \in Ends \ {"clean"}, Over(how)
      PROVE  FilterInv'
  BY <1>2 DEF Over, End, Rules
<1>3. CASE Exit
  <2>1. /\ phase' = "down" /\ unclean' = unclean /\ rules' = rules
        /\ Ending /\ script = <<>>
    BY <1>3 DEF Exit, End, Busy
  <2>2. PICK k \in 1 .. Len(DisableScript) + 1 : HalfUndone(k)
    BY <2>1
  <2>3. ~ faulty => /\ \A r \in {"jump.nat", "jump.forward"} : rules[r] =< unclean
                    /\ \A r \in {"masquerade", "out", "in"} : rules[r] = 0
    BY <2>1, <2>2, DisabledThrough DEF TypeOK, NatTypeOK, Rules, IPv4
  <2> QED  BY <2>1, <2>3 DEF IPv4
<1>4. CASE Launch
  BY <1>4 DEF Launch
<1>5. CASE EnableNat
  <2>1. /\ phase = "starting" /\ phase' = "enabling" /\ script' = EnableScript
        /\ UNCHANGED <<forwards, chains, rules, enabled, cleanup, history>>
    BY <1>5 DEF EnableNat
  <2>2. PICK S : EnableScript \in Seq(S)
    BY Scripts DEF Enables, TypeOK
  <2>3. EnableScript' = EnableScript /\ Rest(EnableScript, 1) = EnableScript
        /\ Len(EnableScript) \in Nat
    BY <2>2, RestEnds, LenProperties DEF EnableScript
  <2>4. \A j \in 1 .. Len(EnableScript) :
           EnableScript[j].do = "append" => EnableScript[j].what \in IPv4
    BY Scripts DEF Enables, TypeOK
  <2>5. ~ faulty => \A r \in IPv4 : rules[r] =< unclean /\ rules[r] =< unclean + 1
    BY <2>1 DEF Rules
  <2>6. Half(1)'
    BY <2>1, <2>3, <2>4, <2>5 DEF Half
  <2>7. 1 \in 1 .. Len(EnableScript') + 1
    BY <2>3
  <2> QED  BY <2>1, <2>3, <2>5, <2>6, <2>7
<1>6. CASE RunCommand
  BY <1>6, CommandsKeep
<1>7. CASE Register
  <2>1. /\ phase = "enabling" /\ script = <<>> /\ phase' = "registering"
        /\ UNCHANGED <<nat, cleanup, history>>
    BY <1>7 DEF Register, Busy
  <2>2. PICK k \in 1 .. Len(EnableScript) + 1 : Half(k)
    BY <2>1
  <2>3. Up
    BY <2>1, <2>2, EnabledThrough DEF TypeOK
  <2>4. Up'
    BY <2>1, <2>3 DEF Up, Forwarding
  <2> QED  BY <2>1, <2>4
<1>8. ASSUME UNCHANGED <<nat, history>>, phase \notin {"down", "starting", "enabling"}, ~ Ending,
             phase' \in {"registering", "launching", "mapping", "running", "cleaning"}, ~ Ending'
      PROVE  FilterInv'
  <2>1. Up
    BY <1>8 DEF TypeOK, Phases
  <2>2. Up'
    BY <1>8, <2>1 DEF Up, Forwarding
  <2> QED  BY <1>8, <2>2
<1>9. CASE Registered \/ AskRouter \/ Launched
  BY <1>8, <1>9 DEF Registered, AskRouter, Launched
<1>10. CASE Heard
  <2>1. phase = "running" /\ Reverse(tasks) # <<>>
    BY <1>10, ReversedTasks DEF Heard, TypeOK
  <2> QED  BY <1>8, <1>10, <2>1 DEF Heard
<1>11. CASE Unregister \/ Unregistered \/ RemoveMapping
  <2>1. /\ phase = "cleaning" /\ left # <<>> /\ Head(left) \in {"connection", "portForwarding"}
        /\ UNCHANGED <<nat, phase, history>> /\ left' \in {left, Tail(left)}
    BY <1>11 DEF Unregister, Unregistered, RemoveMapping, Due
  <2>2. Tail(left) # <<>>
    BY <2>1, TaskLists DEF TypeOK
  <2> QED  BY <1>8, <2>1, <2>2
<1>12. CASE DisableNat
  <2>1. /\ phase = "cleaning" /\ ~ Ending /\ Head(left) = "routing" /\ left # <<>>
        /\ left' = Tail(left) /\ phase' = "cleaning"
        /\ UNCHANGED <<forwards, chains, rules, enabled, history>>
    BY <1>12 DEF DisableNat, Due
  <2>2. left' = <<>>
    BY <2>1, TaskLists DEF TypeOK
  <2>3. Up
    BY <2>1
  <2>4. script' = DisableScript
    BY <1>12, <2>3 DEF DisableNat, Up
  <2>5. PICK S : DisableScript \in Seq(S)
    BY Scripts DEF Disables, TypeOK
  <2>6. DisableScript' = DisableScript /\ Rest(DisableScript, 1) = DisableScript
        /\ Len(DisableScript) \in Nat
    BY <2>5, RestEnds, LenProperties DEF DisableScript
  <2>7. ~ faulty => \A j \in 1 .. Len(DisableScript) : Ready(DisableScript[j])
    BY <2>3, Scripts DEF Disables, TypeOK, Up, Ready
  <2>8. HalfUndone(1)'
    BY <2>1, <2>4, <2>6, <2>7 DEF HalfUndone, Ready
  <2>9. 1 \in 1 .. Len(DisableScript') + 1
    BY <2>6
  <2> QED  BY <2>1, <2>2, <2>6, <2>8, <2>9
<1>13. CASE Forwarded \/ Router \/ Server \/ UNCHANGED vars
  <2>1. UNCHANGED <<nat, phase, cleanup, history>>
    BY <1>13 DEF Forwarded, Router, Server, ServerRegisters, RegisterLost, ServerUnregisters,
                 UnregisterLost, ServerForgets, vars
  <2>2. EnableScript' = EnableScript /\ DisableScript' = DisableScript
    BY DEF EnableScript, DisableScript
  <2> QED  BY <2>1, <2>2 DEF Half, HalfUndone, Did, Undid, Ready, Up, Forwarding
<1> QED  BY <1>2, <1>3, <1>4, <1>5, <1>6, <1>7, <1>9, <1>10, <1>11, <1>12, <1>13, Steps DEF IInv

(* The server, as far as it can be reached. *)
LEMMA NextServer ==
  ASSUME IInv, [Next]_vars
  PROVE  ServerInv'
<1>1. UNCHANGED host
  BY Steps DEF IInv
<1> USE <1>1 DEF IInv, ServerInv, host, history, cleanup, server
<1>2. ASSUME NEW how \in Ends \ {"clean"}, Over(how)
      PROVE  ServerInv'
  BY <1>2 DEF Over, End
<1>3. CASE Exit
  BY <1>3 DEF Exit, End
<1>4. CASE Launch
  BY <1>4 DEF Launch
<1>5. CASE EnableNat \/ RunCommand \/ Register \/ Registered \/ AskRouter \/ Launched
  BY <1>5, CommandsKeep DEF EnableNat, RunCommand, Register, Registered, AskRouter, Launched
<1>6. CASE Heard
  <2>1. Head(Reverse(tasks)) = "connection" /\ Reverse(tasks) # <<>> /\ phase = "running"
    BY <1>6, ReversedTasks DEF Heard, TypeOK, PhaseInv
  <2> QED  BY <1>6, <2>1 DEF Heard
<1>7. CASE Unregister
  BY <1>7 DEF Unregister, Due
<1>8. CASE Unregistered
  BY <1>8 DEF Unregistered, Due
<1>9. CASE RemoveMapping \/ DisableNat
  BY <1>9 DEF RemoveMapping, DisableNat, Due
<1>10. CASE Forwarded \/ Router \/ UNCHANGED vars
  BY <1>10 DEF Forwarded, Router, vars
<1>11. CASE Server
  BY <1>11 DEF Server, ServerRegisters, RegisterLost, ServerUnregisters, UnregisterLost,
               ServerForgets
<1> QED  BY <1>2, <1>3, <1>4, <1>5, <1>6, <1>7, <1>8, <1>9, <1>10, <1>11, Steps

(* The port, as far as the router answers. *)
LEMMA NextPort ==
  ASSUME IInv, [Next]_vars
  PROVE  PortInv'
<1>1. UNCHANGED host
  BY Steps DEF IInv
<1> USE <1>1 DEF IInv, PortInv, Alive, Booting, host, history, cleanup, ports
<1>2. ASSUME NEW how \in Ends, Over(how)
      PROVE  PortInv'
  BY <1>2 DEF Over, End, PortsForgotten
<1>3. CASE Exit
  <2>1. Over("clean") /\ "clean" \in Ends
    BY <1>3 DEF Exit, Over, Ends
  <2> QED  BY <1>2, <2>1
<1>4. CASE Launch
  BY <1>4 DEF Launch
<1>5. CASE EnableNat \/ RunCommand \/ Register \/ Registered \/ Launched \/ Heard
  BY <1>5, CommandsKeep DEF EnableNat, RunCommand, Register, Registered, Launched, Heard
<1>6. CASE AskRouter
  BY <1>6 DEF AskRouter, Initialize
<1>7. CASE Unregister \/ Unregistered \/ RemoveMapping \/ DisableNat
  BY <1>7 DEF Unregister, Unregistered, RemoveMapping, DisableNat, Due
<1>8. CASE Forwarded
  BY <1>8 DEF Forwarded, Added, AddFails, RefreshFires, TypeOK, PortsTypeOK
<1>9. CASE Router
  BY <1>9 DEF Router, RouterAdds, RouterRemoves, Lapse, AddFails, TypeOK, PortsTypeOK
<1>10. CASE Server \/ UNCHANGED vars
  BY <1>10 DEF Server, ServerRegisters, RegisterLost, ServerUnregisters, UnregisterLost,
               ServerForgets, vars
<1> QED  BY <1>2, <1>3, <1>4, <1>5, <1>6, <1>7, <1>8, <1>9, <1>10, Steps

-----------------------------------------------------------------------------
(* The theorems. *)

LEMMA InitIInv == Init => IInv
<1> SUFFICES ASSUME Init
             PROVE  IInv
  OBVIOUS
<1>1. NatTypeOK /\ PortsTypeOK /\ deaf \in BOOLEAN
  BY LifecycleConstants DEF Init, NatInit, PortsInit, NatTypeOK, PortsTypeOK, Chains
<1>2. TypeOK
  <2>1. /\ phase = "down" /\ tasks = <<>> /\ left = <<>> /\ asked = "no" /\ telling = "no"
        /\ listed = FALSE /\ ended = "never" /\ script = <<>>
    BY DEF Init, NatInit
  <2>2. runs \in 0 .. MaxRuns /\ unclean \in 0 .. runs
    BY LifecycleConstants DEF Init
  <2> QED  BY <1>1, <2>1, <2>2 DEF TypeOK, Phases, Ends, Requests, Busy
<1>3. PhaseInv /\ ServerInv /\ PortInv
  BY DEF Init, NatInit, PortsInit, PhaseInv, ServerInv, PortInv, Ending, Booting, Alive
<1>4. FilterInv
  BY DEF Init, NatInit, FilterInv, Ending, Rules
<1> QED  BY <1>2, <1>3, <1>4 DEF IInv

LEMMA NextIInv == IInv /\ [Next]_vars => IInv'
  BY NextPhases, NextFilter, NextServer, NextPort DEF IInv

LEMMA Invariance == Spec => []IInv
  BY InitIInv, NextIInv, PTL DEF Spec

(* Every variable has its type, and commands run in two phases only.       *)
THEOREM TypeCorrect == Spec => []TypeOK
<1>1. IInv => TypeOK
  BY DEF IInv
<1> QED  BY <1>1, Invariance, PTL

(* A node that is up forwards packets, and its port is forwarded.          *)
THEOREM NodesServe == Spec => []RunningServes
<1>1. IInv => RunningServes
  BY DEF IInv, FilterInv, PortInv, Ending, Up, Alive, RunningServes, RunningForwards, Reachable
<1> QED  BY <1>1, Invariance, PTL

(* A clean exit leaves none of the three IPv4 rules that translate or      *)
(* accept packets, and no node on the list of a server that answers.       *)
THEOREM CleanExits == Spec => []CleanExitUndoes
<1>1. IInv => CleanExitUndoes
  BY DEF IInv, FilterInv, ServerInv, CleanExitUndoes
<1> QED  BY <1>1, Invariance, PTL

(* One copy of a rule at most for each process that did not exit cleanly.  *)
THEOREM Leftovers == Spec => []LeftoversCounted
<1>1. IInv => LeftoversCounted
  BY DEF IInv, FilterInv, LeftoversCounted
<1> QED  BY <1>1, Invariance, PTL
=============================================================================
