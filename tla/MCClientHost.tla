----------------------------- MODULE MCClientHost -----------------------------
(* Instances of ClientHost for TLC. *)
EXTENDS ClientHost

CONSTANTS s1, s2

TwoServers == {s1, s2}
OneNamed == {s2}

(* Every kind of host. *)
AnyHost ==
    [quick : BOOLEAN, byPath : BOOLEAN, uplink : {"none", "zero", "high"}, half : BOOLEAN]
=============================================================================
