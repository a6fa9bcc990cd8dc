----------------------------- MODULE MCNodeRelay ----------------------------
(* Two small packets and a large one; the first word of a packet is that   *)
(* of a WireGuard or an IPv4 header, which no message takes for a count.   *)
EXTENDS NodeRelay

Head4   == 17664
MCSmall == {<<Head4>>, <<Head4, 1>>}
MCLarge == {<<Head4, 2, 3>>}

(* Every size of a batch from two to BATCH_SIZE in the code, ten, with     *)
(* packets of one to four words.                                           *)
Mixed(n) == [i \in 1 .. n |-> SubSeq(<<Head4, i, 2, 1>>, 1, 1 + (i % 4))]
ASSUME EverySizeOfBatch == \A n \in 2 .. 10 : ReadAs(Batch(Mixed(n))) = Mixed(n)
=============================================================================
