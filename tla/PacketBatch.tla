----------------------------- MODULE PacketBatch ----------------------------
(***************************************************************************)
(* What the two ends of a relay socket put into binary messages: the node  *)
(* (WebSocketRelay of higgsnode) packs small packets together, bosonserver *)
(* (WebSocketRelay of bosonserver) takes the message apart, and the node   *)
(* takes apart what it is sent in the same way.                            *)
(*                                                                         *)
(* A message is a sequence of 16-bit words and so is a packet; a length    *)
(* counts words.  A packet of one byte more is not told apart from the     *)
(* next: no length is rounded by the code.                                 *)
(***************************************************************************)
EXTENDS Naturals, Sequences

(* The part of a batch that holds packets ps[1 .. n]. *)
Packed(ps) ==
    LET upTo[n \in 0 .. Len(ps)] ==
            IF n = 0 THEN <<>> ELSE upTo[n - 1] \o <<Len(ps[n])>> \o ps[n]
    IN  upTo[Len(ps)]

(* flushBatch: how many packets, then each with its size before it. *)
Batch(ps) == <<Len(ps)>> \o Packed(ps)

(* One round of the loop in handleBatch, with what was read before it: a   *)
(* packet that is cut short ends it, as the end of the message does.       *)
Took(m, r) ==
    IF r.offset > Len(m) \/ r.offset + m[r.offset] > Len(m) THEN r
    ELSE [offset  |-> r.offset + m[r.offset] + 1,
          packets |-> Append(r.packets, SubSeq(m, r.offset + 1, r.offset + m[r.offset]))]

(* handleBatch: as many rounds as the first word says. *)
Unbatched(m) ==
    LET read[n \in 0 .. m[1]] ==
            IF n = 0 THEN [offset |-> 2, packets |-> <<>>] ELSE Took(m, read[n - 1])
    IN  read[m[1]].packets

(* handleMessage: the first word alone says whether this is a batch. *)
IsBatch(m) == m[1] > 1 /\ m[1] < 100

(* The packets a binary message is read as. *)
ReadAs(m) == IF IsBatch(m) THEN Unbatched(m) ELSE <<m>>
=============================================================================
