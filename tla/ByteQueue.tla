----------------------------- MODULE ByteQueue ------------------------------
(***************************************************************************)
(* What leven::Buffer promises: a queue of bytes.  Bytes are added at the  *)
(* end, taken from the front, and a header can be put before the front.    *)
(* Module Buffer implements it with an array and two indices.              *)
(***************************************************************************)
EXTENDS Naturals, Sequences

CONSTANTS Inputs    \* the byte sequences that can be added

VARIABLE queue      \* the readable bytes, oldest first

Init == queue = <<>>

Push(data) == queue' = queue \o data

Prepend(data) == queue' = data \o queue

Retrieve(len) == queue' = SubSeq(queue, len + 1, Len(queue))

Next ==
  \/ \E data \in Inputs : Push(data) \/ Prepend(data)
  \/ \E len \in 0 .. Len(queue) : Retrieve(len)

Spec == Init /\ [][Next]_queue
=============================================================================
