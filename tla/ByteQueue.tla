------------------------------ MODULE ByteQueue ------------------------------
(***************************************************************************)
(* What the transmit buffer promises: a first-in first-out queue of bytes  *)
(* that always takes a new frame, at the price of its oldest bytes.        *)
(* Module TxRing, the ring buffer of src/src/oa_soc.c, is shown to         *)
(* implement it.                                                           *)
(***************************************************************************)
EXTENDS Integers, Sequences

CONSTANTS
  Frame,      \* the frames that may be written, sequences of bytes
  Capacity,   \* the number of bytes the queue holds
  SendMax     \* the number of bytes one send takes at most

VARIABLES
  queue,      \* the bytes to be sent, the oldest first
  out         \* the bytes last given to the socket

vars == <<queue, out>>

Newest(s) == IF Len(s) > Capacity
             THEN SubSeq(s, Len(s) - Capacity + 1, Len(s))
             ELSE s

Oldest == SubSeq(queue, 1, IF Len(queue) < SendMax THEN Len(queue) ELSE SendMax)

Init == queue = <<>> /\ out = <<>>

Put(f) == /\ queue' = Newest(queue \o f)
          /\ UNCHANGED out

(* The socket is given the oldest bytes, and the queue keeps them. *)
Offer == /\ out' = Oldest
         /\ UNCHANGED queue

Hand == /\ out' = Oldest
        /\ queue' = SubSeq(queue, Len(Oldest) + 1, Len(queue))

Clear == queue' = <<>> /\ out' = <<>>

Next == (\E f \in Frame : Put(f)) \/ Offer \/ Hand \/ Clear

Spec == Init /\ [][Next]_vars
=============================================================================
