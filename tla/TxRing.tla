------------------------------- MODULE TxRing -------------------------------
(***************************************************************************)
(* gprs_tx, the ring of bytes in the RAM that a restart does not           *)
(* initialize, with oa_soc_send_req, which empties it: src/src/oa_soc.c.   *)
(* The copy loops keep their index in 16 bits (oa_uint16 p).               *)
(***************************************************************************)
EXTENDS Integers, Sequences

CONSTANTS
  Byte,
  Frame,       \* the frames escape_copy_to_send writes, sequences of bytes
  MaxLength,   \* OA_GPRS_BUFFER_NOINIT_SIZE as an oa_uint16
  SendMax,     \* OA_APP_GPRS_SENDING_SIZE
  Word,        \* the number of values of an oa_uint16
  NoByte       \* what is in the RAM before the first write

(* The buffer's size is the SDK's: the 500k less 50k of the comment in      *)
(* oa_soc.c:73 are 2048 as an oa_uint16.  Twice the size must fit the index *)
(* of the copy loops, and a frame must fit the buffer.                      *)
ASSUME RingAssumption ==
  /\ MaxLength \in Nat /\ MaxLength >= 1
  /\ Word \in Nat /\ 2 * MaxLength <= Word
  /\ SendMax \in Nat /\ SendMax >= 1
  /\ Frame \subseteq Seq(Byte)
  /\ \A f \in Frame : Len(f) <= MaxLength

VARIABLES
  buf, len, offset,   \* the oa_buffer
  out                 \* gprs_tx_pending_data as far as gprs_tx_pending_size said

ring == <<buf, len, offset>>
vars == <<ring, out>>

Place == 0 .. MaxLength - 1

(* Every variable keeps its type.  The offset may rest on MaxLength itself  *)
(* (the comparison in oa_soc.c:843 is > where :894 has >=), and every index *)
(* computed from it must still wrap into the buffer.                        *)
TypeOK ==
  /\ buf \in [Place -> Byte \cup {NoByte}]
  /\ len \in 0 .. MaxLength
  /\ offset \in 0 .. MaxLength
  /\ out \in Seq(Byte) /\ Len(out) <= SendMax

(* oa_soc_init_fast clears the RAM before it creates the ring in it. *)
Init ==
  /\ buf = [p \in Place |-> NoByte]
  /\ len = 0 /\ offset = 0
  /\ out = <<>>

oa_soc_init_fast ==
  /\ buf' = [p \in Place |-> NoByte]
  /\ len' = 0 /\ offset' = 0
  /\ out' = <<>>

Smaller(a, b) == IF a < b THEN a ELSE b

Wrap(p) == IF p >= MaxLength THEN p - MaxLength ELSE p

(* What an oa_uint16 keeps of the sum of two. *)
U16(p) == IF p >= Word THEN p - Word ELSE p

(* How many steps of a copy loop that begins at p come before place q. *)
Distance(p, q) == IF q >= p THEN q - p ELSE q + MaxLength - p

(* The copy loop: the bytes of s go to the place p and those after it.      *)
Copy(b, p, s) ==
  LET from == Wrap(U16(p))
  IN  [q \in Place |-> IF Distance(from, q) < Len(s)
                       THEN s[Distance(from, q) + 1]
                       ELSE b[q]]

(* Mutant: the bytes that do not fit are not taken off the front. *)
WriteForceKeepsOffset(f) ==
  LET free == MaxLength - len
      fits == SubSeq(f, 1, Smaller(free, Len(f)))
      rest == SubSeq(f, free + 1, Len(f))
  IN  /\ buf' = Copy(Copy(buf, offset + len, fits), offset, rest)
      /\ UNCHANGED offset
      /\ len' = Smaller(len + Len(f), MaxLength)
      /\ UNCHANGED out

(* Mutant: the second loop begins with the first byte of the frame again. *)
WriteForceRestarts(f) ==
  LET free == MaxLength - len
      fits == SubSeq(f, 1, Smaller(free, Len(f)))
      rest == SubSeq(f, 1, Len(f) - Smaller(free, Len(f)))
  IN  /\ buf' = Copy(Copy(buf, offset + len, fits), offset, rest)
      /\ offset' = IF rest = <<>> THEN offset ELSE Wrap(offset + Len(rest))
      /\ len' = Smaller(len + Len(f), MaxLength)
      /\ UNCHANGED out

(* oa_write_buffer_force_noinit: what does not fit is written over the      *)
(* oldest bytes, and the ring then begins behind it.                        *)
oa_write_buffer_force_noinit(f) ==
  LET free == MaxLength - len
      fits == SubSeq(f, 1, Smaller(free, Len(f)))
      rest == SubSeq(f, free + 1, Len(f))
  IN  /\ buf' = Copy(Copy(buf, offset + len, fits), offset, rest)
      /\ offset' = IF rest = <<>> THEN offset ELSE Wrap(offset + Len(rest))
      /\ len' = Smaller(len + Len(f), MaxLength)
      /\ UNCHANGED out

(* oa_query_buffer_noinit: the oldest n bytes. *)
oa_query_buffer_noinit(n) ==
  [i \in 1 .. Smaller(n, len) |-> buf[Wrap(offset + i - 1)]]

(* Mutant: the offset is never brought back into the buffer. *)
ReadNeverWraps(n) ==
  /\ len' = len - Smaller(n, len)
  /\ offset' = offset + Smaller(n, len)

(* oa_read_buffer_noinit: the same bytes are taken out. *)
oa_read_buffer_noinit(n) ==
  LET end == offset + Smaller(n, len)
  IN  /\ len' = len - Smaller(n, len)
      /\ offset' = IF end > MaxLength THEN end - MaxLength ELSE end

(* oa_soc_send_req: the socket takes the bytes, or fails and they are gone. *)
SendTakes ==
  /\ len > 0
  /\ out' = oa_query_buffer_noinit(SendMax)
  /\ oa_read_buffer_noinit(SendMax)
  /\ UNCHANGED buf

(* The socket would block: the ring keeps the bytes. *)
SendBlocks ==
  /\ len > 0
  /\ out' = oa_query_buffer_noinit(SendMax)
  /\ UNCHANGED ring

Next == \/ \E f \in Frame : oa_write_buffer_force_noinit(f)
        \/ SendTakes
        \/ SendBlocks
        \/ oa_soc_init_fast

Spec == Init /\ [][Next]_vars

-----------------------------------------------------------------------------
(* The bytes to be sent, from the offset on. *)
Unsent == oa_query_buffer_noinit(len)

Fifo == INSTANCE ByteQueue WITH
          Capacity <- MaxLength,
          queue <- Unsent

(* The ring is a queue: every byte that is sent is the oldest one written   *)
(* and not yet sent, none is sent twice unless the send had blocked, and a  *)
(* frame that does not fit costs exactly as many of the oldest bytes as it  *)
(* needs, wherever the offset stands in the buffer and however often the    *)
(* two copy loops of oa_soc.c:849 wrap.                                     *)
RefinesFifo == Fifo!Spec

(* The frame that a write puts into the queue is the one it was given, in   *)
(* one piece and in order, wherever oa_soc.c:849 splits it; RefinesFifo     *)
(* alone would be content with another frame.                               *)
FramesQueued == [][\A f \in Frame : oa_write_buffer_force_noinit(f) => Fifo!Put(f)]_vars
=============================================================================
