-------------------------------- MODULE Frame --------------------------------
(***************************************************************************)
(* A JT/T 808 frame as bytes: sealed by JT808Msg_Build and                  *)
(* escape_copy_to_send, opened by JT808_recv_analysis (oa_jt808.c).         *)
(*                                                                         *)
(* A byte has 3 bits.  Of the 256 values the framing tells apart 0x7e, 0x7d *)
(* and the two that follow an escape, and the check adds their differences: *)
(* 0 .. 3 stand for themselves and 4 .. 7 for 0x7c .. 0x7f.  The two bytes  *)
(* of a number or identifier are one here; the body's attributes and the    *)
(* telephone number of the head, which no reader of the head looks at, are  *)
(* left out.                                                                *)
(***************************************************************************)
EXTENDS Naturals, Sequences, SequencesExt

Byte == 0 .. 7
FLAG == 6       \* 0x7e
ESC == 5        \* 0x7d

Xor ==
    [ab \in Byte \X Byte |->
        LET bit(w) == ((ab[1] \div w) + (ab[2] \div w)) % 2
        IN  bit(1) + 2 * bit(2) + 4 * bit(4)]

XOR_Check(s) ==
    LET upto[i \in 0 .. Len(s)] == IF i = 0 THEN 0 ELSE Xor[<<upto[i - 1], s[i]>>]
    IN  upto[Len(s)]

----------------------------------------------------------------------------

\* Variant: the byte that announces an escape is itself not escaped.
EscapeFlagsOnly(s) ==
    FlattenSeq([i \in DOMAIN s |-> IF s[i] = FLAG THEN <<ESC, 2>> ELSE <<s[i]>>])

\* Variant: the byte that bounds frames is not escaped.
EscapeNoFlag(s) ==
    FlattenSeq([i \in DOMAIN s |-> IF s[i] = ESC THEN <<ESC, 1>> ELSE <<s[i]>>])

\* JT808_dataChg(1, ...)
Escape(s) ==
    FlattenSeq([i \in DOMAIN s |->
        CASE s[i] = FLAG -> <<ESC, 2>>
          [] s[i] = ESC -> <<ESC, 1>>
          [] OTHER -> <<s[i]>>])

\* Variant: what an escape gave is read once more as the beginning of one.
UnescapeAgain(s) ==
    LET from[i \in 1 .. Len(s) + 1] ==
          CASE i > Len(s) -> <<>>
            [] i < Len(s) /\ s[i] = ESC /\ s[i + 1] = 2 -> <<FLAG>> \o from[i + 2]
            [] i + 1 < Len(s) /\ s[i] = ESC /\ s[i + 1] = 1 /\ s[i + 2] \in {1, 2} ->
                 <<s[i + 2] + 4>> \o from[i + 3]
            [] i < Len(s) /\ s[i] = ESC /\ s[i + 1] = 1 /\ ~(i + 1 < Len(s) /\ s[i + 2] \in {1, 2}) ->
                 <<ESC>> \o from[i + 2]
            [] OTHER -> <<s[i]>> \o from[i + 1]
    IN  from[1]

\* JT808_dataChg(0, ...), in place and from the left.
Unescape(s) ==
    LET from[i \in 1 .. Len(s) + 1] ==
          CASE i > Len(s) -> <<>>
            [] i < Len(s) /\ s[i] = ESC /\ s[i + 1] = 2 -> <<FLAG>> \o from[i + 2]
            [] i < Len(s) /\ s[i] = ESC /\ s[i + 1] = 1 -> <<ESC>> \o from[i + 2]
            [] OTHER -> <<s[i]>> \o from[i + 1]
    IN  from[1]

----------------------------------------------------------------------------

Message(id, seq, body) == [id |-> id, seq |-> seq, body |-> body]

\* What a frame carries between the flags, before it is escaped.
Inside(msg) ==
    LET content == <<msg.id, msg.seq>> \o msg.body
    IN  Append(content, XOR_Check(content))

\* The frame of a message.
Seal(msg) == <<FLAG>> \o Escape(Inside(msg)) \o <<FLAG>>

NoMessage == [id |-> 8, seq |-> 8, body |-> <<>>]

\* The message between two flags, if the check that ends it is right.  Less than a head is never a
\* message: no check, or a check of one byte that is compared with itself, then reads behind the data.
Open(inside) ==
    IF Len(inside) < 3 \/ XOR_Check(Front(inside)) # Last(inside) THEN NoMessage
    ELSE Message(inside[1], inside[2], SubSeq(inside, 3, Len(inside) - 1))

\* What begins and ends with a flag, and is more than these.
Bounded(data) == Len(data) > 2 /\ data[1] = FLAG /\ data[Len(data)] = FLAG

\* Variant: only the flag at the end is looked for.
FrameOfAnyBegin(data) ==
    IF Len(data) > 2 /\ data[Len(data)] = FLAG
    THEN Open(Unescape(SubSeq(data, 2, Len(data) - 1)))
    ELSE NoMessage

\* JT808_recv_analysis up to the check: all that a read gave is taken for one frame.  The test of
\* the identifier, ISPrtclServMsg, ends in a constant and holds for all of them (oa_jt808.h:257).
FrameOf(data) ==
    IF Bounded(data)
    THEN Open(Unescape(SubSeq(data, 2, Len(data) - 1)))
    ELSE NoMessage

=============================================================================
