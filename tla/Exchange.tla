------------------------------ MODULE Exchange ------------------------------
(***************************************************************************)
(* Messages between the device and the platform as bytes on a connection:   *)
(* numbered and put into the ring of the socket by DevReq2ServPackag_build  *)
(* and JT808MsgRsp_Send, taken out of what a read gave by                   *)
(* JT808_recv_analysis, answered by JT808_ServReq_handle (oa_jt808.c); the  *)
(* acknowledgement of the last message is known by its number.  A read may  *)
(* give part of a frame or several: TCP keeps no borders.                   *)
(***************************************************************************)
EXTENDS Frame, FiniteSets

CONSTANTS
    Starts,      \* bound: numbers that the device's frames may begin with
    PlatStarts,  \* bound: the same for the platform's
    Reports,     \* bound: bodies of reports
    Orders,      \* bound: bodies of requests
    Requests,    \* bound: identifiers of the platform's requests
    SendMax,     \* OA_APP_GPRS_SENDING_SIZE
    RingMax,     \* bytes in the ring
    MaxSent,     \* bound: frames of the device
    MaxSaid,     \* bound: frames of the platform
    MaxConns     \* bound: connections after the first

DEV_COMMON_rsp == 1
HEART_BEAT == 2
REGISTERS == 3
GET_LOCATION_rsp == 4
REPORT_LOCATION == 5

PLAT_COMMON_rsp == 1
REGISTERS_rsp == 2
SET_DEV_PARAM == 3
GET_LOCATION == 4
DEL_ROUND_AREA == 5
Known == {PLAT_COMMON_rsp, REGISTERS_rsp, SET_DEV_PARAM, GET_LOCATION, DEL_ROUND_AREA}

ASSUME ExchangeAssumption ==
    /\ Starts \subseteq Byte /\ PlatStarts \subseteq Byte
    /\ Reports \subseteq Seq(Byte) /\ Orders \subseteq Seq(Byte)
    /\ Requests \subseteq Byte \ {PLAT_COMMON_rsp, REGISTERS_rsp}
    /\ SendMax \in Nat \ {0} /\ RingMax \in Nat \ {0}
    /\ MaxSent \in 0 .. 7 /\ MaxSaid \in 0 .. 7 /\ MaxConns \in Nat

VARIABLES
    DevSeqId,        \* sProtclHandl.DevSeqId
    DevMsgId,        \* sProtclHandl.DevMsgId: what was sent last and is acknowledged
    timeout_en,      \* its acknowledgement is awaited
    timeout_data,    \* its body
    numbered,        \* the number it was sent with last
    tx,              \* the ring gprs_tx: bytes, and the frame each belongs to
    stream,          \* the bytes that the platform has received on this connection
    sent,            \* the device's frames, in order
    got,             \* the messages that the platform has found in its stream
    down,            \* bytes from the platform that no read has given yet
    platSeq,         \* the platform's next number
    said,            \* the platform's messages
    opened,          \* the message that a read has just been taken for
    acks,            \* numbers of the device's messages whose acknowledgements were opened
    conns,           \* connections after the first
    rough            \* bound: sends and the connection fail and the platform is silent, or neither

device == <<DevSeqId, DevMsgId, timeout_en, timeout_data, numbered, sent>>
uplink == <<stream, got>>
platform == <<down, platSeq, said>>
vars == <<device, tx, uplink, platform, opened, acks, conns, rough>>

Next3(n) == (n + 1) % 8     \* a number of two bytes, in three bits

Init ==
    /\ DevSeqId \in Starts /\ platSeq \in PlatStarts
    /\ DevMsgId = 0 /\ timeout_en = FALSE /\ timeout_data = <<>> /\ numbered = 0
    /\ tx = <<>> /\ stream = <<>> /\ sent = <<>> /\ got = {}
    /\ down = <<>> /\ said = {}
    /\ opened = NoMessage /\ acks = {}
    /\ conns = 0 /\ rough \in BOOLEAN

----------------------------------------------------------------------------

Bytes(s) == [i \in DOMAIN s |-> s[i].byte]

\* What lies before, between and after flags, as far as a flag ends it.
Pieces(s) ==
    LET flags == {i \in DOMAIN s : s[i] = FLAG}
    IN  {SubSeq(s, ij[1] + 1, ij[2] - 1) : ij \in
           {ij \in ({0} \cup flags) \X flags :
               ij[1] < ij[2] /\ \A k \in flags : ~ (ij[1] < k /\ k < ij[2])}}

\* The platform looks for frames between flags.
Found(s) == {Open(Unescape(p)) : p \in Pieces(s)} \ {NoMessage}

Least(a, b) == IF a < b THEN a ELSE b

Sent(bytes) ==
    /\ stream' = stream \o bytes
    /\ got' = got \cup Found(Bytes(stream'))

\* oa_write_buffer_force_noinit: what does not fit is written over the oldest bytes.
Ring(bytes) ==
    IF Len(bytes) <= RingMax THEN bytes
    ELSE SubSeq(bytes, Len(bytes) - RingMax + 1, Len(bytes))

\* escape_copy_to_send: the message gets the next number, its check, and its place in the ring.
\* An uplink that is not rough then sends all of it.
escape_copy_to_send(id, body) ==
    LET msg == Message(id, DevSeqId, body)
        frame == Seal(msg)
        bytes == [i \in DOMAIN frame |-> [byte |-> frame[i], of |-> Len(sent) + 1]]
    IN  /\ Len(sent) < MaxSent
        /\ sent' = Append(sent, msg)
        /\ IF rough THEN tx' = Ring(tx \o bytes) /\ UNCHANGED uplink
                    ELSE Sent(bytes) /\ UNCHANGED tx
        /\ DevSeqId' = Next3(DevSeqId)

\* BuildMsgbody: what a message tells is given, an answer names what it answers.
BuildMsgbody(id, told, request, status) ==
    CASE id = DEV_COMMON_rsp -> <<request.seq, request.id, status>>
      [] id = GET_LOCATION_rsp -> <<request.seq>>
      [] id = HEART_BEAT -> <<>>
      [] OTHER -> told

\* DevReq2ServPackag_build of a message that is acknowledged.  Its callers wait until none is awaited.
DevReq2ServPackag_build(id, body) ==
    /\ ~ timeout_en
    /\ escape_copy_to_send(id, BuildMsgbody(id, body, NoMessage, 0))
    /\ timeout_en' = TRUE /\ DevMsgId' = id /\ timeout_data' = body /\ numbered' = DevSeqId
    /\ UNCHANGED <<platform, acks, conns, rough>>

Heartbeat ==
    /\ ~ timeout_en
    /\ escape_copy_to_send(HEART_BEAT, BuildMsgbody(HEART_BEAT, <<>>, NoMessage, 0))
    /\ UNCHANGED <<DevMsgId, timeout_en, timeout_data, numbered, platform, acks, conns, rough>>

\* oa_timer_timeout_handler sends the message once more, under a new number, and at last gives up.
SendAgain ==
    /\ timeout_en
    /\ escape_copy_to_send(DevMsgId, timeout_data)
    /\ numbered' = DevSeqId
    /\ UNCHANGED <<DevMsgId, timeout_en, timeout_data, platform, acks, conns, rough>>

GiveUp ==
    /\ timeout_en
    /\ timeout_en' = FALSE
    /\ UNCHANGED <<DevSeqId, DevMsgId, timeout_data, numbered, sent, tx, uplink, platform, acks, conns, rough>>

----------------------------------------------------------------------------

\* oa_soc_send_req of a rough uplink: up to SendMax bytes are taken off the ring: sent, or given up
\* when sending fails.
oa_soc_send_req(ok) ==
    LET n == Least(SendMax, Len(tx))
    IN  /\ n > 0 /\ rough
        /\ tx' = SubSeq(tx, n + 1, Len(tx))
        /\ Sent(IF ok THEN SubSeq(tx, 1, n) ELSE <<>>)
        /\ UNCHANGED <<device, platform, acks, conns, rough>>

\* The connection is lost and made anew; the ring stays as it is.
Reconnect ==
    /\ rough /\ conns < MaxConns /\ conns' = conns + 1
    /\ stream' = <<>>
    /\ UNCHANGED <<device, tx, got, platform, acks, rough>>

----------------------------------------------------------------------------

Say(id, body) ==
    LET msg == Message(id, platSeq, body)
    IN  /\ ~ rough /\ Cardinality(said) < MaxSaid
        /\ said' = said \cup {msg}
        /\ down' = down \o Seal(msg)
        /\ platSeq' = Next3(platSeq)
        /\ UNCHANGED <<device, tx, uplink, acks, conns, rough>>

\* The message by which the platform acknowledges msg.
AckId(msg) == IF msg.id = REGISTERS THEN REGISTERS_rsp ELSE PLAT_COMMON_rsp
AckBody(msg) == IF msg.id = REGISTERS THEN <<msg.seq, 0, 7>> ELSE <<msg.seq, msg.id, 0>>
Acks(ack, msg) == ack.id = AckId(msg) /\ ack.body = AckBody(msg)

\* The platform acknowledges what is no answer, once, when it likes.
Acknowledge(msg) ==
    /\ msg.id \in {HEART_BEAT, REGISTERS, REPORT_LOCATION}
    /\ ~ \E ack \in said : Acks(ack, msg)
    /\ Say(AckId(msg), AckBody(msg))

----------------------------------------------------------------------------

\* Variant: the number is that of the next frame.
AwaitedNumberAhead(seq) == timeout_en /\ seq = DevSeqId

\* Variant: the number is not looked at.
AwaitedNumberAny(seq) == timeout_en

\* The number of the frame before the next, as JT808_recv_analysis compares it: in int, so that
\* the last number before the wrap is never found.
AwaitedNumber(seq) == timeout_en /\ seq = DevSeqId - 1

\* A body that is too short is read on behind its end.
Told(body, i) == IF i <= Len(body) THEN {body[i]} ELSE Byte

\* case PLAT_COMMON_rsp
PLAT_COMMON(msg) ==
    /\ \E seq \in Told(msg.body, 1), id \in Told(msg.body, 2) :
         /\ timeout_en' = (timeout_en /\ ~ (AwaitedNumber(seq) /\ id = DevMsgId))
         /\ acks' = acks \cup {seq}
    /\ UNCHANGED <<DevSeqId, sent, tx, uplink>>

\* case REGISTERS_rsp
REGISTERED(msg) ==
    /\ \E seq \in Told(msg.body, 1) :
         /\ timeout_en' = (timeout_en /\ ~ AwaitedNumber(seq))
         /\ acks' = acks \cup {seq}
    /\ UNCHANGED <<DevSeqId, sent, tx, uplink>>

\* The handlers' answer to a request: 1 for a body that is too short, 0 always for an area's
\* removal, 3 for what the device does not know.
Status(msg) ==
    CASE msg.id = SET_DEV_PARAM -> IF msg.body = <<>> THEN 1 ELSE 0
      [] msg.id = DEL_ROUND_AREA -> 0
      [] OTHER -> 3

JT808MsgRsp_Send(id, request) ==
    escape_copy_to_send(id, BuildMsgbody(id, <<>>, request, Status(request)))

\* JT808_ServReq_handle, and the answer it sends.
JT808_ServReq_handle(msg) ==
    /\ JT808MsgRsp_Send(IF msg.id = GET_LOCATION THEN GET_LOCATION_rsp ELSE DEV_COMMON_rsp, msg)
    /\ UNCHANGED <<timeout_en, acks>>

\* A read gives n bytes, and JT808_recv_analysis takes them for one frame.
JT808_recv_analysis(n) ==
    LET data == SubSeq(down, 1, n)
        msg == FrameOf(data)
    IN  /\ n \in 1 .. Len(down)
        /\ down' = SubSeq(down, n + 1, Len(down))
        /\ opened' = msg
        /\ CASE msg = NoMessage -> UNCHANGED <<timeout_en, acks, DevSeqId, sent, tx, uplink>>
             [] msg.id = REGISTERS_rsp -> REGISTERED(msg)
             [] msg.id = PLAT_COMMON_rsp -> PLAT_COMMON(msg)
             [] OTHER -> JT808_ServReq_handle(msg)
        /\ UNCHANGED <<DevMsgId, timeout_data, numbered, platSeq, said, conns, rough>>

\* What the other steps do.
Others ==
    \/ DevReq2ServPackag_build(REGISTERS, <<>>)
    \/ \E body \in Reports : DevReq2ServPackag_build(REPORT_LOCATION, body)
    \/ Heartbeat \/ SendAgain \/ GiveUp
    \/ \E ok \in BOOLEAN : oa_soc_send_req(ok)
    \/ Reconnect
    \/ \E msg \in got : Acknowledge(msg)
    \/ \E id \in Requests, body \in Orders : Say(id, body)

Next ==
    \/ Others /\ opened' = NoMessage
    \/ \E n \in DOMAIN down : JT808_recv_analysis(n)

Spec == Init /\ [][Next]_vars

----------------------------------------------------------------------------

TypeOK ==
    /\ DevSeqId \in Byte /\ platSeq \in Byte /\ numbered \in Byte
    /\ DevMsgId \in Byte /\ timeout_en \in BOOLEAN /\ timeout_data \in Reports \cup {<<>>}
    /\ Len(tx) <= RingMax
    /\ down \in Seq(Byte) /\ acks \subseteq Byte

(* A read that is a whole frame is opened as the message the platform sealed, whatever bytes its    *)
(* number and body have, and one that is two frames as the first of them with a longer body         *)
(* (oa_soc.c:642, oa_jt808.c:2846 and 2859): the check of the first and the flags between cancel,   *)
(* and what is left is the check of the second.                                                     *)
FirstIsOpened ==
    [][LET data == SubSeq(down, 1, Len(down) - Len(down'))
       IN  Bounded(data) =>
             \A m \in said :
               /\ data = Seal(m) => opened' = m
               /\ \A k \in said : data = Seal(m) \o Seal(k) =>
                    /\ opened'.id = m.id /\ opened'.seq = m.seq
                    /\ IsStrictPrefix(m.body, opened'.body)]_vars

(* Wherever reads cut the stream, what is carried out or taken for an acknowledgement is a message   *)
(* that the platform sent (oa_jt808.c:2846-2890).                                                    *)
OnlySaidIsDone ==
    opened.id \in Known =>
        \E m \in said : opened.id = m.id /\ opened.seq = m.seq /\ IsPrefix(m.body, opened.body)

(* The ring keeps to its size, and only what was said is done.                                       *)
ExchangeInv == TypeOK /\ OnlySaidIsDone

(* A frame that is sent whole on one connection reaches the platform, whatever half of a frame a     *)
(* failed send, an overrun of the ring or an earlier connection has left before it (oa_soc.c:363,    *)
(* 849).                                                                                             *)
WholeFramesArrive ==
    \A i \in DOMAIN sent :
        Cardinality({k \in DOMAIN stream : stream[k].of = i}) = Len(Seal(sent[i])) => sent[i] \in got

(* The wait is over only because the platform acknowledged the message as it was sent last: neither  *)
(* a late acknowledgement of an earlier attempt nor that of another message ends it                  *)
(* (oa_jt808.c:2914, 3037).                                                                          *)
WaitEndsByItsAck ==
    [][timeout_en /\ ~ timeout_en' /\ ~ GiveUp =>
        \E ack \in said : Acks(ack, Message(DevMsgId, numbered, timeout_data))]_vars

(* A message whose acknowledgement was read is sent again only if another frame was numbered after   *)
(* it or its number was the last before the wrap, which the comparison in int never finds            *)
(* (oa_jt808.c:3037).                                                                                *)
SentAgainIfUnknown ==
    [][SendAgain => \/ numbered \notin acks
                    \/ numbered = 7
                    \/ Next3(numbered) # DevSeqId]_vars

(* What oa_jt808.c:2875 calls the judgement of the message's identifier: a message whose identifier  *)
(* is none of the protocol's is refused, and not answered.                                           *)
UnknownIsRefused == opened = NoMessage \/ opened.id \in Known
=============================================================================
