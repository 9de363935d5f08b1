--------------------------------- MODULE Soc ---------------------------------
(***************************************************************************)
(* The one TCP connection of the device: src/src/oa_soc.c, with the send   *)
(* half of src/src/oa_jt808.c.  Whichever timer or callback calls into     *)
(* that file runs the call to its end, and often several in a row, so the  *)
(* calls are operators: each maps a connection, and the faults that may    *)
(* happen now, to the set of its outcomes.                                 *)
(*                                                                         *)
(* A connection is a record: g_soc_context as the device keeps it, and     *)
(* what the network and the platform know of it (session and wire).        *)
(***************************************************************************)
EXTENDS Naturals, Sequences, SequencesExt

CONSTANTS
  TxMax    \* bound: the frames the tx ring holds before it drops the oldest

ASSUME TxMaxAssumption == TxMax \in Nat /\ TxMax >= 1

(* The messages the device sends; rsp is the answer to a platform request.  *)
Msg == {"reg", "login", "unreg", "loc", "heartbeat", "rsp"}

(* last: no frame was built since, so its number is still DevSeqId - 1. *)
Frame == [msg : Msg, last : BOOLEAN]

Connection ==
  [ state        : {"OFFLINE", "CONNECT", "ONLINE"},
    can_connect  : BOOLEAN,
    releasing    : BOOLEAN,    \* OA_EVSHED_ID_0 is going to set can_connect
    is_blocksend : BOOLEAN,
    tx           : Seq(Frame), \* gprs_tx, the ring of bytes not yet sent
    session      : {"none", "open", "authed"}, \* at the platform
    wire         : SUBSET Frame ]              \* sent and not yet answered

(* oa_soc_init_fast: the ring in the no-init RAM is emptied too. *)
Fresh ==
  [ state |-> "OFFLINE", can_connect |-> TRUE, releasing |-> FALSE,
    is_blocksend |-> FALSE, tx |-> <<>>, session |-> "none", wire |-> {} ]

If(condition, outcomes) == IF condition THEN outcomes ELSE {}

-----------------------------------------------------------------------------
(* Sending *)

Old(f) == [f EXCEPT !.last = FALSE]

(* escape_copy_to_send numbers the frame and forces it into the ring. *)
escape_copy_to_send(c, m) ==
  LET ring == Append([i \in DOMAIN c.tx |-> Old(c.tx[i])],
                     [msg |-> m, last |-> TRUE])
  IN  [c EXCEPT !.tx = IF Len(ring) > TxMax THEN Tail(ring) ELSE ring,
                !.wire = {Old(f) : f \in @}]

(* The frames given to the socket.  A dead connection carries none of them, *)
(* and the platform does not answer an answer.                              *)
HandOver(c, frames) ==
  [c EXCEPT !.tx = <<>>,
            !.wire = @ \cup {f \in ToSet(frames) :
                               c.session # "none" /\ f.msg # "rsp"}]

(* oa_soc_send_req.  ret counts the frames sent; it is 0 when the call did  *)
(* not send every byte of the ring: not online, blocked before, blocked     *)
(* now (the ring keeps the bytes), cut short or refused (it does not).      *)
oa_soc_send_req(c, F) ==
  IF c.state # "ONLINE" \/ c.is_blocksend \/ c.tx = <<>>
  THEN {[conn |-> c, ret |-> 0]}
  ELSE {[conn |-> HandOver(c, c.tx), ret |-> Len(c.tx)]}
       \cup If("block" \in F, {[conn |-> [c EXCEPT !.is_blocksend = TRUE], ret |-> 0]})
       \cup If("short" \in F, {[conn |-> HandOver(c, Front(c.tx)), ret |-> 0]})
       \cup If("send" \in F, {[conn |-> HandOver(c, <<>>), ret |-> 0]})

-----------------------------------------------------------------------------
(* Closing and connecting *)

(* Mutant: the release timer is not started. *)
ClosedForGood(c) ==
  [c EXCEPT !.state = "OFFLINE", !.can_connect = FALSE,
            !.is_blocksend = FALSE, !.session = "none", !.wire = {}]

(* The tail of oa_soc_close_req: the ring keeps what was not sent. *)
Closed(c) ==
  [c EXCEPT !.state = "OFFLINE", !.can_connect = FALSE, !.releasing = TRUE,
            !.is_blocksend = FALSE, !.session = "none", !.wire = {}]

oa_soc_close_req(c, F) ==
  IF c.state = "OFFLINE"
  THEN {[conn |-> c, ok |-> TRUE]}
  ELSE {[conn |-> Closed(c), ok |-> TRUE]}
       \cup If("close" \in F, {[conn |-> c, ok |-> FALSE]})

(* oa_soc_connect_req on an offline connection: the answer comes later, or  *)
(* at once.  "connect" is both a socket that cannot be created and a        *)
(* connect that is refused at once: oa_soc_close_req then returns before it *)
(* does anything, the state being OFFLINE.                                  *)
oa_soc_connect_req(c, F) ==
  {[c EXCEPT !.state = "CONNECT"]}
  \cup If("sync" \in F, {[c EXCEPT !.state = "ONLINE", !.session = "open"]})
  \cup If("connect" \in F, {c})

(* Mutant: can_connect is not looked at. *)
StateCheckEager(c, F) ==
  IF c.state = "OFFLINE"
  THEN oa_soc_connect_req([c EXCEPT !.can_connect = FALSE], F)
  ELSE {c}

oa_soc_state_check(c, F) ==
  IF c.state = "OFFLINE" /\ c.can_connect
  THEN oa_soc_connect_req([c EXCEPT !.can_connect = FALSE], F)
  ELSE {c}

oa_soc_can_reconnect_again(c) == [c EXCEPT !.can_connect = TRUE, !.releasing = FALSE]
=============================================================================
