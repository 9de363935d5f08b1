---------------------------- MODULE Queues_proofs ----------------------------
(***************************************************************************)
(* Proofs about the two queues of the drivers.                              *)
(*                                                                          *)
(* SmsQueue, for a heap of any size, any bound and any fault: no command is *)
(* dangling, a message being sent has at most one command, and without a    *)
(* timeout it ends by the answers to its own commands.                      *)
(*                                                                          *)
(* TxRing, for a buffer of any size and frames of any length.               *)
(***************************************************************************)
EXTENDS MCQueues, SequenceTheorems, TLAPS

-----------------------------------------------------------------------------
(* The commands for the modem *)

(* The list and the heap agree, but for the command at place x, which has   *)
(* left the list and is still in memory.                                    *)
Listed(v, x) ==
    /\ v \in S!At
    /\ v.cur # S!NULL => v.list # <<>> /\ v.cur = v.list[1]
    /\ \A a \in Addr : v.heap[a] # S!Free <=> a = x \/ \E i \in 1..Len(v.list) : v.list[i] = a
    /\ \A i \in 1..Len(v.list) : v.list[i] # x
    /\ \A i, j \in 1..Len(v.list) : v.list[i] = v.list[j] => i = j

Timed(v) == v.timer = v.cur

(* The command of a step of a message. *)
Cmd(step) == IF step = "format" THEN "cmgf" ELSE "cmgs"

Sends(v) == {i \in 1..Len(v.list) : v.heap[v.list[i]] \in S!SendKinds}

(* No message is past its first step but the one being sent. *)
Queued(v) ==
    /\ \A i \in 1..Len(v.sendq) : i # 1 \/ ~v.current => v.sendq[i] = "format"
    /\ v.current => v.sendq # <<>>

(* A command of a message is the one of the message being sent. *)
Sending(v) ==
    /\ Queued(v)
    /\ v.current => v.sendq[1] # "finish"
    /\ \A i \in Sends(v) :
          /\ v.current
          /\ v.heap[v.list[i]] = Cmd(v.sendq[1])
          /\ \A j \in Sends(v) : i = j

(* While no command has timed out the modem has at most the current command *)
(* to answer, and does not wait for the text of another.                    *)
Lone(v) ==
    "late" \notin v.seen =>
        /\ v.cur = S!NULL => v.modem = <<>>
        /\ v.cur # S!NULL /\ v.modem # <<>> =>
              /\ Len(v.modem) = 1
              /\ v.modem[1].kind = v.heap[v.cur]
              /\ v.modem[1].stage # "prompt"

(* The driver between two calls; x is the place of the command that is      *)
(* being finished, or NULL.                                                 *)
Whole(v, x) == Listed(v, x) /\ Timed(v) /\ Sending(v) /\ Lone(v)

(* What no call of AtQueue changes. *)
SameMessages(u, v) ==
    /\ u.sendq = v.sendq /\ u.current = v.current /\ u.recvq = v.recvq
    /\ u.first_valid = v.first_valid /\ v.seen \subseteq u.seen

(* A command is new in memory and last in the list, or none is. *)
Appended(u, v, kind) ==
    \/ u.heap = v.heap /\ u.list = v.list
    \/ /\ u.list # v.list /\ Len(u.list) = Len(v.list) + 1
       /\ \A i \in 1..Len(v.list) : /\ u.list[i] = v.list[i] /\ u.list[i] \in Addr
                                   /\ u.heap[u.list[i]] = v.heap[v.list[i]]
       /\ u.heap[u.list[Len(u.list)]] = kind

SmsIInv == Whole(w, S!NULL)

-----------------------------------------------------------------------------
(* The calls of AtQueue *)

LEMMA NoPlace ==
  ASSUME S!AtAssumption
  PROVE  S!NULL \notin Addr /\ MaxOut \in Nat /\ MaxOut # 0 /\ S!NULL # 0
  BY DEF S!AtAssumption, S!NULL

(* A command is pended: it is new in memory and last in the list, or there   *)
(* was no memory for it.                                                     *)
LEMMA PendListed ==
  ASSUME S!AtAssumption, NEW v, NEW x, Listed(v, x), NEW kind \in S!Kinds, NEW u \in S!CreateAndPend(v, kind)
  PROVE  /\ Listed(u, x) /\ SameMessages(u, v) /\ Appended(u, v, kind)
         /\ u.cur = v.cur /\ u.timer = v.timer /\ u.modem = v.modem
         /\ u.seen \subseteq v.seen \cup {"nomem"}
<1>1. /\ v \in S!At /\ v.heap \in [Addr -> S!Kinds \cup {S!Free}] /\ v.list \in Seq(Addr)
      /\ v.seen \in SUBSET {"uart", "nomem", "late"} /\ Len(v.list) \in Nat
  BY DEF Listed, S!At
<1>2. CASE u = [v EXCEPT !.seen = @ \cup {"nomem"}]
  <2>1. u \in S!At
    BY <1>1, <1>2 DEF S!At
  <2>2. /\ u.heap = v.heap /\ u.list = v.list /\ u.cur = v.cur /\ u.timer = v.timer /\ u.modem = v.modem
        /\ u.sendq = v.sendq /\ u.current = v.current /\ u.recvq = v.recvq
        /\ u.first_valid = v.first_valid /\ u.seen = v.seen \cup {"nomem"}
    BY <1>1, <1>2 DEF S!At
  <2> QED
    BY <2>1, <2>2 DEF Listed, SameMessages, Appended
<1>3. ASSUME NEW a \in S!FreePlaces(v), u = [v EXCEPT !.heap[a] = kind, !.list = Append(@, a)]
      PROVE  /\ Listed(u, x) /\ SameMessages(u, v) /\ Appended(u, v, kind)
             /\ u.cur = v.cur /\ u.timer = v.timer /\ u.modem = v.modem /\ u.seen = v.seen
  <2>1. a \in Addr /\ v.heap[a] = S!Free
    BY DEF S!FreePlaces
  <2>2. /\ u.heap = [v.heap EXCEPT ![a] = kind] /\ u.list = Append(v.list, a)
        /\ u.cur = v.cur /\ u.timer = v.timer /\ u.modem = v.modem
        /\ u.sendq = v.sendq /\ u.current = v.current /\ u.recvq = v.recvq
        /\ u.first_valid = v.first_valid /\ u.seen = v.seen
    BY <1>1, <1>3 DEF S!At
  <2>3. u.heap \in [Addr -> S!Kinds \cup {S!Free}] /\ u.list \in Seq(Addr)
    BY <1>1, <2>1, <2>2
  <2>4. u \in S!At
    BY <1>1, <1>3, <2>2, <2>3 DEF S!At
  <2>5. /\ Len(u.list) = Len(v.list) + 1 /\ u.list[Len(v.list) + 1] = a
        /\ \A i \in 1..Len(v.list) : u.list[i] = v.list[i] /\ u.list[i] \in Addr
    BY <1>1, <2>1, <2>2
  <2>6. /\ a # x /\ \A i \in 1..Len(v.list) : v.list[i] # a
    BY <1>1, <2>1 DEF Listed
  <2>7. \A b \in Addr : u.heap[b] # S!Free <=> b = x \/ \E i \in 1..Len(u.list) : u.list[i] = b
    <3>1. kind # S!Free
      BY DEF S!Kinds, S!Free
    <3>2. u.heap[a] = kind
      BY <1>1, <2>1, <2>2
    <3>3. \A b \in Addr : b # a => u.heap[b] = v.heap[b]
      BY <1>1, <2>1, <2>2
    <3>4. Len(u.list) \in 1..Len(u.list) /\ \A i \in 1..Len(v.list) : i \in 1..Len(u.list)
      BY <1>1, <2>5
    <3>5. \A i \in 1..Len(u.list) : i \in 1..Len(v.list) \/ i = Len(v.list) + 1
      BY <1>1, <2>5
    <3>6. ASSUME NEW b \in Addr, b # a
          PROVE  (\E i \in 1..Len(u.list) : u.list[i] = b) <=> (\E i \in 1..Len(v.list) : v.list[i] = b)
      BY <2>5, <3>4, <3>5, <3>6
    <3>7. \A b \in Addr : b # a => (u.heap[b] # S!Free <=> b = x \/ \E i \in 1..Len(u.list) : u.list[i] = b)
      BY <3>3, <3>6 DEF Listed
    <3>8. u.heap[a] # S!Free /\ \E i \in 1..Len(u.list) : u.list[i] = a
      BY <2>5, <3>1, <3>2, <3>4
    <3> QED
      BY <3>7, <3>8
  <2>8. \A i \in 1..Len(u.list) : u.list[i] # x
    BY <1>1, <2>5, <2>6 DEF Listed
  <2>9. \A i, j \in 1..Len(u.list) : u.list[i] = u.list[j] => i = j
    <3> SUFFICES ASSUME NEW i \in 1..Len(u.list), NEW j \in 1..Len(u.list), u.list[i] = u.list[j]
                 PROVE  i = j
      OBVIOUS
    <3>1. /\ i \in 1..Len(v.list) \/ i = Len(v.list) + 1
          /\ j \in 1..Len(v.list) \/ j = Len(v.list) + 1
      BY <1>1, <2>5
    <3>2. i \in 1..Len(v.list) /\ j \in 1..Len(v.list) => v.list[i] = v.list[j]
      BY <2>5
    <3>3. i \in 1..Len(v.list) /\ j \in 1..Len(v.list) => i = j
      BY <3>2 DEF Listed
    <3> QED
      BY <2>5, <2>6, <3>1, <3>3
  <2>10. u.cur # S!NULL => u.list # <<>> /\ u.cur = u.list[1]
    BY <1>1, <2>2, <2>5 DEF Listed
  <2>11. \A i \in 1..Len(v.list) : u.heap[u.list[i]] = v.heap[v.list[i]]
    BY <1>1, <2>1, <2>2, <2>5, <2>6
  <2>12. u.heap[u.list[Len(u.list)]] = kind
    BY <1>1, <2>1, <2>2, <2>5
  <2>13. Listed(u, x)
    BY <2>4, <2>7, <2>8, <2>9, <2>10 DEF Listed
  <2>14. u.list # v.list
    BY <1>1, <2>5
  <2> QED
    BY <2>2, <2>5, <2>11, <2>12, <2>13, <2>14 DEF SameMessages, Appended
<1>4. CASE S!FreePlaces(v) # {} /\ u = [v EXCEPT !.heap[CHOOSE p \in S!FreePlaces(v) : TRUE] = kind,
                                        !.list = Append(@, CHOOSE p \in S!FreePlaces(v) : TRUE)]
  <2> DEFINE a == CHOOSE p \in S!FreePlaces(v) : TRUE
  <2>1. a \in S!FreePlaces(v)
    BY <1>4
  <2>2. u = [v EXCEPT !.heap[a] = kind, !.list = Append(@, a)]
    BY <1>4
  <2> HIDE DEF a
  <2> QED
    BY <1>3, <2>1, <2>2
<1> QED
  BY <1>2, <1>4 DEF S!CreateAndPend

LEMMA PendWhole ==
  ASSUME S!AtAssumption, NEW v, NEW x, Whole(v, x), NEW kind \in S!Kinds,
         kind \in S!SendKinds => v.current /\ kind = Cmd(v.sendq[1]) /\ Sends(v) = {},
         NEW u \in S!CreateAndPend(v, kind)
  PROVE  Whole(u, x) /\ SameMessages(u, v) /\ Appended(u, v, kind)
<1>1. /\ Listed(u, x) /\ SameMessages(u, v) /\ Appended(u, v, kind)
      /\ u.cur = v.cur /\ u.timer = v.timer /\ u.modem = v.modem
      /\ u.seen \subseteq v.seen \cup {"nomem"}
  BY PendListed DEF Whole
<1>2. v.list \in Seq(Addr) /\ Len(v.list) \in Nat
  BY DEF Whole, Listed, S!At
<1>3. Timed(u)
  BY <1>1 DEF Whole, Timed
<1>4. Queued(u)
  BY <1>1 DEF Whole, Sending, Queued, SameMessages
<1>5. CASE u.heap = v.heap /\ u.list = v.list
  <2>1. Sending(u)
    BY <1>1, <1>4, <1>5 DEF Whole, Sending, Sends, SameMessages
  <2>2. Lone(u)
    BY <1>1, <1>5 DEF Whole, Lone, SameMessages
  <2> QED
    BY <1>1, <1>3, <2>1, <2>2 DEF Whole
<1>6. CASE /\ Len(u.list) = Len(v.list) + 1
           /\ \A i \in 1..Len(v.list) : /\ u.list[i] = v.list[i]
                                       /\ u.heap[u.list[i]] = v.heap[v.list[i]]
           /\ u.heap[u.list[Len(u.list)]] = kind
  <2>1. \A i \in Sends(u) : i \in Sends(v) \/ (i = Len(u.list) /\ kind \in S!SendKinds)
    BY <1>2, <1>6 DEF Sends
  <2>2. Sending(u)
    <3>1. CASE kind \in S!SendKinds
      BY <1>1, <1>4, <1>6, <2>1, <3>1 DEF Whole, Sending, SameMessages
    <3>2. CASE kind \notin S!SendKinds
      <4>1. \A i \in Sends(u) : i \in Sends(v) /\ u.heap[u.list[i]] = v.heap[v.list[i]]
        BY <1>6, <2>1, <3>2 DEF Sends
      <4> QED
        BY <1>1, <1>4, <4>1 DEF Whole, Sending, SameMessages
    <3> QED
      BY <3>1, <3>2
  <2>3. u.cur # S!NULL => u.heap[u.cur] = v.heap[v.cur]
    <3> SUFFICES ASSUME v.cur # S!NULL PROVE u.heap[v.cur] = v.heap[v.cur]
      BY <1>1
    <3>1. v.list # <<>> /\ v.cur = v.list[1]
      BY DEF Whole, Listed
    <3>2. 1 \in 1..Len(v.list)
      BY <1>2, <3>1
    <3>3. u.list[1] = v.list[1] /\ u.heap[u.list[1]] = v.heap[v.list[1]]
      BY <1>6, <3>2
    <3> QED
      BY <3>1, <3>3
  <2>4. Lone(u)
    BY <1>1, <2>3 DEF Whole, Lone, SameMessages
  <2> QED
    BY <1>1, <1>3, <2>2, <2>4 DEF Whole
<1> QED
  BY <1>1, <1>5, <1>6 DEF Appended

(* The first command of the list goes to the modem, or nothing does. *)
LEMMA SubmitWhole ==
  ASSUME S!AtAssumption, NEW v, NEW x, Whole(v, x), NEW u \in S!oa_at_submit(v)
  PROVE  Whole(u, x) /\ SameMessages(u, v) /\ u.heap = v.heap /\ u.list = v.list
<1>1. /\ v \in S!At /\ v.heap \in [Addr -> S!Kinds \cup {S!Free}] /\ v.list \in Seq(Addr)
      /\ v.seen \in SUBSET {"uart", "nomem", "late"} /\ Len(v.list) \in Nat
      /\ v.modem \in Seq(S!Request) /\ v.cur \in Addr \cup {S!NULL}
  BY DEF Whole, Listed, S!At
<1>2. CASE u = v
  BY <1>2 DEF SameMessages
<1>3. CASE u = [v EXCEPT !.seen = @ \cup {"uart"}]
  <2>1. /\ u \in S!At /\ u.heap = v.heap /\ u.list = v.list /\ u.cur = v.cur /\ u.timer = v.timer
        /\ u.modem = v.modem /\ u.sendq = v.sendq /\ u.current = v.current /\ u.recvq = v.recvq
        /\ u.first_valid = v.first_valid /\ u.seen = v.seen \cup {"uart"}
    BY <1>1, <1>3 DEF S!At
  <2> QED
    BY <2>1 DEF Whole, Listed, Timed, Sending, Sends, Queued, Lone, SameMessages
<1>4. CASE v.cur = S!NULL /\ v.list # <<>> /\ u = S!Executing(v, Head(v.list))
  <2> DEFINE a == v.list[1]
  <2>1. a \in Addr /\ Head(v.list) = a /\ v.heap[a] \in S!Kinds \cup {S!Free}
    BY <1>1, <1>4
  <2>2. v.heap[a] \in S!Kinds
    BY <1>1, <1>4, <2>1 DEF Whole, Listed
  <2>3. /\ u.heap = v.heap /\ u.list = v.list /\ u.cur = a /\ u.timer = a
        /\ u.modem = S!Delivered(v.modem, v.heap[a]) /\ u.sendq = v.sendq /\ u.current = v.current
        /\ u.recvq = v.recvq /\ u.first_valid = v.first_valid /\ u.seen = v.seen
    BY <1>1, <1>4, <2>1 DEF S!At, S!Executing
  <2>4. S!Delivered(v.modem, v.heap[a]) \in Seq(S!Request)
    <3>1. [kind |-> v.heap[a], stage |-> "new"] \in S!Request
      BY <2>2 DEF S!Request, S!Stages
    <3> QED
      BY <1>1, <3>1, NoPlace DEF S!Delivered
  <2>5. u \in S!At
    BY <1>1, <1>4, <2>1, <2>4 DEF S!At, S!Executing
  <2>6. Listed(u, x)
    BY <1>1, <1>4, <2>3, <2>5 DEF Whole, Listed
  <2>7. Sending(u)
    BY <2>3 DEF Whole, Sending, Queued, Sends
  <2>8. Lone(u)
    <3> SUFFICES ASSUME "late" \notin v.seen
                 PROVE  /\ Len(u.modem) = 1 /\ u.modem[1].kind = v.heap[a]
                        /\ u.modem[1].stage # "prompt"
      BY <2>1, <2>3, NoPlace DEF Lone
    <3>1. v.modem = <<>>
      BY <1>4 DEF Whole, Lone
    <3>2. u.modem = <<[kind |-> v.heap[a], stage |-> "new"]>>
      BY <2>3, <3>1, NoPlace DEF S!Delivered, S!InText
    <3> QED
      BY <3>2
  <2> QED
    BY <2>3, <2>6, <2>7, <2>8 DEF Whole, Timed, SameMessages
<1> QED
  BY <1>2, <1>3, <1>4 DEF S!oa_at_submit, S!oa_at_busy

LEMMA PendAndSubmitWhole ==
  ASSUME S!AtAssumption, NEW v, NEW x, Whole(v, x), NEW kind \in S!Kinds,
         kind \in S!SendKinds => v.current /\ kind = Cmd(v.sendq[1]) /\ Sends(v) = {},
         NEW u \in S!PendAndSubmit(v, kind)
  PROVE  Whole(u, x) /\ SameMessages(u, v)
<1>1. PICK p \in S!CreateAndPend(v, kind) : u = p \/ u \in S!oa_at_submit(p)
  BY DEF S!PendAndSubmit
<1>2. Whole(p, x) /\ SameMessages(p, v)
  BY PendWhole
<1> QED
  BY <1>1, <1>2, SubmitWhole DEF SameMessages

-----------------------------------------------------------------------------
(* The state machines of the messages *)

(* The message being sent takes its next step, its last command being gone. *)
LEMMA SendMachineWhole ==
  ASSUME S!AtAssumption, NEW v, NEW x, Listed(v, x), Timed(v), Lone(v), Queued(v), Sends(v) = {},
         NEW u \in S!oa_send_sms_state_machine(v)
  PROVE  /\ Whole(u, x) /\ v.seen \subseteq u.seen /\ u.first_valid = v.first_valid
         /\ (v.current /\ v.sendq[1] = "finish") \/ u.sendq = v.sendq
<1>1. v \in S!At /\ v.sendq \in Seq({"format", "pdu", "finish"}) /\ Len(v.sendq) \in Nat
  BY DEF Listed, S!At
<1>2. CASE ~v.current
  <2>1. u = v
    BY <1>2 DEF S!oa_send_sms_state_machine
  <2> QED
    BY <1>2, <2>1 DEF Whole, Sending
<1>3. CASE v.current /\ v.sendq[1] = "finish"
  <2>1. v.sendq # <<>> /\ Head(v.sendq) = "finish"
    BY <1>1, <1>3 DEF Queued
  <2>2. u = [v EXCEPT !.sendq = Tail(@), !.current = FALSE]
    BY <1>3, <2>1 DEF S!oa_send_sms_state_machine
  <2>3. /\ u.heap = v.heap /\ u.list = v.list /\ u.cur = v.cur /\ u.timer = v.timer
        /\ u.modem = v.modem /\ u.sendq = Tail(v.sendq) /\ u.current = FALSE /\ u.recvq = v.recvq
        /\ u.first_valid = v.first_valid /\ u.seen = v.seen
    BY <1>1, <2>2 DEF S!At
  <2>4. Tail(v.sendq) \in Seq({"format", "pdu", "finish"})
    BY <1>1, <2>1
  <2>5. u \in S!At
    BY <1>1, <2>2, <2>4 DEF S!At
  <2>6. \A i \in 1..Len(u.sendq) : u.sendq[i] = "format"
    BY <1>1, <2>1, <2>3 DEF Queued
  <2>7. Listed(u, x) /\ Timed(u) /\ Lone(u)
    BY <2>3, <2>5 DEF Listed, Timed, Lone
  <2>8. Sending(u)
    BY <2>3, <2>6 DEF Sending, Queued, Sends
  <2> QED
    BY <1>3, <2>3, <2>7, <2>8 DEF Whole
<1>4. CASE v.current /\ v.sendq[1] \in {"format", "pdu"}
  <2>1. v.sendq # <<>> /\ Head(v.sendq) = v.sendq[1]
    BY <1>1, <1>4 DEF Queued
  <2>2. Cmd(v.sendq[1]) \in S!SendKinds \cap S!Kinds
    BY DEF Cmd, S!SendKinds, S!Kinds
  <2>3. u \in S!PendAndSubmit(v, Cmd(v.sendq[1]))
    BY <1>4, <2>1 DEF S!oa_send_sms_state_machine, Cmd
  <2>4. Whole(v, x)
    BY <1>4 DEF Whole, Sending
  <2> QED
    BY <1>4, <2>2, <2>3, <2>4, PendAndSubmitWhole DEF SameMessages
<1> QED
  BY <1>1, <1>2, <1>3, <1>4 DEF Queued

LEMMA SendCallbackWhole ==
  ASSUME S!AtAssumption, NEW v, NEW x, Whole(v, x), v.current, Sends(v) = {}, NEW ret,
         NEW u \in S!oa_send_sms_callback(v, ret)
  PROVE  Whole(u, x) /\ v.seen \subseteq u.seen /\ u.first_valid = v.first_valid
<1> DEFINE next == IF ret = "ok" /\ Head(v.sendq) = "format" THEN "pdu" ELSE "finish"
           n == [v EXCEPT !.sendq[1] = next]
<1>1. v \in S!At /\ v.sendq \in Seq({"format", "pdu", "finish"}) /\ v.sendq # <<>>
  BY DEF Whole, Listed, S!At, Sending, Queued
<1>2. u \in S!oa_send_sms_state_machine(n)
  BY DEF S!oa_send_sms_callback
<1>3. next \in {"format", "pdu", "finish"}
  OBVIOUS
<1> HIDE DEF next
<1>4. /\ n.heap = v.heap /\ n.list = v.list /\ n.cur = v.cur /\ n.timer = v.timer
      /\ n.modem = v.modem /\ n.sendq = [v.sendq EXCEPT ![1] = next] /\ n.current = v.current
      /\ n.recvq = v.recvq /\ n.first_valid = v.first_valid /\ n.seen = v.seen
  BY <1>1 DEF S!At
<1>5. [v.sendq EXCEPT ![1] = next] \in Seq({"format", "pdu", "finish"})
  BY <1>1, <1>3
<1>6. n \in S!At
  BY <1>1, <1>5 DEF S!At
<1> HIDE DEF n
<1>7. Listed(n, x) /\ Timed(n) /\ Lone(n)
  BY <1>4, <1>6 DEF Whole, Listed, Timed, Lone
<1>8. Len(n.sendq) = Len(v.sendq) /\ \A i \in 1..Len(v.sendq) : i # 1 => n.sendq[i] = v.sendq[i]
  BY <1>1, <1>4
<1>9. Queued(n)
  BY <1>1, <1>4, <1>8 DEF Whole, Sending, Queued
<1>10. Sends(n) = {}
  BY <1>4 DEF Sends
<1> QED
  BY <1>2, <1>4, <1>7, <1>9, <1>10, SendMachineWhole

(* The messages announced have commands that are not those of the messages sent. *)
LEMMA RecvMachineWhole ==
  ASSUME S!AtAssumption, NEW v, NEW x, Whole(v, x), NEW u \in S!oa_recv_sms_state_machine(v)
  PROVE  /\ Whole(u, x) /\ v.seen \subseteq u.seen /\ u.first_valid = v.first_valid
         /\ u.sendq = v.sendq
<1>1. "cmgr" \in S!Kinds \ S!SendKinds /\ "cmgd" \in S!Kinds \ S!SendKinds
  BY DEF S!Kinds, S!SendKinds
<1>2. v.recvq \in Seq({"read", "store"})
  BY DEF Whole, Listed, S!At
<1>3. v.recvq # <<>> => Head(v.recvq) = "read" \/ Head(v.recvq) = "store"
  BY <1>2
<1>4. u = v \/ u \in S!PendAndSubmit(v, "cmgr") \/ u \in S!PendAndSubmit(v, "cmgd")
  BY <1>3 DEF S!oa_recv_sms_state_machine
<1> QED
  BY <1>1, <1>4, PendAndSubmitWhole DEF SameMessages

LEMMA RecvCallbackWhole ==
  ASSUME S!AtAssumption, NEW v, NEW x, Whole(v, x), NEW ret, NEW u \in S!oa_recv_sms_callback(v, ret)
  PROVE  /\ Whole(u, x) /\ v.seen \subseteq u.seen /\ u.first_valid = v.first_valid
         /\ u.sendq = v.sendq
<1>1. v \in S!At /\ v.recvq \in Seq({"read", "store"})
  BY DEF Whole, Listed, S!At
<1>2. CASE ret # "ok"
  BY <1>2 DEF S!oa_recv_sms_callback
<1>3. CASE ret = "ok"
  <2> DEFINE next == CASE v.recvq = <<>> -> <<>>
                       [] v.recvq # <<>> /\ Head(v.recvq) = "read"  -> <<"store">> \o Tail(v.recvq)
                       [] v.recvq # <<>> /\ Head(v.recvq) = "store" -> Tail(v.recvq)
             n == [v EXCEPT !.recvq = next]
  <2>1. u \in S!oa_recv_sms_state_machine(n)
    BY <1>3 DEF S!oa_recv_sms_callback
  <2>2. next \in Seq({"read", "store"})
    <3>1. CASE v.recvq = <<>>
      BY <3>1
    <3>2. CASE v.recvq # <<>> /\ Head(v.recvq) = "read"
      <4>1. next = <<"store">> \o Tail(v.recvq)
        BY <3>2
      <4>2. Tail(v.recvq) \in Seq({"read", "store"}) /\ <<"store">> \in Seq({"read", "store"})
        BY <1>1, <3>2
      <4> QED
        BY <4>1, <4>2, ConcatProperties
    <3>3. CASE v.recvq # <<>> /\ Head(v.recvq) = "store"
      BY <1>1, <3>3
    <3>4. v.recvq # <<>> => Head(v.recvq) = "read" \/ Head(v.recvq) = "store"
      BY <1>1
    <3> QED
      BY <3>1, <3>2, <3>3, <3>4
  <2> HIDE DEF next
  <2>3. /\ n \in S!At /\ n.heap = v.heap /\ n.list = v.list /\ n.cur = v.cur /\ n.timer = v.timer
        /\ n.modem = v.modem /\ n.sendq = v.sendq /\ n.current = v.current
        /\ n.first_valid = v.first_valid /\ n.seen = v.seen
    BY <1>1, <2>2 DEF S!At
  <2> HIDE DEF n
  <2>4. Whole(n, x)
    BY <2>3 DEF Whole, Listed, Timed, Sending, Sends, Queued, Lone
  <2> QED
    BY <2>1, <2>3, <2>4, RecvMachineWhole
<1> QED
  BY <1>2, <1>3

LEMMA CallbackWhole ==
  ASSUME S!AtAssumption, NEW v, NEW a, Whole(v, a), NEW ret, NEW u \in S!Callback(v, a, ret),
         v.heap[a] \in S!SendKinds => v.current /\ Sends(v) = {}
  PROVE  /\ Whole(u, a) /\ v.seen \subseteq u.seen /\ u.first_valid = v.first_valid
         /\ v.heap[a] \notin S!SendKinds => u.sendq = v.sendq
<1>1. CASE v.heap[a] \in S!SendKinds
  <2>1. v.heap[a] \notin S!RecvKinds
    BY <1>1 DEF S!SendKinds, S!RecvKinds
  <2>2. u \in S!oa_send_sms_callback(v, ret)
    BY <1>1, <2>1 DEF S!Callback
  <2> QED
    BY <1>1, <2>2, SendCallbackWhole
<1>2. CASE v.heap[a] \in S!RecvKinds
  <2>1. v.heap[a] \notin S!SendKinds
    BY <1>2 DEF S!SendKinds, S!RecvKinds
  <2> QED
    BY <1>2, <2>1, RecvCallbackWhole DEF S!Callback
<1>3. CASE v.heap[a] \notin S!SendKinds \cup S!RecvKinds
  BY <1>3 DEF S!Callback
<1> QED
  BY <1>1, <1>2, <1>3

-----------------------------------------------------------------------------
(* The end of a command *)

(* The current command leaves the list and stays in memory for its callback. *)
LEMMA UnlinkedWhole ==
  ASSUME S!AtAssumption, NEW v, NEW a \in Addr, Listed(v, S!NULL), Sending(v), v.cur = a,
         "late" \notin v.seen => v.modem = <<>>
  PROVE  /\ Whole(S!Unlinked(v, a), a) /\ SameMessages(S!Unlinked(v, a), v) /\ S!Unlinked(v, a).heap = v.heap
         /\ v.heap[a] \in S!SendKinds =>
               v.current /\ v.heap[a] = Cmd(v.sendq[1]) /\ Sends(S!Unlinked(v, a)) = {}
<1> DEFINE n == S!Unlinked(v, a)
<1>1. v \in S!At /\ v.list \in Seq(Addr) /\ Len(v.list) \in Nat /\ a # S!NULL
  BY NoPlace DEF Listed, S!At
<1>2. v.list # <<>> /\ v.list[1] = a /\ Head(v.list) = a
  BY <1>1 DEF Listed
<1>3. /\ n.heap = v.heap /\ n.list = Tail(v.list) /\ n.cur = S!NULL /\ n.timer = S!NULL
      /\ n.modem = v.modem /\ n.sendq = v.sendq /\ n.current = v.current /\ n.recvq = v.recvq
      /\ n.first_valid = v.first_valid /\ n.seen = v.seen
  BY <1>1, <1>2 DEF S!At, S!Unlinked
<1>4. Tail(v.list) \in Seq(Addr)
  BY <1>1, <1>2
<1>5. n \in S!At
  BY <1>1, <1>2, <1>4 DEF S!At, S!Unlinked
<1> HIDE DEF n
<1>6. Len(n.list) = Len(v.list) - 1 /\ \A i \in 1..Len(n.list) : n.list[i] = v.list[i + 1]
  BY <1>1, <1>2, <1>3
<1>7. /\ \A i \in 1..Len(n.list) : i + 1 \in 1..Len(v.list) /\ i + 1 # 1
      /\ \A i \in 1..Len(v.list) : i = 1 \/ (i - 1 \in 1..Len(n.list) /\ n.list[i - 1] = v.list[i])
  BY <1>1, <1>6
<1>8. \A i \in 1..Len(n.list) : n.list[i] # a
  BY <1>1, <1>2, <1>6, <1>7 DEF Listed
<1>9. \A i, j \in 1..Len(n.list) : n.list[i] = n.list[j] => i = j
  <2> SUFFICES ASSUME NEW i \in 1..Len(n.list), NEW j \in 1..Len(n.list), n.list[i] = n.list[j]
               PROVE  i = j
    OBVIOUS
  <2>1. i + 1 = j + 1
    BY <1>6, <1>7 DEF Listed
  <2> QED
    BY <2>1
<1>10. \A b \in Addr : n.heap[b] # S!Free <=> b = a \/ \E i \in 1..Len(n.list) : n.list[i] = b
  <2> SUFFICES ASSUME NEW b \in Addr
               PROVE  (\E i \in 1..Len(v.list) : v.list[i] = b)
                        <=> b = a \/ \E i \in 1..Len(n.list) : n.list[i] = b
    BY <1>1, <1>3, NoPlace DEF Listed
  <2>1. 1 \in 1..Len(v.list)
    BY <1>1, <1>2
  <2>2. ASSUME NEW i \in 1..Len(v.list), v.list[i] = b, b # a
        PROVE  \E j \in 1..Len(n.list) : n.list[j] = b
    <3>1. i - 1 \in 1..Len(n.list) /\ n.list[i - 1] = b
      BY <1>2, <1>7, <2>2
    <3> QED
      BY <3>1
  <2>3. ASSUME NEW i \in 1..Len(n.list), n.list[i] = b
        PROVE  \E j \in 1..Len(v.list) : v.list[j] = b
    <3>1. i + 1 \in 1..Len(v.list) /\ v.list[i + 1] = b
      BY <1>6, <1>7, <2>3
    <3> QED
      BY <3>1
  <2>4. b = a => \E j \in 1..Len(v.list) : v.list[j] = b
    BY <1>2, <2>1
  <2> QED
    BY <2>2, <2>3, <2>4
<1>11. Listed(n, a)
  BY <1>3, <1>5, <1>8, <1>9, <1>10 DEF Listed
<1>12. \A i \in Sends(n) : i + 1 \in Sends(v) /\ i + 1 # 1
  BY <1>3, <1>6, <1>7 DEF Sends
<1>13. Sending(n)
  <2>1. \A i \in Sends(n) : n.heap[n.list[i]] = v.heap[v.list[i + 1]]
    BY <1>3, <1>6 DEF Sends
  <2>2. \A i \in Sends(n) : /\ n.current
                            /\ n.heap[n.list[i]] = Cmd(n.sendq[1])
    BY <1>3, <1>12, <2>1 DEF Sending
  <2>3. ASSUME NEW i \in Sends(n), NEW j \in Sends(n)
        PROVE  i = j
    <3>1. i + 1 = j + 1
      BY <1>12 DEF Sending
    <3> QED
      BY <3>1 DEF Sends
  <2> QED
    BY <1>3, <2>2, <2>3 DEF Sending, Queued
<1>14. ASSUME v.heap[a] \in S!SendKinds
       PROVE  v.current /\ v.heap[a] = Cmd(v.sendq[1]) /\ Sends(n) = {}
  <2>1. 1 \in Sends(v)
    BY <1>1, <1>2, <1>14 DEF Sends
  <2> QED
    BY <1>2, <1>12, <2>1 DEF Sending
<1>15. Lone(n) /\ Timed(n)
  BY <1>3 DEF Lone, Timed
<1> QED
  BY <1>3, <1>11, <1>13, <1>14, <1>15 DEF Whole, SameMessages, n

(* A command that has been finished is freed; no one else has it. *)
LEMMA DeleteWhole ==
  ASSUME S!AtAssumption, NEW v, NEW a \in Addr, Whole(v, a)
  PROVE  Whole(S!oa_at_delete_cmd(v, a), S!NULL) /\ SameMessages(S!oa_at_delete_cmd(v, a), v)
<1> DEFINE n == S!oa_at_delete_cmd(v, a)
<1>1. v \in S!At /\ v.heap \in [Addr -> S!Kinds \cup {S!Free}] /\ v.list \in Seq(Addr) /\ Len(v.list) \in Nat
  BY DEF Whole, Listed, S!At
<1>2. /\ n.heap = [v.heap EXCEPT ![a] = S!Free] /\ n.list = v.list /\ n.cur = v.cur /\ n.timer = v.timer
      /\ n.modem = v.modem /\ n.sendq = v.sendq /\ n.current = v.current /\ n.recvq = v.recvq
      /\ n.first_valid = v.first_valid /\ n.seen = v.seen
  BY <1>1 DEF S!At, S!oa_at_delete_cmd
<1>3. [v.heap EXCEPT ![a] = S!Free] \in [Addr -> S!Kinds \cup {S!Free}]
  BY <1>1
<1>4. n \in S!At
  BY <1>1, <1>3 DEF S!At, S!oa_at_delete_cmd
<1> HIDE DEF n
<1>5. n.heap[a] = S!Free /\ \A b \in Addr : b # a => n.heap[b] = v.heap[b]
  BY <1>1, <1>2
<1>6. \A i \in 1..Len(v.list) : v.list[i] \in Addr /\ v.list[i] # a /\ v.list[i] # S!NULL
  BY <1>1, NoPlace DEF Whole, Listed
<1>7. \A i \in 1..Len(v.list) : n.heap[v.list[i]] = v.heap[v.list[i]]
  BY <1>5, <1>6
<1>8. \A b \in Addr : n.heap[b] # S!Free <=> b = S!NULL \/ \E i \in 1..Len(n.list) : n.list[i] = b
  BY <1>2, <1>5, <1>6, NoPlace DEF Whole, Listed
<1>9. Listed(n, S!NULL)
  BY <1>2, <1>4, <1>6, <1>8 DEF Whole, Listed
<1>10. Sends(n) = Sends(v)
  BY <1>2, <1>7 DEF Sends
<1>11. Sending(n)
  BY <1>2, <1>7, <1>10 DEF Whole, Sending, Queued, Sends
<1>12. v.cur # S!NULL => n.heap[n.cur] = v.heap[v.cur]
  BY <1>1, <1>2, <1>7 DEF Whole, Listed
<1>13. Lone(n)
  BY <1>2, <1>12 DEF Whole, Lone
<1> QED
  BY <1>2, <1>9, <1>11, <1>13 DEF Whole, Timed, SameMessages, n

(* What a message loses, it loses to a command of its own. *)
LEMMA FinishWhole ==
  ASSUME S!AtAssumption, NEW v, NEW a \in Addr, Listed(v, S!NULL), Sending(v), v.cur = a,
         "late" \notin v.seen => v.modem = <<>>,
         NEW ret, NEW u \in S!oa_at_finish_cmd(v, a, ret)
  PROVE  /\ Whole(u, S!NULL) /\ v.seen \subseteq u.seen /\ u.first_valid = v.first_valid
         /\ u.sendq = v.sendq \/ (v.current /\ v.heap[a] = Cmd(v.sendq[1]))
<1>1. PICK s \in S!oa_at_submit(S!Unlinked(v, a)) :
        \E c \in S!Callback(s, a, ret) : u = S!oa_at_delete_cmd(c, a)
  BY DEF S!oa_at_finish_cmd
<1>2. PICK c \in S!Callback(s, a, ret) : u = S!oa_at_delete_cmd(c, a)
  BY <1>1
<1>3. /\ Whole(s, a) /\ SameMessages(s, S!Unlinked(v, a)) /\ s.heap = S!Unlinked(v, a).heap
      /\ s.list = S!Unlinked(v, a).list
  BY UnlinkedWhole, SubmitWhole
<1>4. Sends(s) = Sends(S!Unlinked(v, a))
  BY <1>3 DEF Sends
<1>5. /\ s.heap = v.heap /\ SameMessages(s, v)
      /\ s.heap[a] \in S!SendKinds => s.current /\ Sends(s) = {} /\ v.heap[a] = Cmd(v.sendq[1])
  <2>1. /\ SameMessages(S!Unlinked(v, a), v) /\ S!Unlinked(v, a).heap = v.heap
        /\ v.heap[a] \in S!SendKinds =>
              v.current /\ v.heap[a] = Cmd(v.sendq[1]) /\ Sends(S!Unlinked(v, a)) = {}
    BY UnlinkedWhole
  <2> QED
    BY <1>3, <1>4, <2>1 DEF SameMessages
<1>6. /\ Whole(c, a) /\ s.seen \subseteq c.seen /\ c.first_valid = s.first_valid
      /\ s.heap[a] \notin S!SendKinds => c.sendq = s.sendq
  BY <1>3, <1>5, CallbackWhole
<1> QED
  BY <1>2, <1>5, <1>6, DeleteWhole DEF SameMessages

-----------------------------------------------------------------------------
(* The handlers *)

(* A step that takes the message being sent off the list, without a timeout  *)
(* so far, has the answer to its command.                                    *)
TakenByAnswer ==
    /\ w.sendq # <<>>
    /\ w'.sendq = Tail(w.sendq)
    /\ "late" \notin w'.seen
    => /\ w.modem # <<>>
       /\ Head(w.modem).kind = IF Head(w.sendq) = "format" THEN "cmgf" ELSE "cmgs"

Kept == SmsIInv' /\ TakenByAnswer

LEMMA NoneTaken ==
  ASSUME SmsIInv, w'.sendq = w.sendq
  PROVE  TakenByAnswer
<1>1. w.sendq \in Seq({"format", "pdu", "finish"})
  BY DEF SmsIInv, Whole, Listed, S!At
<1>2. w.sendq # <<>> => Len(Tail(w.sendq)) # Len(w.sendq)
  BY <1>1
<1> QED
  BY <1>2 DEF TakenByAnswer

LEMMA InitWhole ==
  ASSUME S!AtAssumption, S!Init
  PROVE  SmsIInv
<1>1. /\ w.heap = [a \in Addr |-> S!Free] /\ w.list = <<>> /\ w.cur = S!NULL /\ w.timer = S!NULL
      /\ w.modem = <<>> /\ w.sendq = <<>> /\ w.current = FALSE /\ w.recvq = <<>>
      /\ w.first_valid = FALSE /\ w.seen = {}
  BY DEF S!Init, S!Fresh
<1>2. w \in S!At
  BY DEF S!Init, S!Fresh, S!At
<1>3. Len(w.list) = 0 /\ Len(w.sendq) = 0
  BY <1>1
<1>4. Sends(w) = {}
  BY <1>3 DEF Sends
<1>5. Listed(w, S!NULL)
  BY <1>1, <1>2, <1>3, NoPlace DEF Listed
<1> QED
  BY <1>1, <1>3, <1>4, <1>5 DEF SmsIInv, Whole, Timed, Sending, Queued, Lone

LEMMA AlsoDemoWhole ==
  ASSUME S!AtAssumption, NEW q, NEW V, \A v \in V : Whole(v, S!NULL) /\ v.sendq = q
  PROVE  \A u \in S!AlsoDemo(V) : Whole(u, S!NULL) /\ u.sendq = q
<1> SUFFICES ASSUME NEW v \in V, NEW u \in S!CreateAndPend(v, "demo")
             PROVE  Whole(u, S!NULL) /\ u.sendq = q
  BY DEF S!AlsoDemo
<1>1. "demo" \in S!Kinds /\ "demo" \notin S!SendKinds
  BY DEF S!Kinds, S!SendKinds
<1> QED
  BY <1>1, PendWhole DEF SameMessages

LEMMA SetupKept ==
  ASSUME S!AtAssumption, S!SetupAssumption, SmsIInv, S!oa_sms_initial_by_at_cmd
  PROVE  Kept
<1> DEFINE n == [w EXCEPT !.first_valid = TRUE]
           one == S!AlsoDemo({n})
           two == S!AlsoDemo(one)
           three == S!AlsoDemo(two)
           four == S!AlsoDemo(three)
           Fine(V) == \A v \in V : Whole(v, S!NULL) /\ v.sendq = w.sendq
<1>1. Fine({n})
  <2>1. w \in S!At
    BY DEF SmsIInv, Whole, Listed
  <2>2. /\ n \in S!At /\ n.heap = w.heap /\ n.list = w.list /\ n.cur = w.cur /\ n.timer = w.timer
        /\ n.modem = w.modem /\ n.sendq = w.sendq /\ n.current = w.current /\ n.seen = w.seen
    BY <2>1 DEF S!At
  <2> HIDE DEF n
  <2> QED
    BY <2>2 DEF SmsIInv, Whole, Listed, Timed, Sending, Sends, Queued, Lone
<1> HIDE DEF n
<1>2. Fine(one)
  BY <1>1, AlsoDemoWhole
<1> HIDE DEF one
<1>3. Fine(two)
  BY <1>2, AlsoDemoWhole
<1> HIDE DEF two
<1>4. Fine(three)
  BY <1>3, AlsoDemoWhole
<1> HIDE DEF three
<1>5. Fine(four)
  BY <1>4, AlsoDemoWhole
<1>6. PICK v \in <<one, two, three, four>>[Setup] : w' \in S!oa_at_submit(v)
  BY DEF S!oa_sms_initial_by_at_cmd, n, one, two, three
<1> HIDE DEF four
<1>7. v \in one \cup two \cup three \cup four
  BY <1>6 DEF S!SetupAssumption
<1>8. Whole(v, S!NULL) /\ v.sendq = w.sendq
  BY <1>2, <1>3, <1>4, <1>5, <1>7
<1>9. SmsIInv' /\ w'.sendq = w.sendq
  BY <1>6, <1>8, SubmitWhole DEF SmsIInv, SameMessages
<1> QED
  BY <1>9, NoneTaken DEF Kept

LEMMA HandlerKept ==
  ASSUME S!AtAssumption, SmsIInv, S!oa_sms_handler
  PROVE  Kept
<1> DEFINE v == [w EXCEPT !.toggle = ~@]
<1>1. w \in S!At /\ w.sendq \in Seq({"format", "pdu", "finish"})
  BY DEF SmsIInv, Whole, Listed, S!At
<1>2. /\ v \in S!At /\ v.heap = w.heap /\ v.list = w.list /\ v.cur = w.cur /\ v.timer = w.timer
      /\ v.modem = w.modem /\ v.sendq = w.sendq /\ v.current = w.current /\ v.recvq = w.recvq
      /\ v.first_valid = w.first_valid /\ v.seen = w.seen
  BY <1>1 DEF S!At
<1>3. \/ w' = v
      \/ w' \in S!oa_recv_sms_state_machine(v)
      \/ ~v.current /\ v.sendq # <<>> /\ w' \in S!oa_send_sms_state_machine([v EXCEPT !.current = TRUE])
  BY DEF S!oa_sms_handler
<1> HIDE DEF v
<1>4. Whole(v, S!NULL)
  BY <1>2 DEF SmsIInv, Whole, Listed, Timed, Sending, Sends, Queued, Lone
<1>5. CASE w' = v
  BY <1>2, <1>4, <1>5, NoneTaken DEF Kept, SmsIInv
<1>6. CASE w' \in S!oa_recv_sms_state_machine(v)
  <2>1. Whole(w', S!NULL) /\ w'.sendq = w.sendq
    BY <1>2, <1>4, <1>6, RecvMachineWhole
  <2> QED
    BY <2>1, NoneTaken DEF Kept, SmsIInv
<1>7. CASE ~v.current /\ v.sendq # <<>> /\ w' \in S!oa_send_sms_state_machine([v EXCEPT !.current = TRUE])
  <2> DEFINE n == [v EXCEPT !.current = TRUE]
  <2>1. /\ n \in S!At /\ n.heap = v.heap /\ n.list = v.list /\ n.cur = v.cur /\ n.timer = v.timer
        /\ n.modem = v.modem /\ n.sendq = v.sendq /\ n.current = TRUE /\ n.recvq = v.recvq
        /\ n.first_valid = v.first_valid /\ n.seen = v.seen
    BY <1>2 DEF S!At
  <2>2. w' \in S!oa_send_sms_state_machine(n)
    BY <1>7
  <2> HIDE DEF n
  <2>3. Listed(n, S!NULL) /\ Timed(n) /\ Lone(n)
    BY <1>4, <2>1 DEF Whole, Listed, Timed, Lone
  <2>4. \A i \in 1..Len(v.sendq) : v.sendq[i] = "format"
    BY <1>4, <1>7 DEF Whole, Sending, Queued
  <2>5. Queued(n)
    BY <1>7, <2>1, <2>4 DEF Queued
  <2>6. Sends(n) = {}
    <3>1. Sends(n) = Sends(v)
      BY <2>1 DEF Sends
    <3>2. Sends(v) = {}
      BY <1>4, <1>7 DEF Whole, Sending
    <3> QED
      BY <3>1, <3>2
  <2>7. n.sendq[1] = "format"
    <3>1. 1 \in 1..Len(v.sendq)
      BY <1>1, <1>2, <1>7
    <3> QED
      BY <2>1, <2>4, <3>1
  <2>8. Whole(w', S!NULL) /\ w'.sendq = w.sendq
    BY <1>2, <2>1, <2>2, <2>3, <2>5, <2>6, <2>7, SendMachineWhole
  <2> QED
    BY <2>8, NoneTaken DEF Kept, SmsIInv
<1> QED
  BY <1>3, <1>5, <1>6, <1>7

(* A message arrives in one of the two lists, behind those that wait. *)
LEMMA ArrivalKept ==
  ASSUME S!AtAssumption, SmsIInv, S!oa_sms_pend_sms \/ S!MessageAnnounced
  PROVE  Kept
<1>1. /\ w \in S!At /\ w.sendq \in Seq({"format", "pdu", "finish"}) /\ Len(w.sendq) \in Nat
      /\ w.recvq \in Seq({"read", "store"})
  BY DEF SmsIInv, Whole, Listed, S!At
<1>2. CASE S!oa_sms_pend_sms
  <2>1. w' = [w EXCEPT !.sendq = Append(@, "format")]
    BY <1>2 DEF S!oa_sms_pend_sms
  <2> DEFINE q == Append(w.sendq, "format")
  <2>q. q \in Seq({"format", "pdu", "finish"})
    BY <1>1
  <2> HIDE DEF q
  <2>2. /\ w' \in S!At /\ w'.heap = w.heap /\ w'.list = w.list /\ w'.cur = w.cur /\ w'.timer = w.timer
        /\ w'.modem = w.modem /\ w'.sendq = q /\ w'.current = w.current
        /\ w'.seen = w.seen
    BY <1>1, <2>1, <2>q DEF S!At, q
  <2>3. /\ Len(w'.sendq) = Len(w.sendq) + 1
        /\ \A i \in 1..Len(w'.sendq) : (i \in 1..Len(w.sendq) /\ w'.sendq[i] = w.sendq[i])
                                        \/ w'.sendq[i] = "format"
    BY <1>1, <2>2 DEF q
  <2>4. w.current => w'.sendq[1] = w.sendq[1]
    BY <1>1, <2>2 DEF q, SmsIInv, Whole, Sending, Queued
  <2>5. Sends(w') = Sends(w)
    BY <2>2 DEF Sends
  <2>6. Queued(w')
    BY <1>1, <2>2, <2>3 DEF SmsIInv, Whole, Sending, Queued
  <2>7. Sending(w')
    BY <2>2, <2>4, <2>5, <2>6 DEF SmsIInv, Whole, Sending
  <2>8. Listed(w', S!NULL) /\ Timed(w') /\ Lone(w')
    BY <2>2 DEF SmsIInv, Whole, Listed, Timed, Lone
  <2>9. w.sendq # <<>> => w'.sendq # Tail(w.sendq)
    <3> SUFFICES ASSUME w.sendq # <<>>
                 PROVE  Len(w'.sendq) # Len(Tail(w.sendq))
      OBVIOUS
    <3>1. Len(Tail(w.sendq)) = Len(w.sendq) - 1
      BY <1>1
    <3> QED
      BY <1>1, <2>3, <3>1
  <2> QED
    BY <2>7, <2>8, <2>9 DEF Kept, SmsIInv, Whole, TakenByAnswer
<1>3. CASE S!MessageAnnounced
  <2>1. w' = [w EXCEPT !.recvq = Append(@, "read")]
    BY <1>3 DEF S!MessageAnnounced
  <2>r. Append(w.recvq, "read") \in Seq({"read", "store"})
    BY <1>1
  <2>2. /\ w' \in S!At /\ w'.heap = w.heap /\ w'.list = w.list /\ w'.cur = w.cur /\ w'.timer = w.timer
        /\ w'.modem = w.modem /\ w'.sendq = w.sendq /\ w'.current = w.current /\ w'.seen = w.seen
    BY <1>1, <2>1, <2>r DEF S!At
  <2>3. SmsIInv'
    BY <2>2 DEF SmsIInv, Whole, Listed, Timed, Sending, Sends, Queued, Lone
  <2> QED
    BY <2>2, <2>3, NoneTaken DEF Kept
<1> QED
  BY <1>2, <1>3

LEMMA DeleteAllKept ==
  ASSUME S!AtAssumption, SmsIInv, S!DeleteAllMessages
  PROVE  Kept
<1>1. PICK v \in S!CreateAndPend(w, "demo") : w' \in S!oa_at_submit(v)
  BY DEF S!DeleteAllMessages, S!oa_at_cmd_demo
<1>2. "demo" \in S!Kinds /\ "demo" \notin S!SendKinds
  BY DEF S!Kinds, S!SendKinds
<1>3. Whole(v, S!NULL) /\ v.sendq = w.sendq
  BY <1>2, PendWhole DEF SmsIInv, SameMessages
<1>4. SmsIInv' /\ w'.sendq = w.sendq
  BY <1>1, <1>3, SubmitWhole DEF SmsIInv, SameMessages
<1> QED
  BY <1>4, NoneTaken DEF Kept

LEMMA TimeoutKept ==
  ASSUME S!AtAssumption, SmsIInv, S!oa_at_cmd_timeout_callback
  PROVE  Kept
<1> DEFINE v == [w EXCEPT !.timer = S!NULL, !.seen = @ \cup {"late"}]
<1>1. w \in S!At /\ w.timer \in Addr /\ w.timer = w.cur /\ w.seen \in SUBSET {"uart", "nomem", "late"}
  BY DEF SmsIInv, Whole, Listed, S!At, Timed, S!oa_at_cmd_timeout_callback
<1>2. w' \in S!oa_at_finish_cmd(v, w.timer, "error")
  BY DEF S!oa_at_cmd_timeout_callback
<1>3. /\ v \in S!At /\ v.heap = w.heap /\ v.list = w.list /\ v.cur = w.cur
      /\ v.modem = w.modem /\ v.sendq = w.sendq /\ v.current = w.current /\ "late" \in v.seen
  BY <1>1 DEF S!At
<1> HIDE DEF v
<1>4. Listed(v, S!NULL) /\ Sending(v)
  <2>1. Listed(w, S!NULL) /\ Sending(w)
    BY DEF SmsIInv, Whole
  <2>2. Listed(v, S!NULL)
    BY <1>3, <2>1 DEF Listed
  <2>3. Sends(v) = Sends(w) /\ (Queued(w) => Queued(v))
    BY <1>3 DEF Sends, Queued
  <2>4. Sending(v)
    BY <1>3, <2>1, <2>3 DEF Sending
  <2> QED
    BY <2>2, <2>4
<1>5. Whole(w', S!NULL) /\ v.seen \subseteq w'.seen
  <2>1. v.cur = w.timer /\ ("late" \notin v.seen => v.modem = <<>>)
    BY <1>1, <1>3
  <2> QED
    BY <1>1, <1>2, <1>4, <2>1, FinishWhole
<1> QED
  BY <1>3, <1>5 DEF Kept, SmsIInv, TakenByAnswer

-----------------------------------------------------------------------------
(* What comes from the modem *)

(* The first n answers are gone. *)
LEMMA AnsweredKept ==
  ASSUME S!AtAssumption, SmsIInv, w.modem # <<>>, NEW m \in Seq(S!Request),
         "late" \notin w.seen => m = <<>>,
         NEW ret, w' \in S!Answered([w EXCEPT !.modem = m], ret)
  PROVE  Kept
<1> DEFINE v == [w EXCEPT !.modem = m]
<1>1. w \in S!At /\ w.cur \in Addr \cup {S!NULL} /\ w.modem \in Seq(S!Request)
  BY DEF SmsIInv, Whole, Listed, S!At
<1>2. /\ v \in S!At /\ v.heap = w.heap /\ v.list = w.list /\ v.cur = w.cur /\ v.timer = w.timer
      /\ v.modem = m /\ v.sendq = w.sendq /\ v.current = w.current /\ v.seen = w.seen
  BY <1>1 DEF S!At
<1>3. w' \in S!Answered(v, ret)
  OBVIOUS
<1> HIDE DEF v
<1>4. Listed(v, S!NULL) /\ Sending(v) /\ Timed(v)
  BY <1>2 DEF SmsIInv, Whole, Listed, Sending, Sends, Queued, Timed
<1>5. CASE w.cur = S!NULL
  <2>1. w' = v
    BY <1>2, <1>3, <1>5 DEF S!Answered
  <2>2. Lone(v)
    BY <1>2, <1>5 DEF Lone, SmsIInv, Whole
  <2> QED
    BY <1>2, <1>4, <2>1, <2>2, NoneTaken DEF Kept, SmsIInv, Whole
<1>6. CASE w.cur # S!NULL
  <2>1. w.cur \in Addr /\ w' \in S!oa_at_finish_cmd(v, w.cur, ret)
    BY <1>1, <1>2, <1>3, <1>6 DEF S!Answered
  <2>2. /\ Whole(w', S!NULL) /\ w.seen \subseteq w'.seen
        /\ w'.sendq = w.sendq \/ (w.current /\ w.heap[w.cur] = Cmd(w.sendq[1]))
    <3>1. "late" \notin v.seen => v.modem = <<>>
      BY <1>2
    <3>2. /\ Whole(w', S!NULL) /\ v.seen \subseteq w'.seen
          /\ w'.sendq = v.sendq \/ (v.current /\ v.heap[w.cur] = Cmd(v.sendq[1]))
      BY <1>2, <1>4, <2>1, <3>1, FinishWhole
    <3> QED
      BY <1>2, <3>2
  <2>3. TakenByAnswer
    <3>1. CASE w'.sendq = w.sendq
      BY <3>1, NoneTaken
    <3>2. CASE "late" \notin w'.seen /\ w.sendq # <<>> /\ w.heap[w.cur] = Cmd(w.sendq[1])
      <4>1. w.modem[1].kind = w.heap[w.cur]
        BY <1>6, <2>2, <3>2 DEF SmsIInv, Whole, Lone
      <4>2. Head(w.modem) = w.modem[1] /\ Head(w.sendq) = w.sendq[1]
        BY <1>1, <3>2
      <4> QED
        BY <3>2, <4>1, <4>2 DEF TakenByAnswer, Cmd
    <3> QED
      BY <2>2, <3>1, <3>2 DEF TakenByAnswer
  <2> QED
    BY <2>2, <2>3 DEF Kept, SmsIInv
<1> QED
  BY <1>5, <1>6

LEMMA Lengths ==
  ASSUME NEW s \in Seq(S!Request)
  PROVE  /\ Len(s) \in Nat /\ (s = <<>> <=> Len(s) = 0)
         /\ s # <<>> => Tail(s) \in Seq(S!Request) /\ Len(Tail(s)) = Len(s) - 1
  BY EmptySeq

LEMMA FinalAnswersKept ==
  ASSUME S!AtAssumption, SmsIInv, NEW ret, S!FinalAnswer(ret) \/ S!TwoAnswers(ret)
  PROVE  Kept
<1>1. w.modem \in Seq(S!Request) /\ Len(w.modem) \in Nat
  BY DEF SmsIInv, Whole, Listed, S!At
<1>2. "late" \notin w.seen => Len(w.modem) <= 1
  <2>1. "late" \notin w.seen => w.modem = <<>> \/ Len(w.modem) = 1
    BY DEF SmsIInv, Whole, Lone
  <2>2. w.modem = <<>> => Len(w.modem) = 0
    OBVIOUS
  <2> HIDE DEF SmsIInv
  <2> DEFINE n == Len(w.modem)
  <2>3. "late" \notin w.seen => n = 0 \/ n = 1
    BY <2>1, <2>2
  <2> HIDE DEF n
  <2>4. "late" \notin w.seen => n <= 1
    BY <2>3
  <2> QED
    BY <2>4 DEF n
<1>3. CASE S!FinalAnswer(ret)
  <2>1. w.modem # <<>> /\ w' \in S!Answered([w EXCEPT !.modem = Tail(w.modem)], ret)
    BY <1>3 DEF S!FinalAnswer
  <2>2. Tail(w.modem) \in Seq(S!Request) /\ Len(Tail(w.modem)) = Len(w.modem) - 1
    BY <1>1, <2>1
  <2>3. "late" \notin w.seen => Tail(w.modem) = <<>>
    BY <1>1, <1>2, <2>1, <2>2
  <2> QED
    BY <2>1, <2>2, <2>3, AnsweredKept
<1>4. CASE S!TwoAnswers(ret)
  <2>1. Len(w.modem) > 1 /\ w' \in S!Answered([w EXCEPT !.modem = Tail(Tail(w.modem))], ret)
    BY <1>4 DEF S!TwoAnswers
  <2>2. w.modem # <<>> /\ Tail(Tail(w.modem)) \in Seq(S!Request)
    <3>1. w.modem # <<>> /\ Tail(w.modem) \in Seq(S!Request) /\ Len(Tail(w.modem)) = Len(w.modem) - 1
      BY <1>1, <2>1
    <3>2. Tail(w.modem) # <<>>
      <4> DEFINE n == Len(w.modem)
                 k == Len(Tail(w.modem))
      <4>0. n \in Nat /\ n > 1 /\ k = n - 1
        BY <1>1, <2>1, <3>1
      <4> HIDE DEF n, k
      <4>1. k # 0
        BY <4>0
      <4> USE DEF k
      <4> QED
        BY <3>1, <4>1, Lengths
    <3> QED
      BY <3>1, <3>2
  <2>3. "late" \in w.seen
    BY <1>1, <1>2, <2>1
  <2> QED
    BY <2>1, <2>2, <2>3, AnsweredKept
<1> QED
  BY <1>3, <1>4

(* The modem changes what it has to answer, not how much. *)
LEMMA ModemKept ==
  ASSUME S!AtAssumption, SmsIInv, NEW m \in Seq(S!Request), w' = [w EXCEPT !.modem = m], Lone(w')
  PROVE  Kept
<1>1. w \in S!At
  BY DEF SmsIInv, Whole, Listed
<1>2. /\ w' \in S!At /\ w'.heap = w.heap /\ w'.list = w.list /\ w'.cur = w.cur /\ w'.timer = w.timer
      /\ w'.sendq = w.sendq /\ w'.current = w.current
  BY <1>1 DEF S!At
<1>3. SmsIInv'
  BY <1>2 DEF SmsIInv, Whole, Listed, Timed, Sending, Sends, Queued
<1> QED
  BY <1>2, <1>3, NoneTaken DEF Kept

LEMMA NoAnswerKept ==
  ASSUME S!AtAssumption, SmsIInv, S!NoAnswer
  PROVE  Kept
<1>1. w \in S!At /\ w.modem \in Seq(S!Request) /\ w.modem # <<>>
  BY DEF SmsIInv, Whole, Listed, S!At, S!NoAnswer
<1>2. w' = [w EXCEPT !.modem = Tail(w.modem)] /\ Tail(w.modem) \in Seq(S!Request)
  BY <1>1 DEF S!NoAnswer
<1>3. Len(Tail(w.modem)) = Len(w.modem) - 1 /\ Len(w.modem) \in Nat
  BY <1>1
<1>4. w'.modem = Tail(w.modem) /\ w'.seen = w.seen /\ w'.cur = w.cur /\ w'.heap = w.heap
  BY <1>1, <1>2 DEF S!At
<1>5. "late" \notin w.seen => Tail(w.modem) = <<>>
  <2>1. "late" \notin w.seen => Len(w.modem) = 1
    BY <1>1 DEF SmsIInv, Whole, Lone
  <2>2. "late" \notin w.seen => Len(Tail(w.modem)) = 0
    BY <1>3, <2>1
  <2> QED
    BY <1>2, <2>2, Lengths
<1>6. Lone(w')
  BY <1>4, <1>5 DEF Lone
<1> QED
  BY <1>2, <1>6, ModemKept

LEMMA PromptKept ==
  ASSUME S!AtAssumption, SmsIInv, S!Prompt
  PROVE  Kept
<1>1. w \in S!At /\ w.modem \in Seq(S!Request) /\ w.modem # <<>> /\ Head(w.modem) = w.modem[1]
  BY DEF SmsIInv, Whole, Listed, S!At, S!Prompt
<1>2. w.modem[1] = [kind |-> "cmgs", stage |-> "new"]
  BY <1>1 DEF S!Prompt
<1>3. CASE w.cur # S!NULL /\ w.heap[w.cur] = "cmgs" /\ w.current
  <2> DEFINE m == [w.modem EXCEPT ![1].stage = "text"]
  <2>1. w' = [w EXCEPT !.modem = m]
    BY <1>3 DEF S!Prompt
  <2>2. [w.modem[1] EXCEPT !.stage = "text"] = [kind |-> "cmgs", stage |-> "text"]
    BY <1>2
  <2>3. [kind |-> "cmgs", stage |-> "text"] \in S!Request
    BY DEF S!Request, S!Kinds, S!Stages
  <2>4. m \in Seq(S!Request) /\ Len(m) = Len(w.modem) /\ m[1] = [kind |-> "cmgs", stage |-> "text"]
    BY <1>1, <2>2, <2>3
  <2> HIDE DEF m
  <2>5. w'.modem = m /\ w'.seen = w.seen /\ w'.cur = w.cur /\ w'.heap = w.heap
    BY <1>1, <2>1 DEF S!At
  <2>6. Lone(w')
    BY <1>1, <1>3, <2>4, <2>5 DEF SmsIInv, Whole, Lone
  <2> QED
    BY <2>1, <2>4, <2>6, ModemKept
<1>4. CASE ~(w.cur # S!NULL /\ w.heap[w.cur] = "cmgs" /\ w.current)
  <2> DEFINE m == <<[kind |-> "cmgs", stage |-> "prompt"]>>
  <2>1. w' = [w EXCEPT !.modem = m]
    BY <1>4 DEF S!Prompt
  <2>2. m \in Seq(S!Request)
    BY DEF S!Request, S!Kinds, S!Stages
  <2>3. "late" \in w.seen
    <3> SUFFICES ASSUME "late" \notin w.seen
                 PROVE  FALSE
      OBVIOUS
    <3>1. w.cur # S!NULL /\ w.heap[w.cur] = "cmgs"
      BY <1>1, <1>2 DEF SmsIInv, Whole, Lone
    <3>2. w.list \in Seq(Addr) /\ w.list # <<>> /\ w.cur = w.list[1] /\ 1 \in 1..Len(w.list)
      BY <1>1, <3>1 DEF SmsIInv, Whole, Listed, S!At
    <3>3. 1 \in Sends(w)
      BY <3>1, <3>2 DEF Sends, S!SendKinds
    <3>4. w.current
      BY <3>3 DEF SmsIInv, Whole, Sending
    <3> QED
      BY <1>4, <3>1, <3>4
  <2> HIDE DEF m
  <2>4. Lone(w')
    BY <1>1, <2>1, <2>3 DEF S!At, Lone
  <2> QED
    BY <2>1, <2>2, <2>4, ModemKept
<1> QED
  BY <1>3, <1>4

LEMMA StepKept ==
  ASSUME S!AtAssumption, S!SetupAssumption, SmsIInv, [S!Next]_w
  PROVE  SmsIInv' /\ [TakenByAnswer]_w
<1>1. CASE S!oa_sms_initial_by_at_cmd
  BY <1>1, SetupKept DEF Kept
<1>2. CASE S!oa_sms_handler
  BY <1>2, HandlerKept DEF Kept
<1>3. CASE S!oa_sms_pend_sms \/ S!MessageAnnounced
  BY <1>3, ArrivalKept DEF Kept
<1>4. CASE S!DeleteAllMessages
  BY <1>4, DeleteAllKept DEF Kept
<1>5. CASE S!oa_at_cmd_timeout_callback
  BY <1>5, TimeoutKept DEF Kept
<1>6. ASSUME NEW ret, S!FinalAnswer(ret) \/ S!TwoAnswers(ret)
      PROVE  SmsIInv' /\ [TakenByAnswer]_w
  BY <1>6, FinalAnswersKept DEF Kept
<1>7. CASE S!NoAnswer
  BY <1>7, NoAnswerKept DEF Kept
<1>8. CASE S!Prompt
  BY <1>8, PromptKept DEF Kept
<1>9. CASE UNCHANGED w
  BY <1>9 DEF SmsIInv
<1> QED
  BY <1>1, <1>2, <1>3, <1>4, <1>5, <1>6, <1>7, <1>8, <1>9 DEF S!Next

LEMMA SmsInvariance == QSpec => []SmsIInv
<1>1. QInit => SmsIInv
  BY InitWhole, QueuesAssumption DEF QInit
<1>2. SmsIInv /\ [QNext]_qvars => SmsIInv'
  <2> SUFFICES ASSUME SmsIInv, [QNext]_qvars PROVE SmsIInv'
    OBVIOUS
  <2>1. [S!Next]_w
    BY DEF QNext, qvars
  <2> QED
    BY <2>1, StepKept, QueuesAssumption
<1> QED
  BY <1>1, <1>2, PTL DEF QSpec

(* No callback or timeout gets a command that has been freed, and a message  *)
(* being sent never has two commands (oa_at-p.c, oa_sms-p.c), for a heap of  *)
(* any size, whatever the modem answers and whatever fails.                  *)
THEOREM NothingDangles == QSpec => []SmsInv
<1>1. SmsIInv => SmsInv
  <2> SUFFICES ASSUME SmsIInv PROVE S!SmsInv
    BY DEF SmsInv
  <2>1. w \in S!At /\ w.list \in Seq(Addr) /\ w.sendq \in Seq({"format", "pdu", "finish"})
    BY DEF SmsIInv, Whole, Listed, S!At
  <2>2. w.list # <<>> => Head(w.list) = w.list[1]
    BY <2>1
  <2>3. w.sendq # <<>> => Head(w.sendq) = w.sendq[1]
    BY <2>1
  <2>4. S!NoDangling
    BY <2>1, <2>2, NoPlace, QueuesAssumption DEF SmsIInv, Whole, Listed, Timed, S!NoDangling
  <2>5. S!SendCommands = Sends(w)
    BY DEF S!SendCommands, Sends
  <2>6. S!OneSending
    BY <2>3, <2>5 DEF SmsIInv, Whole, Sending, Queued, S!OneSending, Cmd
  <2> QED
    BY <2>4, <2>6 DEF S!SmsInv
<1> QED
  BY <1>1, SmsInvariance, PTL

(* While no command has timed out, a message leaves the list only by an      *)
(* answer to its own command (oa_send_sms_callback).                         *)
THEOREM AnswersAreTheirOwn == QSpec => OwnAnswer
<1>1. SmsIInv /\ [QNext]_qvars => [TakenByAnswer]_w
  <2> SUFFICES ASSUME SmsIInv, [QNext]_qvars PROVE [TakenByAnswer]_w
    OBVIOUS
  <2>1. [S!Next]_w
    BY DEF QNext, qvars
  <2> QED
    BY <2>1, StepKept, QueuesAssumption
<1> QED
  BY <1>1, SmsInvariance, PTL DEF QSpec, OwnAnswer, S!OwnAnswer, TakenByAnswer

-----------------------------------------------------------------------------
(* The ring of bytes for the socket *)

(* The bytes to be sent have been written. *)
UnsentWritten == \A i \in 1 .. len : buf[Wrap(offset + i - 1)] \in Byte

IInv == TypeOK /\ UnsentWritten

USE RingAssumption

-----------------------------------------------------------------------------
(* Places and distances *)

(* Seen from the offset, the byte number k is k places away. *)
LEMMA FromOffset ==
  ASSUME offset \in 0 .. MaxLength, NEW k \in 0 .. MaxLength - 1
  PROVE  /\ Wrap(offset + k) \in Place
         /\ Distance(Wrap(U16(offset)), Wrap(offset + k)) = k
BY DEF Wrap, U16, Distance, Place

(* Seen from the end of the queue, it is that much nearer, or past it. *)
LEMMA FromEnd ==
  ASSUME offset \in 0 .. MaxLength, len \in 0 .. MaxLength - 1,
         NEW k \in 0 .. MaxLength - 1
  PROVE  Distance(Wrap(U16(offset + len)), Wrap(offset + k)) =
           IF k >= len THEN k - len ELSE k + MaxLength - len
BY DEF Wrap, U16, Distance

-----------------------------------------------------------------------------
(* A write *)

(* The sizes: what fits and the rest are the frame, and as many bytes are   *)
(* cut off as do not fit.                                                   *)
LEMMA FrameParts ==
  ASSUME NEW f \in Frame, NEW free \in 0 .. MaxLength
  PROVE  /\ f \in Seq(Byte)
         /\ Len(f) \in 0 .. MaxLength
         /\ LET fits == SubSeq(f, 1, Smaller(free, Len(f)))
                rest == SubSeq(f, free + 1, Len(f))
            IN  /\ Len(fits) = Smaller(free, Len(f))
                /\ Len(rest) = IF Len(f) > free THEN Len(f) - free ELSE 0
                /\ rest = <<>> <=> Len(f) <= free
                /\ \A j \in 1 .. Len(fits) : fits[j] = f[j]
                /\ \A j \in 1 .. Len(rest) : rest[j] = f[free + j]
<1>1. f \in Seq(Byte) /\ Len(f) \in 0 .. MaxLength
  OBVIOUS
<1> DEFINE a == Smaller(free, Len(f))
           fits == SubSeq(f, 1, a)
           rest == SubSeq(f, free + 1, Len(f))
<1>2. a \in 0 .. Len(f)
  BY <1>1 DEF Smaller
<1> HIDE DEF a
<1>3. Len(fits) = a /\ \A j \in 1 .. Len(fits) : fits[j] = f[j]
  BY <1>1, <1>2
<1>4. /\ Len(rest) = IF Len(f) > free THEN Len(f) - free ELSE 0
      /\ \A j \in 1 .. Len(rest) : rest[j] = f[free + j]
      /\ rest \in Seq(Byte)
  BY <1>1
<1>5. rest = <<>> <=> Len(f) <= free
  <2>1. rest = <<>> <=> Len(rest) = 0
    BY <1>4, EmptySeq
  <2>2. QED
    BY <1>1, <1>4, <2>1
<1>6. QED
  BY <1>1, <1>3, <1>4, <1>5 DEF a

(* Byte number k, counted from the old offset, after a write. *)
LEMMA CopiedByte ==
  ASSUME TypeOK, NEW f \in Frame, oa_write_buffer_force_noinit(f),
         NEW k \in 0 .. MaxLength - 1
  PROVE  LET free == MaxLength - len
             cut  == IF Len(f) > free THEN Len(f) - free ELSE 0
             fit  == Smaller(free, Len(f))
         IN  buf'[Wrap(offset + k)] =
               IF k < cut THEN f[free + k + 1]
               ELSE IF k < len THEN buf[Wrap(offset + k)]
               ELSE IF k < len + fit THEN f[k - len + 1]
               ELSE buf[Wrap(offset + k)]
<1> DEFINE free == MaxLength - len
           fits == SubSeq(f, 1, Smaller(free, Len(f)))
           rest == SubSeq(f, free + 1, Len(f))
           q    == Wrap(offset + k)
           mid  == Copy(buf, offset + len, fits)
<1>1. /\ len \in 0 .. MaxLength /\ offset \in 0 .. MaxLength
      /\ free \in 0 .. MaxLength
  BY DEF TypeOK
<1>2. buf' = Copy(mid, offset, rest)
  BY DEF oa_write_buffer_force_noinit
<1>3. q \in Place /\ Distance(Wrap(U16(offset)), q) = k
  BY <1>1, FromOffset
<1>4. buf'[q] = IF k < Len(rest) THEN rest[k + 1] ELSE mid[q]
  BY <1>2, <1>3 DEF Copy
<1>5. mid[q] = IF Distance(Wrap(U16(offset + len)), q) < Len(fits)
               THEN fits[Distance(Wrap(U16(offset + len)), q) + 1]
               ELSE buf[q]
  BY <1>3 DEF Copy
<1>6. /\ Len(f) \in 0 .. MaxLength
      /\ Len(fits) = Smaller(free, Len(f))
      /\ Len(rest) = IF Len(f) > free THEN Len(f) - free ELSE 0
      /\ \A j \in 1 .. Len(fits) : fits[j] = f[j]
      /\ \A j \in 1 .. Len(rest) : rest[j] = f[free + j]
  BY <1>1, FrameParts
<1> HIDE DEF fits, rest, q, mid
<1>7. mid[q] = IF k >= len /\ k < len + Len(fits) THEN f[k - len + 1]
               ELSE buf[q]
  <2>1. CASE len = MaxLength
    <3>1. Len(fits) = 0
      BY <1>1, <1>6, <2>1 DEF Smaller
    <3>2. Distance(Wrap(U16(offset + len)), q) >= 0
      BY <1>1, <1>3 DEF Distance, Wrap, U16, Place
    <3>3. Distance(Wrap(U16(offset + len)), q) \in Int
      BY <1>1, <1>3 DEF Distance, Wrap, U16, Place
    <3>4. QED
      BY <1>1, <1>5, <3>1, <3>2, <3>3, <2>1
  <2>2. CASE len < MaxLength
    <3>1. Distance(Wrap(U16(offset + len)), q) =
            IF k >= len THEN k - len ELSE k + MaxLength - len
      <4>1. len \in 0 .. MaxLength - 1
        BY <1>1, <2>2
      <4>2. QED
        BY <1>1, <4>1, FromEnd DEF q
    <3>2. Len(fits) \in 0 .. MaxLength - len
      <4>1. Len(fits) = Smaller(free, Len(f)) /\ Len(f) \in Nat
        BY <1>6
      <4>2. QED
        BY <1>1, <4>1 DEF Smaller
    <3>3. CASE k >= len
      <4>1. mid[q] = IF k - len < Len(fits) THEN fits[k - len + 1] ELSE buf[q]
        BY <1>5, <3>1, <3>3
      <4>2. k - len < Len(fits) => fits[k - len + 1] = f[k - len + 1]
        BY <1>1, <1>6, <3>2, <3>3
      <4>3. QED
        BY <1>1, <3>2, <3>3, <4>1, <4>2
    <3>4. CASE k < len
      BY <1>1, <1>5, <3>1, <3>2, <3>4
    <3>5. QED
      BY <1>1, <3>3, <3>4
  <2>3. QED
    BY <1>1, <2>1, <2>2
<1>8. k < Len(rest) => rest[k + 1] = f[free + k + 1]
  <2>1. Len(rest) \in Nat /\ free + (k + 1) = free + k + 1
    BY <1>1, <1>6
  <2>2. QED
    BY <1>6, <2>1
<1>9. QED
  BY <1>1, <1>4, <1>6, <1>7, <1>8 DEF q

(* The byte number k, counted from the new offset, is the byte number       *)
(* k + cut counted from the old one, or that less a whole turn.             *)
LEMMA NewPlace ==
  ASSUME offset \in 0 .. MaxLength, NEW cut \in 0 .. MaxLength,
         NEW k \in 0 .. MaxLength - 1
  PROVE  LET new == IF cut = 0 THEN offset ELSE Wrap(offset + cut)
         IN  /\ new \in 0 .. MaxLength
             /\ Wrap(new + k) =
                  IF k + cut < MaxLength THEN Wrap(offset + (k + cut))
                  ELSE Wrap(offset + (k + cut - MaxLength))
BY DEF Wrap

(* After a write the queue holds the old bytes from the cut on, then the    *)
(* frame.                                                                   *)
LEMMA WrittenByte ==
  ASSUME TypeOK, NEW f \in Frame, oa_write_buffer_force_noinit(f),
         NEW i \in 1 .. len'
  PROVE  LET cut == len + Len(f) - len'
             k   == i - 1 + cut
         IN  buf'[Wrap(offset' + i - 1)] =
               IF k < len THEN buf[Wrap(offset + k)] ELSE f[k - len + 1]
<1> DEFINE free == MaxLength - len
           cut  == len + Len(f) - len'
           rest == SubSeq(f, free + 1, Len(f))
           k    == i - 1 + cut
           h    == IF k < MaxLength THEN k ELSE k - MaxLength
<1>1. /\ len \in 0 .. MaxLength /\ offset \in 0 .. MaxLength
      /\ free \in 0 .. MaxLength
  BY DEF TypeOK
<1>2. /\ Len(f) \in 0 .. MaxLength
      /\ Len(rest) = IF Len(f) > free THEN Len(f) - free ELSE 0
      /\ rest = <<>> <=> Len(f) <= free
  BY <1>1, FrameParts
<1>3. /\ len' = Smaller(len + Len(f), MaxLength)
      /\ offset' = IF rest = <<>> THEN offset ELSE Wrap(offset + Len(rest))
  BY DEF oa_write_buffer_force_noinit
<1> HIDE DEF rest
<1>4. /\ cut = IF Len(f) > free THEN Len(f) - free ELSE 0
      /\ cut \in 0 .. MaxLength /\ cut = Len(rest)
      /\ len' \in 0 .. MaxLength
  <2>1. CASE Len(f) > free
    <3>1. len' = MaxLength
      BY <1>1, <1>2, <1>3, <2>1 DEF Smaller
    <3>2. QED
      BY <1>1, <1>2, <2>1, <3>1
  <2>2. CASE Len(f) <= free
    <3>1. len' = len + Len(f)
      BY <1>1, <1>2, <1>3, <2>2 DEF Smaller
    <3>2. QED
      BY <1>1, <1>2, <2>2, <3>1
  <2>3. QED
    BY <1>1, <1>2, <2>1, <2>2
<1> HIDE DEF cut
<1>5. /\ offset' = IF cut = 0 THEN offset ELSE Wrap(offset + cut)
      /\ offset' \in 0 .. MaxLength
  <2>1. cut = 0 <=> Len(f) <= free
    BY <1>1, <1>2, <1>4
  <2>2. offset' = IF cut = 0 THEN offset ELSE Wrap(offset + cut)
    BY <1>2, <1>3, <1>4, <2>1
  <2>3. QED
    BY <1>1, <1>4, <2>2 DEF Wrap
<1>6. /\ i - 1 \in 0 .. MaxLength - 1
      /\ k \in Nat /\ k - MaxLength < cut /\ h \in 0 .. MaxLength - 1
  BY <1>4
<1>7. Wrap(offset' + i - 1) = Wrap(offset + h)
  <2>1. Wrap(offset' + (i - 1)) = Wrap(offset + h)
    <3>1. Wrap(offset' + (i - 1)) =
            IF i - 1 + cut < MaxLength THEN Wrap(offset + (i - 1 + cut))
            ELSE Wrap(offset + (i - 1 + cut - MaxLength))
      BY <1>1, <1>4, <1>5, <1>6, NewPlace
    <3>2. QED
      BY <1>4, <1>6, <3>1
  <2>2. offset' + (i - 1) = offset' + i - 1
    BY <1>5, <1>6
  <2>3. QED
    BY <2>1, <2>2
<1>8. buf'[Wrap(offset + h)] =
        IF h < cut THEN f[free + h + 1]
        ELSE IF h < len THEN buf[Wrap(offset + h)]
        ELSE IF h < len + Smaller(free, Len(f)) THEN f[h - len + 1]
        ELSE buf[Wrap(offset + h)]
  BY <1>4, <1>6, CopiedByte
<1> DEFINE new == buf'[Wrap(offset' + i - 1)]
<1> HIDE DEF k, h, new
<1>9. CASE k >= MaxLength
  <2>1. h < cut /\ free + h + 1 = k - len + 1 /\ ~(k < len)
    BY <1>1, <1>4, <1>6, <1>9 DEF h
  <2>2. new = f[k - len + 1]
    BY <1>7, <1>8, <2>1 DEF new
  <2>3. QED
    BY <2>1, <2>2 DEF new, k, cut
<1>10. CASE k < MaxLength
  <2>1. h = k /\ ~(h < cut)
    BY <1>4, <1>6, <1>10 DEF h, k
  <2>2. k < len + Smaller(free, Len(f))
    <3>1. k < len + Len(f)
      BY <1>1, <1>2, <1>4 DEF k, cut
    <3>2. QED
      BY <1>1, <1>2, <1>6, <1>10, <3>1 DEF Smaller
  <2>3. new = IF k < len THEN buf[Wrap(offset + k)] ELSE f[k - len + 1]
    BY <1>7, <1>8, <2>1, <2>2 DEF new
  <2>4. QED
    BY <2>3 DEF new, k, cut
<1>11. k < MaxLength \/ k >= MaxLength
  BY <1>6
<1>12. QED
  BY <1>9, <1>10, <1>11

-----------------------------------------------------------------------------
(* The ring is well formed *)

(* The bytes to be sent make a sequence. *)
Shape ==
  /\ Unsent \in Seq(Byte)
  /\ Len(Unsent) = len
  /\ \A i \in 1 .. len : Unsent[i] = buf[Wrap(offset + i - 1)]

LEMMA UnsentShape == IInv => Shape
<1> SUFFICES ASSUME IInv PROVE Shape
  OBVIOUS
<1>1. len \in Nat /\ Smaller(len, len) = len
  BY DEF IInv, TypeOK, Smaller
<1>2. Unsent = [i \in 1 .. len |-> buf[Wrap(offset + i - 1)]]
  BY <1>1 DEF Unsent, oa_query_buffer_noinit
<1>3. Unsent \in [1 .. len -> Byte]
  BY <1>2 DEF IInv, UnsentWritten
<1>4. QED
  BY <1>1, <1>2, <1>3 DEF Shape

LEMMA UnsentShapeNext == IInv' => Shape'
  BY UnsentShape, PTL

(* What a query of n bytes gives. *)
LEMMA Queried ==
  ASSUME IInv, NEW n \in Nat
  PROVE  /\ oa_query_buffer_noinit(n) \in Seq(Byte)
         /\ Len(oa_query_buffer_noinit(n)) = Smaller(n, len)
         /\ oa_query_buffer_noinit(n) = SubSeq(Unsent, 1, Smaller(n, len))
<1> DEFINE m == Smaller(n, len)
           s == oa_query_buffer_noinit(n)
<1>1. m \in Nat /\ m <= len /\ len \in Nat
  BY DEF IInv, TypeOK, Smaller
<1>2. s = [i \in 1 .. m |-> buf[Wrap(offset + i - 1)]]
  BY DEF oa_query_buffer_noinit
<1> HIDE DEF m, s
<1>3. \A i \in 1 .. m : i \in 1 .. len
  BY <1>1
<1>4. s \in [1 .. m -> Byte]
  BY <1>2, <1>3 DEF IInv, UnsentWritten
<1>5. s \in Seq(Byte) /\ Len(s) = m
  BY <1>1, <1>4
<1>6. Shape
  BY UnsentShape
<1> DEFINE t == SubSeq(Unsent, 1, m)
<1>7. t \in Seq(Byte) /\ Len(t) = m /\ \A i \in 1 .. m : t[i] = Unsent[i]
  BY <1>1, <1>6 DEF Shape
<1>8. \A i \in 1 .. m : s[i] = Unsent[i]
  BY <1>2, <1>3, <1>6 DEF Shape
<1> HIDE DEF t
<1>9. s = t
  BY <1>5, <1>7, <1>8, SeqEqual
<1>10. QED
  BY <1>5, <1>9 DEF m, s, t

LEMMA WriteTypes ==
  ASSUME IInv, NEW f \in Frame, oa_write_buffer_force_noinit(f)
  PROVE  IInv'
<1>1. TypeOK /\ UnsentWritten
  BY DEF IInv
<1> DEFINE free == MaxLength - len
           fits == SubSeq(f, 1, Smaller(free, Len(f)))
           rest == SubSeq(f, free + 1, Len(f))
<1>2. /\ len \in 0 .. MaxLength /\ offset \in 0 .. MaxLength
      /\ free \in 0 .. MaxLength
  BY <1>1 DEF TypeOK
<1>3. /\ f \in Seq(Byte) /\ Len(f) \in 0 .. MaxLength
      /\ Len(fits) = Smaller(free, Len(f))
      /\ Len(rest) = IF Len(f) > free THEN Len(f) - free ELSE 0
      /\ \A j \in 1 .. Len(fits) : fits[j] = f[j]
      /\ \A j \in 1 .. Len(rest) : rest[j] = f[free + j]
  BY <1>2, FrameParts
<1>4. /\ buf' = Copy(Copy(buf, offset + len, fits), offset, rest)
      /\ offset' = IF rest = <<>> THEN offset ELSE Wrap(offset + Len(rest))
      /\ len' = Smaller(len + Len(f), MaxLength)
      /\ out' = out
  BY DEF oa_write_buffer_force_noinit
<1> HIDE DEF fits, rest
<1>5. len' \in 0 .. MaxLength /\ len' <= len + Len(f)
  BY <1>2, <1>3, <1>4 DEF Smaller
<1>6. offset' \in 0 .. MaxLength
  BY <1>2, <1>3, <1>4 DEF Wrap
<1>7. \A b, p, s : /\ b \in [Place -> Byte \cup {NoByte}]
                   /\ p \in 0 .. 2 * MaxLength
                   /\ Len(s) \in Nat
                   /\ \A j \in 1 .. Len(s) : s[j] \in Byte
                   => Copy(b, p, s) \in [Place -> Byte \cup {NoByte}]
  <2> SUFFICES ASSUME NEW b \in [Place -> Byte \cup {NoByte}],
                      NEW p \in 0 .. 2 * MaxLength,
                      NEW s, Len(s) \in Nat,
                      \A j \in 1 .. Len(s) : s[j] \in Byte,
                      NEW q \in Place
               PROVE  (IF Distance(Wrap(U16(p)), q) < Len(s)
                       THEN s[Distance(Wrap(U16(p)), q) + 1]
                       ELSE b[q]) \in Byte \cup {NoByte}
    BY DEF Copy
  <2>1. Distance(Wrap(U16(p)), q) \in Nat
    BY DEF Distance, Wrap, U16, Place
  <2>2. QED
    BY <2>1
<1>8. /\ \A j \in 1 .. Len(fits) : fits[j] \in Byte
      /\ \A j \in 1 .. Len(rest) : rest[j] \in Byte
      /\ Len(fits) \in Nat /\ Len(rest) \in Nat
  <2>1. Smaller(free, Len(f)) \in 0 .. Len(f)
    BY <1>2, <1>3 DEF Smaller
  <2> HIDE DEF free
  <2>2. Len(fits) \in 0 .. Len(f)
    BY <1>3, <2>1
  <2>3. Len(rest) \in Nat
    BY <1>2, <1>3
  <2>4. \A j \in 1 .. Len(rest) : free + j \in 1 .. Len(f)
    BY <1>2, <1>3
  <2>5. \A j \in 1 .. Len(f) : f[j] \in Byte
    BY <1>3
  <2>6. ASSUME NEW j \in 1 .. Len(fits)
        PROVE  fits[j] \in Byte
    <3>1. j \in 1 .. Len(f)
      BY <1>3, <2>2
    <3> QED
      BY <1>3, <2>5, <3>1
  <2>7. ASSUME NEW j \in 1 .. Len(rest)
        PROVE  rest[j] \in Byte
    BY <1>3, <2>4, <2>5
  <2>8. QED
    BY <2>2, <2>3, <2>6, <2>7
<1>9. buf' \in [Place -> Byte \cup {NoByte}]
  BY <1>1, <1>2, <1>4, <1>7, <1>8 DEF TypeOK
<1>10. ASSUME NEW i \in 1 .. len'
       PROVE  buf'[Wrap(offset' + i - 1)] \in Byte
  <2> DEFINE k == i - 1 + (len + Len(f) - len')
  <2>1. buf'[Wrap(offset' + i - 1)] =
          IF k < len THEN buf[Wrap(offset + k)] ELSE f[k - len + 1]
    BY <1>1, WrittenByte
  <2>2. k \in 0 .. len + Len(f) - 1 /\ i \in Nat
    BY <1>2, <1>3, <1>5
  <2> HIDE DEF k
  <2>3. CASE k < len
    <3>1. k + 1 \in 1 .. len /\ offset + (k + 1) - 1 = offset + k
      BY <1>2, <2>2, <2>3
    <3>2. QED
      BY <1>1, <2>1, <2>3, <3>1 DEF UnsentWritten
  <2>4. CASE ~(k < len)
    BY <1>2, <1>3, <2>1, <2>2, <2>4
  <2>5. QED
    BY <2>3, <2>4
<1>11. QED
  BY <1>1, <1>4, <1>5, <1>6, <1>9, <1>10 DEF IInv, TypeOK, UnsentWritten

(* The byte number k of what is left is byte number m + k of what was.  *)
LEMMA LeftByte ==
  ASSUME IInv, oa_read_buffer_noinit(SendMax), NEW i \in 1 .. len'
  PROVE  LET m == Smaller(SendMax, len)
         IN  /\ m + i \in 1 .. len
             /\ Wrap(offset' + i - 1) = Wrap(offset + (m + i) - 1)
<1> DEFINE m == Smaller(SendMax, len)
<1>1. /\ len \in 0 .. MaxLength /\ offset \in 0 .. MaxLength
      /\ m \in 0 .. len
  BY DEF IInv, TypeOK, Smaller
<1>2. /\ len' = len - m
      /\ offset' = IF offset + m > MaxLength THEN offset + m - MaxLength
                   ELSE offset + m
  BY <1>1 DEF oa_read_buffer_noinit
<1> HIDE DEF m
<1>3. m + i \in 1 .. len /\ i \in Nat
  BY <1>1, <1>2
<1>4. Wrap(offset' + i - 1) = Wrap(offset + (m + i) - 1)
  <2>1. CASE offset + m > MaxLength
    BY <1>1, <1>2, <1>3, <2>1 DEF Wrap
  <2>2. CASE ~(offset + m > MaxLength)
    BY <1>1, <1>2, <1>3, <2>2 DEF Wrap
  <2>3. QED
    BY <2>1, <2>2
<1>5. QED
  BY <1>3, <1>4 DEF m

LEMMA SendTypes ==
  ASSUME IInv, SendTakes
  PROVE  IInv'
<1> DEFINE m == Smaller(SendMax, len)
<1>1. /\ len \in 0 .. MaxLength /\ offset \in 0 .. MaxLength
      /\ m \in 0 .. len /\ m <= SendMax
  BY DEF IInv, TypeOK, Smaller
<1>2. /\ oa_read_buffer_noinit(SendMax)
      /\ buf' = buf
      /\ out' = oa_query_buffer_noinit(SendMax)
  BY DEF SendTakes
<1>3. len' \in 0 .. MaxLength /\ offset' \in 0 .. MaxLength
  BY <1>1, <1>2 DEF oa_read_buffer_noinit
<1>4. out' \in Seq(Byte) /\ Len(out') <= SendMax
  BY <1>1, <1>2, Queried
<1>5. \A i \in 1 .. len' : buf'[Wrap(offset' + i - 1)] \in Byte
  BY <1>2, LeftByte DEF IInv, UnsentWritten
<1>6. QED
  BY <1>2, <1>3, <1>4, <1>5 DEF IInv, TypeOK, UnsentWritten

LEMMA Invariant == Spec => []IInv
<1>1. Init => IInv
  BY DEF Init, IInv, TypeOK, UnsentWritten
<1>2. IInv /\ [Next]_vars => IInv'
  <2> SUFFICES ASSUME IInv, [Next]_vars PROVE IInv'
    OBVIOUS
  <2>1. CASE \E f \in Frame : oa_write_buffer_force_noinit(f)
    BY <2>1, WriteTypes
  <2>2. CASE SendTakes
    BY <2>2, SendTypes
  <2>3. CASE SendBlocks
    <3>1. out' \in Seq(Byte) /\ Len(out') <= SendMax
      BY <2>3, Queried DEF SendBlocks, Smaller, IInv, TypeOK
    <3>2. QED
      BY <2>3, <3>1 DEF SendBlocks, ring, IInv, TypeOK, UnsentWritten
  <2>4. CASE oa_soc_init_fast
    BY <2>4 DEF oa_soc_init_fast, IInv, TypeOK, UnsentWritten
  <2>5. CASE UNCHANGED vars
    BY <2>5 DEF vars, ring, IInv, TypeOK, UnsentWritten
  <2>6. QED
    BY <2>1, <2>2, <2>3, <2>4, <2>5 DEF Next
<1>3. QED
  BY <1>1, <1>2, PTL DEF Spec

(* For a buffer of any size up to half of what an oa_uint16 counts, and     *)
(* frames of any length up to the buffer's, no index leaves the buffer.     *)
THEOREM RingTypes == Spec => []TypeOK
<1>1. IInv => TypeOK
  BY DEF IInv
<1>2. QED
  BY <1>1, Invariant, PTL

-----------------------------------------------------------------------------
(* The ring is a queue *)

LEMMA WritePuts ==
  ASSUME IInv, IInv', NEW f \in Frame, oa_write_buffer_force_noinit(f)
  PROVE  Fifo!Put(f)
<1> DEFINE all == Unsent \o f
           cut == len + Len(f) - len'
           new == Fifo!Newest(all)
<1>1. Shape /\ Shape'
  BY UnsentShape, UnsentShapeNext
<1>2. /\ f \in Seq(Byte) /\ Len(f) \in Nat
      /\ len \in 0 .. MaxLength /\ len' \in 0 .. MaxLength
  BY FrameParts DEF IInv, TypeOK
<1>3. /\ all \in Seq(Byte) /\ Len(all) = len + Len(f)
      /\ \A j \in 1 .. len + Len(f) :
           all[j] = IF j <= len THEN buf[Wrap(offset + j - 1)] ELSE f[j - len]
  <2>1. /\ Unsent \in Seq(Byte) /\ Len(Unsent) = len
        /\ \A j \in 1 .. len : Unsent[j] = buf[Wrap(offset + j - 1)]
    BY <1>1 DEF Shape
  <2> HIDE DEF Unsent
  <2>2. /\ all \in Seq(Byte) /\ Len(all) = len + Len(f)
        /\ \A j \in 1 .. len + Len(f) : all[j] = IF j <= len THEN Unsent[j] ELSE f[j - len]
    BY <1>2, <2>1, ConcatProperties
  <2> QED
    BY <1>2, <2>1, <2>2
<1> HIDE DEF all
<1>4. len' = Smaller(len + Len(f), MaxLength) /\ out' = out
  BY DEF oa_write_buffer_force_noinit
<1>5. /\ new \in Seq(Byte) /\ Len(new) = len'
      /\ \A i \in 1 .. len' : new[i] = all[i + cut]
  <2>1. CASE len + Len(f) > MaxLength
    <3>1. len' = MaxLength
      BY <1>2, <1>4, <2>1 DEF Smaller
    <3>2. cut = Len(all) - MaxLength
      BY <1>2, <1>3, <3>1
    <3>3. new = SubSeq(all, Len(all) - MaxLength + 1, Len(all))
      BY <1>3, <2>1 DEF Fifo!Newest
    <3>4. /\ Len(all) - MaxLength + 1 \in 1 .. Len(all) + 1 /\ Len(all) \in Nat
          /\ MaxLength \in Nat
      BY <1>2, <1>3, <2>1
    <3>5. /\ new \in Seq(Byte) /\ Len(new) = MaxLength
          /\ \A i \in 1 .. MaxLength : new[i] = all[i + (Len(all) - MaxLength)]
      <4> HIDE DEF new
      <4> QED
        BY <1>3, <3>3, <3>4
    <3> HIDE DEF new, cut
    <3>6. QED
      BY <3>1, <3>2, <3>5
  <2>2. CASE len + Len(f) <= MaxLength
    <3>1. len' = len + Len(f) /\ cut = 0
      BY <1>2, <1>4, <2>2 DEF Smaller
    <3>2. new = all
      BY <1>2, <1>3, <2>2 DEF Fifo!Newest
    <3>3. QED
      BY <1>2, <1>3, <3>1, <3>2
  <2>3. QED
    BY <1>2, <2>1, <2>2
<1> HIDE DEF new
<1>6. ASSUME NEW i \in 1 .. len'
      PROVE  Unsent'[i] = new[i]
  <2> DEFINE j == i + cut
  <2>1. Unsent'[i] = buf'[Wrap(offset' + i - 1)]
    BY <1>1 DEF Shape
  <2>2. buf'[Wrap(offset' + i - 1)] =
          IF i - 1 + cut < len THEN buf[Wrap(offset + (i - 1 + cut))]
          ELSE f[(i - 1 + cut) - len + 1]
    <3>1. TypeOK
      BY DEF IInv
    <3>2. QED
      BY <3>1, WrittenByte
  <2>3. cut \in Nat /\ i + cut <= len + Len(f)
    <3>1. len' <= len + Len(f)
      BY <1>2, <1>4 DEF Smaller
    <3>2. QED
      BY <1>2, <3>1
  <2> HIDE DEF cut
  <2>4. j \in 1 .. len + Len(f) /\ i - 1 + cut = j - 1
    BY <1>2, <2>3
  <2> HIDE DEF j
  <2>5. offset \in Nat
    BY DEF IInv, TypeOK
  <2>6. buf'[Wrap(offset' + i - 1)] =
          IF j - 1 < len THEN buf[Wrap(offset + (j - 1))]
          ELSE f[(j - 1) - len + 1]
    BY <2>2, <2>4
  <2>7. /\ offset + (j - 1) = offset + j - 1
        /\ (j - 1) - len + 1 = j - len
        /\ (j - 1 < len <=> j <= len)
    BY <1>2, <2>4, <2>5
  <2>8. Unsent'[i] = all[j]
    BY <1>3, <2>1, <2>4, <2>6, <2>7
  <2>9. QED
    BY <1>5, <2>8 DEF j
<1>7. Unsent' = new
  <2>1. Unsent' \in Seq(Byte) /\ Len(Unsent') = len'
    BY <1>1 DEF Shape
  <2>2. QED
    BY <1>5, <1>6, <2>1, SeqEqual
<1>8. QED
  BY <1>4, <1>7 DEF Fifo!Put, new, all

(* For a buffer of any size, every frame is queued as it was given, and     *)
(* costs exactly as many of the oldest bytes as it needs.                   *)
THEOREM FramesAreQueued == Spec => FramesQueued
<1>1. IInv /\ IInv' => \A f \in Frame : oa_write_buffer_force_noinit(f) => Fifo!Put(f)
  BY WritePuts
<1>2. QED
  BY <1>1, Invariant, PTL DEF FramesQueued

LEMMA QueryIsOldest == IInv => oa_query_buffer_noinit(SendMax) = Fifo!Oldest
<1> SUFFICES ASSUME IInv PROVE oa_query_buffer_noinit(SendMax) = Fifo!Oldest
  OBVIOUS
<1>1. Len(Unsent) = len /\ len \in Nat
  BY UnsentShape DEF Shape, IInv, TypeOK
<1>2. Smaller(SendMax, len) = IF Len(Unsent) < SendMax THEN Len(Unsent) ELSE SendMax
  BY <1>1 DEF Smaller
<1>3. oa_query_buffer_noinit(SendMax) = SubSeq(Unsent, 1, Smaller(SendMax, len))
  BY Queried
<1>4. QED
  BY <1>2, <1>3 DEF Fifo!Oldest

LEMMA SendHands ==
  ASSUME IInv, IInv', SendTakes
  PROVE  Fifo!Hand
<1> DEFINE m    == Smaller(SendMax, len)
           left == SubSeq(Unsent, m + 1, Len(Unsent))
<1>1. Shape /\ Shape'
  BY UnsentShape, UnsentShapeNext
<1>2. /\ len \in Nat /\ m \in 0 .. len
  BY DEF IInv, TypeOK, Smaller
<1>3. /\ oa_read_buffer_noinit(SendMax) /\ buf' = buf
      /\ out' = oa_query_buffer_noinit(SendMax)
  BY DEF SendTakes
<1>4. len' = len - m
  BY <1>2, <1>3 DEF oa_read_buffer_noinit
<1>5. out' = Fifo!Oldest /\ Len(Fifo!Oldest) = m
  BY <1>3, QueryIsOldest, Queried
<1>6. ASSUME NEW i \in 1 .. len'
      PROVE  Unsent'[i] = Unsent[m + i]
  <2>1. m + i \in 1 .. len /\ Wrap(offset' + i - 1) = Wrap(offset + (m + i) - 1)
    BY <1>3, LeftByte
  <2> HIDE DEF m
  <2>2. Unsent'[i] = buf[Wrap(offset' + i - 1)]
    BY <1>1, <1>3 DEF Shape
  <2>3. QED
    BY <1>1, <2>1, <2>2 DEF Shape
<1> HIDE DEF m
<1>7. /\ left \in Seq(Byte) /\ Len(left) = len'
      /\ \A i \in 1 .. len' : left[i] = Unsent[m + i]
  BY <1>1, <1>2, <1>4 DEF Shape
<1> HIDE DEF left
<1>8. Unsent' = left
  <2>1. Unsent' \in Seq(Byte) /\ Len(Unsent') = len'
    BY <1>1 DEF Shape
  <2>2. QED
    BY <1>6, <1>7, <2>1, SeqEqual
<1>9. QED
  BY <1>5, <1>8 DEF Fifo!Hand, left

(* For a buffer of any size and frames of any length the ring implements    *)
(* the queue: what oa_soc_send_req is given is always the oldest bytes.     *)
THEOREM RingIsQueue == Spec => RefinesFifo
<1>1. Init => Fifo!Init
  BY DEF Init, Fifo!Init, Unsent, oa_query_buffer_noinit, Smaller
<1>2. IInv /\ IInv' /\ [Next]_vars => [Fifo!Next]_(Fifo!vars)
  <2> SUFFICES ASSUME IInv, IInv', [Next]_vars
               PROVE  [Fifo!Next]_(Fifo!vars)
    OBVIOUS
  <2>1. CASE \E f \in Frame : oa_write_buffer_force_noinit(f)
    BY <2>1, WritePuts DEF Fifo!Next
  <2>2. CASE SendTakes
    BY <2>2, SendHands DEF Fifo!Next
  <2>3. CASE SendBlocks
    <3>1. Unsent' = Unsent
      BY <2>3 DEF SendBlocks, ring, Unsent, oa_query_buffer_noinit
    <3>2. out' = Fifo!Oldest
      BY <2>3, QueryIsOldest DEF SendBlocks
    <3>3. QED
      BY <3>1, <3>2 DEF Fifo!Next, Fifo!Offer
  <2>4. CASE oa_soc_init_fast
    <3>1. Unsent' = <<>> /\ out' = <<>>
      BY <2>4 DEF oa_soc_init_fast, Unsent, oa_query_buffer_noinit, Smaller
    <3>2. QED
      BY <3>1 DEF Fifo!Next, Fifo!Clear
  <2>5. CASE UNCHANGED vars
    <3>1. Unsent' = Unsent /\ out' = out
      BY <2>5 DEF vars, ring, Unsent, oa_query_buffer_noinit
    <3>2. QED
      BY <3>1 DEF Fifo!vars
  <2>6. QED
    BY <2>1, <2>2, <2>3, <2>4, <2>5 DEF Next
<1>3. QED
  BY <1>1, <1>2, Invariant, PTL DEF Spec, RefinesFifo, Fifo!Spec
=============================================================================
