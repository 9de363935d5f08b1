----------------------------- MODULE SmsQueue ------------------------------
(***************************************************************************)
(* The SMS driver of oa_sms-p.c over the command queue of AtQueue: messages *)
(* to send (format, then text), messages announced by the modem (read, then *)
(* delete), the handler of every second, the lines and prompts of the modem *)
(* and the timeout of a command.                                            *)
(***************************************************************************)
EXTENDS AtQueue

CONSTANTS
    Setup,      \* bound: the commands that set up the modem, up to the four of the code
    MaxSms,     \* bound: messages waiting to be sent
    MaxRecv     \* bound: messages announced and not yet deleted

(* Asserted, with AtAssumption, by the module that gives the constants their values. *)
SetupAssumption == Setup \in 1..4

VARIABLE
    w           \* the driver and the modem, see At

----------------------------------------------------------------------------

Fresh ==
    [heap |-> [a \in Addr |-> Free], list |-> <<>>, cur |-> NULL, timer |-> NULL,
     modem |-> <<>>, sendq |-> <<>>, current |-> FALSE, recvq |-> <<>>,
     toggle |-> TRUE, first_valid |-> FALSE, seen |-> {}]

\* The two steps of a message to be sent, and its end.
oa_send_sms_state_machine(v) ==
    IF ~v.current THEN {v}
    ELSE CASE Head(v.sendq) = "format"  -> PendAndSubmit(v, "cmgf")
           [] Head(v.sendq) = "pdu"     -> PendAndSubmit(v, "cmgs")
           [] Head(v.sendq) = "finish"  -> {[v EXCEPT !.sendq = Tail(@), !.current = FALSE]}

oa_send_sms_callback(v, ret) ==
    IF ~v.current THEN {v}
    ELSE LET next == IF ret = "ok" /\ Head(v.sendq) = "format" THEN "pdu" ELSE "finish"
         IN  oa_send_sms_state_machine([v EXCEPT !.sendq[1] = next])

\* The two steps of a message announced. With an empty list the head of the list is taken for
\* an entry: whatever lies behind it in memory decides.
oa_recv_sms_state_machine(v) ==
    CASE v.recvq = <<>>            -> {v} \cup PendAndSubmit(v, "cmgr") \cup PendAndSubmit(v, "cmgd")
      [] v.recvq # <<>> /\ Head(v.recvq) = "read"   -> PendAndSubmit(v, "cmgr")
      [] v.recvq # <<>> /\ Head(v.recvq) = "store"  -> PendAndSubmit(v, "cmgd")

oa_recv_sms_callback(v, ret) ==
    IF ret # "ok" THEN {v}
    ELSE LET next == CASE v.recvq = <<>> -> <<>>
                       [] v.recvq # <<>> /\ Head(v.recvq) = "read"  -> <<"store">> \o Tail(v.recvq)
                       [] v.recvq # <<>> /\ Head(v.recvq) = "store" -> Tail(v.recvq)
         IN  oa_recv_sms_state_machine([v EXCEPT !.recvq = next])

\* The callback of the command at place a.
Callback(v, a, ret) ==
    CASE v.heap[a] \in SendKinds -> oa_send_sms_callback(v, ret)
      [] v.heap[a] \in RecvKinds -> oa_recv_sms_callback(v, ret)
      [] OTHER                   -> {v}

\* The end of a command: the next one is on its way before the callback hears of the end.
oa_at_finish_cmd(v, a, ret) ==
    {oa_at_delete_cmd(u, a) :
        u \in UNION {Callback(s, a, ret) : s \in oa_at_submit(Unlinked(v, a))}}

----------------------------------------------------------------------------

Init == w = Fresh

\* One more command of the setup, in whatever state the ones before have left the driver.
AlsoDemo(V) == UNION {CreateAndPend(v, "demo") : v \in V}

\* The first second with a SIM card: the commands to set up the modem, then one submission.
oa_sms_initial_by_at_cmd ==
    /\ ~w.first_valid
    /\ LET one == AlsoDemo({[w EXCEPT !.first_valid = TRUE]})
           two == AlsoDemo(one)
           three == AlsoDemo(two)
           pended == <<one, two, three, AlsoDemo(three)>>
       IN  w' \in UNION {oa_at_submit(v) : v \in pended[Setup]}

\* Every second, when no command is under way: once for the messages announced, once
\* for those to be sent.
oa_sms_handler ==
    /\ w.first_valid
    /\ ~oa_at_busy(w)
    /\ FreePlaces(w) # {}
    /\ LET v == [w EXCEPT !.toggle = ~@]
       IN  w' \in IF v.toggle
                  THEN IF v.recvq # <<>> THEN oa_recv_sms_state_machine(v) ELSE {v}
                  ELSE IF ~v.current /\ v.sendq # <<>>
                       THEN oa_send_sms_state_machine([v EXCEPT !.current = TRUE])
                       ELSE {v}

\* A command, an alarm or a test has a message to send.
oa_sms_pend_sms ==
    /\ Len(w.sendq) < MaxSms
    /\ w' = [w EXCEPT !.sendq = Append(@, "format")]

\* "+CMTI": the modem announces a message.
MessageAnnounced ==
    /\ Len(w.recvq) < MaxRecv
    /\ w' = [w EXCEPT !.recvq = Append(@, "read")]

\* A message has been handed to the program: all messages are deleted from the modem.
DeleteAllMessages ==
    /\ w.first_valid
    /\ \A a \in Addr : w.heap[a] # "demo"
    /\ Cardinality(FreePlaces(w)) > 1
    /\ w' \in oa_at_cmd_demo(w)

oa_at_cmd_timeout_callback ==
    /\ w.timer # NULL
    /\ w' \in oa_at_finish_cmd([w EXCEPT !.timer = NULL, !.seen = @ \cup {"late"}], w.timer, "error")

----------------------------------------------------------------------------
\* What comes from the modem. A final answer says nothing of the command it belongs to; it ends the
\* current one.

Answerable(r, ret) ==
    \/ r.kind # "cmgs"
    \/ r.stage = "text"
    \/ r.stage = "new" /\ ret = "error"

Answered(v, ret) == IF v.cur = NULL THEN {v} ELSE oa_at_finish_cmd(v, v.cur, ret)

FinalAnswer(ret) ==
    /\ w.modem # <<>>
    /\ Answerable(Head(w.modem), ret)
    /\ w' \in Answered([w EXCEPT !.modem = Tail(@)], ret)

\* Two answers in one piece: the second is compared with the command that the first has ended.
TwoAnswers(ret) ==
    /\ Len(w.modem) > 1
    /\ Answerable(w.modem[1], ret)
    /\ w.modem[2].kind # "cmgs"
    /\ w' \in Answered([w EXCEPT !.modem = Tail(Tail(@))], ret)

\* The modem gives no answer.
NoAnswer ==
    /\ w.modem # <<>>
    /\ ~InText(w.modem)
    /\ w' = [w EXCEPT !.modem = Tail(@)]

\* ">": the text of the current message follows if the current command has one. If not, the modem
\* waits, and what it was sent since is its text.
Prompt ==
    /\ w.modem # <<>>
    /\ Head(w.modem) = [kind |-> "cmgs", stage |-> "new"]
    /\ w' = IF w.cur # NULL /\ w.heap[w.cur] = "cmgs" /\ w.current
            THEN [w EXCEPT !.modem[1].stage = "text"]
            ELSE [w EXCEPT !.modem = <<[kind |-> "cmgs", stage |-> "prompt"]>>]

Next ==
    \/ oa_sms_initial_by_at_cmd
    \/ oa_sms_handler
    \/ oa_sms_pend_sms
    \/ MessageAnnounced
    \/ DeleteAllMessages
    \/ oa_at_cmd_timeout_callback
    \/ \E ret \in {"ok", "error"} : FinalAnswer(ret) \/ TwoAnswers(ret)
    \/ NoAnswer
    \/ Prompt

\* The timer functions start themselves again, and an armed timer fires.
Fairness == WF_w(oa_sms_handler) /\ WF_w(oa_at_cmd_timeout_callback) /\ WF_w(oa_sms_initial_by_at_cmd)

Spec == Init /\ [][Next]_w /\ Fairness

----------------------------------------------------------------------------

\* The current command is the first of the list and the timer is its timer; every command in memory
\* is in the list exactly once. So no callback or timeout gets a command that has been freed.
NoDangling ==
    /\ w \in At
    /\ w.cur # NULL => w.list # <<>> /\ w.cur = Head(w.list)
    /\ w.timer = w.cur
    /\ \A a \in Addr : w.heap[a] # Free <=> \E i \in 1..Len(w.list) : w.list[i] = a
    /\ \A i, j \in 1..Len(w.list) : w.list[i] = w.list[j] => i = j

SendCommands == {i \in 1..Len(w.list) : w.heap[w.list[i]] \in SendKinds}

\* At most one command belongs to a message being sent, it is the command of that message's
\* step, and it has the message: its callback never looks for a message that is gone.
OneSending ==
    /\ w.current => w.sendq # <<>> /\ Head(w.sendq) # "finish"
    /\ \A i \in SendCommands :
          /\ w.current
          /\ w.heap[w.list[i]] = IF Head(w.sendq) = "format" THEN "cmgf" ELSE "cmgs"
          /\ \A j \in SendCommands : i = j

\* Both, at every step of the driver.
SmsInv == NoDangling /\ OneSending

\* As long as no command has timed out, a message is taken off the list only by an answer to its own
\* command: one the modem has accepted is one whose text it has got.
OwnAnswer ==
    [][/\ w.sendq # <<>>
       /\ w'.sendq = Tail(w.sendq)
       /\ "late" \notin w'.seen
       => /\ w.modem # <<>>
          /\ Head(w.modem).kind = IF Head(w.sendq) = "format" THEN "cmgf" ELSE "cmgs"]_w

\* A message that is being sent comes to an end, whatever the modem does, as long as the
\* port and the heap serve.
SendEnds == w.current ~> (~w.current \/ w.seen \cap {"uart", "nomem"} # {})
=============================================================================
