------------------------------ MODULE AtQueue ------------------------------
(***************************************************************************)
(* The queue of AT commands of oa_at-p.c: commands are allocated, put at   *)
(* the end of g_at_cmd_list, sent one at a time over the serial port to    *)
(* the modem, and guarded by one timer.                                    *)
(*                                                                         *)
(* A handler runs to its end before the next one, and a call may go        *)
(* several ways (a full heap, a port that refuses); so each function is an *)
(* operator from the state of the driver to the set of states in which it  *)
(* may leave it.                                                           *)
(***************************************************************************)
EXTENDS Integers, Sequences, FiniteSetsExt

CONSTANTS
    Addr,       \* bound: the places of the heap that may hold a command
    MaxOut,     \* the modem forgets the oldest command beyond this many
    Faults      \* "uart": the port refuses a command; "nomem": no memory

(* Asserted by the module that gives the constants their values. *)
AtAssumption ==
    /\ Addr \in SUBSET Nat
    /\ IsFiniteSet(Addr)
    /\ MaxOut \in Nat \ {0}
    /\ Faults \subseteq {"uart", "nomem"}

NULL == -1

\* The commands, and which of the three pairs of callbacks each one has.
Kinds == {"demo", "cmgf", "cmgs", "cmgr", "cmgd"}
SendKinds == {"cmgf", "cmgs"}
RecvKinds == {"cmgr", "cmgd"}

\* What the modem has been sent and not answered. A command that asks for a text
\* ("cmgs") is answered with a prompt first, and finally once it has the text.
Stages == {"new", "prompt", "text"}
Request == [kind : Kinds, stage : Stages]

Free == "free"

At == [heap : [Addr -> Kinds \cup {Free}],
       list : Seq(Addr),
       cur : Addr \cup {NULL},
       timer : Addr \cup {NULL},
       modem : Seq(Request),
       sendq : Seq({"format", "pdu", "finish"}),
       current : BOOLEAN,
       recvq : Seq({"read", "store"}),
       toggle : BOOLEAN,
       first_valid : BOOLEAN,
       seen : SUBSET {"uart", "nomem", "late"}]

----------------------------------------------------------------------------

\* A modem that waits for a text takes every byte for text.
InText(modem) == modem # <<>> /\ Head(modem).stage = "prompt"

Delivered(modem, kind) ==
    IF InText(modem) THEN modem
    ELSE Append(IF Len(modem) = MaxOut THEN Tail(modem) ELSE modem, [kind |-> kind, stage |-> "new"])

oa_at_busy(w) == w.cur # NULL

\* Variant: no timer for the command.
ExecutingUntimed(w, a) ==
    [w EXCEPT !.cur = a, !.modem = Delivered(@, w.heap[a])]

\* The command goes out, becomes the current one, and its timeout begins.
Executing(w, a) ==
    [w EXCEPT !.cur = a, !.timer = a, !.modem = Delivered(@, w.heap[a])]

\* Variant: sends although a command is under way.
SubmitWhileBusy(w) ==
    IF w.list = <<>> THEN {w} ELSE {Executing(w, Head(w.list))}

\* The first command of the list is sent if none is under way. When the port
\* refuses it stays in the list, and nothing is going to submit it again.
oa_at_submit(w) ==
    IF oa_at_busy(w) \/ w.list = <<>>
    THEN {w}
    ELSE {Executing(w, Head(w.list))}
         \cup {[w EXCEPT !.seen = @ \cup {"uart"}] : f \in Faults \cap {"uart"}}

FreePlaces(w) == {a \in Addr : w.heap[a] = Free}

\* A command is allocated and pended; without memory nothing is pended.
CreateAndPend(w, kind) ==
    (IF FreePlaces(w) = {} THEN {}
     ELSE LET a == CHOOSE p \in FreePlaces(w) : TRUE
          IN  {[w EXCEPT !.heap[a] = kind, !.list = Append(@, a)]})
    \cup {[w EXCEPT !.seen = @ \cup {"nomem"}] :
            f \in IF FreePlaces(w) = {} THEN {"nomem"} ELSE Faults \cap {"nomem"}}

\* The state machines of the SMS submit in the same breath, unless the allocation failed.
PendAndSubmit(w, kind) ==
    UNION {IF v.list = w.list THEN {v} ELSE oa_at_submit(v) : v \in CreateAndPend(w, kind)}

\* oa_at_cmd_demo and its submission: the submission takes place either way.
oa_at_cmd_demo(w) == UNION {oa_at_submit(v) : v \in CreateAndPend(w, "demo")}

\* Variant: the timer of the command goes on.
UnlinkedTimerRuns(w, a) ==
    [w EXCEPT !.cur = NULL,
              !.list = IF @ # <<>> /\ Head(@) = a THEN Tail(@) ELSE @]

\* What oa_at_finish_cmd does before it calls the callback: the timer stops, the
\* command leaves the list, the next one is sent.
Unlinked(w, a) ==
    [w EXCEPT !.timer = NULL, !.cur = NULL,
              !.list = IF @ # <<>> /\ Head(@) = a THEN Tail(@) ELSE @]

oa_at_delete_cmd(w, a) == [w EXCEPT !.heap[a] = Free]
=============================================================================
