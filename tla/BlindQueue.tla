----------------------------- MODULE BlindQueue -----------------------------
(***************************************************************************)
(* What the store of unsent ("blind") position reports promises: a bounded *)
(* first-in first-out queue that survives a restart, and that makes room   *)
(* by giving up its oldest report.  Module BlindData, the circular file of *)
(* src/src/oa_blinddata.c, is shown to implement it.                       *)
(***************************************************************************)
EXTENDS Naturals, Sequences

CONSTANTS
  Item,       \* what a place of the queue may hold
  Damaged,    \* an item whose bytes a failed write left incomplete
  None,       \* no report is being stored
  Capacity    \* the number of reports the queue holds

VARIABLES
  queue,      \* the unsent reports, the oldest first
  pending     \* the report whose bytes are written but which is not yet in the queue

vars == <<queue, pending>>

Full == Len(queue) = Capacity

(* In a full queue the new report can only be written over the oldest one. *)
WithHead(i) == [queue EXCEPT ![1] = i]

Init == /\ queue = <<>>
        /\ pending = None

Begin(r) == /\ pending = None
            /\ pending' = r
            /\ queue' = IF Full THEN WithHead(r) ELSE queue

(* The write of the report's bytes failed: only a full queue can tell. *)
Spoil == /\ pending = None
         /\ Full
         /\ queue' = WithHead(Damaged)
         /\ UNCHANGED pending

(* The report joins the queue.  The oldest one is given up when the queue  *)
(* is full, and may be when only one place is left.                        *)
Commit == /\ pending # None
          /\ pending' = None
          /\ \/ /\ ~ Full
                /\ queue' = Append(queue, pending)
             \/ /\ Len(queue) >= Capacity - 1
                /\ queue # <<>>
                /\ queue' = Append(Tail(queue), pending)

(* An error or a restart before the report joined the queue. *)
Abandon == /\ pending # None
           /\ pending' = None
           /\ UNCHANGED queue

Take == /\ pending = None
        /\ queue # <<>>
        /\ queue' = Tail(queue)
        /\ UNCHANGED pending

Erase == /\ pending = None
         /\ queue' = <<>>
         /\ UNCHANGED pending

Next == \/ \E r \in Item : Begin(r)
        \/ Spoil
        \/ Commit
        \/ Abandon
        \/ Take
        \/ Erase

Spec == Init /\ [][Next]_vars
=============================================================================
