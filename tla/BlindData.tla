------------------------------ MODULE BlindData ------------------------------
(***************************************************************************)
(* The store of position reports that could not be sent, "blind data":     *)
(* src/src/oa_blinddata.c.  One file holds DataNumMax + 1 record slots, a  *)
(* second one, the manage file, the write index, the read index and the    *)
(* overflow flag.  A record is written to its slot before the manage file  *)
(* is saved; the 250 ms task saves the advanced read index before it sends *)
(* the record, and writes the record back when the send falls short.       *)
(*                                                                         *)
(* The program is single-threaded, so a handler is interrupted only by an  *)
(* error return or by a restart (watchdog, reset, power loss): pc names    *)
(* the places of the handlers between two file operations.                 *)
(***************************************************************************)
EXTENDS Integers, FiniteSets

CONSTANTS
  Record,      \* the position reports
  Damaged,     \* a slot in which a write was cut short
  Unwritten,   \* a slot beyond what was ever written to the data file
  None,        \* the RAM buffer of a handler holds nothing
  DataNumMax   \* DATA_NUM_MAX, the last slot (10000 in oa_blinddata.h)

ASSUME DataNumMaxAssumption == DataNumMax \in Nat /\ DataNumMax >= 1
ASSUME DistinctAssumption ==
  /\ Damaged \notin Record
  /\ None \notin Record \cup {Damaged}
  /\ Unwritten \notin Record \cup {Damaged}

VARIABLES
  data,            \* the data file, slot by slot
  write_index,     \* manage file: the slot the next record goes to
  read_index,      \* manage file: the slot of the oldest unsent record
  write_overflow,  \* manage file: the writer has wrapped, the reader has not
  pc,              \* where the running handler stands, "idle" if none runs
  buf              \* the record the running handler holds in RAM

manage == <<write_index, read_index, write_overflow>>
vars == <<data, write_index, read_index, write_overflow, pc, buf>>

Slot == 0 .. DataNumMax
Item == Record \cup {Damaged}

(* Every variable keeps its type: both indices stay inside the data file,   *)
(* which oa_fseek and the manage file (oa_blinddata.c:242-265) do not check. *)
TypeOK ==
  /\ data \in [Slot -> Item \cup {Unwritten}]
  /\ write_index \in Slot
  /\ read_index \in Slot
  /\ write_overflow \in BOOLEAN
  /\ pc \in {"idle", "save_write", "save_read", "send"}
  /\ buf \in Item \cup {None, Unwritten}

Init ==
  /\ data = [s \in Slot |-> Unwritten]
  /\ write_index = 0
  /\ read_index = 0
  /\ write_overflow = FALSE
  /\ pc = "idle"
  /\ buf = None

Return == /\ pc' = "idle"
          /\ buf' = None

-----------------------------------------------------------------------------
(* Writing: write_blinddata_to_1file and save_to_manage_1file(WRITE_INDEX) *)

PutInSlot(r) ==
  /\ data' = [data EXCEPT ![write_index] = r]
  /\ pc' = "save_write"
  /\ buf' = r
  /\ UNCHANGED manage

(* A report is built while the link is down (DevReq2ServPackag_build_blind). *)
WriteSlot(r) == pc = "idle" /\ PutInSlot(r)

(* oa_fwrite of the slot fails, or the power does: the handler is over, the  *)
(* slot's bytes are part old, part new.                                      *)
SpoilSlot ==
  /\ pc \in {"idle", "send"}
  /\ data' = [data EXCEPT ![write_index] = Damaged]
  /\ Return
  /\ UNCHANGED manage

Past(index) == index > DataNumMax

Wrap(index) == IF Past(index) THEN 0 ELSE index

(* The writer that has wrapped pushes the reader ahead of it. *)
Pushes == write_overflow /\ write_index + 1 >= read_index

SaveWriteIndexNoOverflow ==
  /\ pc = "save_write"
  /\ read_index' = IF Pushes THEN Wrap(read_index + 1) ELSE read_index
  /\ write_overflow' = (write_overflow /\ ~ (Pushes /\ Past(read_index + 1)))
  /\ write_index' = Wrap(write_index + 1)
  /\ Return
  /\ UNCHANGED data

SaveWriteIndex ==
  /\ pc = "save_write"
  /\ read_index' = IF Pushes THEN Wrap(read_index + 1) ELSE read_index
  /\ write_overflow' = \/ Past(write_index + 1)
                       \/ write_overflow /\ ~ (Pushes /\ Past(read_index + 1))
  /\ write_index' = Wrap(write_index + 1)
  /\ Return
  /\ UNCHANGED data

-----------------------------------------------------------------------------
(* Sending: oa_app_blinddata, read_blinddata_from_1file and                 *)
(* save_to_manage_1file(READ_INDEX)                                         *)

HasUnreadIgnoringOverflow == read_index < write_index

HasUnread == read_index < write_index \/ write_overflow

(* The 250 ms task runs while the link can send.  oa_fread of a slot past   *)
(* the end of the file fails, which leaves everything as it is.             *)
ReadSlot ==
  /\ pc = "idle"
  /\ HasUnread
  /\ data[read_index] # Unwritten
  /\ pc' = "save_read"
  /\ buf' = data[read_index]
  /\ UNCHANGED <<data, manage>>

SaveReadIndex ==
  /\ pc = "save_read"
  /\ read_index' = Wrap(read_index + 1)
  /\ write_overflow' = (write_overflow /\ ~ Past(read_index + 1))
  /\ pc' = "send"
  /\ UNCHANGED <<data, write_index, buf>>

(* send_len = ret_len: the record's bytes are with the socket. *)
SendDone ==
  /\ pc = "send"
  /\ Return
  /\ UNCHANGED <<data, manage>>

(* send_len # ret_len: the record goes back into the store, at its tail. *)
WriteBack == pc = "send" /\ PutInSlot(buf)

(* An error return between two file operations, or a restart. *)
GiveUp ==
  /\ pc # "idle"
  /\ Return
  /\ UNCHANGED <<data, manage>>

(* Mutant: the manage file survives. *)
DelBlinddataKeepsManage ==
  /\ pc = "idle"
  /\ data' = [s \in Slot |-> Unwritten]
  /\ UNCHANGED <<manage, pc, buf>>

(* del_blinddata removes both files; the manage file that is made next is   *)
(* all zero.                                                                *)
del_blinddata ==
  /\ pc = "idle"
  /\ data' = [s \in Slot |-> Unwritten]
  /\ write_index' = 0
  /\ read_index' = 0
  /\ write_overflow' = FALSE
  /\ UNCHANGED <<pc, buf>>

Continue == SaveWriteIndex \/ SaveReadIndex \/ SendDone \/ WriteBack \/ GiveUp

Next == \/ \E r \in Record : WriteSlot(r)
        \/ SpoilSlot
        \/ ReadSlot
        \/ Continue
        \/ del_blinddata

Spec == Init /\ [][Next]_vars

(* A handler that has begun comes to its end; the 250 ms task keeps finding *)
(* the link up and the store idle, and a restart does not hit it each time  *)
(* between the read of a slot and the save of the index.                    *)
FairSpec == /\ Spec
            /\ WF_vars(Continue)
            /\ SF_vars(ReadSlot)
            /\ SF_vars(SaveReadIndex)

-----------------------------------------------------------------------------
(* The slots that hold a report not yet taken for sending. *)
UnreadSlots ==
  IF write_overflow
  THEN read_index .. DataNumMax \cup 0 .. write_index - 1
  ELSE read_index .. write_index - 1

Full == write_overflow /\ read_index = write_index

(* The two indices never cross: the reader is behind the writer until the   *)
(* writer wraps, and ahead of it from then until the reader wraps.  Either  *)
(* index file update (oa_blinddata.c:242-265) could break it.               *)
IndexOrder == IF write_overflow
              THEN write_index <= read_index
              ELSE read_index <= write_index

(* The reader finds a written slot wherever the indices say there is a      *)
(* report: it never has to take bytes past the end of the data file, on     *)
(* which read_blinddata_from_1file would fail again on every later tick.    *)
UnreadWritten == \A s \in UnreadSlots : data[s] # Unwritten

(* The store is whole between any two file operations: types, order of the  *)
(* indices, and what lies between them.                                     *)
StoreInv == TypeOK /\ IndexOrder /\ UnreadWritten

(* A report that waits is not touched by any step, except the oldest one of *)
(* a full store, whose slot the next write takes before the indices move.   *)
WaitingUntouched ==
  [][\A s \in UnreadSlots \cap UnreadSlots' :
        data'[s] # data[s] => Full /\ s = read_index]_vars

(* Every waiting report is eventually taken or given up: the read index     *)
(* does not stay where a report waits, whatever wraps, write-backs and      *)
(* restarts happen meanwhile.                                               *)
HeadLeaves ==
  \A s \in Slot :
    (read_index = s /\ UnreadSlots # {}) ~> (read_index # s \/ UnreadSlots = {})

-----------------------------------------------------------------------------
(* Refinement: the unread slots, from the read index on, are the queue.     *)

Count == IF write_overflow
         THEN DataNumMax + 1 - read_index + write_index
         ELSE write_index - read_index

SlotOf(i) == IF read_index + i - 1 > DataNumMax
             THEN read_index + i - 2 - DataNumMax
             ELSE read_index + i - 1

UnreadQueue == [i \in 1 .. Count |-> data[SlotOf(i)]]

(* The report whose slot is written and whose index is not yet saved. *)
Pending == IF pc = "save_write" THEN buf ELSE None

Store == INSTANCE BlindQueue WITH
           Capacity <- DataNumMax + 1,
           queue <- UnreadQueue,
           pending <- Pending

(* The circular file is a bounded first-in first-out queue that gives up    *)
(* only its oldest report and only at its capacity, and that an error or a  *)
(* restart between any two file operations leaves as it was.                *)
RefinesQueue == Store!Spec
=============================================================================
