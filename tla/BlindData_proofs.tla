--------------------------- MODULE BlindData_proofs ---------------------------
(***************************************************************************)
(* Proofs about BlindData for a store of any size: the indices never       *)
(* cross, a waiting slot is a written slot, only the oldest report of a    *)
(* full store is ever overwritten.                                         *)
(***************************************************************************)
EXTENDS MCBlindData, Sequences, SequenceTheorems, TLAPS

(* What a handler relies on at each of its places. *)
Places ==
  /\ pc = "save_write" => data[write_index] = buf /\ buf \in Item
  /\ pc = "save_read" => HasUnread /\ buf \in Item
  /\ pc = "send" => buf \in Item

IInv == TypeOK /\ IndexOrder /\ UnreadWritten /\ Places

USE DataNumMaxAssumption, DistinctAssumption

-----------------------------------------------------------------------------
(* What the two index updates do to the set of waiting slots. *)

(* Saving the write index adds the slot just written and, when the writer   *)
(* reaches the reader, takes the oldest slot out (oa_blinddata.c:242-256).  *)
LEMMA SaveWriteIndexUnread ==
  ASSUME TypeOK, IndexOrder, SaveWriteIndex
  PROVE  /\ IndexOrder'
         /\ UnreadSlots' \subseteq UnreadSlots \cup {write_index}
<1> USE DEF TypeOK, Slot, IndexOrder, SaveWriteIndex, Pushes, Wrap, Past, UnreadSlots
<1>1. CASE Past(write_index + 1)
  <2>1. write_overflow'
    BY <1>1
  <2>2. CASE write_overflow
    BY <1>1, <2>1, <2>2
  <2>3. CASE ~ write_overflow
    BY <1>1, <2>1, <2>3
  <2>4. QED
    BY <2>2, <2>3
<1>2. CASE ~ Past(write_index + 1) /\ ~ write_overflow
  <2>1. ~ write_overflow'
    BY <1>2
  <2>2. QED
    BY <1>2, <2>1
<1>3. CASE ~ Past(write_index + 1) /\ write_overflow /\ Pushes /\ Past(read_index + 1)
  <2>1. ~ write_overflow'
    BY <1>3
  <2>2. QED
    BY <1>3, <2>1
<1>4. CASE ~ Past(write_index + 1) /\ write_overflow /\ Pushes /\ ~ Past(read_index + 1)
  <2>1. write_overflow'
    BY <1>4
  <2>2. QED
    BY <1>4, <2>1
<1>5. CASE ~ Past(write_index + 1) /\ write_overflow /\ ~ Pushes
  <2>1. write_overflow'
    BY <1>5
  <2>2. QED
    BY <1>5, <2>1
<1>6. QED
  BY <1>1, <1>2, <1>3, <1>4, <1>5

(* Saving the read index takes the slot just read out (oa_blinddata.c:257-265). *)
LEMMA SaveReadIndexUnread ==
  ASSUME TypeOK, IndexOrder, HasUnread, SaveReadIndex
  PROVE  /\ IndexOrder'
         /\ UnreadSlots' \subseteq UnreadSlots
<1> USE DEF TypeOK, Slot, IndexOrder, HasUnread, SaveReadIndex, Wrap, Past, UnreadSlots
<1>1. CASE write_overflow /\ Past(read_index + 1)
  <2>1. ~ write_overflow'
    BY <1>1
  <2>2. QED
    BY <1>1, <2>1
<1>2. CASE write_overflow /\ ~ Past(read_index + 1)
  <2>1. write_overflow'
    BY <1>2
  <2>2. QED
    BY <1>2, <2>1
<1>3. CASE ~ write_overflow
  <2>1. ~ write_overflow'
    BY <1>3
  <2>2. QED
    BY <1>3, <2>1
<1>4. QED
  BY <1>1, <1>2, <1>3

-----------------------------------------------------------------------------
LEMMA InitIInv == Init => IInv
<1> SUFFICES ASSUME Init
             PROVE  IInv
  OBVIOUS
<1>1. TypeOK
  <2>1. 0 \in Slot
    BY DEF Slot
  <2>2. data \in [Slot -> Item \cup {Unwritten}]
    BY DEF Init
  <2>3. QED
    BY <2>1, <2>2 DEF Init, TypeOK
<1>2. ~ write_overflow /\ write_index = 0 /\ read_index = 0 /\ pc = "idle"
  BY DEF Init
<1>3. IndexOrder
  BY <1>2 DEF IndexOrder
<1>4. UnreadWritten
  BY <1>2 DEF UnreadWritten, UnreadSlots
<1>5. Places
  BY <1>2 DEF Places
<1>6. QED
  BY <1>1, <1>3, <1>4, <1>5 DEF IInv

LEMMA NextIInv == IInv /\ [Next]_vars => IInv'
<1> SUFFICES ASSUME IInv, [Next]_vars
             PROVE  IInv'
  OBVIOUS
<1> USE DEF IInv
<1>1. ASSUME NEW r \in Item, pc # "save_read", PutInSlot(r)
      PROVE  IInv'
  BY <1>1 DEF PutInSlot, TypeOK, IndexOrder, UnreadWritten, UnreadSlots,
              Places, manage, Slot, Item
<1>2. ASSUME NEW r \in Record, WriteSlot(r)
      PROVE  IInv'
  BY <1>1, <1>2 DEF WriteSlot, Item
<1>3. CASE SpoilSlot
  BY <1>3 DEF SpoilSlot, Return, TypeOK, IndexOrder, UnreadWritten, UnreadSlots,
              Places, manage, Slot, Item
<1>4. CASE SaveWriteIndex
  <2>1. TypeOK'
    BY <1>4 DEF SaveWriteIndex, Return, Wrap, Past, TypeOK, Slot
  <2>2. IndexOrder' /\ UnreadSlots' \subseteq UnreadSlots \cup {write_index}
    BY <1>4, SaveWriteIndexUnread
  <2>3. UnreadWritten'
    BY <1>4, <2>2 DEF SaveWriteIndex, UnreadWritten, Places, Item
  <2>4. Places'
    BY <1>4 DEF SaveWriteIndex, Return, Places
  <2>5. QED
    BY <2>1, <2>2, <2>3, <2>4
<1>5. CASE ReadSlot
  BY <1>5 DEF ReadSlot, TypeOK, IndexOrder, UnreadWritten, UnreadSlots,
              HasUnread, Places, manage, Slot, Item
<1>6. CASE SaveReadIndex
  <2>1. TypeOK'
    BY <1>6 DEF SaveReadIndex, Wrap, Past, TypeOK, Slot
  <2>2. IndexOrder' /\ UnreadSlots' \subseteq UnreadSlots
    BY <1>6, SaveReadIndexUnread DEF Places, SaveReadIndex
  <2>3. UnreadWritten'
    BY <1>6, <2>2 DEF SaveReadIndex, UnreadWritten
  <2>4. Places'
    BY <1>6 DEF SaveReadIndex, Places
  <2>5. QED
    BY <2>1, <2>2, <2>3, <2>4
<1>7. CASE SendDone \/ GiveUp
  BY <1>7 DEF SendDone, GiveUp, Return, TypeOK, IndexOrder, UnreadWritten,
              UnreadSlots, Places, manage
<1>8. CASE WriteBack
  BY <1>1, <1>8 DEF WriteBack, Places
<1>9. CASE del_blinddata
  <2>1. TypeOK'
    <3>1. 0 \in Slot
      BY DEF Slot
    <3>2. data' \in [Slot -> Item \cup {Unwritten}]
      BY <1>9 DEF del_blinddata
    <3>3. QED
      BY <1>9, <3>1, <3>2 DEF del_blinddata, TypeOK
  <2>2. ~ write_overflow' /\ write_index' = 0 /\ read_index' = 0 /\ pc' = "idle"
    BY <1>9 DEF del_blinddata
  <2>3. IndexOrder' /\ UnreadWritten' /\ Places'
    BY <2>2 DEF IndexOrder, UnreadWritten, UnreadSlots, Places
  <2>4. QED
    BY <2>1, <2>3
<1>10. CASE UNCHANGED vars
  BY <1>10 DEF vars, TypeOK, IndexOrder, UnreadWritten, UnreadSlots, HasUnread, Places
<1>11. QED
  BY <1>2, <1>3, <1>4, <1>5, <1>6, <1>7, <1>8, <1>9, <1>10 DEF Next, Continue

(* IInv is inductive, so the three invariants that the runs check hold for  *)
(* every store size and every set of reports.                               *)
THEOREM StoreInvariant == Spec => []IInv
  BY InitIInv, NextIInv, PTL DEF Spec

(* Every index stays a slot of the data file, the reader's and the writer's  *)
(* index never cross, and no tick of the sending task takes a slot that was  *)
(* never written, whatever the calls.                                        *)
THEOREM StoreIsWhole == Spec => []StoreInv
<1>1. IInv => StoreInv
  BY DEF IInv, StoreInv
<1>2. QED
  BY <1>1, StoreInvariant, PTL

-----------------------------------------------------------------------------
(* The circular file implements the queue of BlindQueue: each file           *)
(* operation maps to a step of the queue or to none.                         *)
(* The number of waiting reports, in each phase of the overflow flag. *)
LEMMA CountShape ==
  ASSUME TypeOK, IndexOrder
  PROVE  /\ Count \in 0 .. DataNumMax + 1
         /\ Count = DataNumMax + 1 <=> Full
         /\ \A i \in 1 .. Count : SlotOf(i) \in UnreadSlots /\ SlotOf(i) \in Slot
<1>1. /\ write_index \in Int /\ 0 <= write_index /\ write_index <= DataNumMax
      /\ read_index \in Int /\ 0 <= read_index /\ read_index <= DataNumMax
  BY DEF TypeOK, Slot
<1>2. CASE write_overflow
  <2>1. /\ Count = DataNumMax + 1 - read_index + write_index
        /\ UnreadSlots = read_index .. DataNumMax \cup 0 .. write_index - 1
        /\ write_index <= read_index
    BY <1>2 DEF Count, UnreadSlots, IndexOrder
  <2>2. Count \in 0 .. DataNumMax + 1
    BY <1>1, <2>1
  <2>3. Count = DataNumMax + 1 <=> read_index = write_index
    BY <1>1, <2>1
  <2>4. \A i \in 1 .. Count : SlotOf(i) \in UnreadSlots /\ SlotOf(i) \in Slot
    BY <1>1, <2>1 DEF SlotOf, Slot
  <2>5. QED
    BY <1>2, <2>2, <2>3, <2>4 DEF Full
<1>3. CASE ~ write_overflow
  <2>1. /\ Count = write_index - read_index
        /\ UnreadSlots = read_index .. write_index - 1
        /\ read_index <= write_index
    BY <1>3 DEF Count, UnreadSlots, IndexOrder
  <2>2. Count \in 0 .. DataNumMax + 1 /\ Count # DataNumMax + 1
    BY <1>1, <2>1
  <2>3. \A i \in 1 .. Count : SlotOf(i) \in UnreadSlots /\ SlotOf(i) \in Slot
    BY <1>1, <2>1 DEF SlotOf, Slot
  <2>4. QED
    BY <1>3, <2>2, <2>3 DEF Full
<1>4. QED
  BY <1>2, <1>3

(* The unread slots make a sequence of reports. *)
Shape ==
  /\ Count \in 0 .. DataNumMax + 1
  /\ UnreadQueue \in Seq(Item)
  /\ Len(UnreadQueue) = Count
  /\ \A i \in 1 .. Count : UnreadQueue[i] = data[SlotOf(i)]
  /\ \A i \in 1 .. Count : SlotOf(i) \in Slot
  /\ Count = DataNumMax + 1 <=> Full

LEMMA QueueShape == (TypeOK /\ IndexOrder /\ UnreadWritten) => Shape
<1> SUFFICES ASSUME TypeOK, IndexOrder, UnreadWritten
             PROVE  Shape
  OBVIOUS
<1>1. Count \in 0 .. DataNumMax + 1 /\ (Count = DataNumMax + 1 <=> Full)
  BY CountShape
<1>2. \A i \in 1 .. Count : SlotOf(i) \in Slot /\ data[SlotOf(i)] \in Item
  BY CountShape DEF TypeOK, UnreadWritten
<1>3. UnreadQueue \in [1 .. Count -> Item]
  BY <1>2 DEF UnreadQueue
<1>4. UnreadQueue \in Seq(Item) /\ Len(UnreadQueue) = Count
  BY <1>1, <1>3
<1>5. \A i \in 1 .. Count : UnreadQueue[i] = data[SlotOf(i)]
  BY DEF UnreadQueue
<1>6. QED
  BY <1>1, <1>2, <1>4, <1>5 DEF Shape

LEMMA QueueShapeNext == (TypeOK /\ IndexOrder /\ UnreadWritten)' => Shape'
  BY QueueShape, PTL

LEMMA Indices ==
  ASSUME TypeOK
  PROVE  /\ write_index \in Int /\ 0 <= write_index /\ write_index <= DataNumMax
         /\ read_index \in Int /\ 0 <= read_index /\ read_index <= DataNumMax
  BY DEF TypeOK, Slot

-----------------------------------------------------------------------------
(* How each file operation moves the queue. *)

(* The writer moves on and pushes no report out: the queue grows by one. *)
LEMMA CountGrows ==
  ASSUME TypeOK, IndexOrder, SaveWriteIndex, ~ Pushes
  PROVE  /\ Count' = Count + 1
         /\ ~ Full
         /\ \A i : i = Count + 1 => SlotOf(i)' = write_index
         /\ read_index' = read_index
<1>1. read_index' = read_index
  BY DEF SaveWriteIndex
<1>2. CASE write_overflow
  <2>1. /\ write_index + 1 < read_index
        /\ write_index' = write_index + 1
        /\ write_overflow'
    BY <1>2, Indices DEF SaveWriteIndex, Pushes, Wrap, Past
  <2>2. /\ Count = DataNumMax + 1 - read_index + write_index
        /\ Count' = DataNumMax + 1 - read_index' + write_index'
    BY <1>2, <2>1 DEF Count
  <2>3. read_index # write_index /\ Count' = Count + 1 /\ \A i : i = Count + 1 => SlotOf(i)' = write_index
    BY <1>1, <2>1, <2>2, Indices DEF SlotOf
  <2>4. QED
    BY <1>1, <2>3 DEF Full
<1>3. CASE ~ write_overflow
  <2>1. /\ Count = write_index - read_index
        /\ read_index <= write_index
    BY <1>3 DEF Count, IndexOrder
  <2>2. CASE Past(write_index + 1)
    <3>1. /\ write_index = DataNumMax
          /\ write_index' = 0
          /\ write_overflow'
      BY <2>2, Indices DEF SaveWriteIndex, Wrap, Past
    <3>2. Count' = DataNumMax + 1 - read_index' + write_index'
      BY <3>1 DEF Count
    <3>3. Count' = Count + 1 /\ \A i : i = Count + 1 => SlotOf(i)' = write_index
      BY <1>1, <2>1, <3>1, <3>2, Indices DEF SlotOf
    <3>4. QED
      BY <1>1, <1>3, <3>3 DEF Full
  <2>3. CASE ~ Past(write_index + 1)
    <3>1. write_index' = write_index + 1
      BY <2>3 DEF SaveWriteIndex, Wrap
    <3>2. Count' = write_index' - read_index'
      <4>1. ~ write_overflow'
        BY <1>3, <2>3 DEF SaveWriteIndex
      <4>2. QED
        BY <4>1 DEF Count
    <3>3. Count' = Count + 1 /\ \A i : i = Count + 1 => SlotOf(i)' = write_index
      BY <1>1, <2>1, <3>1, <3>2, Indices DEF SlotOf
    <3>4. QED
      BY <1>1, <1>3, <3>3 DEF Full
  <2>4. QED
    BY <2>2, <2>3
<1>4. QED
  BY <1>1, <1>2, <1>3

(* The writer moves on and pushes the oldest report out: the queue, which   *)
(* has at most one place left, keeps its length.                            *)
LEMMA CountStays ==
  ASSUME TypeOK, IndexOrder, SaveWriteIndex, Pushes
  PROVE  /\ Count' = Count
         /\ Count >= DataNumMax
         /\ \A i : i = Count => SlotOf(i)' = write_index
         /\ \A i \in 1 .. Count - 1 : SlotOf(i)' = SlotOf(i + 1)
<1>1. /\ write_overflow
      /\ write_index <= read_index
      /\ write_index + 1 >= read_index
      /\ read_index' = Wrap(read_index + 1)
      /\ write_index' = Wrap(write_index + 1)
  BY DEF IndexOrder, SaveWriteIndex, Pushes
<1>2. Count = DataNumMax + 1 - read_index + write_index
  BY <1>1 DEF Count
<1>3. CASE Past(write_index + 1)
  <2>1. write_overflow' /\ write_index' = 0 /\ read_index' = 0
    BY <1>1, <1>3, Indices DEF SaveWriteIndex, Wrap, Past
  <2>2. Count' = DataNumMax + 1 - read_index' + write_index'
    BY <2>1 DEF Count
  <2>3. write_index = DataNumMax /\ read_index = DataNumMax
    BY <1>1, <1>3, Indices DEF Past
  <2>4. Count' = Count /\ Count = DataNumMax + 1
    BY <1>2, <2>1, <2>2, <2>3
  <2>5. \A i : i = Count => SlotOf(i)' = write_index
    BY <2>1, <2>3, <2>4 DEF SlotOf
  <2>6. \A i \in 1 .. Count - 1 : SlotOf(i)' = SlotOf(i + 1)
    BY <2>1, <2>3, <2>4 DEF SlotOf
  <2>7. QED
    BY <2>4, <2>5, <2>6
<1>4. CASE ~ Past(write_index + 1) /\ Past(read_index + 1)
  <2>1. ~ write_overflow' /\ write_index' = write_index + 1 /\ read_index' = 0
    BY <1>1, <1>4, Indices DEF SaveWriteIndex, Wrap, Past
  <2>2. Count' = write_index' - read_index'
    BY <2>1 DEF Count
  <2>3. QED
    BY <1>1, <1>2, <1>4, <2>1, <2>2, Indices DEF SlotOf, Past
<1>5. CASE ~ Past(write_index + 1) /\ ~ Past(read_index + 1)
  <2>1. write_index' = write_index + 1 /\ read_index' = read_index + 1
    BY <1>1, <1>5 DEF Wrap
  <2>2. Count' = DataNumMax + 1 - read_index' + write_index'
    <3>1. write_overflow'
      BY <1>1, <1>5 DEF SaveWriteIndex
    <3>2. QED
      BY <3>1 DEF Count
  <2>3. Count' = Count /\ Count >= DataNumMax /\ Count \in Int
    BY <1>1, <1>2, <2>1, <2>2, Indices
  <2>4. \A i : i = Count => SlotOf(i)' = write_index
    BY <1>1, <1>2, <2>1, Indices DEF SlotOf
  <2>5. \A i \in 1 .. Count - 1 : SlotOf(i)' = SlotOf(i + 1)
    BY <2>1, <2>3, Indices DEF SlotOf
  <2>6. QED
    BY <2>3, <2>4, <2>5
<1>6. QED
  BY <1>3, <1>4, <1>5

(* The reader moves on: the queue loses its head. *)
LEMMA CountShrinks ==
  ASSUME TypeOK, IndexOrder, HasUnread, SaveReadIndex
  PROVE  /\ Count >= 1
         /\ Count' = Count - 1
         /\ \A i \in 1 .. Count - 1 : SlotOf(i)' = SlotOf(i + 1)
<1>1. write_index' = write_index /\ read_index' = Wrap(read_index + 1)
  BY DEF SaveReadIndex
<1>2. CASE write_overflow /\ Past(read_index + 1)
  <2>1. read_index' = 0 /\ read_index = DataNumMax
    BY <1>1, <1>2, Indices DEF Wrap, Past
  <2>2. /\ Count = DataNumMax + 1 - read_index + write_index
        /\ Count' = write_index' - read_index'
    <3>1. ~ write_overflow'
      BY <1>2 DEF SaveReadIndex
    <3>2. QED
      BY <1>2, <3>1 DEF Count
  <2>3. QED
    BY <1>1, <2>1, <2>2, Indices DEF SlotOf
<1>3. CASE write_overflow /\ ~ Past(read_index + 1)
  <2>1. read_index' = read_index + 1 /\ read_index < DataNumMax
    BY <1>1, <1>3, Indices DEF Wrap, Past
  <2>2. /\ Count = DataNumMax + 1 - read_index + write_index
        /\ Count' = DataNumMax + 1 - read_index' + write_index'
    <3>1. write_overflow'
      BY <1>3 DEF SaveReadIndex
    <3>2. QED
      BY <1>3, <3>1 DEF Count
  <2>3. QED
    BY <1>1, <2>1, <2>2, Indices DEF SlotOf
<1>4. CASE ~ write_overflow
  <2>1. read_index < write_index
    BY <1>4 DEF HasUnread
  <2>2. read_index' = read_index + 1
    BY <1>1, <2>1, Indices DEF Wrap, Past
  <2>3. Count = write_index - read_index /\ Count' = write_index' - read_index'
    <3>1. ~ write_overflow'
      BY <1>4 DEF SaveReadIndex
    <3>2. QED
      BY <1>4, <3>1 DEF Count
  <2>4. QED
    BY <1>1, <2>1, <2>2, <2>3, Indices DEF SlotOf
<1>5. QED
  BY <1>2, <1>3, <1>4

-----------------------------------------------------------------------------
(* Each step of the store is a step of the queue, or none. *)

LEMMA QueueUnchanged ==
  ASSUME IInv, IInv', UNCHANGED manage,
         \A i \in 1 .. Count : data'[SlotOf(i)] = data[SlotOf(i)]
  PROVE  UnreadQueue' = UnreadQueue
<1>1. Count' = Count /\ \A i : SlotOf(i)' = SlotOf(i)
  BY DEF manage, Count, SlotOf
<1>2. Shape /\ Shape'
  BY QueueShape, QueueShapeNext DEF IInv
<1>3. \A i \in 1 .. Count : UnreadQueue'[i] = UnreadQueue[i]
  BY <1>1, <1>2 DEF Shape
<1>4. QED
  BY <1>1, <1>2, <1>3, SeqEqual DEF Shape

(* A write to the slot under the write index changes the queue only when    *)
(* the store is full, and then only its head.                               *)
LEMMA SlotWritten ==
  ASSUME IInv, IInv', UNCHANGED manage, NEW r \in Item,
         data' = [data EXCEPT ![write_index] = r]
  PROVE  UnreadQueue' = IF Full THEN [UnreadQueue EXCEPT ![1] = r] ELSE UnreadQueue
<1>1. Count' = Count /\ \A i : SlotOf(i)' = SlotOf(i)
  BY DEF manage, Count, SlotOf
<1>2. Shape /\ Shape'
  BY QueueShape, QueueShapeNext DEF IInv
<1>3. CASE ~ Full
  <2>1. \A i \in 1 .. Count : SlotOf(i) # write_index
    <3>1. write_index \notin UnreadSlots
      <4>1. CASE write_overflow
        <5>1. write_index < read_index
          BY <1>3, <4>1, Indices DEF Full, IInv, IndexOrder
        <5>2. QED
          BY <4>1, <5>1, Indices DEF UnreadSlots, IInv
      <4>2. CASE ~ write_overflow
        BY <4>2, Indices DEF UnreadSlots, IInv
      <4>3. QED
        BY <4>1, <4>2
    <3>2. QED
      BY <3>1, CountShape DEF IInv
  <2>2. \A i \in 1 .. Count : data'[SlotOf(i)] = data[SlotOf(i)]
    BY <1>2, <2>1 DEF Shape, IInv, TypeOK
  <2>3. QED
    BY <1>3, <2>2, QueueUnchanged
<1>4. CASE Full
  <2>1. /\ Count = DataNumMax + 1
        /\ read_index = write_index
    BY <1>2, <1>4 DEF Shape, Full
  <2>2. \A i \in 1 .. Count : SlotOf(i) = write_index <=> i = 1
    BY <2>1, Indices DEF SlotOf, IInv
  <2>3. \A i \in 1 .. Count : data'[SlotOf(i)] = IF i = 1 THEN r ELSE data[SlotOf(i)]
    BY <1>2, <2>2 DEF Shape, IInv, TypeOK
  <2> DEFINE q == [UnreadQueue EXCEPT ![1] = r]
  <2>4. /\ q \in Seq(Item)
        /\ Len(q) = Count
        /\ \A i \in 1 .. Count : q[i] = IF i = 1 THEN r ELSE UnreadQueue[i]
    BY <1>2, <2>1, ExceptSeq DEF Shape
  <2>5. \A i \in 1 .. Count : UnreadQueue'[i] = q[i]
    BY <1>1, <1>2, <2>3, <2>4 DEF Shape
  <2> HIDE DEF q
  <2>6. UnreadQueue' = q
    BY <1>1, <1>2, <2>4, <2>5, SeqEqual DEF Shape
  <2>7. QED
    BY <1>4, <2>6 DEF q
<1>5. QED
  BY <1>3, <1>4

LEMMA PendingIsItem ==
  ASSUME IInv
  PROVE  /\ pc = "save_write" => Pending = buf /\ Pending \in Item /\ Pending # None
         /\ pc # "save_write" => Pending = None
  BY DEF IInv, Places, Pending, Item

LEMMA StoreFull ==
  ASSUME IInv
  PROVE  Store!Full <=> Full
  BY QueueShape DEF IInv, Shape, Store!Full

LEMMA PutInSlotBegins ==
  ASSUME IInv, IInv', NEW r \in Item, pc # "save_write", PutInSlot(r)
  PROVE  Store!Begin(r)
<1>1. Pending = None /\ Pending' = r
  BY DEF PutInSlot, Pending
<1>2. UnreadQueue' = IF Full THEN [UnreadQueue EXCEPT ![1] = r] ELSE UnreadQueue
  BY SlotWritten DEF PutInSlot
<1>3. QED
  BY <1>1, <1>2, StoreFull DEF Store!Begin, Store!WithHead

LEMMA SaveWriteIndexCommits ==
  ASSUME IInv, IInv', SaveWriteIndex
  PROVE  Store!Commit
<1>1. Shape /\ Shape'
  BY QueueShape, QueueShapeNext DEF IInv
<1>2. Pending = buf /\ buf \in Item /\ Pending # None /\ Pending' = None
  BY PendingIsItem DEF SaveWriteIndex, Return, Pending
<1>3. data' = data /\ data[write_index] = buf
  BY DEF SaveWriteIndex, IInv, Places
<1>4. CASE ~ Pushes
  <2>1. /\ Count' = Count + 1
        /\ ~ Full
        /\ \A i : i = Count + 1 => SlotOf(i)' = write_index
        /\ \A i : SlotOf(i)' = SlotOf(i)
    BY <1>4, CountGrows DEF IInv, SlotOf
  <2> DEFINE q == Append(UnreadQueue, buf)
  <2>2. /\ q \in Seq(Item)
        /\ Len(q) = Count + 1
        /\ \A i \in 1 .. Count : q[i] = UnreadQueue[i]
        /\ q[Count + 1] = buf
    BY <1>1, <1>2, AppendProperties DEF Shape
  <2> HIDE DEF q
  <2>3. \A i \in 1 .. Count + 1 : UnreadQueue'[i] = q[i]
    <3>1. \A i \in 1 .. Count : UnreadQueue'[i] = q[i]
      BY <1>1, <1>3, <2>1, <2>2 DEF Shape
    <3>2. UnreadQueue'[Count + 1] = buf
      BY <1>1, <1>3, <2>1 DEF Shape
    <3>3. QED
      BY <1>1, <2>2, <3>1, <3>2 DEF Shape
  <2>4. UnreadQueue' = q
    BY <1>1, <2>1, <2>2, <2>3, SeqEqual DEF Shape
  <2>5. QED
    BY <1>2, <2>1, <2>4, StoreFull DEF Store!Commit, q
<1>5. CASE Pushes
  <2>1. /\ Count' = Count
        /\ Count >= DataNumMax
        /\ \A i : i = Count => SlotOf(i)' = write_index
        /\ \A i \in 1 .. Count - 1 : SlotOf(i)' = SlotOf(i + 1)
    BY <1>5, CountStays DEF IInv
  <2>2. UnreadQueue # <<>>
    BY <1>1, <2>1 DEF Shape
  <2>3. /\ Tail(UnreadQueue) \in Seq(Item)
        /\ Len(Tail(UnreadQueue)) = Count - 1
        /\ \A i \in 1 .. Count - 1 : Tail(UnreadQueue)[i] = UnreadQueue[i + 1]
    BY <1>1, <2>2, HeadTailProperties DEF Shape
  <2> DEFINE q == Append(Tail(UnreadQueue), buf)
  <2>4. /\ q \in Seq(Item)
        /\ Len(q) = Count
        /\ \A i \in 1 .. Count - 1 : q[i] = UnreadQueue[i + 1]
        /\ q[Count] = buf
    BY <1>1, <1>2, <2>1, <2>3, AppendProperties DEF Shape
  <2> HIDE DEF q
  <2>5. \A i \in 1 .. Count : UnreadQueue'[i] = q[i]
    <3>1. \A i \in 1 .. Count - 1 : UnreadQueue'[i] = q[i]
      BY <1>1, <1>3, <2>1, <2>4 DEF Shape
    <3>2. UnreadQueue'[Count] = buf
      BY <1>1, <1>3, <2>1 DEF Shape
    <3>3. QED
      BY <1>1, <2>4, <3>1, <3>2 DEF Shape
  <2>6. UnreadQueue' = q
    BY <1>1, <2>1, <2>4, <2>5, SeqEqual DEF Shape
  <2>7. QED
    BY <1>1, <1>2, <2>1, <2>2, <2>6 DEF Store!Commit, Shape, q
<1>6. QED
  BY <1>4, <1>5

LEMMA SaveReadIndexTakes ==
  ASSUME IInv, IInv', SaveReadIndex
  PROVE  Store!Take
<1>1. Shape /\ Shape'
  BY QueueShape, QueueShapeNext DEF IInv
<1>2. /\ Count >= 1
      /\ Count' = Count - 1
      /\ \A i \in 1 .. Count - 1 : SlotOf(i)' = SlotOf(i + 1)
  BY CountShrinks DEF IInv, Places, SaveReadIndex
<1>3. UnreadQueue # <<>>
  BY <1>1, <1>2 DEF Shape
<1>4. /\ Tail(UnreadQueue) \in Seq(Item)
      /\ Len(Tail(UnreadQueue)) = Count - 1
      /\ \A i \in 1 .. Count - 1 : Tail(UnreadQueue)[i] = UnreadQueue[i + 1]
  BY <1>1, <1>3, HeadTailProperties DEF Shape
<1>5. \A i \in 1 .. Count - 1 : UnreadQueue'[i] = Tail(UnreadQueue)[i]
  <2>1. \A i \in 1 .. Count - 1 : UnreadQueue'[i] = data[SlotOf(i + 1)]
    BY <1>1, <1>2 DEF Shape, SaveReadIndex
  <2>2. \A i \in 1 .. Count - 1 : UnreadQueue[i + 1] = data[SlotOf(i + 1)]
    BY <1>1 DEF Shape
  <2>3. QED
    BY <1>4, <2>1, <2>2
<1>6. UnreadQueue' = Tail(UnreadQueue)
  BY <1>1, <1>2, <1>4, <1>5, SeqEqual DEF Shape
<1>7. Pending = None /\ Pending' = None
  BY DEF SaveReadIndex, Pending
<1>8. QED
  BY <1>3, <1>6, <1>7 DEF Store!Take

-----------------------------------------------------------------------------
LEMMA InitRefines == Init => Store!Init
<1> SUFFICES ASSUME Init
             PROVE  Store!Init
  OBVIOUS
<1>1. Count = 0
  <2>1. ~ write_overflow /\ write_index = 0 /\ read_index = 0
    BY DEF Init
  <2>2. QED
    BY <2>1 DEF Count
<1>2. IInv
  BY InitIInv
<1>3. Shape
  BY <1>2, QueueShape DEF IInv
<1>4. UnreadQueue = <<>>
  BY <1>1, <1>3, EmptySeq DEF Shape
<1>5. Pending = None
  BY DEF Init, Pending
<1>6. QED
  BY <1>4, <1>5 DEF Store!Init

LEMMA NextRefines == IInv /\ IInv' /\ [Next]_vars => [Store!Next]_(Store!vars)
<1> SUFFICES ASSUME IInv, IInv', [Next]_vars
             PROVE  [Store!Next]_(Store!vars)
  OBVIOUS
<1> USE DEF Store!Next, Store!vars
<1>1. ASSUME NEW r \in Record, WriteSlot(r)
      PROVE  Store!Next
  BY <1>1, PutInSlotBegins DEF WriteSlot, Item
<1>2. CASE WriteBack
  BY <1>2, PutInSlotBegins DEF WriteBack, IInv, Places
<1>3. CASE SpoilSlot
  <2>1. UnreadQueue' = IF Full THEN [UnreadQueue EXCEPT ![1] = Damaged] ELSE UnreadQueue
    BY <1>3, SlotWritten DEF SpoilSlot, Item
  <2>2. Pending = None /\ Pending' = None
    BY <1>3 DEF SpoilSlot, Return, Pending
  <2>3. QED
    BY <2>1, <2>2, StoreFull DEF Store!Spoil, Store!WithHead
<1>4. CASE SaveWriteIndex
  BY <1>4, SaveWriteIndexCommits
<1>5. CASE SaveReadIndex
  BY <1>5, SaveReadIndexTakes
<1>6. CASE ReadSlot \/ SendDone
  <2>1. UnreadQueue' = UnreadQueue
    BY <1>6, QueueUnchanged DEF ReadSlot, SendDone
  <2>2. Pending = None /\ Pending' = None
    BY <1>6 DEF ReadSlot, SendDone, Return, Pending
  <2>3. QED
    BY <2>1, <2>2
<1>7. CASE GiveUp
  <2>1. UnreadQueue' = UnreadQueue
    BY <1>7, QueueUnchanged DEF GiveUp
  <2>2. Pending' = None
    BY <1>7 DEF GiveUp, Return, Pending
  <2>3. CASE pc = "save_write"
    BY <2>1, <2>2, <2>3, PendingIsItem DEF Store!Abandon
  <2>4. CASE pc # "save_write"
    BY <2>1, <2>2, <2>4, PendingIsItem
  <2>5. QED
    BY <2>3, <2>4
<1>8. CASE del_blinddata
  <2>1. Count' = 0
    <3>1. ~ write_overflow' /\ write_index' = 0 /\ read_index' = 0
      BY <1>8 DEF del_blinddata
    <3>2. QED
      BY <3>1 DEF Count
  <2>2. Shape'
    BY QueueShapeNext DEF IInv
  <2>3. UnreadQueue' = <<>>
    BY <2>1, <2>2, EmptySeq DEF Shape
  <2>4. Pending = None /\ Pending' = None
    BY <1>8 DEF del_blinddata, Pending
  <2>5. QED
    BY <2>3, <2>4 DEF Store!Erase
<1>9. CASE UNCHANGED vars
  <2>1. UnreadQueue' = UnreadQueue
    BY <1>9, QueueUnchanged DEF vars, manage
  <2>2. Pending' = Pending
    BY <1>9 DEF vars, Pending
  <2>3. QED
    BY <2>1, <2>2
<1>10. QED
  BY <1>1, <1>2, <1>3, <1>4, <1>5, <1>6, <1>7, <1>8, <1>9 DEF Next, Continue

(* The circular file of oa_blinddata.c is a bounded first-in first-out      *)
(* queue that gives up only its oldest report, only at its capacity, and    *)
(* loses nothing else to an error or a restart between file operations.     *)
THEOREM ImplementsQueue == Spec => RefinesQueue
<1>1. Spec => []IInv
  BY StoreInvariant
<1>2. Init => Store!Init
  BY InitRefines
<1>3. IInv /\ IInv' /\ [Next]_vars => [Store!Next]_(Store!vars)
  BY NextRefines
<1>4. QED
  BY <1>1, <1>2, <1>3, PTL DEF Spec, RefinesQueue, Store!Spec

(* A step changes a waiting report only in a full store, and then only the  *)
(* oldest one, whose slot the next write takes before the indices move.     *)
THEOREM WaitingReportsUntouched == Spec => WaitingUntouched
<1> DEFINE Kept == \A s \in UnreadSlots \cap UnreadSlots' :
                      data'[s] # data[s] => Full /\ s = read_index
<1>1. ASSUME IInv, [Next]_vars
      PROVE  Kept
  <2>1. CASE /\ \E r \in Item : data' = [data EXCEPT ![write_index] = r]
    <3>1. \A s \in Slot : data'[s] # data[s] => s = write_index
      BY <1>1, <2>1 DEF IInv, TypeOK
    <3>2. UnreadSlots \subseteq Slot
      <4>1. CASE write_overflow
        BY <1>1, <4>1, Indices DEF IInv, UnreadSlots, Slot
      <4>2. CASE ~ write_overflow
        BY <1>1, <4>2, Indices DEF IInv, UnreadSlots, Slot
      <4>3. QED
        BY <4>1, <4>2
    <3>3. write_index \in UnreadSlots => Full
      <4>1. CASE write_overflow
        <5>1. write_index \in UnreadSlots => write_index >= read_index
          BY <1>1, <4>1, Indices DEF IInv, UnreadSlots
        <5>2. write_index <= read_index
          BY <1>1, <4>1 DEF IInv, IndexOrder
        <5>3. QED
          BY <1>1, <4>1, <5>1, <5>2, Indices DEF IInv, Full
      <4>2. CASE ~ write_overflow
        BY <1>1, <4>2, Indices DEF IInv, UnreadSlots
      <4>3. QED
        BY <4>1, <4>2
    <3>4. QED
      BY <3>1, <3>2, <3>3 DEF Full
  <2>2. CASE data' = data
    BY <2>2
  <2>3. CASE del_blinddata
    <3>1. ~ write_overflow' /\ write_index' = 0 /\ read_index' = 0
      BY <2>3 DEF del_blinddata
    <3>2. UnreadSlots' = {}
      BY <3>1 DEF UnreadSlots
    <3>3. QED
      BY <3>2
  <2>4. QED
    BY <1>1, <2>1, <2>2, <2>3
    DEF Next, Continue, vars, WriteSlot, WriteBack, PutInSlot, SpoilSlot, ReadSlot,
        SaveWriteIndex, SaveReadIndex, SendDone, GiveUp, IInv, Places, Item
<1>2. QED
  BY <1>1, StoreInvariant, PTL DEF Spec, WaitingUntouched
-----------------------------------------------------------------------------
(* The files the store is made of, as BlindFiles has them.                   *)

(* Which operation is at work at which file operation. *)
AtWork ==
  /\ fpc = "idle" => fop = "none"
  /\ fpc \in {"conf", "conf_write", "conf_read", "mkdir", "conf_true"} => fop \in {"tick", "write", "read"}
  /\ fpc \in {"manage", "manage_write", "data"} => fop \in {"write", "read"}
  /\ fpc = "save" => fop = "write"
  /\ fpc \in {"del_conf", "del_data", "del_manage", "rmdir"} => fop = "delete"
  /\ fop = "delete" => fcalm = 0

(* What each file operation has found or made before it is reached. *)
Found ==
  /\ fpc = "conf_write" => fconf = "short"
  /\ fpc \in {"mkdir", "conf_true"} => fconf = "FALSE"
  /\ fpc = "conf_true" => fdir
  /\ fpc \in {"manage", "manage_write", "data", "save"} => fconf = "TRUE"
  /\ fpc \in {"del_data", "del_manage", "rmdir"} => fconf = "none"
  /\ fpc = "manage_write" => fmanage = "short"
  /\ fpc \in {"data", "save"} => fmanage \in {"zero", "waiting"}
  /\ fpc = "save" => fdata # "none"
  /\ fpc = "del_manage" => fdata = "none"

(* A data file that lacks a waiting report is one a deletion has cut. *)
Cutting ==
  /\ fcut => fmanage = "waiting"
  /\ fdata = "partial" => fcut

(* After an undisturbed use no file is left half created, and from the      *)
(* second on the directory is not created, unless the manage file is short. *)
Calming ==
  /\ fcalm > 0 /\ fconf = "short" => fpc = "conf_write"
  /\ fcalm = 2 /\ fpc = "conf_true" => fmanage = "short"

FilesIInv == FilesInv /\ AtWork /\ Found /\ Cutting /\ Calming

LEMMA InitFiles == Files!Init => FilesIInv
<1> SUFFICES ASSUME Files!Init
             PROVE  FilesIInv
  OBVIOUS
<1>1. fcalm \in 0 .. 2
  BY DEF Files!Init
<1>2. Files!TypeOK
  BY <1>1, Zenon DEF Files!Init, Files!TypeOK
<1>3. Files!ConfIsTrue /\ Files!WaitingIsThere /\ Files!StoreOpens
  BY DEF Files!Init, Files!ConfIsTrue, Files!WaitingIsThere, Files!StoreOpens
<1>4. AtWork /\ Found /\ Cutting /\ Calming
  BY DEF Files!Init, AtWork, Found, Cutting, Calming
<1> QED
  BY <1>2, <1>3, <1>4 DEF FilesIInv, FilesInv, Files!FilesInv

(* Every file operation, failure, restart and deletion preserves it. *)
LEMMA NextFiles == FilesIInv /\ [Files!Next]_fvars => FilesIInv'
<1> SUFFICES ASSUME FilesIInv, [Files!Next]_fvars
             PROVE  FilesIInv'
  OBVIOUS
<1> USE DEF FilesIInv, FilesInv, Files!FilesInv, Files!TypeOK, Files!ConfIsTrue,
            Files!WaitingIsThere, Files!StoreOpens, Files!Ready, Files!Stuck,
            AtWork, Found, Cutting, Calming, Files!files, Files!Go, Files!Return, Files!Interrupted,
            Files!DeleteConf
<1>1. ASSUME NEW o \in {"tick", "write", "read"}, Files!Use(o)
      PROVE  FilesIInv'
  BY <1>1 DEF Files!Use
<1>2. CASE Files!CreateConf
  BY <1>2 DEF Files!CreateConf
<1>3. CASE Files!OpenConf
  BY <1>3 DEF Files!OpenConf
<1>4. CASE Files!WriteConfFalse
  BY <1>4 DEF Files!WriteConfFalse
<1>5. CASE Files!ReadConf
  <2>1. CASE fconf = "short"
    BY <1>5, <2>1 DEF Files!ReadConf
  <2>2. CASE fconf = "FALSE"
    BY <1>5, <2>2 DEF Files!ReadConf
  <2>3. CASE fconf = "TRUE" /\ fop = "tick"
    BY <1>5, <2>3 DEF Files!ReadConf, Files!AfterDir
  <2>4. CASE fconf = "TRUE" /\ fop # "tick"
    BY <1>5, <2>4 DEF Files!ReadConf, Files!AfterDir
  <2>5. fconf \in {"short", "FALSE", "TRUE"}
    BY <1>5 DEF Files!ReadConf
  <2> HIDE DEF FilesIInv
  <2> QED
    BY <2>1, <2>2, <2>3, <2>4, <2>5
<1>6. CASE Files!CreateDir
  BY <1>6 DEF Files!CreateDir
<1>7. CASE Files!WriteConfTrue
  BY <1>7 DEF Files!WriteConfTrue, Files!AfterDir
<1>8. CASE Files!ConfFails
  BY <1>8 DEF Files!ConfFails
<1>9. CASE Files!CreateManage
  BY <1>9 DEF Files!CreateManage
<1>10. CASE Files!WriteManage
  BY <1>10 DEF Files!WriteManage
<1>11. CASE Files!ReadManage
  BY <1>11 DEF Files!ReadManage
<1>12. CASE Files!WriteData
  BY <1>12 DEF Files!WriteData
<1>13. CASE Files!SaveWritten
  BY <1>13 DEF Files!SaveWritten
<1>14. CASE Files!ReadData
  <2>1. Files!TypeOK'
    <3>1. fcalm' \in 0 .. 2
      BY <1>14 DEF Files!ReadData
    <3>2. CASE UNCHANGED <<fmanage, fdata, fcut>>
      BY <1>14, <3>1, <3>2, Zenon DEF Files!ReadData
    <3>3. CASE fmanage' = "zero" /\ fdata' = "whole" /\ fcut' = FALSE
      BY <1>14, <3>1, <3>3, Zenon DEF Files!ReadData
    <3> QED
      BY <1>14, <3>2, <3>3 DEF Files!ReadData
  <2>2. (Files!ConfIsTrue /\ Files!WaitingIsThere /\ Files!StoreOpens)'
    BY <1>14 DEF Files!ReadData
  <2>3. (AtWork /\ Found)'
    BY <1>14 DEF Files!ReadData
  <2>4. (Cutting /\ Calming)'
    BY <1>14 DEF Files!ReadData
  <2> QED
    BY <2>1, <2>2, <2>3, <2>4
<1>15. CASE Files!BeginDelete
  BY <1>15 DEF Files!BeginDelete
<1>16. CASE Files!DelConf
  BY <1>16 DEF Files!DelConf
<1>17. CASE Files!DelData
  BY <1>17 DEF Files!DelData
<1>18. CASE Files!DelManage
  <2>1. Files!TypeOK'
    BY <1>18 DEF Files!DelManage
  <2>2. (Files!ConfIsTrue /\ Files!WaitingIsThere /\ Files!StoreOpens)'
    BY <1>18 DEF Files!DelManage
  <2>3. (AtWork /\ Found)'
    BY <1>18 DEF Files!DelManage
  <2>4. (Cutting /\ Calming)'
    BY <1>18 DEF Files!DelManage
  <2> QED
    BY <2>1, <2>2, <2>3, <2>4
<1>19. CASE Files!RemoveDir
  <2>1. Files!TypeOK'
    BY <1>19 DEF Files!RemoveDir
  <2>2. (Files!ConfIsTrue /\ Files!WaitingIsThere /\ Files!StoreOpens)'
    BY <1>19 DEF Files!RemoveDir
  <2>3. (AtWork /\ Found)'
    BY <1>19 DEF Files!RemoveDir
  <2>4. (Cutting /\ Calming)'
    BY <1>19 DEF Files!RemoveDir
  <2> QED
    BY <2>1, <2>2, <2>3, <2>4
<1>20. CASE Files!Interrupted /\ UNCHANGED Files!files
  BY <1>20
<1>21. CASE UNCHANGED fvars
  BY <1>21 DEF fvars
<1> HIDE DEF FilesIInv
<1> QED
  BY <1>1, <1>2, <1>3, <1>4, <1>5, <1>6, <1>7, <1>8, <1>9, <1>10, <1>11, <1>12, <1>13, <1>14,
     <1>15, <1>16, <1>17, <1>18, <1>19, <1>20, <1>21
     DEF Files!Next, Files!has_blinddata_dir, Files!has_blinddata_manage_1file, Files!del_blinddata

(* The files are whole after whatever failed, was cut by a restart or was    *)
(* deleted: the directory that is said to exist does (has_blinddata_dir),    *)
(* the reports that wait are in the data file unless a deletion was cut      *)
(* between the two files (del_blinddata), and the second use of the store    *)
(* finds all it needs, except in the two states it cannot get out of.        *)
THEOREM FilesAreWhole == BSpec => []FilesInv
<1>1. BInit => FilesIInv
  BY InitFiles DEF BInit
<1>2. FilesIInv /\ [BNext]_bvars => FilesIInv'
  BY NextFiles DEF BNext, bvars
<1>3. FilesIInv => FilesInv
  BY DEF FilesIInv
<1> QED
  BY <1>1, <1>2, <1>3, PTL DEF BSpec
=============================================================================
