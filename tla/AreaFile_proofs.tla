--------------------------- MODULE AreaFile_proofs ---------------------------
(***************************************************************************)
(* Proofs about AreaFile for a file of any size and any ids, areas and     *)
(* messages, and about what MCAreaFile remembers of a message of any length. *)
(***************************************************************************)
EXTENDS MCAreaFile, SequenceTheorems, WellFoundedInduction, TLAPS

USE AreaFileAssumption

-----------------------------------------------------------------------------
(* Type correctness, whatever the flash does and whatever the messages are *)

LEMMA SlotPart ==
  ASSUME NEW n \in 0 .. MaxAreaSum
  PROVE  0 .. n - 1 \subseteq Slot
BY DEF Slot

LEMMA BlankType == Blank \in [Slot -> Item]
BY DEF Blank, Slot, Item

LEMMA ErasedType ==
  ASSUME slot \in [Slot -> Item], NEW stop
  PROVE  Erased(stop) \in [Slot -> Item]
BY DEF Erased, Item

LEMMA InvalidatedType ==
  ASSUME slot \in [Slot -> Item], NEW id
  PROVE  Invalidated(id) \in [Slot -> Item]
BY DEF Invalidated, Item

LEMMA WrittenType ==
  ASSUME NEW disk \in [Slot -> Item], NEW s \in Slot, NEW it \in AreaRecord
  PROVE  Written(disk, s, it) \in [Slot -> Item]
BY DEF Written, Item, AreaRecord

(* The loop over a message keeps the type of what is left. *)
LEMMA NextAreaType ==
  ASSUME NEW S, todo \in Seq(S), todo # <<>>,
         option \in {"add", "alter", "delete"}, answer \in {0, 1}, NextArea
  PROVE  /\ option' \in {"none", option}
         /\ todo' \in Seq(S)
         /\ option' # "none" => todo' # <<>>
         /\ answer' \in {0, 1}
<1>1. todo' \in Seq(S) /\ Len(todo') = Len(todo) - 1 /\ Len(todo) \in Nat \ {0}
  BY DEF NextArea
<1>2. Len(todo) # 1 => todo' # <<>>
  BY <1>1
<1>3. QED
  BY <1>1, <1>2 DEF NextArea

LEMMA TypeInit == Init => TypeOK
<1> SUFFICES ASSUME Init PROVE TypeOK
  OBVIOUS
<1>1. present \in BOOLEAN
  BY DEF Init
<1>2. size \in 0 .. MaxAreaSum
  BY DEF Init
<1>3. slot \in [Slot -> Item]
  BY BlankType DEF Init
<1>4. QED
  BY <1>1, <1>2, <1>3 DEF Init, TypeOK

LEMMA TypeStep == TypeOK /\ [Next]_vars => TypeOK'
<1> SUFFICES ASSUME TypeOK, [Next]_vars PROVE TypeOK'
  OBVIOUS
<1> USE DEF TypeOK
<1>1. ASSUME NEW o \in Options, NEW batch \in Batches, SetAreas(o, batch)
      PROVE  TypeOK'
  <2>1. batch \in Seq(AreaRecord) /\ Len(batch) \in Nat /\ Len(batch) > 0
    BY <1>1 DEF SetAreas
  <2>2. Clamp(batch) \in Seq(AreaRecord) /\ (MaxAreaSum > 0 => Clamp(batch) # <<>>)
    BY <2>1 DEF Clamp
  <2>3. QED
    BY <1>1, <2>2 DEF SetAreas, file
<1>2. ASSUME RefuseAreas \/ SetNothing \/ RefuseIds PROVE TypeOK'
  BY <1>2 DEF RefuseAreas, SetNothing, RefuseIds, file, job
<1>3. ASSUME EraseForUpdate \/ DelAllAreas PROVE TypeOK'
  <2>1. slot' \in [Slot -> Item]
    BY <1>3, ErasedType DEF EraseForUpdate, DelAllAreas, EraseAll
  <2>2. QED
    BY <1>3, <2>1 DEF EraseForUpdate, DelAllAreas, EraseAll
<1>4. ASSUME WriteArea PROVE TypeOK'
  <2>1. todo \in Seq(AreaRecord) /\ todo # <<>> /\ Head(todo) \in AreaRecord
    BY <1>4 DEF WriteArea
  <2>2. slot' \in [Slot -> Item] /\ size' \in 0 .. MaxAreaSum /\ present' \in BOOLEAN
    BY <1>4, <2>1, WrittenType, BlankType DEF WriteArea, WriteAt
  <2>3. QED
    BY <1>4, <2>1, <2>2, NextAreaType DEF WriteArea
<1>5. ASSUME BadPolygon \/ NoRoom \/ WriteFails PROVE TypeOK'
  BY <1>5, BlankType DEF BadPolygon, NoRoom, WriteFails, GiveUp, file
<1>6. ASSUME NEW ids \in IdLists, DelAreas(ids) PROVE TypeOK'
  BY <1>6 DEF DelAreas, file
<1>7. ASSUME DelArea \/ DelFails PROVE TypeOK'
  <2>1. todo \in Seq(Ids) /\ todo # <<>> /\ NextArea
    BY <1>7 DEF DelArea, DelFails
  <2>2. slot' \in [Slot -> Item] /\ size' = size /\ present' = present
    BY <1>7, InvalidatedType DEF DelArea, DelFails, del_one_area, file
  <2>3. QED
    BY <1>7, <2>1, <2>2, NextAreaType DEF DelArea, DelFails
<1>8. ASSUME NEW s \in Slot, Expire(s) PROVE TypeOK'
  BY <1>8, InvalidatedType DEF Expire, del_one_area, job
<1>9. ASSUME DeleteFile PROVE TypeOK'
  <2>1. present' \in BOOLEAN
    BY <1>9 DEF DeleteFile
  <2>2. size' \in 0 .. MaxAreaSum
    BY <1>9 DEF DeleteFile
  <2>3. slot' \in [Slot -> Item]
    BY <1>9, BlankType DEF DeleteFile
  <2>4. QED
    BY <1>9, <2>1, <2>2, <2>3 DEF DeleteFile, job
<1>10. ASSUME Restart PROVE TypeOK'
  BY <1>10, BlankType, ErasedType DEF Restart, file
<1>11. CASE UNCHANGED vars
  BY <1>11 DEF vars, file, job
<1>12. QED
  BY <1>1, <1>2, <1>3, <1>4, <1>5, <1>6, <1>7, <1>8, <1>9, <1>10, <1>11 DEF Next

(* The file, the message and the answer keep their types, also when the      *)
(* flash refuses writes and files come out short.                            *)
THEOREM AreaTypes == Spec => []TypeOK
BY TypeInit, TypeStep, PTL DEF Spec
-----------------------------------------------------------------------------
(* The first item with an id is the one in force *)

(* The platform does not use "add" and the flash does not refuse.            *)
Careful == "add" \notin Options /\ ~FlashErrors

(* While the rest of an update is added, the valid items come first.         *)
AddPrefix ==
  option = "add" =>
    \A s, t \in 0 .. size - 1 : slot[s].valid /\ t < s => slot[t].valid

IInv ==
  /\ TypeOK
  /\ FirstIsOnly
  /\ AddPrefix
  /\ ~present => size = 0

(* Nothing can be in the way of an item of a file with no valid item.        *)
LEMMA NoneValid ==
  ASSUME NEW n, NEW disk, \A s \in 0 .. n - 1 : ~disk[s].valid,
         size' = n, slot' = disk
  PROVE  FirstIsOnly' /\ AddPrefix'
BY DEF FirstIsOnly, AddPrefix

(* Invalidating items and leaving their ids makes room for nothing.          *)
LEMMA FewerValid ==
  ASSUME FirstIsOnly, size' = size,
         \A s \in 0 .. size - 1 : slot'[s].id = slot[s].id,
         \A s \in 0 .. size - 1 : slot'[s].valid => slot[s].valid
  PROVE  FirstIsOnly'
BY DEF FirstIsOnly

LEMMA ErasedItem ==
  ASSUME slot \in [Slot -> Item], NEW stop, NEW s \in Slot
  PROVE  /\ Erased(stop)[s].id = slot[s].id
         /\ Erased(stop)[s].area = slot[s].area
         /\ Erased(stop)[s].valid <=> slot[s].valid /\ s >= stop
BY DEF Erased, Item

LEMMA InvalidatedItem ==
  ASSUME slot \in [Slot -> Item], NEW id, NEW s \in Slot
  PROVE  /\ Invalidated(id)[s].id = slot[s].id
         /\ Invalidated(id)[s].area = slot[s].area
         /\ Invalidated(id)[s].valid <=>
              slot[s].valid /\ ~IsFirst(s, {t \in 0 .. size - 1 : slot[t].id = id})
BY DEF Invalidated, Item

LEMMA WrittenItem ==
  ASSUME NEW disk \in [Slot -> Item], NEW s \in Slot, NEW it \in AreaRecord, NEW t \in Slot
  PROVE  Written(disk, s, it)[t] =
           IF t = s THEN [valid |-> TRUE, id |-> it.id, area |-> it.area] ELSE disk[t]
BY DEF Written

(* The file a write goes to, before the write. *)
LEMMA OpenedSound ==
  ASSUME Careful, IInv, NEW n \in 0 .. MaxAreaSum, NEW disk, Opened(n, disk)
  PROVE  /\ disk \in [Slot -> Item]
         /\ \A s, t \in 0 .. n - 1 : disk[s].valid /\ t < s => disk[t].id # disk[s].id
         /\ option = "add" =>
              \A s, t \in 0 .. n - 1 : disk[s].valid /\ t < s => disk[t].valid
         /\ \A id : InForce(id) =
              {disk[s].area : s \in {t \in 0 .. n - 1 : disk[t].valid /\ disk[t].id = id}}
<1>1. CASE present
  BY <1>1 DEF IInv, TypeOK, FirstIsOnly, AddPrefix, Opened, InForce
<1>2. CASE ~present
  <2>1. disk = Blank /\ size = 0
    BY <1>2 DEF IInv, Opened
  <2>2. \A s \in 0 .. n - 1 : ~disk[s].valid
    BY <2>1 DEF Blank, Slot
  <2>3. \A id : InForce(id) = {}
    BY <2>1 DEF InForce
  <2>4. QED
    BY <2>1, <2>2, <2>3, BlankType
<1>3. QED
  BY <1>1, <1>2 DEF IInv, TypeOK

(* The items a careful write chooses from.                                   *)
LEMMA CarefulTargets ==
  ASSUME Careful, option \in {"add", "alter"}, NEW n, NEW disk, NEW id,
         NEW T \in Targets(n, disk, id)
  PROVE  \/ option = "alter" /\ T = AlterTargets(n, disk, id)
         \/ /\ T = AddTargets(n, disk, id)
            /\ option = "add" \/ AlterTargets(n, disk, id) = {}
BY DEF Careful, Targets

(* No item but the chosen one is valid with this id, and none before it has  *)
(* this id; before an added area all items are valid.                        *)
LEMMA TargetSound ==
  ASSUME Careful, IInv, option \in {"add", "alter"},
         NEW n \in 0 .. MaxAreaSum, NEW disk, Opened(n, disk),
         NEW id \in Ids, NEW T \in Targets(n, disk, id), NEW s, IsFirst(s, T)
  PROVE  /\ s \in 0 .. n - 1
         /\ \A t \in 0 .. n - 1 : t # s /\ disk[t].valid => disk[t].id # id
         /\ \A t \in 0 .. n - 1 : t < s => disk[t].id # id
         /\ option = "add" => \A t \in 0 .. n - 1 : t < s => disk[t].valid
         /\ ~disk[s].valid \/ disk[s].id = id
<1>1. CASE option = "alter" /\ T = AlterTargets(n, disk, id)
  BY <1>1, OpenedSound DEF IsFirst, AlterTargets
<1>2. CASE /\ T = AddTargets(n, disk, id)
           /\ option = "add" \/ AlterTargets(n, disk, id) = {}
  <2>1. s \in 0 .. n - 1 /\ (~disk[s].valid \/ disk[s].id = id)
    BY <1>2 DEF IsFirst, AddTargets
  <2>2. \A t \in 0 .. n - 1 : t < s => disk[t].valid /\ disk[t].id # id
    BY <1>2, <2>1 DEF IsFirst, AddTargets
  <2>3. ASSUME NEW t \in 0 .. n - 1, s < t, disk[t].valid PROVE disk[t].id # id
    <3>1. CASE option = "add"
      <4>1. disk[s].valid /\ disk[s].id # disk[t].id
        BY <2>1, <2>3, <3>1, OpenedSound
      <4>2. QED
        BY <2>1, <4>1
    <3>2. CASE AlterTargets(n, disk, id) = {}
      BY <2>3, <3>2 DEF AlterTargets
    <3>3. QED
      BY <1>2, <3>1, <3>2
  <2>4. QED
    BY <2>1, <2>2, <2>3
<1>3. QED
  BY <1>1, <1>2, CarefulTargets

LEMMA WriteAreaParts ==
  ASSUME TypeOK, WriteArea
  PROVE  /\ option \in {"add", "alter"}
         /\ todo \in Seq(AreaRecord) /\ todo # <<>> /\ Head(todo) \in AreaRecord
BY DEF WriteArea, TypeOK

LEMMA WriteKeeps ==
  ASSUME Careful, IInv, WriteArea
  PROVE  FirstIsOnly' /\ AddPrefix'
<1> DEFINE it == Head(todo)
<1>1. option \in {"add", "alter"} /\ it \in AreaRecord /\ it.id \in Ids
  BY WriteAreaParts DEF IInv, AreaRecord
<1>2. PICK n \in 0 .. MaxAreaSum, disk \in {slot, Blank}, s \in Slot : WriteAt(n, disk, s)
  BY DEF WriteArea
<1>3. PICK T \in Targets(n, disk, it.id) : IsFirst(s, T)
  BY <1>2 DEF WriteAt
<1>4. /\ disk \in [Slot -> Item]
      /\ \A u, t \in 0 .. n - 1 : disk[u].valid /\ t < u => disk[t].id # disk[u].id
      /\ option = "add" => \A u, t \in 0 .. n - 1 : disk[u].valid /\ t < u => disk[t].valid
  BY <1>2, OpenedSound DEF WriteAt
<1>5. /\ s \in 0 .. n - 1
      /\ \A t \in 0 .. n - 1 : t # s /\ disk[t].valid => disk[t].id # it.id
      /\ \A t \in 0 .. n - 1 : t < s => disk[t].id # it.id
      /\ option = "add" => \A t \in 0 .. n - 1 : t < s => disk[t].valid
  BY <1>1, <1>2, <1>3, TargetSound DEF WriteAt
<1>6. /\ slot'[s].valid /\ slot'[s].id = it.id
      /\ \A t \in 0 .. n - 1 : t # s => slot'[t] = disk[t]
  <2>1. slot' = Written(disk, s, it)
    BY <1>2 DEF WriteAt
  <2>2. \A t \in Slot : slot'[t] =
          IF t = s THEN [valid |-> TRUE, id |-> it.id, area |-> it.area] ELSE disk[t]
    BY <1>1, <1>4, <2>1, WrittenItem
  <2>3. slot'[s] = [valid |-> TRUE, id |-> it.id, area |-> it.area]
    BY <2>2
  <2>4. \A t \in 0 .. n - 1 : t # s => slot'[t] = disk[t]
    BY <2>2, SlotPart
  <2>5. QED
    BY <2>3, <2>4
<1> HIDE DEF it
<1>7. FirstIsOnly'
  BY <1>2, <1>4, <1>5, <1>6 DEF FirstIsOnly, WriteAt
<1>8. AddPrefix'
  <2>1. option' = "add" => option = "add"
    BY DEF WriteArea, NextArea
  <2>2. QED
    BY <1>2, <1>4, <1>5, <1>6, <2>1 DEF AddPrefix, WriteAt
<1>9. QED
  BY <1>7, <1>8

LEMMA InvInit == Init => IInv
<1> SUFFICES ASSUME Init PROVE IInv
  OBVIOUS
<1>1. FirstIsOnly /\ AddPrefix
  BY DEF Init, FirstIsOnly, AddPrefix
<1>2. QED
  BY <1>1, TypeInit DEF Init, IInv

LEMMA InvStep == Careful /\ IInv /\ [Next]_vars => IInv'
<1> SUFFICES ASSUME Careful, IInv, [Next]_vars PROVE (FirstIsOnly /\ AddPrefix /\ (~present => size = 0))'
  BY TypeStep DEF IInv
<1> DEFINE Kept == (FirstIsOnly /\ AddPrefix /\ (~present => size = 0))'
<1>1. /\ slot \in [Slot -> Item] /\ size \in 0 .. MaxAreaSum /\ FirstIsOnly /\ AddPrefix
      /\ ~present => size = 0
      /\ 0 .. size - 1 \subseteq Slot
  BY DEF IInv, TypeOK, Slot
<1>2. ASSUME NEW o \in Options, NEW batch \in Batches, SetAreas(o, batch) PROVE Kept
  BY <1>1, <1>2 DEF SetAreas, file, Careful, FirstIsOnly, AddPrefix
<1>3. ASSUME RefuseAreas \/ SetNothing \/ RefuseIds \/ BadPolygon \/ UNCHANGED vars PROVE Kept
  BY <1>1, <1>3 DEF RefuseAreas, SetNothing, RefuseIds, BadPolygon, GiveUp, vars, file, job, FirstIsOnly, AddPrefix
<1>4. ASSUME EraseForUpdate \/ DelAllAreas PROVE Kept
  <2>1. slot' = Erased(size) /\ size' = size /\ present' = present
    BY <1>4 DEF EraseForUpdate, DelAllAreas, EraseAll, Careful
  <2>2. \A s \in 0 .. size - 1 : ~slot'[s].valid
    BY <1>1, <2>1, ErasedItem
  <2>3. QED
    BY <1>1, <2>1, <2>2, NoneValid
<1>5. ASSUME WriteArea PROVE Kept
  <2>1. present'
    BY <1>5 DEF WriteArea
  <2>2. QED
    BY <1>5, <2>1, WriteKeeps
<1>6. ASSUME NoRoom PROVE Kept
  <2>1. PICK n \in 0 .. MaxAreaSum, disk \in {slot, Blank} :
           Opened(n, disk) /\ slot' = disk /\ size' = n
    BY <1>6 DEF NoRoom
  <2>2. option' = "none" /\ present'
    BY <1>6 DEF NoRoom, GiveUp
  <2>3. \A s, t \in 0 .. n - 1 : disk[s].valid /\ t < s => disk[t].id # disk[s].id
    BY <2>1, OpenedSound
  <2>4. QED
    BY <2>1, <2>2, <2>3 DEF FirstIsOnly, AddPrefix
<1>7. ASSUME WriteFails \/ DelFails PROVE Kept
  BY <1>7 DEF Careful, WriteFails, DelFails
<1>8. ASSUME NEW ids \in IdLists, DelAreas(ids) PROVE Kept
  BY <1>1, <1>8 DEF DelAreas, file, FirstIsOnly, AddPrefix
<1>9. ASSUME NEW id, del_one_area(id), option' # "add" PROVE Kept
  <2>1. /\ size' = size /\ present' = present
        /\ \A s \in 0 .. size - 1 : slot'[s].id = slot[s].id
        /\ \A s \in 0 .. size - 1 : slot'[s].valid => slot[s].valid
    BY <1>1, <1>9, InvalidatedItem DEF del_one_area
  <2>2. QED
    BY <1>1, <1>9, <2>1, FewerValid DEF AddPrefix
<1>10. ASSUME DelArea PROVE Kept
  BY <1>9, <1>10 DEF DelArea, NextArea
<1>11. ASSUME NEW s \in Slot, Expire(s) PROVE Kept
  BY <1>9, <1>11 DEF Expire, job, Idle
<1>12. ASSUME DeleteFile PROVE Kept
  BY <1>12 DEF DeleteFile, FirstIsOnly, AddPrefix
<1>13. ASSUME Restart PROVE Kept
  <2>1. option' = "none"
    BY <1>13 DEF Restart
  <2>2. CASE UNCHANGED file
    BY <1>1, <2>1, <2>2 DEF file, FirstIsOnly, AddPrefix
  <2>3. ASSUME NEW stop, slot' = Erased(stop), UNCHANGED <<present, size>> PROVE Kept
    <3>1. /\ \A s \in 0 .. size - 1 : slot'[s].id = slot[s].id
          /\ \A s \in 0 .. size - 1 : slot'[s].valid => slot[s].valid
      BY <1>1, <2>3, ErasedItem
    <3>2. QED
      BY <1>1, <2>1, <2>3, <3>1, FewerValid DEF AddPrefix
  <2>4. ASSUME present', size' \in 0 .. MaxAreaSum, slot' = Blank PROVE Kept
    <3>1. size' \in 0 .. MaxAreaSum
      BY <2>4
    <3>2. 0 .. size' - 1 \subseteq Slot
      BY <3>1, SlotPart
    <3>3. \A s \in 0 .. size' - 1 : ~Blank[s].valid
      BY <3>2 DEF Blank
    <3>4. FirstIsOnly' /\ AddPrefix'
      BY <2>4, <3>3, NoneValid
    <3>5. QED
      BY <2>4, <3>4
  <2>5. QED
    BY <1>13, <2>2, <2>3, <2>4 DEF Restart
<1>14. QED
  BY <1>2, <1>3, <1>4, <1>5, <1>6, <1>7, <1>8, <1>10, <1>11, <1>12, <1>13 DEF Next

(* Whatever messages, restarts and expiries come, and for a file of any       *)
(* size, the loops of oa_area.c that stop at the first item with an id stop   *)
(* at the area in force, as long as no "add" is sent.                         *)
THEOREM FirstItemIsTheArea ==
  ASSUME Careful
  PROVE  Spec => []FileInv
<1>1. TypeOK /\ IInv => FileInv
  BY DEF IInv, FileInv
<1>2. IInv /\ [Next]_vars => IInv'
  BY InvStep
<1>3. Spec => []TypeOK
  BY AreaTypes
<1>4. QED
  BY <1>1, <1>2, <1>3, InvInit, PTL DEF Spec
-----------------------------------------------------------------------------
(* What a deletion and a write do to the areas in force *)

BaseInv == TypeOK /\ (~present => size = 0)

LEMMA BaseInit == Init => BaseInv
BY TypeInit DEF Init, BaseInv

LEMMA BaseStep == BaseInv /\ [Next]_vars => BaseInv'
<1> SUFFICES ASSUME BaseInv, [Next]_vars PROVE (~present => size = 0)'
  BY TypeStep DEF BaseInv
<1>1. ~present => size = 0
  BY DEF BaseInv
<1>2. CASE UNCHANGED <<present, size>>
  BY <1>1, <1>2
<1>3. CASE present' = TRUE
  BY <1>3
<1>4. CASE present' = FALSE /\ size' = 0
  BY <1>4
<1>5. UNCHANGED <<present, size>> \/ present' = TRUE \/ (present' = FALSE /\ size' = 0)
  BY DEF Next, vars, file, SetAreas, RefuseAreas, SetNothing, RefuseIds, EraseForUpdate, EraseAll,
         WriteArea, BadPolygon, NoRoom, WriteFails, DelAreas, DelAllAreas, DelArea, DelFails,
         del_one_area, Expire, DeleteFile, Restart
<1>6. QED
  BY <1>2, <1>3, <1>4, <1>5

(* Deleting an area takes it out of force, and it alone.                     *)
LEMMA DeletedForce ==
  ASSUME IInv, NEW gone, del_one_area(gone), NEW id
  PROVE  InForce(id)' = IF id = gone THEN {} ELSE InForce(id)
<1>1. CASE ~present
  BY <1>1 DEF IInv, del_one_area, InForce
<1>2. CASE present
  <2>1. /\ slot \in [Slot -> Item] /\ 0 .. size - 1 \subseteq Slot
        /\ slot' = Invalidated(gone) /\ size' = size
    BY <1>2, SlotPart DEF IInv, TypeOK, del_one_area
  <2>2. \A t \in 0 .. size - 1 : slot'[t].id = slot[t].id /\ slot'[t].area = slot[t].area
    BY <2>1, InvalidatedItem
  <2>3. ASSUME NEW t \in 0 .. size - 1
        PROVE  slot'[t].valid <=> slot[t].valid /\ slot[t].id # gone
    <3>1. slot'[t].valid <=>
            slot[t].valid /\ ~IsFirst(t, {u \in 0 .. size - 1 : slot[u].id = gone})
      BY <2>1, InvalidatedItem
    <3>2. slot[t].valid /\ slot[t].id = gone
            => IsFirst(t, {u \in 0 .. size - 1 : slot[u].id = gone})
      BY DEF IInv, TypeOK, FirstIsOnly, IsFirst
    <3>3. slot[t].id # gone => ~IsFirst(t, {u \in 0 .. size - 1 : slot[u].id = gone})
      BY DEF IsFirst
    <3>4. QED
      BY <3>1, <3>2, <3>3
  <2>4. QED
    BY <2>1, <2>2, <2>3 DEF InForce
<1>3. QED
  BY <1>1, <1>2

(* An area that expires is the item that expired, and no other item changes. *)
LEMMA ExpiredItem ==
  ASSUME IInv, NEW s \in Slot, Expire(s), NEW t \in Slot \ {s}
  PROVE  slot'[t] = slot[t] /\ ~slot'[s].valid
<1> DEFINE Same == {u \in 0 .. size - 1 : slot[u].id = slot[s].id}
<1>1. /\ slot \in [Slot -> Item] /\ s \in 0 .. size - 1 /\ slot[s].valid
      /\ slot' = Invalidated(slot[s].id)
  BY DEF IInv, TypeOK, Expire, del_one_area, Slot
<1>2. IsFirst(s, Same)
  BY <1>1 DEF IInv, TypeOK, FirstIsOnly, IsFirst
<1>3. ~IsFirst(t, Same)
  BY <1>1, <1>2 DEF IsFirst, Slot
<1>4. QED
  BY <1>1, <1>2, <1>3, InvalidatedItem DEF Invalidated

LEMMA OpenedForce ==
  ASSUME BaseInv, NEW n \in 0 .. MaxAreaSum, NEW disk, Opened(n, disk), NEW id
  PROVE  InForce(id) =
           {disk[s].area : s \in {t \in 0 .. n - 1 : disk[t].valid /\ disk[t].id = id}}
<1>1. CASE present
  BY <1>1 DEF Opened, InForce
<1>2. CASE ~present
  <2>1. disk = Blank /\ size = 0
    BY <1>2 DEF BaseInv, Opened
  <2>2. \A s \in 0 .. n - 1 : ~disk[s].valid
    BY <2>1, SlotPart DEF Blank
  <2>3. InForce(id) = {}
    BY <2>1 DEF InForce
  <2>4. QED
    BY <2>2, <2>3
<1>3. QED
  BY <1>1, <1>2

(* A write seen from the ids: the item it takes had this id or was free.     *)
LEMMA WriteTakes ==
  ASSUME BaseInv, WriteArea
  PROVE  \E n \in 0 .. MaxAreaSum, disk \in [Slot -> Item], s \in Slot :
           /\ WriteAt(n, disk, s)
           /\ s \in 0 .. n - 1
           /\ ~disk[s].valid \/ disk[s].id = Head(todo).id
<1>1. PICK n \in 0 .. MaxAreaSum, disk \in {slot, Blank}, s \in Slot : WriteAt(n, disk, s)
  BY DEF WriteArea
<1>2. disk \in [Slot -> Item]
  BY BlankType DEF BaseInv, TypeOK
<1>3. PICK T \in Targets(n, disk, Head(todo).id) : IsFirst(s, T)
  BY <1>1 DEF WriteAt
<1>4. \/ T = AddTargets(n, disk, Head(todo).id)
      \/ T = AlterTargets(n, disk, Head(todo).id)
  BY DEF Targets
<1>5. s \in 0 .. n - 1 /\ (~disk[s].valid \/ disk[s].id = Head(todo).id)
  BY <1>3, <1>4 DEF IsFirst, AddTargets, AlterTargets
<1>6. QED
  BY <1>1, <1>2, <1>5

(* The items after a write. *)
LEMMA WrittenItems ==
  ASSUME TypeOK, WriteArea, NEW n \in 0 .. MaxAreaSum, NEW disk \in [Slot -> Item],
         NEW s \in 0 .. n - 1, WriteAt(n, disk, s)
  PROVE  /\ Head(todo) \in AreaRecord
         /\ size' = n
         /\ slot'[s].valid /\ slot'[s].id = Head(todo).id /\ slot'[s].area = Head(todo).area
         /\ \A t \in 0 .. n - 1 : t # s => slot'[t] = disk[t]
<1>1. Head(todo) \in AreaRecord
  BY WriteAreaParts
<1>2. slot' = Written(disk, s, Head(todo)) /\ size' = n
  BY DEF WriteAt
<1>3. \A t \in Slot : slot'[t] =
        IF t = s THEN [valid |-> TRUE, id |-> Head(todo).id, area |-> Head(todo).area]
        ELSE disk[t]
  BY <1>1, <1>2, SlotPart, WrittenItem
<1>4. slot'[s] = [valid |-> TRUE, id |-> Head(todo).id, area |-> Head(todo).area]
  BY <1>3, SlotPart
<1>5. \A t \in 0 .. n - 1 : t # s => slot'[t] = disk[t]
  BY <1>3, SlotPart
<1>6. QED
  BY <1>1, <1>2, <1>4, <1>5

(* A write costs no other area, even when the flash refuses reads and writes,  *)
(* files come out short and "add" is used.                                    *)
THEOREM WritesCostNoOther == Spec => OthersStay
<1>1. ASSUME BaseInv, WriteArea, NEW id \in Ids
      PROVE  IF id = Head(todo).id
             THEN Head(todo).area \in InForce(id)'
             ELSE InForce(id)' = InForce(id)
  <2>1. PICK n \in 0 .. MaxAreaSum, disk \in [Slot -> Item], s \in Slot :
           /\ WriteAt(n, disk, s)
           /\ s \in 0 .. n - 1
           /\ ~disk[s].valid \/ disk[s].id = Head(todo).id
    BY <1>1, WriteTakes
  <2>2. /\ size' = n
        /\ slot'[s].valid /\ slot'[s].id = Head(todo).id /\ slot'[s].area = Head(todo).area
        /\ \A t \in 0 .. n - 1 : t # s => slot'[t] = disk[t]
    BY <1>1, <2>1, WrittenItems DEF BaseInv
  <2>3. InForce(id) =
          {disk[u].area : u \in {t \in 0 .. n - 1 : disk[t].valid /\ disk[t].id = id}}
    BY <1>1, <2>1, OpenedForce DEF WriteAt
  <2>4. CASE id = Head(todo).id
    BY <2>1, <2>2, <2>4 DEF InForce
  <2>5. CASE id # Head(todo).id
    <3>1. \A t \in 0 .. n - 1 :
            slot'[t].valid /\ slot'[t].id = id <=> disk[t].valid /\ disk[t].id = id
      BY <2>1, <2>2, <2>5
    <3>2. \A t \in 0 .. n - 1 : slot'[t].id = id => slot'[t].area = disk[t].area
      BY <2>1, <2>2, <2>5
    <3>3. InForce(id)' =
            {slot'[u].area : u \in {t \in 0 .. n - 1 : slot'[t].valid /\ slot'[t].id = id}}
      BY <2>2 DEF InForce
    <3> DEFINE now == {t \in 0 .. n - 1 : slot'[t].valid /\ slot'[t].id = id}
               before == {t \in 0 .. n - 1 : disk[t].valid /\ disk[t].id = id}
    <3>4. now = before /\ \A u \in before : slot'[u].area = disk[u].area
      BY <3>1, <3>2
    <3>5. InForce(id)' = {slot'[u].area : u \in now}
      BY <3>3
    <3>6. InForce(id) = {disk[u].area : u \in before}
      BY <2>3
    <3> HIDE DEF now, before
    <3>7. InForce(id)' = InForce(id)
      BY <3>4, <3>5, <3>6
    <3>8. QED
      BY <3>7, <2>5
  <2>6. QED
    BY <2>4, <2>5
<1>2. BaseInv /\ [Next]_vars =>
        [WriteArea =>
           \A id \in Ids :
             IF id = Head(todo).id
             THEN Head(todo).area \in InForce(id)'
             ELSE InForce(id)' = InForce(id)]_vars
  BY <1>1
<1>3. QED
  BY <1>2, BaseInit, BaseStep, PTL DEF Spec, OthersStay

(* What a write replaces. *)
LEMMA WriteReplaces ==
  ASSUME Careful, IInv, WriteArea, NEW id \in Ids
  PROVE  InForce(id)' = IF id = Head(todo).id THEN {Head(todo).area} ELSE InForce(id)
<1>1. PICK n \in 0 .. MaxAreaSum, disk \in {slot, Blank}, s \in Slot : WriteAt(n, disk, s)
  BY DEF WriteArea
<1>2. PICK T \in Targets(n, disk, Head(todo).id) : IsFirst(s, T)
  BY <1>1 DEF WriteAt
<1>3. option \in {"add", "alter"} /\ Head(todo).id \in Ids /\ Opened(n, disk)
  BY <1>1, WriteAreaParts DEF IInv, AreaRecord, WriteAt
<1>4. /\ s \in 0 .. n - 1
      /\ \A t \in 0 .. n - 1 : t # s /\ disk[t].valid => disk[t].id # Head(todo).id
      /\ ~disk[s].valid \/ disk[s].id = Head(todo).id
  BY <1>2, <1>3, TargetSound
<1>5. disk \in [Slot -> Item]
  BY BlankType DEF IInv, TypeOK
<1>6. /\ size' = n
      /\ slot'[s].valid /\ slot'[s].id = Head(todo).id /\ slot'[s].area = Head(todo).area
      /\ \A t \in 0 .. n - 1 : t # s => slot'[t] = disk[t]
  BY <1>1, <1>4, <1>5, WrittenItems DEF IInv
<1>7. InForce(id) =
        {disk[u].area : u \in {t \in 0 .. n - 1 : disk[t].valid /\ disk[t].id = id}}
  BY <1>3, OpenedForce DEF IInv, BaseInv
<1>8. CASE id = Head(todo).id
  BY <1>4, <1>6, <1>8 DEF InForce
<1>9. CASE id # Head(todo).id
  <2>1. \A t \in 0 .. n - 1 :
          slot'[t].valid /\ slot'[t].id = id <=> disk[t].valid /\ disk[t].id = id
    BY <1>4, <1>6, <1>9
  <2>2. \A t \in 0 .. n - 1 : slot'[t].id = id => slot'[t].area = disk[t].area
    BY <1>4, <1>6, <1>9
  <2>3. InForce(id)' =
          {slot'[u].area : u \in {t \in 0 .. n - 1 : slot'[t].valid /\ slot'[t].id = id}}
    BY <1>6 DEF InForce
  <2> DEFINE now == {t \in 0 .. n - 1 : slot'[t].valid /\ slot'[t].id = id}
             before == {t \in 0 .. n - 1 : disk[t].valid /\ disk[t].id = id}
  <2>4. now = before /\ \A u \in before : slot'[u].area = disk[u].area
    BY <2>1, <2>2
  <2>5. InForce(id)' = {slot'[u].area : u \in now}
    BY <2>3
  <2>6. InForce(id) = {disk[u].area : u \in before}
    BY <1>7
  <2> HIDE DEF now, before
  <2>7. InForce(id)' = InForce(id)
    BY <2>4, <2>5, <2>6
  <2>8. QED
    BY <2>7, <1>9
<1>10. QED
  BY <1>8, <1>9

(* Without "add" and without refusals of the flash a write leaves exactly the  *)
(* new area in force under its id.                                             *)
THEOREM WritesReplace ==
  ASSUME Careful
  PROVE  Spec => WriteExact
<1>1. ASSUME IInv, WriteArea, NEW id \in Ids
      PROVE  InForce(id)' = IF id = Head(todo).id THEN {Head(todo).area} ELSE InForce(id)
  BY <1>1, WriteReplaces
<1>2. IInv /\ [Next]_vars =>
        [WriteArea =>
           \A id \in Ids :
             InForce(id)' = IF id = Head(todo).id THEN {Head(todo).area} ELSE InForce(id)]_vars
  BY <1>1
<1>3. IInv /\ [Next]_vars => IInv'
  BY InvStep
<1>4. QED
  BY <1>2, <1>3, InvInit, PTL DEF Spec, WriteExact

(* Under the same assumptions a deletion takes the named area out of force     *)
(* and nothing else, and an expiry ends the item that expired.                 *)
THEOREM DeletesAreExact ==
  ASSUME Careful
  PROVE  Spec => DeleteExact
<1>1. ASSUME IInv, DelArea, NEW id \in Ids
      PROVE  InForce(id)' = IF id = Head(todo) THEN {} ELSE InForce(id)
  BY <1>1, DeletedForce DEF DelArea
<1>2. IInv /\ [Next]_vars =>
        [/\ DelArea =>
              \A id \in Ids :
                InForce(id)' = IF id = Head(todo) THEN {} ELSE InForce(id)
         /\ \A s \in Slot :
              Expire(s) => \A t \in Slot \ {s} : slot'[t] = slot[t] /\ ~slot'[s].valid]_vars
  BY <1>1, ExpiredItem
<1>3. IInv /\ [Next]_vars => IInv'
  BY InvStep
<1>4. QED
  BY <1>2, <1>3, InvInit, PTL DEF Spec, DeleteExact

-----------------------------------------------------------------------------
(* What a message of any length leaves in force *)

Behind == {ss \in Nat \X Nat : ss[1] < ss[2]}

LEMMA LastIsOne ==
  ASSUME NEW n \in Nat, NEW S \in SUBSET (1 .. n), S # {}
  PROVE  LastOf(S) \in S /\ \A j \in S : j <= LastOf(S)
<1> DEFINE T == {n - i : i \in S}
<1>1. T \in SUBSET Nat /\ T # {}
  <2>1. \A i \in S : n - i \in Nat
    OBVIOUS
  <2>2. PICK i \in S : TRUE
    OBVIOUS
  <2>3. n - i \in T
    OBVIOUS
  <2> QED
    BY <2>1, <2>3
<1>2. IsWellFoundedOn(Behind, Nat)
  BY NatLessThanWellFounded DEF OpToRel, Behind
<1>3. PICK m \in T : \A k \in T : <<k, m>> \notin Behind
  <2> HIDE DEF T
  <2> QED
    BY <1>1, <1>2, WFMin
<1>4. PICK i \in S : m = n - i
  BY <1>3
<1>5. ASSUME NEW j \in S
      PROVE  j <= i
  <2>1. n - j \in T /\ n - j \in Nat /\ m \in Nat
    BY <1>1, <1>3
  <2>2. ~ (n - j < m)
    BY <1>3, <2>1 DEF Behind
  <2> QED
    BY <1>4, <2>2
<1>6. LastOf(S) \in S /\ \A j \in S : j <= LastOf(S)
  BY <1>5 DEF LastOf
<1> QED
  BY <1>6

LEMMA LastIs ==
  ASSUME NEW n \in Nat, NEW S \in SUBSET (1 .. n), NEW m \in S, \A j \in S : j <= m
  PROVE  LastOf(S) = m
<1>1. LastOf(S) \in S /\ \A j \in S : j <= LastOf(S)
  BY LastIsOne
<1>2. LastOf(S) <= m /\ m <= LastOf(S)
  BY <1>1
<1>3. LastOf(S) \in 1 .. n /\ m \in 1 .. n
  BY <1>1
<1> QED
  BY <1>2, <1>3

(* To put the first area of a message in force leaves the rest to be done. *)
LEMMA ReplacedFirst ==
  ASSUME NEW items \in Seq(AreaRecord), items # <<>>, NEW force, NEW next,
         \A id \in Ids : next[id] = IF id = Head(items).id THEN {Head(items).area} ELSE force[id]
  PROVE  Replaced(next, Tail(items)) = Replaced(force, items)
<1> DEFINE rest == Tail(items)
           n == Len(items)
<1>1. /\ n \in Nat \ {0} /\ DOMAIN items = 1 .. n
      /\ rest \in Seq(AreaRecord) /\ DOMAIN rest = 1 .. n - 1
      /\ \A i \in 1 .. n - 1 : rest[i] = items[i + 1]
      /\ Head(items) = items[1]
  BY EmptySeq, LenProperties, HeadTailProperties
<1> HIDE DEF rest, n
<1>2. ASSUME NEW id \in Ids
      PROVE  (IF Brought(rest, id) = {} THEN next[id] ELSE {rest[LastOf(Brought(rest, id))].area})
             = (IF Brought(items, id) = {} THEN force[id] ELSE {items[LastOf(Brought(items, id))].area})
  <2> DEFINE B == Brought(items, id)
             C == Brought(rest, id)
  <2>1. /\ B \in SUBSET (1 .. n) /\ C \in SUBSET (1 .. n - 1) /\ n - 1 \in Nat
        /\ \A i \in 1 .. n : i \in B <=> items[i].id = id
        /\ \A i \in 1 .. n - 1 : i \in C <=> items[i + 1].id = id
    BY <1>1 DEF Brought
  <2> HIDE DEF B, C
  <2>2. CASE C = {}
    <3>1. \A i \in B : i = 1
      <4>1. ASSUME NEW i \in B, i # 1
            PROVE  FALSE
        <5>1. i - 1 \in 1 .. n - 1 /\ (i - 1) + 1 = i
          BY <1>1, <2>1, <4>1
        <5> QED
          BY <2>1, <2>2, <4>1, <5>1
      <4> QED
        BY <4>1
    <3>2. CASE items[1].id = id
      <4>1. 1 \in B /\ LastOf(B) = 1
        <5>1. 1 \in B
          BY <1>1, <2>1, <3>2
        <5>2. \A j \in B : j <= 1
          BY <3>1
        <5> QED
          BY <1>1, <2>1, <5>1, <5>2, LastIs
      <4> QED
        BY <1>1, <2>2, <3>2, <4>1 DEF B, C
    <3>3. CASE items[1].id # id
      <4>1. B = {}
        BY <1>1, <2>1, <3>1, <3>3
      <4> QED
        BY <1>1, <2>2, <3>3, <4>1 DEF B, C
    <3> QED
      BY <3>2, <3>3
  <2>3. CASE C # {}
    <3> DEFINE m == LastOf(C)
    <3>1. m \in C /\ (\A j \in C : j <= m) /\ m \in 1 .. n - 1
      BY <2>1, <2>3, LastIsOne
    <3> HIDE DEF m
    <3>2. m + 1 \in B
      BY <1>1, <2>1, <3>1
    <3>3. ASSUME NEW j \in B
          PROVE  j <= m + 1
      <4>1. CASE j = 1
        BY <3>1, <4>1
      <4>2. CASE j # 1
        <5>1. j - 1 \in 1 .. n - 1 /\ (j - 1) + 1 = j
          BY <1>1, <2>1, <4>2
        <5>2. j - 1 \in C
          BY <2>1, <5>1
        <5> QED
          BY <2>1, <3>1, <5>2
      <4> QED
        BY <4>1, <4>2
    <3>4. LastOf(B) = m + 1
      BY <1>1, <2>1, <3>2, <3>3, LastIs
    <3>5. rest[m].area = items[m + 1].area
      BY <1>1, <3>1
    <3>6. B # {}
      BY <3>2
    <3> QED
      BY <2>3, <3>4, <3>5, <3>6 DEF B, C, m
  <2> QED
    BY <2>2, <2>3
<1> QED
  BY <1>2 DEF Replaced, rest

LEMMA RemovedFirst ==
  ASSUME NEW ids \in Seq(Ids), ids # <<>>, NEW force, NEW next,
         \A id \in Ids : next[id] = IF id = Head(ids) THEN {} ELSE force[id]
  PROVE  Removed(next, Tail(ids)) = Removed(force, ids)
<1> DEFINE rest == Tail(ids)
           n == Len(ids)
<1>1. /\ n \in Nat \ {0} /\ DOMAIN ids = 1 .. n /\ DOMAIN rest = 1 .. n - 1
      /\ \A i \in 1 .. n - 1 : rest[i] = ids[i + 1]
      /\ Head(ids) = ids[1]
  BY EmptySeq, LenProperties, HeadTailProperties
<1> HIDE DEF rest, n
<1>2. ASSUME NEW id \in Ids
      PROVE  (IF \E i \in DOMAIN rest : rest[i] = id THEN {} ELSE next[id])
             = (IF \E i \in DOMAIN ids : ids[i] = id THEN {} ELSE force[id])
  <2>1. (\E i \in DOMAIN ids : ids[i] = id) <=> id = Head(ids) \/ \E i \in DOMAIN rest : rest[i] = id
    <3>1. ASSUME NEW i \in DOMAIN ids, ids[i] = id, i # 1
          PROVE  \E k \in DOMAIN rest : rest[k] = id
      <4>1. i - 1 \in 1 .. n - 1 /\ (i - 1) + 1 = i
        BY <1>1, <3>1
      <4> QED
        BY <1>1, <3>1, <4>1
    <3>2. ASSUME NEW i \in DOMAIN rest, rest[i] = id
          PROVE  \E k \in DOMAIN ids : ids[k] = id
      <4>1. i + 1 \in 1 .. n
        BY <1>1
      <4> QED
        BY <1>1, <3>2, <4>1
    <3>3. 1 \in DOMAIN ids
      BY <1>1
    <3> QED
      BY <1>1, <3>1, <3>2, <3>3
  <2> QED
    BY <2>1
<1> QED
  BY <1>2 DEF Removed, rest

LEMMA NothingLeft ==
  ASSUME NEW force, force = [id \in Ids |-> force[id]]
  PROVE  Replaced(force, <<>>) = force /\ Removed(force, <<>>) = force
<1>1. \A id : Brought(<<>>, id) = {}
  BY DEF Brought
<1>2. ~ \E i \in DOMAIN <<>> : TRUE
  OBVIOUS
<1> QED
  BY <1>1, <1>2 DEF Replaced, Removed

LEMMA ForceAt ==
  /\ \A id \in Ids : Standing[id] = InForce(id)
  /\ \A id \in Ids : Standing'[id] = InForce(id)'
  /\ Standing = [id \in Ids |-> Standing[id]]
  /\ Standing' = [id \in Ids |-> Standing'[id]]
<1>1. Standing = [id \in Ids |-> InForce(id)] /\ Standing' = [id \in Ids |-> InForce(id)']
  BY DEF Standing
<1> DEFINE now == [id \in Ids |-> InForce(id)]
           next == [id \in Ids |-> InForce(id)']
<1>2. /\ \A id \in Ids : now[id] = InForce(id)
      /\ \A id \in Ids : next[id] = InForce(id)'
      /\ now = [id \in Ids |-> now[id]]
      /\ next = [id \in Ids |-> next[id]]
  OBVIOUS
<1>3. Standing = now /\ Standing' = next
  BY <1>1
<1> HIDE DEF now, next
<1> QED
  BY <1>2, <1>3

LEMMA SameForce ==
  ASSUME UNCHANGED file
  PROVE  Standing' = Standing
BY DEF file, Standing, InForce

(* An erased file has no area in force. *)
LEMMA ErasedForce ==
  ASSUME Careful, IInv, EraseAll
  PROVE  Standing' = Nothing
<1>1. slot' = Erased(size) /\ size' = size /\ slot \in [Slot -> Item] /\ size \in 0 .. MaxAreaSum
  BY DEF EraseAll, Careful, IInv, TypeOK
<1>2. \A s \in 0 .. size - 1 : ~slot'[s].valid
  BY <1>1, SlotPart, ErasedItem
<1>3. \A id \in Ids : InForce(id)' = {}
  BY <1>1, <1>2 DEF InForce
<1>4. Standing' = [id \in Ids |-> InForce(id)']
  BY DEF Standing
<1>5. [id \in Ids |-> InForce(id)'] = [id \in Ids |-> {}]
  BY <1>3
<1>6. Nothing' = [id \in Ids |-> {}] /\ Nothing = [id \in Ids |-> {}]
  BY DEF Nothing
<1> QED
  BY <1>4, <1>5, <1>6

(* What the message has still to do leads to what it should leave. *)
Aimed ==
  /\ option = "update" => goal = Replaced(Nothing, todo)
  /\ option \in {"add", "alter"} => goal = Replaced(Standing, todo)
  /\ option = "delete" => goal = Removed(Standing, todo)
  /\ option = "erase" => goal = Nothing

LEMMA WriteLeadsOn ==
  ASSUME Careful, IInv, Aimed, WriteArea
  PROVE  goal = Replaced(Standing', Tail(todo))
<1>1. option \in {"add", "alter"} /\ todo \in Seq(AreaRecord) /\ todo # <<>>
  BY WriteAreaParts DEF IInv
<1>2. \A id \in Ids : Standing'[id] = IF id = Head(todo).id THEN {Head(todo).area} ELSE Standing[id]
  BY WriteReplaces, ForceAt
<1>3. Replaced(Standing', Tail(todo)) = Replaced(Standing, todo)
  <2> HIDE DEF Standing
  <2> QED
    BY <1>1, <1>2, ReplacedFirst
<1> QED
  BY <1>1, <1>3 DEF Aimed

LEMMA DeleteLeadsOn ==
  ASSUME Careful, IInv, Aimed, DelArea
  PROVE  goal = Removed(Standing', Tail(todo))
<1>1. option = "delete" /\ todo \in Seq(Ids) /\ todo # <<>>
  BY DEF DelArea, IInv, TypeOK
<1>2. \A id \in Ids : Standing'[id] = IF id = Head(todo) THEN {} ELSE Standing[id]
  BY DeletedForce, ForceAt DEF DelArea
<1>3. Removed(Standing', Tail(todo)) = Removed(Standing, todo)
  <2> HIDE DEF Standing
  <2> QED
    BY <1>1, <1>2, RemovedFirst
<1> QED
  BY <1>1, <1>3 DEF Aimed

LEMMA AimedStep ==
  ASSUME Careful, IInv, Aimed, Next, goal' = IF Idle THEN Aim ELSE goal
  PROVE  Aimed'
<1>1. ASSUME Idle, UNCHANGED file
      PROVE  Aimed'
  <2>1. goal' = Aim /\ Standing' = Standing
    BY <1>1, SameForce
  <2>2. CASE option' = "update"
    <3>1. goal' = Replaced(Nothing, todo')
      BY <2>1, <2>2 DEF Aim
    <3> QED
      BY <2>2, <3>1 DEF Aimed, Replaced, Brought, LastOf, Nothing
  <2>3. CASE option' \in {"add", "alter"}
    <3>1. goal' = Replaced(Standing, todo')
      BY <2>1, <2>3 DEF Aim
    <3>2. goal' = Replaced(Standing', todo')
      BY <2>1, <3>1
    <3> QED
      BY <2>3, <3>2 DEF Aimed, Replaced, Brought, LastOf
  <2>4. CASE option' = "delete"
    <3>1. goal' = Removed(Standing, todo')
      BY <2>1, <2>4 DEF Aim
    <3>2. goal' = Removed(Standing', todo')
      BY <2>1, <3>1
    <3> QED
      BY <2>4, <3>2 DEF Aimed, Removed
  <2>5. CASE option' = "erase"
    <3>1. goal' = Nothing
      BY <2>1, <2>5 DEF Aim
    <3> QED
      BY <2>5, <3>1 DEF Aimed, Nothing
  <2>6. CASE option' \notin {"update", "add", "alter", "delete", "erase"}
    BY <2>6 DEF Aimed
  <2> QED
    BY <2>2, <2>3, <2>4, <2>5, <2>6
<1>2. ASSUME option' = "none"
      PROVE  Aimed'
  BY <1>2 DEF Aimed
<1>3. ASSUME NEW o \in Options, NEW batch \in Batches, SetAreas(o, batch)
      PROVE  Aimed'
  BY <1>1, <1>3 DEF SetAreas
<1>4. ASSUME RefuseAreas \/ SetNothing \/ RefuseIds
      PROVE  Aimed'
  BY <1>1, <1>4 DEF RefuseAreas, SetNothing, RefuseIds
<1>5. ASSUME NEW ids \in IdLists, DelAreas(ids)
      PROVE  Aimed'
  BY <1>1, <1>5 DEF DelAreas
<1>6. CASE EraseForUpdate
  <2>1. /\ option = "update" /\ option' = "add" /\ todo' = todo /\ goal' = goal
        /\ Standing' = Nothing
    BY <1>6, ErasedForce DEF EraseForUpdate, Idle
  <2> QED
    BY <2>1 DEF Aimed
<1>7. CASE WriteArea
  <2>1. goal = Replaced(Standing', Tail(todo))
    BY <1>7, WriteLeadsOn
  <2>2. option \in {"add", "alter"} /\ option' \in {"none", option} /\ todo' = Tail(todo)
    BY <1>7 DEF WriteArea, NextArea
  <2>3. goal' = goal
    BY <2>2 DEF Idle
  <2> QED
    BY <2>1, <2>2, <2>3 DEF Aimed
<1>8. CASE DelArea
  <2>1. goal = Removed(Standing', Tail(todo))
    BY <1>8, DeleteLeadsOn
  <2>2. option = "delete" /\ option' \in {"none", option} /\ todo' = Tail(todo)
    BY <1>8 DEF DelArea, NextArea
  <2>3. goal' = goal
    BY <2>2 DEF Idle
  <2> QED
    BY <2>1, <2>2, <2>3 DEF Aimed
<1>9. CASE BadPolygon \/ NoRoom \/ WriteFails \/ DelAllAreas \/ Restart
  BY <1>2, <1>9 DEF BadPolygon, NoRoom, WriteFails, GiveUp, DelAllAreas, Restart
<1>10. CASE DelFails
  BY <1>10 DEF DelFails, Careful
<1>11. ASSUME NEW s \in Slot, Expire(s)
       PROVE  Aimed'
  BY <1>2, <1>11 DEF Expire, job, Idle
<1>12. CASE DeleteFile
  BY <1>2, <1>12 DEF DeleteFile, job, Idle
<1> QED
  BY <1>3, <1>4, <1>5, <1>6, <1>7, <1>8, <1>9, <1>10, <1>11, <1>12 DEF Next

LEMMA LastLeavesNone ==
  ASSUME NEW T, NEW s \in Seq(T), s # <<>>, Len(s) = 1
  PROVE  Tail(s) = <<>>
<1>1. Tail(s) \in Seq(T) /\ Len(Tail(s)) = 0
  BY HeadTailProperties
<1> QED
  BY <1>1, EmptySeq

(* The message has left what it should when it is answered with 0. *)
LEMMA AnsweredTrue ==
  ASSUME Careful, IInv, Aimed, option' = "none", WriteArea \/ NoRoom \/ DelArea \/ DelAllAreas,
         answer' = 0
  PROVE  Standing' = goal
<1>1. CASE WriteArea
  <2>1. goal = Replaced(Standing', Tail(todo))
    BY <1>1, WriteLeadsOn
  <2>2. todo \in Seq(AreaRecord) /\ todo # <<>> /\ Len(todo) = 1
    BY <1>1, WriteAreaParts DEF IInv, WriteArea, NextArea
  <2>3. Tail(todo) = <<>>
    BY <2>2, LastLeavesNone
  <2> QED
    BY <2>1, <2>3, ForceAt, NothingLeft
<1>2. CASE DelArea
  <2>1. goal = Removed(Standing', Tail(todo))
    BY <1>2, DeleteLeadsOn
  <2>2. todo \in Seq(Ids) /\ todo # <<>> /\ Len(todo) = 1
    BY <1>2 DEF IInv, TypeOK, DelArea, NextArea
  <2>3. Tail(todo) = <<>>
    BY <2>2, LastLeavesNone
  <2> QED
    BY <2>1, <2>3, ForceAt, NothingLeft
<1>3. CASE DelAllAreas
  BY <1>3, ErasedForce DEF DelAllAreas, Aimed
<1>4. CASE NoRoom
  BY <1>4 DEF NoRoom, GiveUp
<1> QED
  BY <1>1, <1>2, <1>3, <1>4

(* The answer 0 to a message of any length is true: what is in force then is  *)
(* what the message asked for, all of it, and after an update nothing else    *)
(* (oa_area.c and oa_jt808.c, as AreaFile has them), if the flash does not    *)
(* refuse and the platform sends no "add".                                    *)
THEOREM AnswersAreTrue ==
  ASSUME Careful
  PROVE  MCSpec => AnswerTrue
<1>1. MCInit => IInv /\ Aimed
  BY InvInit DEF MCInit, Init, Aimed
<1>2. IInv /\ Aimed /\ [MCNext]_<<vars, goal, errors, fvars>> => (IInv /\ Aimed)'
  <2> SUFFICES ASSUME IInv, Aimed, [MCNext]_<<vars, goal, errors, fvars>>
               PROVE  IInv' /\ Aimed'
    OBVIOUS
  <2>1. CASE Next /\ goal' = (IF Idle THEN Aim ELSE goal)
    BY <2>1, InvStep, AimedStep
  <2>2. CASE UNCHANGED <<vars, goal>>
    <3>1. IInv'
      BY <2>2, InvStep
    <3>2. Aimed'
      <4>1. Standing' = Standing
        BY <2>2, SameForce DEF vars
      <4>2. goal' = goal /\ option' = option /\ todo' = todo
        BY <2>2 DEF vars, job
      <4>3. option = "update" => goal' = Replaced(Nothing, todo)'
        BY <4>2 DEF Aimed, Replaced, Brought, LastOf, Nothing
      <4>4. /\ option \in {"add", "alter"} => goal' = Replaced(Standing', todo')
            /\ option = "delete" => goal' = Removed(Standing', todo')
        BY <4>1, <4>2 DEF Aimed
      <4>5. option = "erase" => goal' = Nothing'
        BY <4>2 DEF Aimed, Nothing
      <4> QED
        BY <4>2, <4>3, <4>4, <4>5 DEF Aimed, Replaced, Removed, Brought, LastOf, Nothing
    <3> QED
      BY <3>1, <3>2
  <2> QED
    BY <2>1, <2>2 DEF MCNext
<1>3. IInv /\ Aimed /\ [MCNext]_<<vars, goal, errors, fvars>> =>
        [~Idle /\ option' = "none" /\ (WriteArea \/ NoRoom \/ DelArea \/ DelAllAreas) /\ answer' = 0
         => Standing' = goal]_<<vars, goal>>
  BY AnsweredTrue
<1> QED
  BY <1>1, <1>2, <1>3, PTL DEF MCSpec, AnswerTrue
=============================================================================
