------------------------------ MODULE AreaFile ------------------------------
(***************************************************************************)
(* One of the three files of areas (circles, rectangles, polygons) the     *)
(* platform sends: src/src/oa_area.c, with the messages that change it     *)
(* (src/src/oa_jt808.c, src/src/Area_Judge.c).  The code of the three kinds *)
(* is the same text on three item types; the map names the copy a          *)
(* definition was read from.  A message is handled without a pause, but a   *)
(* restart may fall between any two of its writes.                         *)
(***************************************************************************)
EXTENDS Integers, Sequences

CONSTANTS
  MaxAreaSum,
  Ids,          \* the area ids the platform uses
  Areas,        \* everything an item says beside its id
  NoArea,       \* what an item of a new file says
  Options,      \* the options of the "set area" messages
  Batches,      \* the areas one of them brings, sequences of [id, area]
  IdLists,      \* the ids a "delete area" message brings
  FlashErrors   \* whether the flash may refuse a read or a write

(* What a message brings: one area of a set. *)
AreaRecord == [id : Ids, area : Areas]

(* A new item is all zeros, so its id is 0, which the platform may use too. *)
ASSUME AreaFileAssumption ==
  /\ MaxAreaSum \in Nat \ {0}
  /\ 0 \in Ids
  /\ NoArea \notin Areas
  /\ Options \subseteq {"update", "add", "alter"}
  /\ Batches \subseteq Seq(AreaRecord)
  /\ IdLists \subseteq Seq(Ids)
  /\ FlashErrors \in BOOLEAN

VARIABLES
  present,   \* the file exists
  size,      \* the number of its items
  slot,      \* the items; those from size on are not there
  option,    \* of the message being handled, "none" between messages
  todo,      \* what it still has to write or to delete
  answer     \* the status of the last answer: 0, 1, or what was on the stack

file == <<present, size, slot>>
job == <<option, todo>>
vars == <<file, job, answer>>

Slot == 0 .. MaxAreaSum - 1
Item == [valid : BOOLEAN, id : Ids, area : Areas \cup {NoArea}]
Blank == [s \in Slot |-> [valid |-> FALSE, id |-> 0, area |-> NoArea]]

Idle == option = "none"

(* The ids of a delete message are kept as ids, the areas as [id, area]. *)
TypeOK ==
  /\ present \in BOOLEAN
  /\ size \in 0 .. MaxAreaSum
  /\ slot \in [Slot -> Item]
  /\ option \in {"none", "update", "add", "alter", "delete", "erase"}
  /\ option \in {"update", "add", "alter"} => todo \in Seq(AreaRecord)
  /\ option = "delete" => todo \in Seq(Ids)
  /\ option \in {"update", "add", "alter", "delete"} => todo # <<>>
  /\ answer \in {0, 1}

Init ==
  /\ present = FALSE /\ size = 0 /\ slot = Blank
  /\ option = "none" /\ todo = <<>>
  /\ answer = 0

(* An update of more areas than the file holds keeps the first of them. *)
Clamp(batch) ==
  IF Len(batch) > MaxAreaSum THEN SubSeq(batch, 1, MaxAreaSum) ELSE batch

(* set_round_area and its two copies take a message.                        *)
SetAreas(o, batch) ==
  /\ Idle
  /\ Len(batch) > 0
  /\ o = "update" \/ Len(batch) <= MaxAreaSum
  /\ option' = o
  /\ todo' = Clamp(batch)
  /\ UNCHANGED <<file, answer>>

(* Too many areas for an "add" or an "alter", or an option that is none.    *)
RefuseAreas ==
  /\ Idle
  /\ answer' = 1
  /\ UNCHANGED <<file, job>>

(* A message of no area at all: the loop does not run and the answer is the *)
(* variable ret that nothing has set.                                       *)
SetNothing ==
  /\ Idle
  /\ answer' \in {0, 1}
  /\ UNCHANGED <<file, job>>

(* More ids than the file has items: nothing is deleted, and the answer is 0. *)
RefuseIds ==
  /\ Idle
  /\ answer' = 0
  /\ UNCHANGED <<file, job>>

(* SaveAreaData of the first area of an update: every item of the file       *)
(* becomes invalid and the rest of the message is an "add".  The result of   *)
(* del_area_data is not looked at: stop is the item at which it gave up.     *)
Erased(stop) == [s \in Slot |-> [slot[s] EXCEPT !.valid = @ /\ s >= stop]]

EraseAll ==
  /\ \E stop \in 0 .. size :
       /\ stop = size \/ FlashErrors
       /\ slot' = Erased(stop)
  /\ UNCHANGED <<present, size>>

(* Mutant: the items of before stay valid. *)
EraseForUpdateKeepsFile ==
  /\ option = "update"
  /\ option' = "add"
  /\ UNCHANGED <<file, todo, answer>>

EraseForUpdate ==
  /\ option = "update"
  /\ EraseAll
  /\ option' = "add"
  /\ UNCHANGED <<todo, answer>>

(* What a write finds: the file, or the new one it creates.  Should the new  *)
(* file come out short, only an "alter" meets it, on its second call.        *)
Opened(n, disk) ==
  IF present
  THEN n = size /\ disk = slot
  ELSE /\ n = MaxAreaSum \/ (FlashErrors /\ option = "alter" /\ n \in 0 .. MaxAreaSum)
       /\ disk = Blank

(* Mutant: a stored area of this id is not looked for. *)
AddTargetsFreeOnly(n, disk, id) == {s \in 0 .. n - 1 : ~disk[s].valid}

(* Mutant: the first item is taken whatever it holds. *)
AddTargetsAny(n, disk, id) == 0 .. n - 1

(* The items r_w_*_area_data_file may overwrite with an area of this id.     *)
AddTargets(n, disk, id) == {s \in 0 .. n - 1 : ~disk[s].valid \/ disk[s].id = id}

AlterTargets(n, disk, id) == {s \in 0 .. n - 1 : disk[s].valid /\ disk[s].id = id}

(* write_*_area_data: an "alter" that finds no area of this id is an "add",  *)
(* and so is one that fails otherwise.                                       *)
Targets(n, disk, id) ==
  IF option = "alter"
  THEN LET alter == AlterTargets(n, disk, id)
           add == AddTargets(n, disk, id)
       IN  {IF alter = {} THEN add ELSE alter} \cup (IF FlashErrors THEN {add} ELSE {})
  ELSE {AddTargets(n, disk, id)}

IsFirst(s, S) == s \in S /\ \A t \in S : s <= t

Written(disk, s, it) ==
  [disk EXCEPT ![s] = [valid |-> TRUE, id |-> it.id, area |-> it.area]]

(* The loop over a message goes on with the next area or id, or ends with 0. *)
NextArea ==
  /\ todo' = Tail(todo)
  /\ option' = IF Len(todo) = 1 THEN "none" ELSE option
  /\ answer' = IF Len(todo) = 1 THEN 0 ELSE answer

WriteAt(n, disk, s) ==
  /\ Opened(n, disk)
  /\ \E T \in Targets(n, disk, Head(todo).id) : IsFirst(s, T)
  /\ slot' = Written(disk, s, Head(todo))
  /\ size' = n

WriteArea ==
  /\ option \in {"add", "alter"}
  /\ \E n \in 0 .. MaxAreaSum, disk \in {slot, Blank}, s \in Slot : WriteAt(n, disk, s)
  /\ present' = TRUE
  /\ NextArea

(* Mutant: the platform is not told that an area found no room. *)
GiveUpAnswersOk ==
  /\ todo' = <<>> /\ option' = "none"
  /\ answer' = 0

(* The loop of set_round_area ends with 1; the areas before this one stay. *)
GiveUp ==
  /\ todo' = <<>> /\ option' = "none"
  /\ answer' = 1

(* A polygon of no corner or of more than MAX_AREA_POINTS is refused before   *)
(* the file is read, but after an update has erased it.                      *)
BadPolygon ==
  /\ option \in {"add", "alter"}
  /\ UNCHANGED file
  /\ GiveUp

NoRoom ==
  /\ option \in {"add", "alter"}
  /\ \E n \in 0 .. MaxAreaSum : \E disk \in {slot, Blank} :
       /\ Opened(n, disk)
       /\ {} \in Targets(n, disk, Head(todo).id)
       /\ slot' = disk
       /\ size' = n
  /\ present' = TRUE
  /\ GiveUp

(* A read or a write fails, or the creation of the file, which leaves it     *)
(* absent or short.                                                          *)
WriteFails ==
  /\ FlashErrors
  /\ option \in {"add", "alter"}
  /\ IF present
     THEN UNCHANGED file
     ELSE \/ UNCHANGED file
          \/ /\ present' = TRUE
             /\ size' \in 0 .. MaxAreaSum
             /\ slot' = Blank
  /\ GiveUp

(* del_area_data for one area: the first item with this id decides, and when *)
(* it is invalid already nothing is done.                                    *)
Invalidated(id) ==
  [s \in Slot |->
     IF IsFirst(s, {t \in 0 .. size - 1 : slot[t].id = id})
     THEN [slot[s] EXCEPT !.valid = FALSE] ELSE slot[s]]

del_one_area(id) ==
  /\ slot' = IF present THEN Invalidated(id) ELSE slot
  /\ UNCHANGED <<present, size>>

(* del_area_message: the result of DelAreaData is not looked at and the      *)
(* answer is always 0.  A list of no id deletes all areas.                   *)
DelAreas(ids) ==
  /\ Idle
  /\ option' = IF ids = <<>> THEN "erase" ELSE "delete"
  /\ todo' = ids
  /\ UNCHANGED <<file, answer>>

DelAllAreas ==
  /\ option = "erase"
  /\ EraseAll
  /\ option' = "none" /\ todo' = <<>>
  /\ answer' = 0

DelArea ==
  /\ option = "delete"
  /\ del_one_area(Head(todo))
  /\ NextArea

DelFails ==
  /\ FlashErrors
  /\ option = "delete"
  /\ UNCHANGED file
  /\ NextArea

(* *_area_inout_judge deletes an area whose time has passed. *)
Expire(s) ==
  /\ Idle
  /\ present /\ s < size /\ slot[s].valid
  /\ del_one_area(slot[s].id)
  /\ UNCHANGED <<job, answer>>

(* A reset to factory settings deletes the file. *)
DeleteFile ==
  /\ Idle
  /\ present' = FALSE /\ size' = 0 /\ slot' = Blank
  /\ UNCHANGED <<job, answer>>

(* A restart ends the message.  It may stop the loop that invalidates the    *)
(* items, or the one that writes the items of a new file, at any of them.    *)
Restart ==
  /\ option' = "none" /\ todo' = <<>>
  /\ UNCHANGED answer
  /\ \/ UNCHANGED file
     \/ /\ option \in {"update", "erase"}
        /\ \E stop \in 0 .. size : slot' = Erased(stop)
        /\ UNCHANGED <<present, size>>
     \/ /\ option \in {"add", "alter"} /\ ~present
        /\ present' = TRUE
        /\ size' \in 0 .. MaxAreaSum
        /\ slot' = Blank

Next ==
  \/ \E o \in Options, batch \in Batches : SetAreas(o, batch)
  \/ RefuseAreas
  \/ SetNothing
  \/ RefuseIds
  \/ EraseForUpdate
  \/ WriteArea
  \/ BadPolygon
  \/ NoRoom
  \/ WriteFails
  \/ \E ids \in IdLists : DelAreas(ids)
  \/ DelAllAreas
  \/ DelArea
  \/ DelFails
  \/ \E s \in Slot : Expire(s)
  \/ DeleteFile
  \/ Restart

Spec == Init /\ [][Next]_vars

-----------------------------------------------------------------------------
(* What the valid items say of an area: none or one description of it, if    *)
(* all is well.                                                              *)
InForce(id) ==
  {slot[s].area : s \in {t \in 0 .. size - 1 : slot[t].valid /\ slot[t].id = id}}

(* No item before a valid one has its id, valid or not, so the first item     *)
(* with an id, at which every loop of oa_area.c stops, is the one in force.   *)
FirstIsOnly ==
  \A s, t \in 0 .. size - 1 : slot[s].valid /\ t < s => slot[t].id # slot[s].id

(* The file as every message, and every restart in one, must find it.        *)
FileInv == TypeOK /\ FirstIsOnly

(* A deleted area is in force no longer, whatever happened to its item and    *)
(* to the items before it, and no other area is touched; the time of an area  *)
(* that runs out ends that area and no other.                                 *)
DeleteExact ==
  [][/\ DelArea =>
          \A id \in Ids :
            InForce(id)' = IF id = Head(todo) THEN {} ELSE InForce(id)
     /\ \A s \in Slot :
          Expire(s) => \A t \in Slot \ {s} : slot'[t] = slot[t] /\ ~slot'[s].valid]_vars

(* A write puts its area in force in place of any other with that id.         *)
WriteExact ==
  [][WriteArea =>
       \A id \in Ids :
         InForce(id)' = IF id = Head(todo).id THEN {Head(todo).area} ELSE InForce(id)]_vars

(* Whatever fails in between, a write never costs another area.               *)
OthersStay ==
  [][WriteArea =>
       \A id \in Ids :
         IF id = Head(todo).id
         THEN Head(todo).area \in InForce(id)'
         ELSE InForce(id)' = InForce(id)]_vars
=============================================================================
