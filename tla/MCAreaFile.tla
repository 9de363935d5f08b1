----------------------------- MODULE MCAreaFile -----------------------------
(***************************************************************************)
(* AreaFile with two items, three ids and messages of up to three areas,   *)
(* and with what the message being handled should leave in force; and apart *)
(* from it the same with a flash whose operations may fail.                 *)
(***************************************************************************)
EXTENDS AreaFile

CONSTANTS a1, a2

MCAreas == {a1, a2}

MCRecord == [id : Ids, area : MCAreas]

(* Three areas are more than the file holds: one description is enough. *)
MCBatches ==
  {<<r>> : r \in MCRecord} \cup (MCRecord \X MCRecord)
    \cup {<<q, r, s>> : q, r, s \in [id : Ids, area : {a1}]}

MCIdLists == {<<>>} \cup {<<i>> : i \in Ids} \cup {<<i, j>> : i, j \in Ids}

VARIABLES
  goal,    \* for each id what should be in force after the message
  errors,  \* this behaviour is about the flash that may fail
  fpresent, fsize, fslot, foption, ftodo, fanswer   \* the variables of Failing

Failing == INSTANCE AreaFile WITH
  present <- fpresent, size <- fsize, slot <- fslot, option <- foption, todo <- ftodo,
  answer <- fanswer, FlashErrors <- TRUE, Options <- {"update", "add", "alter"}

fvars == <<fpresent, fsize, fslot, foption, ftodo, fanswer>>

(* The last area of the message with an id counts. *)
Brought(items, id) == {i \in DOMAIN items : items[i].id = id}
LastOf(S) == CHOOSE i \in S : \A j \in S : j <= i
Replaced(force, items) ==
  [id \in Ids |-> IF Brought(items, id) = {} THEN force[id]
                  ELSE {items[LastOf(Brought(items, id))].area}]

Removed(force, ids) ==
  [id \in Ids |-> IF \E i \in DOMAIN ids : ids[i] = id THEN {} ELSE force[id]]

Standing == [id \in Ids |-> InForce(id)]
Nothing == [id \in Ids |-> {}]

Aim ==
  CASE option' = "update" -> Replaced(Nothing, todo')
    [] option' \in {"add", "alter"} -> Replaced(Standing, todo')
    [] option' = "delete" -> Removed(Standing, todo')
    [] option' = "erase" -> Nothing
    [] OTHER -> goal

MCInit == Init /\ goal = Nothing /\ errors \in BOOLEAN /\ Failing!Init
MCNext ==
  \/ ~errors /\ Next /\ goal' = (IF Idle THEN Aim ELSE goal) /\ UNCHANGED <<errors, fvars>>
  \/ errors /\ Failing!Next /\ UNCHANGED <<errors, vars, goal>>
MCSpec == MCInit /\ [][MCNext]_<<vars, goal, errors, fvars>>

(* What is to hold of a flash that may fail, stated in AreaFile. *)
OthersStayOnErrors == Failing!OthersStay

(* The answer 0 is true: when a message of several areas or ids ends with    *)
(* it, the areas in force are those it asked for, all of them, and after an  *)
(* update no other.                                                          *)
AnswerTrue ==
  [][~Idle /\ option' = "none" /\ (WriteArea \/ NoRoom \/ DelArea \/ DelAllAreas) /\ answer' = 0
       => Standing' = goal]_<<vars, goal>>
=============================================================================
