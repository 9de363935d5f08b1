-------------------------- MODULE AreaAlarm_proofs --------------------------
(***************************************************************************)
(* Proofs about AreaAlarm, and about its histories in MCAreaHistory, for    *)
(* any number of items of any kinds.                                       *)
(***************************************************************************)
EXTENDS MCAreaHistory, TLAPS

USE AreaAlarmAssumption

-----------------------------------------------------------------------------
(* The types of the overspeed alarm *)

(* The part of TypeOK the alarm's bookkeeping needs. *)
AlarmType ==
  /\ alarm \in BOOLEAN
  /\ noArea \in BOOLEAN
  /\ owner \in [Item -> BOOLEAN]

(* alarm_mask leaves the overspeed alarm in. *)
Unmasked == ~masked

IInv == AlarmType /\ Unmasked /\ OneOwner

LEMMA InvInit == Init => IInv
BY DEF Init, IInv, AlarmType, Unmasked, OneOwner

-----------------------------------------------------------------------------
(* What each branch of the overspeed judgement does to the alarm *)

(* Raising: who finds the alarm RESET becomes its owner. *)
LEMMA CountOverKeeps ==
  ASSUME IInv, NEW i \in Item, CountOver(i), UNCHANGED <<noArea, masked>>
  PROVE  IInv'
<1>1. CASE UNCHANGED <<alarm, owner>>
  BY <1>1 DEF IInv, AlarmType, Unmasked, OneOwner
<1>2. CASE SetAlarm /\ owner' = [owner EXCEPT ![i] = @ \/ ~alarm]
  <2>1. alarm' = TRUE
    BY <1>2 DEF SetAlarm, IInv, AlarmType, Unmasked
  <2>2. owner' \in [Item -> BOOLEAN]
    BY <1>2 DEF IInv, AlarmType
  <2>3. \A j \in Item : owner'[j] <=> IF j = i THEN owner[i] \/ ~alarm ELSE owner[j]
    BY <1>2 DEF IInv, AlarmType
  <2>4. QED
    BY <2>1, <2>2, <2>3 DEF IInv, AlarmType, Unmasked, OneOwner
<1>3. QED
  BY <1>1, <1>2 DEF CountOver

(* Taking back: only an owner clears the alarm, and it forgets that it was. *)
LEMMA LetGo ==
  ASSUME IInv, NEW i \in Item, UNCHANGED <<noArea, masked>>,
         owner' = [owner EXCEPT ![i] = @ /\ ~alarm],
         alarm' \in BOOLEAN, alarm' => alarm, alarm /\ ~owner[i] => alarm'
  PROVE  IInv'
<1>1. owner' \in [Item -> BOOLEAN]
  BY DEF IInv, AlarmType
<1>2. \A j \in Item : owner'[j] <=> owner[j] /\ (j = i => ~alarm)
  BY DEF IInv, AlarmType
<1>3. ~owner'[i]
  BY <1>2 DEF IInv, OneOwner
<1>4. ASSUME NEW j \in Item, owner'[j]
      PROVE  alarm' /\ ~noArea' /\ \A k \in Item \ {j} : ~owner'[k]
  <2>1. j # i /\ owner[j]
    BY <1>2, <1>3, <1>4
  <2>2. alarm /\ ~noArea /\ \A k \in Item \ {j} : ~owner[k]
    BY <2>1 DEF IInv, OneOwner
  <2>3. QED
    BY <1>2, <2>1, <2>2
<1>5. noArea' => alarm'
  BY DEF IInv, OneOwner
<1>6. QED
  BY <1>1, <1>4, <1>5 DEF IInv, AlarmType, Unmasked, OneOwner

LEMMA CancelKeeps ==
  ASSUME IInv, NEW i \in Item, UNCHANGED <<noArea, masked>>,
         Cancel(i) \/ CancelOutside(i)
  PROVE  IInv'
<1>1. /\ owner' = [owner EXCEPT ![i] = @ /\ ~alarm]
      /\ alarm' \in BOOLEAN /\ (alarm' => alarm) /\ (alarm /\ ~owner[i] => alarm')
  BY DEF Cancel, CancelOutside, IInv, AlarmType
<1>2. QED
  BY <1>1, LetGo

LEMMA JudgeKeeps ==
  ASSUME IInv, NEW i \in Item, NEW status, JudgeItem(i, status)
  PROVE  IInv'
<1>1. UNCHANGED <<noArea, masked>>
  BY DEF JudgeItem, environment
<1>2. \/ CountOver(i)
      \/ Cancel(i) \/ CancelOutside(i)
      \/ UNCHANGED <<alarm, owner>>
  <2>1. CircleOverspeed(i, status) \/ RectOverspeed(i, status)
    BY DEF JudgeItem, PolyOverspeed
  <2>2. QED
    BY <2>1 DEF CircleOverspeed, RectOverspeed, SlowInCircle, OutOfArea
<1>3. CASE UNCHANGED <<alarm, owner>>
  BY <1>1, <1>3 DEF IInv, AlarmType, Unmasked, OneOwner
<1>4. QED
  BY <1>1, <1>2, <1>3, CountOverKeeps, CancelKeeps

LEMMA GpsKeeps ==
  ASSUME IInv, oa_app_gps
  PROVE  IInv'
<1>1. owner' = owner /\ masked' = masked
  BY DEF oa_app_gps, environment
<1>2. CASE UNCHANGED <<alarm, noArea>>
  BY <1>1, <1>2 DEF IInv, AlarmType, Unmasked, OneOwner
<1>3. CASE SetAlarm /\ noArea' = (noArea \/ ~alarm)
  BY <1>1, <1>3 DEF SetAlarm, IInv, AlarmType, Unmasked, OneOwner
<1>4. CASE alarm' = (alarm /\ ~noArea) /\ noArea' = (noArea /\ ~alarm)
  BY <1>1, <1>4 DEF IInv, AlarmType, Unmasked, OneOwner
<1>5. QED
  BY <1>2, <1>3, <1>4 DEF oa_app_gps, GpsCounts, GpsCancels

LEMMA InvStep ==
  ASSUME Masks = {FALSE}
  PROVE  IInv /\ [Next]_vars => IInv'
<1> SUFFICES ASSUME IInv, [Next]_vars PROVE IInv'
  OBVIOUS
<1>1. CASE UNCHANGED <<overspeed, masked>>
  BY <1>1 DEF overspeed, IInv, AlarmType, Unmasked, OneOwner
<1>2. ASSUME NEW b \in Masks, SetMask(b) PROVE IInv'
  BY <1>2 DEF SetMask, overspeed, IInv, AlarmType, Unmasked, OneOwner
<1>3. CASE Restart
  BY <1>3 DEF Restart, environment, IInv, AlarmType, Unmasked, OneOwner
<1>4. CASE oa_app_gps
  BY <1>4, GpsKeeps
<1>5. CASE Judge
  BY <1>5, JudgeKeeps DEF Judge
<1>6. QED
  BY <1>1, <1>2, <1>3, <1>4, <1>5
  DEF Next, vars, environment, Drive, ChangeArea, oa_app_area

-----------------------------------------------------------------------------
(* The types *)

(* What a start leaves of the counts, the owners and the last judgement. *)
LEMMA FreshType ==
  /\ [i \in Item |-> FALSE] \in [Item -> BOOLEAN]
  /\ [i \in Item |-> 0] \in [Item -> 0 .. Byte - 1]
  /\ [i \in Item |-> "err"] \in [Item -> Status]
  /\ <<>> \in Report
<1>1. 0 \in 0 .. Byte - 1
  OBVIOUS
<1>2. [i \in Item |-> 0] \in [Item -> 0 .. Byte - 1]
  BY <1>1
<1>3. [i \in Item |-> "err"] \in [Item -> Status]
  BY DEF Status
<1>4. <<>> \in Report
  BY DEF Report
<1>5. QED
  BY <1>2, <1>3, <1>4

LEMMA TypeInit == Init => TypeOK
<1>1. [i \in Item |-> NoArea] \in [Item -> Areas \cup {NoArea}]
  OBVIOUS
<1>2. Init => {masked, alarm, noArea} \subseteq BOOLEAN /\ owner \in [Item -> BOOLEAN]
  BY FreshType DEF Init
<1>3. Init => speed \in Speeds /\ times \in 0 .. SpeedDuration /\ next \in 0 .. N
  BY DEF Init
<1>4. Init => /\ area \in [Item -> Areas \cup {NoArea}] /\ cal \in [Item -> 0 .. Byte - 1]
              /\ last \in [Item -> Status] /\ report \in Report
  BY <1>1, FreshType DEF Init
<1>5. QED
  BY <1>2, <1>3, <1>4 DEF TypeOK

LEMMA GpsType ==
  ASSUME TypeOK, oa_app_gps
  PROVE  TypeOK'
<1>1. UNCHANGED <<area, speed, masked, owner, cal, last, report, next>>
  BY DEF oa_app_gps, environment
<1>2. GpsSpeed \in Nat
  BY DEF GpsSpeed, TypeOK
<1>3. alarm' \in BOOLEAN /\ noArea' \in BOOLEAN
  <2>1. CASE GpsCounts
    <3>1. CASE SetAlarm /\ noArea' = (noArea \/ ~alarm)
      BY <3>1 DEF SetAlarm, TypeOK
    <3>2. CASE UNCHANGED <<alarm, noArea>>
      BY <3>2 DEF TypeOK
    <3>3. QED
      BY <2>1, <3>1, <3>2 DEF GpsCounts
  <2>2. CASE GpsCancels
    BY <2>2 DEF GpsCancels, TypeOK
  <2>3. QED
    BY <2>1, <2>2 DEF oa_app_gps
<1>4. times' \in 0 .. SpeedDuration
  BY DEF oa_app_gps, GpsCounts, GpsCancels, TypeOK
<1>5. QED
  BY <1>1, <1>3, <1>4 DEF TypeOK

(* The counts of seconds and the alarm bits after each branch. *)
LEMMA CountType ==
  ASSUME TypeOK, NEW i \in Item, CountOver(i)
  PROVE  alarm' \in BOOLEAN /\ owner' \in [Item -> BOOLEAN]
<1>1. alarm' \in BOOLEAN
  BY DEF CountOver, SetAlarm, TypeOK
<1>2. owner' \in [Item -> BOOLEAN]
  <2>1. CASE owner' = [owner EXCEPT ![i] = @ \/ ~alarm]
    BY <2>1 DEF TypeOK
  <2>2. CASE owner' = owner
    BY <2>2 DEF TypeOK
  <2>3. QED
    BY <2>1, <2>2 DEF CountOver
<1>3. QED
  BY <1>1, <1>2

LEMMA CalType ==
  ASSUME TypeOK, NEW i \in Item, CountOver(i) \/ ResetCount(i) \/ cal' = cal
  PROVE  cal' \in [Item -> 0 .. Byte - 1]
<1>1. cal \in [Item -> 0 .. Byte - 1]
  BY DEF TypeOK
<1>2. \A c \in Nat : (c + 1) % Byte \in 0 .. Byte - 1
  OBVIOUS
<1>3. CASE CountOver(i)
  <2>1. (cal[i] + 1) % Byte \in 0 .. Byte - 1
    BY <1>1, <1>2
  <2>2. cal' = [cal EXCEPT ![i] = 0] \/ cal' = [cal EXCEPT ![i] = (cal[i] + 1) % Byte]
    BY <1>3 DEF CountOver, ResetCount
  <2>3. QED
    BY <1>1, <2>1, <2>2
<1>4. QED
  BY <1>1, <1>3 DEF ResetCount

LEMMA CancelType ==
  ASSUME TypeOK, NEW i \in Item, Cancel(i) \/ CancelOutside(i)
  PROVE  alarm' \in BOOLEAN /\ owner' \in [Item -> BOOLEAN]
<1>1. alarm' \in BOOLEAN
  BY DEF Cancel, CancelOutside, TypeOK
<1>2. owner' = [owner EXCEPT ![i] = @ /\ ~alarm]
  BY DEF Cancel, CancelOutside
<1>3. QED
  BY <1>1, <1>2 DEF TypeOK

LEMMA JudgeType ==
  ASSUME TypeOK, NEW i \in Item, NEW status \in Status, JudgeItem(i, status)
  PROVE  TypeOK'
<1>1. UNCHANGED <<area, speed, masked, noArea, times>>
  BY DEF JudgeItem, environment
<1>2. last' \in [Item -> Status]
  BY DEF JudgeItem, TypeOK
<1>3. next' \in 0 .. N
  BY DEF JudgeItem, Item, TypeOK
<1>4. report' \in Report
  <2>1. status \in {"inside", "outside"} => area[i] \in Areas
    BY DEF JudgeItem, Judged, TypeOK
  <2>2. status \in {"inside", "outside"} => area[i].id \in Ids
    BY <2>1 DEF Areas
  <2>3. report' = Reported(i, status)
    BY DEF JudgeItem
  <2>4. QED
    BY <2>2, <2>3 DEF Reported, Report
<1>5. /\ CountOver(i) \/ ResetCount(i) \/ cal' = cal
      /\ CountOver(i) \/ Cancel(i) \/ CancelOutside(i) \/ UNCHANGED <<alarm, owner>>
  <2>1. CircleOverspeed(i, status) \/ RectOverspeed(i, status)
    BY DEF JudgeItem, PolyOverspeed
  <2>2. QED
    BY <2>1 DEF CircleOverspeed, RectOverspeed, SlowInCircle, OutOfArea
<1>6. cal' \in [Item -> 0 .. Byte - 1]
  BY <1>5, CalType
<1>7. alarm' \in BOOLEAN /\ owner' \in [Item -> BOOLEAN]
  <2>1. CASE CountOver(i)
    BY <2>1, CountType
  <2>2. CASE Cancel(i) \/ CancelOutside(i)
    BY <2>2, CancelType
  <2>3. CASE UNCHANGED <<alarm, owner>>
    BY <2>3 DEF TypeOK
  <2>4. QED
    BY <1>5, <2>1, <2>2, <2>3
<1>8. QED
  BY <1>1, <1>2, <1>3, <1>4, <1>6, <1>7 DEF TypeOK

LEMMA TypeStep == TypeOK /\ [Next]_vars => TypeOK'
<1> SUFFICES ASSUME TypeOK, [Next]_vars PROVE TypeOK'
  OBVIOUS
<1>1. CASE UNCHANGED vars
  BY <1>1 DEF vars, environment, overspeed, TypeOK
<1>2. ASSUME NEW v \in Speeds, Drive(v) PROVE TypeOK'
  BY <1>2 DEF Drive, overspeed, TypeOK
<1>3. ASSUME NEW i \in Item, NEW a \in Areas \cup {NoArea}, ChangeArea(i, a) PROVE TypeOK'
  BY <1>3 DEF ChangeArea, overspeed, TypeOK
<1>4. ASSUME NEW b \in Masks, SetMask(b) PROVE TypeOK'
  BY <1>4 DEF SetMask, overspeed, TypeOK
<1>5. CASE Restart
  <2>1. {alarm', noArea'} \subseteq BOOLEAN /\ owner' \in [Item -> BOOLEAN]
    BY <1>5, FreshType DEF Restart
  <2>2. times' \in 0 .. SpeedDuration
    BY <1>5 DEF Restart
  <2>3. cal' \in [Item -> 0 .. Byte - 1] /\ last' \in [Item -> Status] /\ report' \in Report
    BY <1>5, FreshType DEF Restart
  <2>4. UNCHANGED <<area, speed, masked, next>>
    BY <1>5 DEF Restart, environment
  <2>5. QED
    BY <2>1, <2>2, <2>3, <2>4 DEF TypeOK
<1>6. CASE oa_app_gps
  BY <1>6, GpsType
<1>7. CASE oa_app_area
  BY <1>7 DEF oa_app_area, environment, overspeed, TypeOK
<1>8. CASE Judge
  BY <1>8, JudgeType DEF Judge
<1>9. QED
  BY <1>1, <1>2, <1>3, <1>4, <1>5, <1>6, <1>7, <1>8 DEF Next

(* Whatever the areas, the limits and the mask: the counts of seconds stay   *)
(* within their byte and their durations.                                    *)
THEOREM AlarmTypes == Spec => []TypeOK
BY TypeInit, TypeStep, PTL DEF Spec

-----------------------------------------------------------------------------
(* While the alarm is not masked, it never has two owners and no owner when   *)
(* it is RESET: whatever the areas are, however many there are, wherever the  *)
(* vehicle goes.                                                              *)
THEOREM AlarmHasOneOwner ==
  ASSUME Masks = {FALSE}
  PROVE  Spec => []AlarmInv
<1>1. TypeOK /\ IInv => AlarmInv
  BY DEF IInv, AlarmInv
<1>2. IInv /\ [Next]_vars => IInv'
  BY InvStep
<1>3. QED
  BY <1>1, <1>2, InvInit, AlarmTypes, PTL DEF Spec

-----------------------------------------------------------------------------
(* What the counts of seconds say of the rounds that were *)

(* The histories count on beyond every duration, and no duration is the      *)
(* largest that a byte holds.                                                *)
CountsFit == Long \in Nat /\ \A t \in Times : t < Long /\ t + 1 < Byte

(* An area has counted every round in which the vehicle was too fast in it    *)
(* and there was no alarm; but for a rectangle it has counted no other.      *)
Counted(i) ==
  /\ cal[i] + 1 < Byte \/ cal[i] = 0
  /\ silent[i] <= cal[i]
  /\ Kind[i] # "rect" => cal[i] <= streak[i]

HInv ==
  /\ TypeOK
  /\ streak \in [Item -> Nat] /\ silent \in [Item -> Nat]
  /\ \A i \in Item : Counted(i)

LEMMA HistoryInit == MCInit => HInv
<1> SUFFICES ASSUME MCInit PROVE HInv
  OBVIOUS
<1>1. TypeOK
  BY TypeInit DEF MCInit
<1>2. streak \in [Item -> Nat] /\ silent \in [Item -> Nat]
  BY DEF MCInit, None
<1>3. \A i \in Item : cal[i] = 0 /\ silent[i] = 0 /\ streak[i] = 0
  BY DEF MCInit, Init, None
<1>4. \A i \in Item : Counted(i)
  BY <1>3 DEF Counted
<1> QED
  BY <1>1, <1>2, <1>4 DEF HInv

(* What a judgement does to the count of its item. *)
FoundFast(i) ==
  /\ TooFast(i) /\ area[i] # NoArea
  /\ \/ /\ cal[i] + 1 > area[i].time /\ cal'[i] = 0
        /\ alarm' = (alarm \/ ~masked)
     \/ /\ cal[i] + 1 <= area[i].time /\ cal'[i] = cal[i] + 1
        /\ alarm' = alarm

FoundSlow(i) ==
  /\ ~ TooFast(i) /\ (alarm' => alarm)
  /\ cal'[i] = 0 \/ (Kind[i] = "rect" /\ cal'[i] = cal[i])

LEMMA ItemCounts ==
  ASSUME CountsFit, HInv, NEW i \in Item, NEW status \in Status, JudgeItem(i, status)
  PROVE  /\ FoundFast(i) \/ FoundSlow(i)
         /\ \A j \in Item \ {i} : cal'[j] = cal[j]
<1>1. /\ cal \in [Item -> 0 .. Byte - 1] /\ last \in [Item -> Status]
      /\ area \in [Item -> Areas \cup {NoArea}] /\ alarm \in BOOLEAN /\ masked \in BOOLEAN
  BY DEF HInv, TypeOK
<1>2. /\ status \in Judged(i) /\ last'[i] = status
      /\ \/ CircleOverspeed(i, status)
         \/ Kind[i] = "rect" /\ RectOverspeed(i, status)
  <2>1. last' = [last EXCEPT ![i] = status] /\ status \in Judged(i)
    BY DEF JudgeItem
  <2>2. last'[i] = status
    BY <1>1, <2>1
  <2>3. Kind[i] \in {"circle", "rect", "poly"}
    BY AreaAlarmAssumption
  <2>4. \/ CircleOverspeed(i, status)
        \/ Kind[i] = "rect" /\ RectOverspeed(i, status)
    BY <2>3 DEF JudgeItem, PolyOverspeed
  <2> QED
    BY <2>1, <2>2, <2>4
<1>3. TooFast(i) <=> status = "inside" /\ Over(i)
  BY <1>2 DEF TooFast
<1>4. ASSUME ResetCount(i)
      PROVE  cal'[i] = 0 /\ \A j \in Item \ {i} : cal'[j] = cal[j]
  BY <1>1, <1>4 DEF ResetCount
<1>5. CASE status = "inside" /\ Over(i) /\ CountOver(i)
  <2>1. area[i] \in Areas /\ area[i] # NoArea
    BY <1>1, <1>2, <1>5 DEF Judged
  <2> DEFINE t == area[i].time
             c == cal[i]
             n == (c + 1) % Byte
  <2>2. t \in Times
    BY <2>1 DEF Areas
  <2>a. t \in Nat /\ t + 1 < Byte
    <3> HIDE DEF t
    <3>1. \A x \in Times : x \in Nat
      OBVIOUS
    <3> QED
      BY <2>2, <3>1 DEF CountsFit
  <2>b. c \in Nat
    BY <1>1
  <2>3. n = c + 1
    <3>1. c + 1 < Byte \/ c = 0
      BY DEF HInv, Counted
    <3>2. Byte \in Nat
      OBVIOUS
    <3> HIDE DEF t, c
    <3> QED
      BY <2>a, <2>b, <3>1, <3>2
  <2>4. CASE n > t
    <3>1. ResetCount(i) /\ SetAlarm
      BY <1>5, <2>4 DEF CountOver
    <3>2. cal[i] + 1 > area[i].time
      BY <2>3, <2>4
    <3>3. alarm' = (alarm \/ ~masked)
      BY <3>1 DEF SetAlarm
    <3>4. TooFast(i)
      BY <1>3, <1>5
    <3>5. FoundFast(i)
      BY <1>4, <2>1, <3>1, <3>2, <3>3, <3>4, Zenon DEF FoundFast
    <3> QED
      BY <1>4, <3>1, <3>5
  <2>5. CASE ~ (n > t)
    <3>1. cal' = [cal EXCEPT ![i] = n] /\ alarm' = alarm
      BY <1>5, <2>5, Zenon DEF CountOver
    <3>2. cal'[i] = cal[i] + 1 /\ \A j \in Item \ {i} : cal'[j] = cal[j]
      BY <1>1, <2>3, <3>1
    <3>3. cal[i] + 1 <= area[i].time
      <4> HIDE DEF t, c
      <4>1. c + 1 <= t
        BY <2>a, <2>b, <2>3, <2>5
      <4> QED
        BY <4>1 DEF t, c
    <3>4. TooFast(i)
      BY <1>3, <1>5
    <3>5. FoundFast(i)
      BY <2>1, <3>1, <3>2, <3>3, <3>4, Zenon DEF FoundFast
    <3> QED
      BY <3>2, <3>5
  <2> QED
    BY <2>4, <2>5
<1>6. CASE status = "inside" /\ ~ Over(i) /\ SlowInCircle(i)
  <2>1. ResetCount(i) /\ (alarm' => alarm)
    BY <1>6 DEF SlowInCircle, Cancel
  <2> QED
    BY <1>3, <1>4, <1>6, <2>1 DEF FoundSlow
<1>7. CASE OutOfArea(i, status)
  <2>1. ResetCount(i) /\ (alarm' => alarm) /\ status # "inside"
    BY <1>7 DEF OutOfArea, Cancel, CancelOutside
  <2> QED
    BY <1>3, <1>4, <2>1 DEF FoundSlow
<1>8. CASE Kind[i] = "rect" /\ status = "inside" /\ ~ Over(i) /\ UNCHANGED <<cal, alarm, owner>>
  BY <1>3, <1>8 DEF FoundSlow
<1> QED
  BY <1>2, <1>5, <1>6, <1>7, <1>8 DEF CircleOverspeed, RectOverspeed

(* A judgement keeps the counts, and raises the alarm neither early nor late. *)
Kept(i) ==
  /\ Kind[i] # "rect" /\ ~alarm /\ alarm' => streak'[i] > area[i].time
  /\ area[i] # NoArea => silent'[i] <= area[i].time

LEMMA JudgeRemembers ==
  ASSUME CountsFit, HInv, NEW i \in Item, NEW status \in Status, JudgeItem(i, status), Remember(i)
  PROVE  /\ streak' \in [Item -> Nat] /\ silent' \in [Item -> Nat]
         /\ \A j \in Item : Counted(j)'
         /\ Kept(i)
<1> DEFINE T == TooFast(i)
           q == streak[i]
           s == silent[i]
           c == cal[i]
           t == area[i].time
<1>1. /\ streak \in [Item -> Nat] /\ silent \in [Item -> Nat] /\ cal \in [Item -> 0 .. Byte - 1]
      /\ area[i] \in Areas \cup {NoArea} /\ Long \in Nat
      /\ q \in Nat /\ s \in Nat /\ c \in Nat
  BY DEF HInv, TypeOK, CountsFit
<1>2. /\ streak' = [streak EXCEPT ![i] = IF T THEN Count(q) ELSE 0]
      /\ silent' = [silent EXCEPT ![i] = IF T /\ ~masked /\ ~alarm' THEN Count(s) ELSE 0]
  BY Zenon DEF Remember
<1>3. /\ s <= c /\ (Kind[i] # "rect" => c <= q) /\ (c + 1 < Byte \/ c = 0)
  BY DEF HInv, Counted
<1>4. FoundFast(i) \/ FoundSlow(i)
  BY ItemCounts
<1>5. \A j \in Item \ {i} : cal'[j] = cal[j]
  BY ItemCounts
<1>6. /\ Count(q) \in Nat /\ Count(s) \in Nat /\ Count(s) <= s + 1
      /\ Count(q) = q + 1 \/ Count(q) >= Long
  BY <1>1 DEF Count
<1>7. /\ streak' \in [Item -> Nat] /\ silent' \in [Item -> Nat]
      /\ streak'[i] = IF T THEN Count(q) ELSE 0
      /\ silent'[i] = IF T /\ ~masked /\ ~alarm' THEN Count(s) ELSE 0
      /\ \A j \in Item \ {i} : streak'[j] = streak[j] /\ silent'[j] = silent[j]
  <2> DEFINE a == IF T THEN Count(q) ELSE 0
             b == IF T /\ ~masked /\ ~alarm' THEN Count(s) ELSE 0
  <2>1. a \in Nat /\ b \in Nat
    BY <1>6
  <2>2. streak' = [streak EXCEPT ![i] = a] /\ silent' = [silent EXCEPT ![i] = b]
    BY <1>2
  <2> HIDE DEF a, b
  <2>3. /\ streak' \in [Item -> Nat] /\ silent' \in [Item -> Nat]
        /\ streak'[i] = a /\ silent'[i] = b
        /\ \A j \in Item \ {i} : streak'[j] = streak[j] /\ silent'[j] = silent[j]
    BY <1>1, <2>1, <2>2
  <2> QED
    BY <2>3 DEF a, b
<1>8. ASSUME NEW j \in Item \ {i}
      PROVE  Counted(j)'
  <2>1. Counted(j)
    BY DEF HInv
  <2>2. cal'[j] = cal[j] /\ streak'[j] = streak[j] /\ silent'[j] = silent[j]
    BY <1>5, <1>7
  <2> QED
    BY <2>1, <2>2 DEF Counted
<1>9. area[i] # NoArea => t \in Nat /\ t < Long /\ t + 1 < Byte
  <2>1. area[i] # NoArea => t \in Times
    BY <1>1 DEF Areas
  <2>2. \A x \in Times : x \in Nat /\ x < Long /\ x + 1 < Byte
    BY DEF CountsFit
  <2> QED
    BY <2>1, <2>2
<1> DEFINE C == cal'[i]
           S == silent'[i]
           Q == streak'[i]
           rect == Kind[i] = "rect"
<1>10. CASE FoundFast(i)
  <2>1. T /\ area[i] # NoArea /\ t \in Nat /\ t < Long /\ t + 1 < Byte
    BY <1>9, <1>10, Zenon DEF FoundFast
  <2>2. Q = Count(q) /\ S = IF ~masked /\ ~alarm' THEN Count(s) ELSE 0
    BY <1>7, <2>1
  <2>3. CASE c + 1 > t /\ C = 0 /\ alarm' = (alarm \/ ~masked)
    <3>1. S = 0
      BY <2>2, <2>3, Zenon
    <3> HIDE DEF c, t, C, S, Q, q, s
    <3>2. ~rect => Q > t
      BY <1>1, <1>3, <1>6, <2>1, <2>2, <2>3
    <3>3. (C + 1 < Byte \/ C = 0) /\ S <= C /\ (~rect => C <= Q) /\ S <= t
      BY <1>6, <2>1, <2>2, <2>3, <3>1
    <3>4. Counted(i)'
      BY <3>3, Zenon DEF Counted, C, S, Q
    <3> QED
      BY <1>7, <1>8, <3>2, <3>3, <3>4 DEF Kept, S, Q, t
  <2>4. CASE c + 1 <= t /\ C = c + 1 /\ alarm' = alarm
    <3>1. S = 0 \/ S = Count(s)
      BY <2>2
    <3> HIDE DEF c, t, C, S, Q, q, s
    <3>2. (C + 1 < Byte \/ C = 0) /\ S <= C /\ (~rect => C <= Q) /\ S <= t
      BY <1>1, <1>3, <1>6, <2>1, <2>2, <2>4, <3>1
    <3>3. Counted(i)'
      BY <3>2, Zenon DEF Counted, C, S, Q
    <3> QED
      BY <1>7, <1>8, <2>4, <3>2, <3>3 DEF Kept, S, Q, t
  <2> QED
    BY <1>10, <2>3, <2>4 DEF FoundFast
<1>11. CASE FoundSlow(i)
  <2>1. ~T /\ (alarm' => alarm) /\ (C = 0 \/ (rect /\ C = c))
    BY <1>11 DEF FoundSlow
  <2>2. S = 0 /\ Q = 0
    BY <1>7, <2>1
  <2>3. Kept(i)
    BY <1>9, <2>1, <2>2 DEF Kept
  <2> HIDE DEF c, C, S, Q
  <2>4. (C + 1 < Byte \/ C = 0) /\ S <= C /\ (~rect => C <= Q)
    BY <1>1, <1>3, <2>1, <2>2
  <2>5. Counted(i)'
    BY <2>4, Zenon DEF Counted, C, S, Q
  <2> QED
    BY <1>7, <1>8, <2>3, <2>5
<1> QED
  BY <1>4, <1>10, <1>11

LEMMA HistoryStep ==
  ASSUME CountsFit
  PROVE  HInv /\ [MCNext]_<<vars, history>> =>
           /\ HInv'
           /\ [\A i \in Item : next = i => Kept(i)]_<<vars, history>>
<1> SUFFICES ASSUME HInv, [MCNext]_<<vars, history>>
             PROVE  /\ HInv'
                    /\ [\A i \in Item : next = i => Kept(i)]_<<vars, history>>
  OBVIOUS
<1>1. CASE UNCHANGED <<vars, history>>
  <2>1. TypeOK'
    BY <1>1, TypeStep DEF HInv
  <2> QED
    BY <1>1, <2>1 DEF HInv, Counted, history, vars, overspeed, environment
<1>2. CASE MCNext
  <2>1. TypeOK'
    <3>1. Next
      BY <1>2 DEF MCNext, Next, Judge
    <3> QED
      BY <3>1, TypeStep DEF HInv
  <2>2. ASSUME Between, UNCHANGED cal, streak' = streak,
               silent' \in [Item -> Nat], \A i \in Item : silent'[i] = silent[i] \/ silent'[i] = 0
        PROVE  HInv' /\ \A i \in Item : next = i => Kept(i)
    <3>1. \A i \in Item : next # i
      BY <2>2 DEF Between, Item
    <3>2. \A i \in Item : Counted(i)'
      <4> SUFFICES ASSUME NEW i \in Item
                   PROVE  Counted(i)'
        OBVIOUS
      <4>1. Counted(i) /\ cal[i] \in 0 .. Byte - 1
        BY DEF HInv, TypeOK
      <4> QED
        BY <2>2, <4>1 DEF Counted
    <3> QED
      BY <2>1, <2>2, <3>1, <3>2 DEF HInv
  <2>3. CASE /\ \/ \E v \in Speeds : Drive(v)
                \/ \E b \in Masks : SetMask(b)
                \/ oa_app_gps
                \/ oa_app_area
             /\ UNCHANGED history
    <3>1. Between /\ UNCHANGED cal
      BY <2>3 DEF Drive, SetMask, oa_app_gps, oa_app_area, overspeed
    <3>2. streak' = streak /\ silent' = silent
      BY <2>3 DEF history
    <3>3. silent' \in [Item -> Nat]
      BY <3>2 DEF HInv
    <3> QED
      BY <2>2, <3>1, <3>2, <3>3
  <2>4. ASSUME NEW i \in Item, NEW a \in Areas \cup {NoArea}, ChangeArea(i, a),
               silent' = [silent EXCEPT ![i] = 0], UNCHANGED streak
        PROVE  HInv' /\ \A j \in Item : next = j => Kept(j)
    <3>1. Between /\ UNCHANGED cal
      BY <2>4 DEF ChangeArea, overspeed
    <3>2. silent' \in [Item -> Nat] /\ \A j \in Item : silent'[j] = silent[j] \/ silent'[j] = 0
      BY <2>4 DEF HInv
    <3> QED
      BY <2>2, <2>4, <3>1, <3>2
  <2>5. CASE Restart /\ streak' = None /\ silent' = None
    <3>1. Between /\ \A i \in Item : cal'[i] = 0
      BY <2>5 DEF Restart
    <3>2. /\ streak' \in [Item -> Nat] /\ silent' \in [Item -> Nat]
          /\ \A i \in Item : streak'[i] = 0 /\ silent'[i] = 0
      BY <2>5 DEF None
    <3>3. \A i \in Item : Counted(i)'
      BY <3>1, <3>2 DEF Counted
    <3>4. \A i \in Item : next # i
      BY <3>1 DEF Between, Item
    <3> QED
      BY <2>1, <3>2, <3>3, <3>4 DEF HInv
  <2>6. ASSUME NEW i \in Item, NEW status \in Status, JudgeItem(i, status), Remember(i)
        PROVE  HInv' /\ \A j \in Item : next = j => Kept(j)
    <3>1. /\ streak' \in [Item -> Nat] /\ silent' \in [Item -> Nat]
          /\ \A j \in Item : Counted(j)'
          /\ Kept(i)
      BY <2>6, JudgeRemembers
    <3>2. next = i
      BY <2>6 DEF JudgeItem
    <3> QED
      BY <2>1, <3>1, <3>2 DEF HInv
  <2> QED
    BY <1>2, <2>3, <2>4, <2>5, <2>6 DEF MCNext
<1> QED
  BY <1>1, <1>2

(* However many areas there are, whatever the durations, the mask and the     *)
(* way the vehicle goes: a circle or a polygon raises the alarm only after    *)
(* more rounds on end than its duration, and none lets more pass than that   *)
(* (oa_area.c:1335, 1417, 1496).                                             *)
THEOREM AlarmKeepsDuration ==
  ASSUME CountsFit
  PROVE  MCSpec => RaisedAfterDuration
<1>1. HInv /\ [MCNext]_<<vars, history>> => HInv'
  BY HistoryStep
<1>2. HInv /\ [MCNext]_<<vars, history>> =>
        [\A i \in Item : next = i =>
           /\ Kind[i] # "rect" /\ ~alarm /\ alarm' => streak'[i] > area[i].time
           /\ area[i] # NoArea => silent'[i] <= area[i].time]_<<vars, history>>
  BY HistoryStep DEF Kept
<1> QED
  BY <1>1, <1>2, HistoryInit, PTL DEF MCSpec, RaisedAfterDuration
=============================================================================
