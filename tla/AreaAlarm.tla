------------------------------ MODULE AreaAlarm ------------------------------
(***************************************************************************)
(* The overspeed alarm and the enter and leave reports of the areas:       *)
(* oa_app_area (src/src/oa_area.c), which judges every item of the three    *)
(* files each second, with the overspeed part of oa_app_gps               *)
(* (src/src/oa_gps.c), which shares the alarm bit.  Both are timers of one  *)
(* task.  Where the vehicle is, and whether the time of an area applies, is *)
(* chosen at each judgement; what the files hold changes as AreaFile says,  *)
(* that is, any item may become any area or none between two rounds.        *)
(***************************************************************************)
EXTENDS Integers

CONSTANTS
  N,            \* the number of items of the files together
  Kind,         \* the file an item is in
  Ids,
  Times,        \* the durations (continue_time) the platform uses
  NoArea,       \* an invalid item
  Speeds,
  MaxSpeed,     \* dev_now_params.max_speed
  SpeedDuration,\* dev_now_params.speed_duration
  SpeedCap,     \* MAX_SPEED
  Byte,         \* the number of values of a u8
  Masks         \* the values of the alarm's bit in dev_now_params.alarm_mask

Item == 1 .. N

(* An area without a limit is one whose limit no speed exceeds. *)
Areas == [id : Ids, limit : Speeds, time : Times]

ASSUME AreaAlarmAssumption ==
  /\ N \in Nat
  /\ Kind \in [Item -> {"circle", "rect", "poly"}]
  /\ Speeds \subseteq Nat /\ 0 \in Speeds
  /\ MaxSpeed \in Nat /\ SpeedCap \in Nat /\ SpeedDuration \in Nat
  /\ Byte \in Nat \ {0} /\ Times \subseteq 0 .. Byte - 1
  /\ NoArea \notin Areas
  /\ Masks \subseteq BOOLEAN /\ FALSE \in Masks

VARIABLES
  area,       \* what each item holds
  speed,      \* the vehicle's
  masked,     \* the bit in alarm_mask
  alarm,      \* ALARM_OVER_SPEED is SET
  noArea,     \* overspeed_no_area: oa_app_gps raised it
  owner,      \* os_circle_var, os_rect_var, os_poly_var: the item raised it
  times,      \* os_times of oa_app_gps
  cal,        \* os_cal_*: the seconds an item has counted
  last,       \* last_status_*
  report,     \* the enter or leave report of the last judgement, or <<>>
  next        \* the item oa_app_area judges next, 0 between two rounds

environment == <<area, speed, masked>>
overspeed == <<alarm, noArea, owner, times, cal>>
vars == <<environment, overspeed, last, report, next>>

Status == {"err", "inside", "outside"}
Report == {<<>>} \cup ({"enter", "leave"} \X Ids)

TypeOK ==
  /\ area \in [Item -> Areas \cup {NoArea}]
  /\ speed \in Speeds
  /\ masked \in BOOLEAN
  /\ alarm \in BOOLEAN
  /\ noArea \in BOOLEAN
  /\ owner \in [Item -> BOOLEAN]
  /\ times \in 0 .. SpeedDuration
  /\ cal \in [Item -> 0 .. Byte - 1]
  /\ last \in [Item -> Status]
  /\ report \in Report
  /\ next \in 0 .. N

Init ==
  /\ area = [i \in Item |-> NoArea]
  /\ speed = 0
  /\ masked = FALSE
  /\ alarm = FALSE /\ noArea = FALSE /\ owner = [i \in Item |-> FALSE]
  /\ times = 0 /\ cal = [i \in Item |-> 0]
  /\ last = [i \in Item |-> "err"] /\ report = <<>>
  /\ next = 0

Between == next = 0

Drive(v) ==
  /\ Between
  /\ speed' = v
  /\ UNCHANGED <<area, masked, overspeed, last, report, next>>

(* A message of the platform, or an expiry: see AreaFile. *)
ChangeArea(i, a) ==
  /\ Between
  /\ area' = [area EXCEPT ![i] = a]
  /\ UNCHANGED <<speed, masked, overspeed, last, report, next>>

SetMask(b) ==
  /\ Between
  /\ masked' = b
  /\ UNCHANGED <<area, speed, overspeed, last, report, next>>

(* A restart in the middle of a round leaves the same.                      *)
Restart ==
  /\ Between
  /\ alarm' = FALSE /\ noArea' = FALSE /\ owner' = [i \in Item |-> FALSE]
  /\ times' = 0 /\ cal' = [i \in Item |-> 0]
  /\ last' = [i \in Item |-> "err"] /\ report' = <<>>
  /\ UNCHANGED <<environment, next>>

-----------------------------------------------------------------------------
(* oa_app_gps *)

(* A limit above the cap lowers the speed, not the limit. *)
GpsSpeed == IF MaxSpeed > SpeedCap \/ speed > SpeedCap THEN SpeedCap ELSE speed

(* handle_alarm_status leaves a masked alarm alone; what its callers note    *)
(* does not depend on that.                                                  *)
SetAlarm == alarm' = (alarm \/ ~masked)

GpsCounts ==
  /\ GpsSpeed > MaxSpeed
  /\ IF times + 1 > SpeedDuration
     THEN /\ times' = 0
          /\ SetAlarm
          /\ noArea' = (noArea \/ ~alarm)
     ELSE /\ times' = times + 1
          /\ UNCHANGED <<alarm, noArea>>

GpsCancels ==
  /\ GpsSpeed <= MaxSpeed
  /\ times' = 0
  /\ alarm' = (alarm /\ ~noArea)
  /\ noArea' = (noArea /\ ~alarm)

oa_app_gps ==
  /\ Between
  /\ GpsCounts \/ GpsCancels
  /\ UNCHANGED <<environment, owner, cal, last, report, next>>

-----------------------------------------------------------------------------
(* oa_app_area *)

(* What *_area_inout_judge may find.                                         *)
Judged(i) == IF area[i] = NoArea THEN {"err"} ELSE Status

Over(i) == speed > area[i].limit

Reported(i, status) ==
  CASE status = "inside" /\ last[i] = "outside" -> <<"enter", area[i].id>>
    [] status = "outside" /\ last[i] = "inside" -> <<"leave", area[i].id>>
    [] OTHER -> <<>>

ResetCount(i) == cal' = [cal EXCEPT ![i] = 0]

(* Mutant: an area takes the alarm as its own although it is SET already. *)
CountOverClaims(i) ==
  LET count == (cal[i] + 1) % Byte
  IN  IF count > area[i].time
      THEN /\ ResetCount(i)
           /\ SetAlarm
           /\ owner' = [owner EXCEPT ![i] = TRUE]
      ELSE /\ cal' = [cal EXCEPT ![i] = count]
           /\ UNCHANGED <<alarm, owner>>

CountOver(i) ==
  LET count == (cal[i] + 1) % Byte
  IN  IF count > area[i].time
      THEN /\ ResetCount(i)
           /\ SetAlarm
           /\ owner' = [owner EXCEPT ![i] = @ \/ ~alarm]
      ELSE /\ cal' = [cal EXCEPT ![i] = count]
           /\ UNCHANGED <<alarm, owner>>

(* Only the item whose bit is set takes the alarm back.                      *)
Cancel(i) ==
  /\ alarm' = (alarm /\ ~owner[i])
  /\ owner' = [owner EXCEPT ![i] = @ /\ ~alarm]

(* Outside, a vehicle too fast for oa_app_gps leaves the alarm to it.        *)
CancelOutside(i) ==
  /\ alarm' = (alarm /\ ~(owner[i] /\ speed <= MaxSpeed))
  /\ owner' = [owner EXCEPT ![i] = @ /\ ~alarm]

(* Mutant: an area that is deleted or whose time is over keeps its alarm. *)
OutOfAreaOnlyLeft(i, status) ==
  \/ status = "err" /\ ResetCount(i) /\ UNCHANGED <<alarm, owner>>
  \/ status = "outside" /\ ResetCount(i) /\ CancelOutside(i)

OutOfArea(i, status) ==
  \/ status = "err" /\ ResetCount(i) /\ Cancel(i)
  \/ status = "outside" /\ ResetCount(i) /\ CancelOutside(i)

(* Mutant: the seconds of an earlier time are counted again. *)
SlowInCircleCounts(i) == UNCHANGED cal /\ Cancel(i)

SlowInCircle(i) == ResetCount(i) /\ Cancel(i)

CircleOverspeed(i, status) ==
  \/ status = "inside" /\ Over(i) /\ CountOver(i)
  \/ status = "inside" /\ ~Over(i) /\ SlowInCircle(i)
  \/ OutOfArea(i, status)

(* The branch for a vehicle that is slow again stands under a condition that *)
(* it is fast: in a rectangle nothing happens then.                          *)
RectOverspeed(i, status) ==
  \/ status = "inside" /\ Over(i) /\ CountOver(i)
  \/ status = "inside" /\ ~Over(i) /\ UNCHANGED <<cal, alarm, owner>>
  \/ OutOfArea(i, status)

PolyOverspeed(i, status) == CircleOverspeed(i, status)

(* The round begins when the position is fixed and the first 15 s are over.  *)
oa_app_area ==
  /\ Between
  /\ N > 0
  /\ next' = 1
  /\ UNCHANGED <<environment, overspeed, last, report>>

(* The reports of one item touch nothing the alarm of another depends on, so *)
(* the two loops over the items of a kind are one here.                      *)
JudgeItem(i, status) ==
  /\ next = i
  /\ status \in Judged(i)
  /\ CASE Kind[i] = "circle" -> CircleOverspeed(i, status)
       [] Kind[i] = "rect" -> RectOverspeed(i, status)
       [] Kind[i] = "poly" -> PolyOverspeed(i, status)
  /\ report' = Reported(i, status)
  /\ last' = [last EXCEPT ![i] = status]
  /\ next' = IF i = N THEN 0 ELSE i + 1
  /\ UNCHANGED <<environment, noArea, times>>

Judge == \E i \in Item, status \in Status : JudgeItem(i, status)

Next ==
  \/ \E v \in Speeds : Drive(v)
  \/ \E i \in Item, a \in Areas \cup {NoArea} : ChangeArea(i, a)
  \/ \E b \in Masks : SetMask(b)
  \/ Restart
  \/ oa_app_gps
  \/ oa_app_area
  \/ Judge

Spec == Init /\ [][Next]_vars

(* Both timers start themselves again, the task gets to both, and the        *)
(* position is fixed again and again.                                        *)
Fairness == SF_vars(oa_app_gps) /\ SF_vars(oa_app_area) /\ WF_vars(Judge)

FairSpec == Spec /\ Fairness

-----------------------------------------------------------------------------
(* Whoever notes that it raised the alarm will take it back, so the alarm is  *)
(* SET while anyone notes it, and never two do: neither oa_app_gps and an     *)
(* area, nor two areas, of one kind or of two.                                *)
OneOwner ==
  /\ noArea => alarm
  /\ \A i \in Item :
       owner[i] => alarm /\ ~noArea /\ \A j \in Item \ {i} : ~owner[j]

(* The counts of seconds stay in their bytes and below their durations, and  *)
(* the alarm has one owner.                                                  *)
AlarmInv == TypeOK /\ OneOwner

(* The vehicle keeps to every limit, wherever it is. *)
Calm ==
  /\ speed <= MaxSpeed
  /\ \A i \in Item : area[i] # NoArea => ~Over(i)

(* Once the vehicle keeps to every limit, whoever raised the alarm lets go.   *)
OwnersLetGo == <>[]Calm => <>[](~noArea /\ \A i \in Item : ~owner[i])

(* What oa_jt808.h:110 says of the alarm, that it is kept until its condition *)
(* ends: once the vehicle keeps to every limit the alarm ends.                *)
AlarmEnds == <>[]Calm => <>[]~alarm
=============================================================================
