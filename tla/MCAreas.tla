------------------------------- MODULE MCAreas -------------------------------
(***************************************************************************)
(* The alarms of the areas for TLC: AreaAlarm with a circle and a polygon,   *)
(* and apart from it MCAreaHistory, a circle and a rectangle of which the    *)
(* durations are asked, with an alarm mask that changes.                     *)
(***************************************************************************)
EXTENDS MCAreaAlarm

CONSTANT Long

VARIABLES
  part,    \* which of the two this behaviour is about
  (* The variables of History. *)
  harea, hspeed, hmasked, halarm, hnoArea, howner, htimes, hcal, hlast, hreport, hnext,
  streak, silent

History == INSTANCE MCAreaHistory WITH
  Kind <- CircleRect, Masks <- BOOLEAN,
  area <- harea, speed <- hspeed, masked <- hmasked, alarm <- halarm, noArea <- hnoArea,
  owner <- howner, times <- htimes, cal <- hcal, last <- hlast, report <- hreport,
  next <- hnext

rounds == <<harea, hspeed, hmasked, halarm, hnoArea, howner, htimes, hcal, hlast, hreport,
            hnext, streak, silent>>

AInit == part \in {"owners", "durations"} /\ Init /\ History!MCInit

ANext ==
  \/ part = "owners" /\ Next /\ UNCHANGED <<part, rounds>>
  \/ part = "durations" /\ History!MCNext /\ UNCHANGED <<part, vars>>

avars == <<part, vars, rounds>>

(* The fairness of AreaAlarm where it is at work. *)
Owners(A) == part = "owners" /\ A /\ UNCHANGED <<part, rounds>>

ASpec ==
  /\ AInit /\ [][ANext]_avars
  /\ SF_avars(Owners(oa_app_gps)) /\ SF_avars(Owners(oa_app_area)) /\ WF_avars(Owners(Judge))

-----------------------------------------------------------------------------
(* What is to hold of the durations, as MCAreaHistory states it. *)
RaisedAfterDuration == History!RaisedAfterDuration
=============================================================================
