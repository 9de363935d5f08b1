---------------------------- MODULE DriveHistory ----------------------------
(***************************************************************************)
(* DriveAlarms beside a clock that only watches the vehicle: how long it    *)
(* was driven, stood, was too fast and was silent.  The properties compare  *)
(* the alarms, which the code derives from counters that it resets in many  *)
(* places, with this clock.                                                 *)
(***************************************************************************)
EXTENDS DriveAlarms

VARIABLES
    clock,    \* seconds of what the vehicle did
    watched,  \* those of them since the mask was last set
    silent,   \* runs that know whether there is a position, since the last report
    exceeded  \* whether the vehicle was too fast for too long since a report told of that

hvars == <<vars, clock, watched, silent, exceeded>>

\* The seconds of driving since a rest of more than RestTime, and since midnight, and those on end of
\* standing and of being too fast.
Nothing == [driven |-> 0, today |-> 0, stood |-> 0, fast |-> 0]

\* The clock stops where no property looks further.
Tick(n, enough) == IF n <= enough THEN n + 1 ELSE n

After(c, speed, midnight, rest) ==
    [driven |-> IF speed > 0 THEN Tick(c.driven, DriveTime) ELSE IF rest THEN 0 ELSE c.driven,
     today  |-> IF midnight THEN 0 ELSE IF speed > 0 THEN Tick(c.today, DayDriveTime) ELSE c.today,
     stood  |-> IF speed > 0 THEN 0 ELSE Tick(c.stood, RestTime + ParkTime),
     fast   |-> IF speed > MaxSpeed THEN Tick(c.fast, SpeedDuration) ELSE 0]

Told(run) == \E i \in DOMAIN run.reports : run.reports[i].over

Listen == silent' = IF gps'.reports # <<>> THEN 0 ELSE Tick(silent, ReportTime + 3)

Drive(speed, midnight) ==
    /\ Position(speed, midnight)
    /\ LET rest == speed = 0 /\ clock.stood + 1 > RestTime IN
       /\ clock' = After(clock, speed, midnight, rest)
       /\ watched' = After(watched, speed, midnight, rest)
    /\ exceeded' = IF Told(gps') THEN "speed" \in masked /\ clock'.fast > SpeedDuration
                   ELSE exceeded \/ clock'.fast > SpeedDuration
    /\ Listen

Lost ==
    /\ NoPosition
    /\ exceeded' = (exceeded /\ ~Told(gps'))
    /\ Listen
    /\ UNCHANGED <<clock, watched>>

Quiet ==
    /\ NoData \/ OtherData
    /\ exceeded' = (exceeded /\ ~Told(gps'))
    /\ UNCHANGED <<clock, watched, silent>>

Mask(mask) ==
    /\ SetMask(mask)
    /\ watched' = Nothing /\ silent' = 0
    /\ UNCHANGED <<clock, exceeded>>

HInit == Init /\ clock = Nothing /\ watched = Nothing /\ silent = 0 /\ exceeded = FALSE

HNext ==
    \/ \E speed \in Speeds, midnight \in BOOLEAN : Drive(speed, midnight)
    \/ Lost
    \/ Quiet
    \/ \E mask \in Masks : Mask(mask)

HSpec == HInit /\ [][HNext]_hvars

----------------------------------------------------------------------------

Set(alarm) == alarm \in gps'.flags /\ alarm \notin gps.flags
Cleared(alarm) == alarm \in gps.flags /\ alarm \notin gps'.flags

\* The driver is called tired only after more than DriveTime of driving without a rest of more than
\* RestTime, however many shorter rests, lost positions and masked alarms lie between, and from then on
\* until a rest of more than RestTime on end (oa_gps.c:321-349).
TiredIsTrue ==
    [][/\ Set("tired") => clock'.driven > DriveTime
       /\ Cleared("tired") => clock'.stood > RestTime]_hvars

\* An alarm that is not masked comes in time: tired after more than DriveTime of driving, overspeed after
\* more than SpeedDuration, parking after ParkTime of standing, and too long a day after more than
\* DayDriveTime of driving if the byte that counts the day can hold it (oa_gps.c:218-334).  If it cannot,
\* the alarm of the day never comes, however long the day: so it is with the default of 57600 seconds
\* (oa_dev_params.c:78) and u8 day_drive (oa_gps.c:121).
AlarmsInTime ==
    /\ "tired" \notin masked /\ watched.driven > DriveTime => "tired" \in gps.flags
    /\ "speed" \notin masked /\ watched.fast > SpeedDuration => "speed" \in gps.flags
    /\ "parking" \notin masked /\ watched.stood >= ParkTime => "parking" \in gps.flags
    /\ "overtime" \notin masked /\ watched.today > DayDriveTime /\ DayDriveTime < Byte
         => "overtime" \in gps.flags
    /\ DayDriveTime >= Byte => "overtime" \notin gps.flags

\* The parking alarm is on only while the vehicle stands, and the alarm of the day only after that much
\* driving: what is told of a stop or a day is never left over from the last one (oa_gps.c:232-240, 299-319).
AlarmsAreTrue ==
    /\ "parking" \in gps.flags => clock.stood >= ParkTime
    /\ "overtime" \in gps.flags => clock.today >= DayDriveTime

\* What is told of the drive: in time, and true.
DriveInv == TypeOK /\ AlarmsInTime /\ AlarmsAreTrue

\* Reports go on with and without a position: as long as the alarm of the day is not masked, the alarms
\* delay a periodic report by a few runs only (oa_gps.c:366-380, 405-416).
ReportsGoOn == "overtime" \notin masked => silent <= ReportTime + 2

\* A report tells of an overspeed only when the vehicle was too fast for too long since a report last told
\* of it, masked or not, and whichever alarm sends the report; a masked one may follow in the run of such
\* a report (oa_gps.c:266-273, oa_jt808.c:4043-4260).
OverspeedToldOnce == [][Told(gps') => exceeded \/ clock'.fast > SpeedDuration]_hvars
=============================================================================
