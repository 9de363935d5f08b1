----------------------------- MODULE DriveAlarms -----------------------------
(***************************************************************************)
(* The run of oa_app_gps (oa_gps.c) every second: the alarms about the time *)
(* a vehicle is driven, parked or too fast, the alarm about the receiver,   *)
(* and the periodic report.  What the link does with a report is PlatLink;  *)
(* the overspeed alarm of areas is AreaAlarm.                               *)
(***************************************************************************)
EXTENDS Naturals, Sequences

CONSTANTS
    Byte,           \* bound: how many values the u8 day_drive has
    CheckGpsErr,    \* CHECK_GPS_ERR, and the parameters of the device, in runs:
    ReportTime,     \* default_reporttime
    MaxSpeed,       \* max_speed
    SpeedDuration,  \* speed_duration
    DriveTime,      \* continuous_drive_time_threshold
    DayDriveTime,   \* day_add_drive_time_threshold
    RestTime,       \* min_rest_time
    ParkTime,       \* max_park_time
    Texted,         \* alarm_send_sms_mask, if sms_enable
    Speeds,         \* bound: the speeds that the receiver tells
    Masks           \* bound: the sets of alarms that the platform masks

Alarm == {"speed", "tired", "overtime", "parking", "gnss"}

ASSUME DriveAssumption ==
    /\ {Byte, ParkTime} \subseteq Nat \ {0}
    /\ {CheckGpsErr, ReportTime, MaxSpeed, SpeedDuration, DriveTime, DayDriveTime, RestTime} \subseteq Nat
    /\ Texted \subseteq Alarm
    /\ Speeds \subseteq Nat
    /\ Masks \subseteq SUBSET Alarm

VARIABLES
    gps,      \* the static variables of oa_app_gps, and the words it sets
    masked    \* the parameter alarm_mask

vars == <<gps, masked>>

\* The alarms that are set, whether a position is known (STA_GPS_FIXED), whether the next report tells of
\* an overspeed (overspeed_var.kind), whether this run has raised something (alarm_status_flag), and the
\* reports of this run, each with what it tells, and its text messages.
Start ==
    [flags |-> {}, fixed |-> FALSE, over |-> FALSE, alarmed |-> FALSE, reports |-> <<>>, texts |-> {},
     rtc |-> FALSE, model_cnt |-> 0, os_times |-> 0, overspeed_no_area |-> FALSE, park_times |-> 0,
     driver_time |-> 0, relax_time |-> 0, day_drive |-> 0, upload_times |-> 0]

\* Variant: the overspeed is told again in every report.
ReportKeepsAddition(v) ==
    [v EXCEPT !.reports = Append(@, [flags |-> v.flags, over |-> v.over])]

\* report_location_buildbody: what is told of an overspeed is told once.
report_location_buildbody(v) ==
    [v EXCEPT !.reports = Append(@, [flags |-> v.flags, over |-> v.over]), !.over = FALSE]

\* handle_alarm_status, for an alarm: a masked one is not set, and nothing is reported.
handle_alarm_status(v, alarm) ==
    IF alarm \in masked THEN v
    ELSE report_location_buildbody([v EXCEPT !.flags = @ \cup {alarm}])

\* handle_alarm_sms: the message to the number of the centre.
handle_alarm_sms(v, alarm) ==
    IF alarm \in Texted \ masked THEN [v EXCEPT !.texts = @ \cup {alarm}] ELSE v

Raise(v, alarm) == [handle_alarm_sms(handle_alarm_status(v, alarm), alarm) EXCEPT !.alarmed = TRUE]

Cancel(v, alarm) == [v EXCEPT !.flags = @ \ {alarm}]

----------------------------------------------------------------------------
\* The parts of the run, in its order

\* The first position, and then the clock of the device is set by it.
Located(v) ==
    IF v.fixed THEN v
    ELSE [report_location_buildbody([v EXCEPT !.fixed = TRUE]) EXCEPT !.alarmed = TRUE, !.rtc = TRUE]

\* The seconds of a day are counted in a byte.  Only an alarm that is set starts the count anew.
DayDrive(v, speed, midnight) ==
    LET driven == IF speed > 0 THEN (v.day_drive + 1) % Byte ELSE v.day_drive IN
    IF ~v.rtc THEN v
    ELSE IF midnight THEN [Cancel(v, "overtime") EXCEPT !.day_drive = 0]
    ELSE IF driven < DayDriveTime THEN [v EXCEPT !.day_drive = driven]
    ELSE IF "overtime" \in v.flags THEN [v EXCEPT !.day_drive = 0]
    ELSE Raise([v EXCEPT !.day_drive = driven], "overtime")

Overspeed(v, speed) ==
    IF speed > MaxSpeed
    THEN IF v.os_times + 1 <= SpeedDuration THEN [v EXCEPT !.os_times = @ + 1]
         ELSE IF "speed" \in v.flags THEN [v EXCEPT !.os_times = 0]
         ELSE Raise([v EXCEPT !.os_times = 0, !.over = TRUE, !.overspeed_no_area = TRUE], "speed")
    ELSE IF "speed" \in v.flags /\ v.overspeed_no_area
         THEN [Cancel(v, "speed") EXCEPT !.os_times = 0, !.overspeed_no_area = FALSE]
         ELSE [v EXCEPT !.os_times = 0]

Parking(v, speed) ==
    IF speed > 0 THEN [Cancel(v, "parking") EXCEPT !.park_times = 0]
    ELSE IF v.park_times + 1 < ParkTime THEN [v EXCEPT !.park_times = @ + 1]
    ELSE IF "parking" \in v.flags THEN [v EXCEPT !.park_times = 0]
    ELSE Raise([v EXCEPT !.park_times = 0], "parking")

\* Variant: a rest that is too short starts the time of driving anew.
ShortRestCounts(v, speed) ==
    IF speed > 0
    THEN IF v.driver_time + 1 <= DriveTime THEN [v EXCEPT !.driver_time = @ + 1, !.relax_time = 0]
         ELSE IF "tired" \in v.flags THEN [v EXCEPT !.driver_time = 0, !.relax_time = 0]
         ELSE Raise([v EXCEPT !.driver_time = 0, !.relax_time = 0], "tired")
    ELSE IF v.relax_time + 1 <= RestTime THEN [v EXCEPT !.relax_time = @ + 1, !.driver_time = 0]
         ELSE [Cancel(v, "tired") EXCEPT !.relax_time = 0, !.driver_time = 0]

\* Variant: a long rest ends the alarm, and the time driven before it still counts.
RestKeepsDriving(v, speed) ==
    IF speed > 0
    THEN IF v.driver_time + 1 <= DriveTime THEN [v EXCEPT !.driver_time = @ + 1, !.relax_time = 0]
         ELSE IF "tired" \in v.flags THEN [v EXCEPT !.driver_time = 0, !.relax_time = 0]
         ELSE Raise([v EXCEPT !.driver_time = 0, !.relax_time = 0], "tired")
    ELSE IF v.relax_time + 1 <= RestTime THEN [v EXCEPT !.relax_time = @ + 1]
         ELSE [Cancel(v, "tired") EXCEPT !.relax_time = 0]

Fatigue(v, speed) ==
    IF speed > 0
    THEN IF v.driver_time + 1 <= DriveTime THEN [v EXCEPT !.driver_time = @ + 1, !.relax_time = 0]
         ELSE IF "tired" \in v.flags THEN [v EXCEPT !.driver_time = 0, !.relax_time = 0]
         ELSE Raise([v EXCEPT !.driver_time = 0, !.relax_time = 0], "tired")
    ELSE IF v.relax_time + 1 <= RestTime THEN [v EXCEPT !.relax_time = @ + 1]
         ELSE [Cancel(v, "tired") EXCEPT !.relax_time = 0, !.driver_time = 0]

\* Variant: the time counts from the last report of any kind, and every alarm waits for the next one.
PeriodicAfterAlarm(v) ==
    IF v.alarmed THEN [v EXCEPT !.upload_times = 0]
    ELSE IF v.upload_times >= ReportTime
         THEN [report_location_buildbody([v EXCEPT !.over = FALSE]) EXCEPT !.upload_times = 0]
         ELSE v

\* A run that has raised an alarm, a masked one too, leaves the periodic report to the next.
Periodic(v) ==
    IF v.upload_times >= ReportTime /\ ~v.alarmed
    THEN [report_location_buildbody([v EXCEPT !.over = FALSE]) EXCEPT !.upload_times = 0]
    ELSE v

----------------------------------------------------------------------------
\* What the receiver has told since the last run

\* upload_times is only compared with ReportTime.
Run == [gps EXCEPT !.alarmed = FALSE, !.reports = <<>>, !.texts = {},
                   !.upload_times = IF @ < ReportTime THEN @ + 1 ELSE @]

Heard == [Cancel(Run, "gnss") EXCEPT !.model_cnt = 0]

NoData ==
    /\ gps' = IF Run.model_cnt < CheckGpsErr THEN [Run EXCEPT !.model_cnt = @ + 1]
              ELSE IF "gnss" \in Run.flags THEN Run
              ELSE handle_alarm_status(handle_alarm_sms(Run, "gnss"), "gnss")
    /\ UNCHANGED masked

Position(speed, midnight) ==
    /\ gps' = Periodic(Fatigue(Parking(Overspeed(DayDrive(Located(Heard), speed, midnight),
                                                 speed), speed), speed))
    /\ UNCHANGED masked

\* Without a position nothing is counted, and the report only says so.
NoPosition ==
    /\ gps' = IF Heard.upload_times >= ReportTime
              THEN report_location_buildbody([Heard EXCEPT !.upload_times = 0, !.fixed = FALSE])
              ELSE Heard
    /\ UNCHANGED masked

\* Neither: other sentences, or the answer to a command.
OtherData == gps' = Heard /\ UNCHANGED masked

\* The parameter eAlarmmaskword, or the keyword for it.
SetMask(mask) ==
    /\ masked' = mask
    /\ gps' = [gps EXCEPT !.reports = <<>>, !.texts = {}, !.alarmed = FALSE]

Init == gps = Start /\ masked \in Masks

Next ==
    \/ NoData
    \/ \E speed \in Speeds, midnight \in BOOLEAN : Position(speed, midnight)
    \/ NoPosition
    \/ OtherData
    \/ \E mask \in Masks : SetMask(mask)

Spec == Init /\ [][Next]_vars

----------------------------------------------------------------------------

Report == [flags : SUBSET Alarm, over : BOOLEAN]

TypeOK ==
    /\ gps.flags \subseteq Alarm
    /\ gps.reports \in Seq(Report) /\ gps.texts \subseteq Alarm
    /\ {gps.fixed, gps.over, gps.alarmed, gps.rtc, gps.overspeed_no_area} \subseteq BOOLEAN
    /\ gps.model_cnt \in 0 .. CheckGpsErr
    /\ gps.os_times \in 0 .. SpeedDuration
    /\ gps.park_times \in 0 .. ParkTime
    /\ gps.driver_time \in 0 .. DriveTime
    /\ gps.relax_time \in 0 .. RestTime
    /\ gps.day_drive \in 0 .. Byte - 1
    /\ gps.upload_times \in 0 .. ReportTime
    /\ masked \in Masks
=============================================================================
