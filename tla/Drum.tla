-------------------------------- MODULE Drum --------------------------------
(***************************************************************************)
(* Which way the mixing drum turns (USE_ZFZ_SENSOR in oa_hw.c).  Its two    *)
(* contacts raise interrupts, which may come between any two statements at  *)
(* the end of acc_status_detect.                                            *)
(***************************************************************************)
EXTENDS Naturals

CONSTANTS
    StopTime,   \* TZ_SHRESHOLD_TIME in runs
    Turns       \* ZZ_SHRESHOLD_TIMES and FZ_SHRESHOLD_TIMES

DrumAssumption == {StopTime, Turns} \subseteq Nat

Way == {"zz", "fz"}

VARIABLES
    zfz_sensor_status,
    cal,        \* zz_cal and fz_cal
    tz_times,
    pc,         \* where acc_status_detect is
    read,       \* what it has read of tz_times
    still,      \* ghost: its runs since the last edge that fell between two runs
    edges       \* ghost: the edges of each contact since the status was last decided

vars == <<zfz_sensor_status, cal, tz_times, pc, read, still, edges>>

Zero == [w \in Way |-> 0]

----------------------------------------------------------------------------

\* Variant: an edge of the drum does not start the time of rest anew.
EdgeKeepsTime(way) ==
    /\ edges' = IF cal[way] + 1 > Turns THEN Zero ELSE [edges EXCEPT ![way] = @ + 1]
    /\ still' = IF pc = "idle" THEN 0 ELSE still
    /\ IF cal[way] + 1 > Turns
       THEN zfz_sensor_status' = way /\ cal' = Zero
       ELSE cal' = [cal EXCEPT ![way] = @ + 1] /\ UNCHANGED zfz_sensor_status
    /\ UNCHANGED <<tz_times, pc, read>>

\* oa_eint_hisr0 and oa_eint_hisr1.
Edge(way) ==
    /\ edges' = IF cal[way] + 1 > Turns THEN Zero ELSE [edges EXCEPT ![way] = @ + 1]
    /\ still' = IF pc = "idle" THEN 0 ELSE still
    /\ IF cal[way] + 1 > Turns
       THEN zfz_sensor_status' = way /\ cal' = Zero
       ELSE cal' = [cal EXCEPT ![way] = @ + 1] /\ UNCHANGED zfz_sensor_status
    /\ tz_times' = 0
    /\ UNCHANGED <<pc, read>>

\* tz_times++ reads and writes: an edge between the two is lost.
Read ==
    /\ pc = "idle"
    /\ pc' = "add" /\ read' = tz_times
    /\ still' = IF still <= StopTime THEN still + 1 ELSE still
    /\ UNCHANGED <<zfz_sensor_status, cal, tz_times, edges>>

Add ==
    /\ pc = "add"
    /\ tz_times' = read + 1
    /\ pc' = "test"
    /\ UNCHANGED <<zfz_sensor_status, cal, read, still, edges>>

Test ==
    /\ pc = "test"
    /\ pc' = IF tz_times > StopTime THEN "stop" ELSE "idle"
    /\ UNCHANGED <<zfz_sensor_status, cal, tz_times, read, still, edges>>

\* The drum of a vehicle that moves is not called stopped.
Stop(stands) ==
    /\ pc = "stop"
    /\ zfz_sensor_status' = IF stands THEN "tz" ELSE zfz_sensor_status
    /\ pc' = "clear"
    /\ UNCHANGED <<cal, tz_times, read, still, edges>>

Clear ==
    /\ pc = "clear"
    /\ cal' = Zero /\ tz_times' = 0 /\ edges' = Zero
    /\ pc' = "idle"
    /\ UNCHANGED <<zfz_sensor_status, read, still>>

Init ==
    /\ zfz_sensor_status = "tz" /\ cal = Zero /\ tz_times = 0 /\ pc = "idle" /\ read = 0
    /\ still = 0 /\ edges = Zero

Next ==
    \/ \E way \in Way : Edge(way)
    \/ Read \/ Add \/ Test \/ Clear
    \/ \E stands \in BOOLEAN : Stop(stands)

Spec == Init /\ [][Next]_vars

----------------------------------------------------------------------------

TypeOK ==
    /\ zfz_sensor_status \in Way \cup {"tz"}
    /\ cal \in [Way -> 0 .. Turns]
    /\ tz_times \in 0 .. StopTime + 1 /\ read \in 0 .. StopTime
    /\ pc \in {"idle", "add", "test", "stop", "clear"}
    /\ still \in 0 .. StopTime + 1

\* Whatever an interrupt loses: a drum is called stopped only after more than StopTime runs of
\* acc_status_detect without an edge between two of them, and said to turn another way only after more
\* than Turns edges of that contact since the last decision, whichever edges of the other contact and
\* runs came between (oa_hw.c:307-318, 94-137).
TurnsAreEarned ==
    [][/\ zfz_sensor_status' = "tz" /\ zfz_sensor_status # "tz" => still > StopTime
       /\ \A w \in Way : zfz_sensor_status' = w /\ zfz_sensor_status # w => edges[w] >= Turns]_vars
=============================================================================
