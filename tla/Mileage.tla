------------------------------ MODULE Mileage ------------------------------
(***************************************************************************)
(* The odometer: the distance of every second (GPS_IntvlDistanc in GPS.c),  *)
(* collected by oa_app_gps and added to the file by mile_stat_add           *)
(* (oa_platform.c).  Distances are whole numbers of half steps.             *)
(***************************************************************************)
EXTENDS Integers

CONSTANTS
    Unit,       \* half steps in 0.1 km, the unit of the file
    Update,     \* units that are collected before the file is written (UPDATE_DISTANC)
    Frq,        \* DISTANCE_FRQ: gaps of more seconds are measured by the two positions
    Fastest,    \* 180 km/h in steps per second
    Paces,      \* bound: steps in one second
    MaxLost,    \* bound: seconds without a position
    MaxTotal,   \* bound: units in the file
    MaxDropped  \* bound: half steps lost at restarts

MileageAssumption ==
    /\ {Unit, Update, MaxTotal} \subseteq Nat \ {0}
    /\ {Frq, Fastest, MaxLost, MaxDropped} \subseteq Nat
    /\ Paces \subseteq Nat

None == -1
Empty == -2    \* a file that holds no total

VARIABLES
    file,      \* total_mileage in MILEAGE_FILE, or None or Empty
    intvl,     \* IntvlDistanc of oa_app_gps
    old,       \* the point that distances are measured from: whether there is one, seconds and steps since
    last_speed,
    excess,    \* ghost: half steps that file and rest hold more than was measured since the file was set
    dropped,   \* ghost: half steps that were lost at restarts since then
    regular    \* ghost: every write succeeded and no second measured more than a unit

ghosts == <<excess, dropped, regular>>
vars == <<file, intvl, old, last_speed, ghosts>>

NoPoint == [known |-> FALSE, gap |-> 0, far |-> 0]

----------------------------------------------------------------------------

\* GPS_IntvlDistanc after gap seconds and far steps: what it measures, and whether the point moves on.
\* A gap of up to Frq seconds is measured by the speeds at its ends.
GPS_IntvlDistanc(gap, far, speed) ==
    IF gap > Frq
    THEN IF far > Fastest * gap THEN [dis |-> 0, moves |-> FALSE] ELSE [dis |-> 2 * far, moves |-> TRUE]
    ELSE IF speed > Fastest THEN [dis |-> 0, moves |-> FALSE]
         ELSE [dis |-> (speed + last_speed) * gap, moves |-> TRUE]

\* Variant: what is collected starts at zero after every write.
CollectFromZero(sum, added) == IF added THEN 0 ELSE sum

\* Only Update units are taken off, however many were added.
Collect(sum, added) == IF added THEN sum - Update * Unit ELSE sum

\* mile_stat_add: a file that cannot be opened or read is left alone; a write or a close that fails tells
\* the caller nothing of what is in the file, and a close that fails deletes it.
mile_stat_add(miles, outcome) ==
    IF file < 0 THEN [file |-> file, added |-> FALSE]
    ELSE CASE outcome \in {"unread", "unwritten"} -> [file |-> file, added |-> FALSE]
           [] outcome = "unknown" -> [file |-> file + miles, added |-> FALSE]
           [] outcome = "unclosed" -> [file |-> None, added |-> FALSE]
           [] outcome = "ok" -> [file |-> file + miles, added |-> TRUE]

Outcomes == {"ok", "unread", "unwritten", "unknown", "unclosed"}

----------------------------------------------------------------------------

\* A second without a position, or with one that is not fixed.
Lost(pace) ==
    /\ old.known /\ old.gap < MaxLost
    /\ old' = [old EXCEPT !.gap = @ + 1, !.far = @ + pace]
    /\ UNCHANGED <<file, intvl, last_speed, ghosts>>

FirstFix ==
    /\ ~old.known
    /\ old' = [NoPoint EXCEPT !.known = TRUE]
    /\ UNCHANGED <<file, intvl, last_speed, ghosts>>

\* More than a unit that was added twice is not counted.
UpToUnit(n) == IF n > Unit THEN Unit ELSE n

Fix(pace, outcome) ==
    LET gap == old.gap + 1
        far == old.far + pace
        dist == GPS_IntvlDistanc(gap, far, pace)
        sum == intvl + dist.dis
        write == sum >= Update * Unit
        res == IF write THEN mile_stat_add(sum \div Unit, outcome) ELSE [file |-> file, added |-> FALSE]
    IN
    /\ old.known /\ gap <= MaxLost
    /\ file + sum \div Unit <= MaxTotal
    /\ outcome = "ok" \/ write
    /\ old' = IF dist.moves THEN [NoPoint EXCEPT !.known = TRUE] ELSE [old EXCEPT !.gap = gap, !.far = far]
    /\ last_speed' = IF dist.moves THEN pace ELSE last_speed
    /\ file' = res.file
    /\ intvl' = IF write THEN Collect(sum, res.added) ELSE sum
    /\ regular' = (regular /\ dist.dis <= Unit /\ outcome = "ok")
    /\ excess' = IF file' < 0 THEN 0
                 ELSE UpToUnit(excess + dropped + (file' - file) * Unit + intvl' - intvl - dist.dis) - dropped
    /\ dropped' = IF file' < 0 THEN 0 ELSE dropped

\* A position with an earlier time: the next one is the first again.
TimeBack ==
    /\ old.known
    /\ old' = NoPoint
    /\ UNCHANGED <<file, intvl, last_speed, ghosts>>

\* The file is new or set, or is gone: what was measured before is of no account.
Forget == excess' = 0 /\ dropped' = 0

\* What has been collected stays, and is added to the new total.
Preset(total) ==
    /\ file' = total /\ Forget
    /\ regular' = (regular \/ intvl < Update * Unit)
    /\ UNCHANGED <<intvl, old, last_speed>>

mile_stat_set_value == Preset(1)

\* A missing file is left missing.
clear_miles == file # None /\ Preset(0)

\* A create or a write of them that fails, or a close, there or in a report (oa_jt808.c:4137-4148), which
\* deletes the file; or the deletion by del_rec.
PresetFails ==
    /\ file' \in {file, None} \cup IF file = None THEN {Empty, 0} ELSE {}
    /\ IF file' = file THEN UNCHANGED ghosts
       ELSE Forget /\ regular' = (file' = 0 /\ intvl < Update * Unit)
    /\ UNCHANGED <<intvl, old, last_speed>>

\* The power is back, and oa_app_gps runs for the first time: what was collected and not written is lost.
\* A file that is missing is created, and any file may be lost to a close that fails.
mile_stat_init ==
    /\ file' \in {file, None} \cup IF file = None THEN {Empty, 0} ELSE {}
    /\ intvl' = 0 /\ old' = NoPoint /\ last_speed' = 0
    /\ IF file' = file /\ file >= 0
       THEN dropped + intvl <= MaxDropped /\ excess' = excess - intvl /\ dropped' = dropped + intvl
       ELSE Forget
    /\ regular' = IF file' = file THEN regular ELSE file' = 0

Init ==
    /\ file = 0 /\ intvl = 0 /\ old = NoPoint /\ last_speed = 0
    /\ excess = 0 /\ dropped = 0 /\ regular = TRUE

Next ==
    \/ \E pace \in Paces : Lost(pace)
    \/ FirstFix
    \/ \E pace \in Paces, outcome \in Outcomes : Fix(pace, outcome)
    \/ TimeBack
    \/ mile_stat_set_value
    \/ clear_miles
    \/ PresetFails
    \/ mile_stat_init

Spec == Init /\ [][Next]_vars

----------------------------------------------------------------------------

TypeOK ==
    /\ file \in {None, Empty} \cup 0 .. MaxTotal
    /\ intvl \in Nat /\ excess \in Int /\ dropped \in Nat
    /\ last_speed \in Paces \cup {0} /\ regular \in BOOLEAN
    /\ old.known \in BOOLEAN /\ old.gap \in 0 .. MaxLost /\ old.far \in Nat

\* As long as every file operation succeeds and no second measures more than 0.1 km, file and rest make
\* up what was measured since the file was set, but for what restarts cost; and a restart costs less than
\* UPDATE_DISTANC, which is all that is ever collected (oa_gps.c:108, 351-365, oa_platform.c:125-177).
MilesExact == regular /\ file >= 0 => excess = -dropped /\ intvl < Update * Unit

\* Whatever fails and however far a gap was: as long as the file holds a total, nothing that was measured
\* since it was set is missing from file and rest but what had been collected when the power went.
MilesNotLost == file >= 0 => excess >= -dropped

\* The types, and that the odometer misses nothing but what restarts cost, which is little.
MilesInv == TypeOK /\ MilesExact /\ MilesNotLost
=============================================================================
