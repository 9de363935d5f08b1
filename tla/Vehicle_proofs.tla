--------------------------- MODULE Vehicle_proofs ---------------------------
(***************************************************************************)
(* What the parts that watch the vehicle keep to, for every length of their *)
(* counters and thresholds: the drum under its interrupts, the debounce of  *)
(* ignition and key, the odometer, the alarms of the drive, and the fuel in *)
(* the tank.  Vehicle runs one of the parts at a time; a step of another    *)
(* part changes nothing that a property of this one reads.                  *)
(***************************************************************************)
EXTENDS Vehicle, SequenceTheorems, WellFoundedInduction, TLAPS

LEMMA Constants ==
  /\ StopTime \in Nat /\ Turns \in Nat
  /\ Debounce \in Nat /\ MaxCount \in Nat \ {0}
BY VehicleAssumption DEF I!InputsAssumption, D!DrumAssumption

-----------------------------------------------------------------------------
(* The drum *)

(* Every edge that is counted has been one. *)
Counted ==
  /\ cal \in [D!Way -> 0 .. Turns] /\ edges \in [D!Way -> Nat]
  /\ \A way \in D!Way : cal[way] <= edges[way]

(* An edge that comes while acc_status_detect runs may be lost to tz_times, *)
(* but never adds to it.                                                    *)
Timed ==
  /\ zfz_sensor_status \in {"zz", "fz", "tz"}
  /\ pc \in {"idle", "add", "test", "stop", "clear"}
  /\ tz_times \in 0 .. StopTime + 1 /\ read \in 0 .. StopTime /\ still \in 0 .. StopTime + 1
  /\ tz_times <= still
  /\ pc \in {"idle", "add"} => tz_times <= StopTime
  /\ pc = "add" => read + 1 <= still
  /\ pc = "stop" => still > StopTime

DrumInv == Counted /\ Timed

LEMMA DrumTypes == DrumInv => D!TypeOK
BY DEF DrumInv, Counted, Timed, D!TypeOK, D!Way

LEMMA ZeroCounted ==
  ASSUME cal' = D!Zero, edges' = D!Zero
  PROVE  Counted'
BY Constants DEF D!Zero, Counted

LEMMA DrumInit ==
  ASSUME D!Init
  PROVE  DrumInv
<1>1. Counted
  <2>1. cal = D!Zero /\ edges = D!Zero
    BY DEF D!Init
  <2> QED
    BY <2>1, Constants DEF D!Zero, Counted
<1>2. Timed
  BY Constants DEF D!Init, Timed
<1> QED
  BY <1>1, <1>2 DEF DrumInv

LEMMA EdgeKeeps ==
  ASSUME DrumInv, NEW way \in D!Way, D!Edge(way)
  PROVE  /\ DrumInv'
         /\ \/ zfz_sensor_status' = zfz_sensor_status
            \/ zfz_sensor_status' = way /\ edges[way] >= Turns
<1>1. Counted' /\ (cal[way] + 1 > Turns => edges[way] >= Turns)
  <2>1. CASE cal[way] + 1 > Turns
    <3>1. cal' = D!Zero /\ edges' = D!Zero
      BY <2>1 DEF D!Edge
    <3>2. edges[way] >= Turns
      BY <2>1, Constants DEF DrumInv, Counted
    <3> QED
      BY <3>1, <3>2, ZeroCounted
  <2>2. CASE ~ (cal[way] + 1 > Turns)
    <3>1. /\ cal' = [cal EXCEPT ![way] = cal[way] + 1]
          /\ edges' = [edges EXCEPT ![way] = edges[way] + 1]
      BY <2>2 DEF D!Edge
    <3> QED
      BY <2>2, <3>1, Constants DEF DrumInv, Counted
  <2> QED
    BY <2>1, <2>2
<1>2. /\ tz_times' = 0 /\ pc' = pc /\ read' = read
      /\ still' = IF pc = "idle" THEN 0 ELSE still
  BY DEF D!Edge
<1>3. \/ zfz_sensor_status' = zfz_sensor_status
      \/ zfz_sensor_status' = way /\ cal[way] + 1 > Turns
  BY DEF D!Edge
<1>4. zfz_sensor_status' \in {"zz", "fz", "tz"}
  BY <1>3 DEF D!Way, DrumInv, Timed
<1>5. Timed'
  BY <1>2, <1>4, Constants DEF DrumInv, Timed
<1> QED
  BY <1>1, <1>3, <1>5 DEF DrumInv

LEMMA DetectKeeps ==
  ASSUME DrumInv, NEW stands \in BOOLEAN,
         D!Read \/ D!Add \/ D!Test \/ D!Clear \/ D!Stop(stands)
  PROVE  /\ DrumInv'
         /\ \/ zfz_sensor_status' = zfz_sensor_status
            \/ zfz_sensor_status' = "tz" /\ still > StopTime
<1>1. Counted'
  <2>1. CASE D!Clear
    BY <2>1, ZeroCounted DEF D!Clear
  <2>2. CASE D!Read \/ D!Add \/ D!Test \/ D!Stop(stands)
    <3>1. UNCHANGED <<cal, edges>>
      BY <2>2 DEF D!Read, D!Add, D!Test, D!Stop
    <3> QED
      BY <3>1 DEF DrumInv, Counted
  <2> QED
    BY <2>1, <2>2
<1>2. CASE D!Read
  BY <1>1, <1>2, Constants DEF D!Read, DrumInv, Timed
<1>3. CASE D!Add
  BY <1>1, <1>3, Constants DEF D!Add, DrumInv, Timed
<1>4. CASE D!Test
  BY <1>1, <1>4, Constants DEF D!Test, DrumInv, Timed
<1>5. CASE D!Stop(stands)
  BY <1>1, <1>5, Constants DEF D!Stop, DrumInv, Timed
<1>6. CASE D!Clear
  BY <1>1, <1>6, Constants DEF D!Clear, DrumInv, Timed
<1> QED
  BY <1>2, <1>3, <1>4, <1>5, <1>6

Earned ==
  /\ zfz_sensor_status' = "tz" /\ zfz_sensor_status # "tz" => still > StopTime
  /\ \A w \in D!Way : zfz_sensor_status' = w /\ zfz_sensor_status # w => edges[w] >= Turns

LEMMA DrumStep ==
  ASSUME DrumInv, VNext \/ UNCHANGED <<part, hvars, pins, drum, fuel, miles>>
  PROVE  DrumInv' /\ Earned
<1>1. ASSUME NEW way \in D!Way, D!Edge(way)
      PROVE  DrumInv' /\ Earned
  <2>1. way # "tz" /\ way \in D!Way
    BY <1>1 DEF D!Way
  <2> QED
    BY <1>1, <2>1, EdgeKeeps DEF Earned
<1>2. ASSUME NEW stands \in BOOLEAN,
             D!Read \/ D!Add \/ D!Test \/ D!Clear \/ D!Stop(stands)
      PROVE  DrumInv' /\ Earned
  BY <1>2, DetectKeeps DEF Earned, D!Way
<1>3. CASE D!Next
  BY <1>1, <1>2, <1>3 DEF D!Next
<1>4. CASE UNCHANGED drum
  BY <1>4 DEF drum, DrumInv, Counted, Timed, Earned
<1>5. D!Next \/ UNCHANGED drum
  BY DEF VNext
<1> QED
  BY <1>3, <1>4, <1>5

(* Whatever an interrupt loses: a drum is called stopped only after more    *)
(* than StopTime runs of acc_status_detect (oa_hw.c:307) without an edge    *)
(* between two of them, and said to turn the other way only after Turns     *)
(* edges of that contact, for every StopTime and Turns.                     *)
THEOREM TurnsHaveBeenEarned == VSpec => TurnsAreEarned
<1>1. VInit => DrumInv
  BY DrumInit DEF VInit
<1>2. DrumInv /\ [VNext]_<<part, hvars, pins, drum, fuel, miles>>
      => DrumInv' /\ [Earned]_(D!vars)
  BY DrumStep
<1> QED
  BY <1>1, <1>2, PTL DEF VSpec, TurnsAreEarned, D!TurnsAreEarned, Earned

-----------------------------------------------------------------------------
(* The ignition and the key *)

(* The samples of one level on end have all been counted, unless they have  *)
(* brought a decision; and so with those of the key.                        *)
IgnitionCounted ==
  /\ acc.cal \in [{"on", "off"} -> 0 .. Debounce]
  /\ acc = [status |-> acc.status, bit |-> acc.status, screen |-> acc.status, cal |-> acc.cal]
  /\ acc.status \in {"on", "off"}
  /\ same \in [level : {"on", "off"}, n : 0 .. MaxCount]
  /\ acc.status = same.level \/ same.n <= acc.cal[same.level]

KeyCounted ==
  /\ key \in [cal : 0 .. Debounce, alarm : BOOLEAN]
  /\ keyMasked \in BOOLEAN /\ pressed \in 0 .. MaxCount
  /\ keyMasked = TRUE \/ key.alarm = TRUE \/ pressed <= key.cal

PinsInv == IgnitionCounted /\ KeyCounted

LEMMA PinsInit ==
  ASSUME I!Init
  PROVE  PinsInv
<1>1. IgnitionCounted
  BY Constants DEF I!Init, I!Level, IgnitionCounted
<1>2. KeyCounted
  BY Constants DEF I!Init, KeyCounted
<1> QED
  BY <1>1, <1>2 DEF PinsInv

LEMMA TickBounded ==
  ASSUME NEW n \in 0 .. MaxCount
  PROVE  I!Tick(n) \in 0 .. MaxCount /\ I!Tick(n) <= n + 1
BY Constants DEF I!Tick

(* One more sample of a level, for the code and for the observer. *)
LEMMA SampleKeeps ==
  ASSUME IgnitionCounted, NEW l \in {"on", "off"},
         acc' = I!Ignition(acc, l),
         same' = [level |-> l, n |-> IF l = same.level THEN I!Tick(same.n) ELSE 1]
  PROVE  IgnitionCounted'
<1>1. same' \in [level : {"on", "off"}, n : 0 .. MaxCount]
  BY TickBounded, Constants DEF IgnitionCounted
<1>2. CASE acc.cal[l] + 1 > Debounce
  <2>1. acc' = [status |-> l, bit |-> l, screen |-> l, cal |-> [k \in {"on", "off"} |-> 0]]
    BY <1>2 DEF I!Ignition, I!Level, IgnitionCounted
  <2> QED
    BY <1>1, <2>1, Constants DEF IgnitionCounted
<1>3. CASE ~ (acc.cal[l] + 1 > Debounce)
  <2>1. acc' = [status |-> acc.status, bit |-> acc.status, screen |-> acc.status,
                cal |-> [acc.cal EXCEPT ![l] = acc.cal[l] + 1]]
    BY <1>3 DEF I!Ignition, IgnitionCounted
  <2>2. acc.cal[l] + 1 \in 0 .. Debounce /\ acc.cal[l] \in Nat
    BY <1>3, Constants DEF IgnitionCounted
  <2>3. acc'.cal \in [{"on", "off"} -> 0 .. Debounce] /\ acc'.cal[l] = acc.cal[l] + 1
        /\ acc'.status = acc.status
    BY <2>1, <2>2 DEF IgnitionCounted
  <2>4. acc'.status = same'.level \/ same'.n <= acc'.cal[same'.level]
    <3>1. CASE l = same.level
      <4>1. same'.level = l /\ same'.n = I!Tick(same.n) /\ same.n \in 0 .. MaxCount
        BY <3>1 DEF IgnitionCounted
      <4> QED
        BY <2>2, <2>3, <3>1, <4>1, TickBounded, Constants DEF IgnitionCounted
    <3>2. CASE l # same.level
      <4>1. same'.level = l /\ same'.n = 1
        BY <3>2
      <4> QED
        BY <2>2, <2>3, <4>1
    <3> QED
      BY <3>1, <3>2
  <2> QED
    BY <1>1, <2>1, <2>3, <2>4 DEF IgnitionCounted
<1> QED
  BY <1>2, <1>3

LEMMA IgnitionKeeps ==
  ASSUME IgnitionCounted, NEW levels \in (SUBSET I!Level) \ {{}}, NEW down \in BOOLEAN,
         I!acc_status_detect(levels, down)
  PROVE  IgnitionCounted'
<1>1. ASSUME NEW l \in {"on", "off"}, levels = {l}
      PROVE  IgnitionCounted'
  <2>1. (CHOOSE k \in I!Level : levels = {k}) = l /\ \E k \in I!Level : levels = {k}
    BY <1>1 DEF I!Level
  <2>2. acc' = I!Ignition(acc, l)
    BY <2>1 DEF I!acc_status_detect
  <2>3. same.level \in {"on", "off"}
    BY DEF IgnitionCounted
  <2>4. same' = [level |-> l, n |-> IF l = same.level THEN I!Tick(same.n) ELSE 1]
    <3>1. CASE l = same.level
      <4>1. same' = [same EXCEPT !.n = I!Tick(same.n)]
        BY <1>1, <3>1 DEF I!acc_status_detect
      <4> QED
        BY <3>1, <4>1 DEF IgnitionCounted
    <3>2. CASE l # same.level
      <4>1. (CHOOSE k \in levels : k # same.level) = l /\ levels # {same.level} /\ levels # I!Level
        BY <1>1, <3>2 DEF I!Level
      <4> QED
        BY <3>2, <4>1 DEF I!acc_status_detect
    <3> QED
      BY <3>1, <3>2
  <2> QED
    BY <1>1, <2>2, <2>4, SampleKeeps
<1>2. CASE levels = {"on", "off"}
  <2>1. ~ \E k \in I!Level : levels = {k}
    BY <1>2 DEF I!Level
  <2>2. acc' = acc
    BY <2>1 DEF I!acc_status_detect
  <2>3. levels # {same.level} /\ levels = I!Level
        /\ (CHOOSE k \in levels : k # same.level) \in {"on", "off"}
    BY <1>2 DEF I!Level, IgnitionCounted
  <2>4. same' \in [level : {"on", "off"}, n : {0}]
    BY <2>3 DEF I!acc_status_detect
  <2> QED
    BY <2>2, <2>4, Constants DEF IgnitionCounted
<1>3. levels = {"on"} \/ levels = {"off"} \/ levels = {"on", "off"}
  <2>1. \A l \in levels : l = "on" \/ l = "off"
    BY DEF I!Level
  <2>2. levels # {}
    OBVIOUS
  <2>3. CASE "on" \notin levels
    BY <2>1, <2>2, <2>3
  <2>4. CASE "off" \notin levels
    BY <2>1, <2>2, <2>4
  <2>5. CASE "on" \in levels /\ "off" \in levels
    BY <2>1, <2>5
  <2> QED
    BY <2>3, <2>4, <2>5
<1> QED
  BY <1>1, <1>2, <1>3

LEMMA KeyKeeps ==
  ASSUME KeyCounted, NEW levels \in (SUBSET I!Level) \ {{}}, NEW down \in BOOLEAN,
         I!acc_status_detect(levels, down)
  PROVE  KeyCounted'
<1>1. CASE ~ down
  BY <1>1, Constants DEF I!acc_status_detect, KeyCounted
<1>2. CASE down /\ key.cal + 1 > Debounce
  <2>1. key' = [cal |-> 0, alarm |-> key.alarm \/ ~ keyMasked]
    BY <1>2 DEF I!acc_status_detect, I!Pressed, KeyCounted
  <2>2. pressed' \in 0 .. MaxCount /\ keyMasked' = keyMasked
    BY <1>2, TickBounded DEF I!acc_status_detect, KeyCounted
  <2>3. key'.alarm \in BOOLEAN /\ (keyMasked = TRUE \/ key'.alarm = TRUE)
    BY <2>1, Zenon DEF KeyCounted
  <2> QED
    BY <2>1, <2>2, <2>3, Constants DEF KeyCounted
<1>3. CASE down /\ ~ (key.cal + 1 > Debounce)
  <2>1. key' = [cal |-> key.cal + 1, alarm |-> key.alarm]
    BY <1>3 DEF I!acc_status_detect, I!Pressed, KeyCounted
  <2>2. pressed' \in 0 .. MaxCount /\ pressed' <= pressed + 1 /\ keyMasked' = keyMasked
    BY <1>3, TickBounded DEF I!acc_status_detect, KeyCounted
  <2> QED
    BY <1>3, <2>1, <2>2, Constants DEF KeyCounted
<1> QED
  BY <1>1, <1>2, <1>3

LEMMA PinsStep ==
  ASSUME PinsInv, VNext \/ UNCHANGED <<part, hvars, pins, drum, fuel, miles>>
  PROVE  PinsInv'
<1>1. ASSUME NEW levels \in (SUBSET I!Level) \ {{}}, NEW down \in BOOLEAN,
             I!acc_status_detect(levels, down)
      PROVE  PinsInv'
  BY <1>1, IgnitionKeeps, KeyKeeps DEF PinsInv
<1>2. CASE I!handle_aritifial_ack_alarm
  <2>1. key' = [cal |-> key.cal, alarm |-> FALSE] /\ pressed' = 0 /\ UNCHANGED <<acc, keyMasked, same>>
    BY <1>2 DEF I!handle_aritifial_ack_alarm, PinsInv, KeyCounted
  <2> QED
    BY <2>1, Constants DEF PinsInv, IgnitionCounted, KeyCounted
<1>3. CASE I!SetMask
  <2>1. keyMasked' \in BOOLEAN
    BY <1>3, Zenon DEF I!SetMask
  <2>2. pressed' = 0 /\ UNCHANGED <<acc, key, same>>
    BY <1>3 DEF I!SetMask
  <2> QED
    BY <2>1, <2>2, Constants DEF PinsInv, IgnitionCounted, KeyCounted
<1>4. CASE I!Next
  BY <1>1, <1>2, <1>3, <1>4 DEF I!Next
<1>5. CASE UNCHANGED pins
  BY <1>5 DEF pins, PinsInv, IgnitionCounted, KeyCounted
<1>6. I!Next \/ UNCHANGED pins
  BY DEF VNext
<1> QED
  BY <1>4, <1>5, <1>6

(* For every debounce: an ignition that keeps its level for Debounce + 1    *)
(* samples is known, a key that is held down as long is told of, also after *)
(* the platform has taken its alarm back (oa_hw.c:251-304), and the counts  *)
(* of ignition, key and drum stay in their ranges.                          *)
THEOREM InputsAreHeard == VSpec => []InputsInv
<1>1. VInit => DrumInv /\ PinsInv
  BY DrumInit, PinsInit DEF VInit
<1>2. DrumInv /\ PinsInv /\ [VNext]_<<part, hvars, pins, drum, fuel, miles>>
      => DrumInv' /\ PinsInv'
  BY DrumStep, PinsStep
<1>3. ASSUME PinsInv
      PROVE  I!InputsInv
  <2>1. IgnitionCounted /\ KeyCounted
    BY <1>3 DEF PinsInv
  <2>2. I!TypeOK
    BY <2>1 DEF I!TypeOK, I!Level, IgnitionCounted, KeyCounted
  <2>3. I!IgnitionIsKnown
    BY <2>1, Constants DEF I!IgnitionIsKnown, IgnitionCounted
  <2>4. I!KeyIsHeard
    <3>1. keyMasked = TRUE \/ key.alarm = TRUE \/ ~ (pressed > Debounce)
      BY <2>1, Constants DEF KeyCounted
    <3> QED
      BY <3>1, Zenon DEF I!KeyIsHeard
  <2> QED
    BY <2>2, <2>3, <2>4 DEF I!InputsInv
<1>4. DrumInv /\ PinsInv => InputsInv
  BY <1>3, DrumTypes DEF InputsInv
<1> QED
  BY <1>1, <1>2, <1>4, PTL DEF VSpec

-----------------------------------------------------------------------------
(* The odometer *)

LEMMA MileConstants ==
  /\ Unit \in Nat \ {0} /\ Update \in Nat \ {0} /\ MaxTotal \in Nat \ {0}
  /\ Frq \in Nat /\ Fastest \in Nat /\ MaxLost \in Nat /\ MaxDropped \in Nat /\ Paces \subseteq Nat
BY VehicleAssumption DEF M!MileageAssumption

LEMMA Product ==
  ASSUME NEW a \in Nat, NEW b \in Nat
  PROVE  a * b \in Nat
OBVIOUS

(* Between two writes less is collected than a write takes off, as long as  *)
(* all went well; and nothing is missing but what restarts have dropped.     *)
Odometer ==
  /\ file \in {-1, -2} \cup 0 .. MaxTotal
  /\ intvl \in Nat /\ excess \in Int /\ dropped \in Nat /\ last_speed \in Paces \cup {0}
  /\ file >= 0 => excess + dropped >= 0
  /\ regular = TRUE => intvl < Update * Unit /\ file >= 0 /\ excess + dropped = 0

Point2 == old \in [known : BOOLEAN, gap : 0 .. MaxLost, far : Nat]

MilesKept == Odometer /\ Point2 /\ regular \in BOOLEAN

LEMMA MilesMeant == MilesKept => MilesInv
BY MileConstants DEF MilesKept, Odometer, Point2, MilesInv, M!MilesInv, M!TypeOK, M!MilesExact,
   M!MilesNotLost, M!None, M!Empty

LEMMA Threshold == Update * Unit \in Nat \ {0}
BY MileConstants

LEMMA MilesInit ==
  ASSUME M!Init
  PROVE  MilesKept
BY MileConstants, Threshold DEF M!Init, M!NoPoint, MilesKept, Odometer, Point2

(* What is measured is a whole number of half steps, at least none. *)
LEMMA Measured ==
  ASSUME NEW gap \in Nat, NEW far \in Nat, NEW speed \in Nat, last_speed \in Nat
  PROVE  M!GPS_IntvlDistanc(gap, far, speed) \in [dis : Nat, moves : BOOLEAN]
<1>1. (speed + last_speed) * gap \in Nat
  BY Product
<1> DEFINE d == (speed + last_speed) * gap
           limit == Fastest * gap
<1>2. d \in Nat
  BY <1>1
<1>3. M!GPS_IntvlDistanc(gap, far, speed) =
        IF gap > Frq
        THEN IF far > limit THEN [dis |-> 0, moves |-> FALSE] ELSE [dis |-> 2 * far, moves |-> TRUE]
        ELSE IF speed > Fastest THEN [dis |-> 0, moves |-> FALSE] ELSE [dis |-> d, moves |-> TRUE]
  BY DEF M!GPS_IntvlDistanc
<1> HIDE DEF d, limit
<1> QED
  BY <1>2, <1>3

(* Whole units of what has been collected: at least Update of them when a   *)
(* write is due, and exactly so many after a second of at most one unit.    *)
LEMMA WholeUnits ==
  ASSUME NEW sum \in Nat, sum >= Update * Unit
  PROVE  /\ sum \div Unit \in Nat
         /\ (sum \div Unit) * Unit >= Update * Unit
         /\ sum < Update * Unit + Unit => (sum \div Unit) * Unit = Update * Unit
<1> DEFINE q == sum \div Unit
<1>1. q \in Nat /\ q * Unit <= sum /\ sum < q * Unit + Unit
  BY MileConstants
<1>2. q >= Update
  <2>1. CASE q < Update
    <3>1. (q + 1) * Unit <= Update * Unit
      BY <2>1, <1>1, MileConstants
    <3> QED
      BY <3>1, <1>1, MileConstants
  <2> QED
    BY <2>1, <1>1, MileConstants
<1>3. q * Unit >= Update * Unit
  BY <1>1, <1>2, MileConstants
<1>4. sum < Update * Unit + Unit => q = Update
  <2>1. CASE sum < Update * Unit + Unit /\ q > Update
    <3>1. q * Unit >= (Update + 1) * Unit
      BY <2>1, <1>1, MileConstants
    <3> QED
      BY <2>1, <3>1, <1>1, MileConstants
  <2> QED
    BY <2>1, <1>1, <1>2, MileConstants
<1> QED
  BY <1>1, <1>3, <1>4

(* What an attempt to add to the file leaves in it. *)
LEMMA Added ==
  ASSUME file \in Int, NEW more, NEW outcome \in M!Outcomes
  PROVE  LET res == M!mile_stat_add(more, outcome)
         IN  \/ /\ res = [file |-> file + more, added |-> TRUE]
                /\ outcome = "ok" /\ file >= 0
             \/ /\ res.file \in {file, file + more, -1} /\ res.added = FALSE
                /\ file < 0 \/ outcome # "ok"
                /\ file < 0 => res.file = file
<1> DEFINE res == M!mile_stat_add(more, outcome)
<1>1. CASE file < 0
  <2>1. res = [file |-> file, added |-> FALSE]
    BY <1>1 DEF M!mile_stat_add
  <2> QED
    BY <1>1, <2>1
<1>2. CASE ~(file < 0) /\ outcome = "ok"
  <2>1. res = [file |-> file + more, added |-> TRUE]
    BY <1>2 DEF M!mile_stat_add
  <2> QED
    BY <1>2, <2>1
<1>3. CASE ~(file < 0) /\ outcome \in {"unread", "unwritten"}
  <2>1. res = [file |-> file, added |-> FALSE]
    BY <1>3 DEF M!mile_stat_add
  <2> QED
    BY <1>3, <2>1
<1>4. CASE ~(file < 0) /\ outcome = "unknown"
  <2>1. res = [file |-> file + more, added |-> FALSE]
    BY <1>4 DEF M!mile_stat_add
  <2> QED
    BY <1>4, <2>1
<1>5. CASE ~(file < 0) /\ outcome = "unclosed"
  <2>1. res = [file |-> -1, added |-> FALSE]
    BY <1>5 DEF M!mile_stat_add, M!None
  <2> QED
    BY <1>5, <2>1
<1> QED
  BY <1>1, <1>2, <1>3, <1>4, <1>5 DEF M!Outcomes

(* A second: what is measured goes to the rest, and whole units of the rest *)
(* go to the file.                                                          *)
LEMMA FixKeeps ==
  ASSUME MilesKept, NEW pace \in Paces, NEW outcome \in M!Outcomes, M!Fix(pace, outcome)
  PROVE  MilesKept'
<1> DEFINE gap == old.gap + 1
           far == old.far + pace
           dist == M!GPS_IntvlDistanc(gap, far, pace)
           sum == intvl + dist.dis
           q == sum \div Unit
           write == sum >= Update * Unit
           res == IF write THEN M!mile_stat_add(q, outcome) ELSE [file |-> file, added |-> FALSE]
<1>1. /\ gap \in 0 .. MaxLost /\ gap \in Nat /\ far \in Nat
      /\ pace \in Nat /\ last_speed \in Nat
  BY MileConstants DEF M!Fix, MilesKept, Odometer, Point2
<1>2. dist \in [dis : Nat, moves : BOOLEAN]
  BY <1>1, Measured
<1>3. /\ old' = IF dist.moves THEN [M!NoPoint EXCEPT !.known = TRUE]
                ELSE [old EXCEPT !.gap = gap, !.far = far]
      /\ last_speed' = IF dist.moves THEN pace ELSE last_speed
      /\ file + q <= MaxTotal
      /\ outcome = "ok" \/ write
      /\ file' = res.file
      /\ intvl' = IF write THEN M!Collect(sum, res.added) ELSE sum
      /\ regular' = (regular /\ dist.dis <= Unit /\ outcome = "ok")
      /\ excess' = IF file' < 0 THEN 0
                   ELSE M!UpToUnit(excess + dropped + (file' - file) * Unit + intvl' - intvl - dist.dis)
                          - dropped
      /\ dropped' = IF file' < 0 THEN 0 ELSE dropped
  BY DEF M!Fix
<1> DEFINE d == dist.dis
<1>4. d \in Nat /\ intvl \in Nat /\ sum = intvl + d /\ sum \in Nat
  BY <1>2 DEF MilesKept, Odometer
<1>5. Point2' /\ last_speed' \in Paces \cup {0}
  <2> HIDE DEF dist
  <2>1. CASE dist.moves
    <3>1. old' = [known |-> TRUE, gap |-> 0, far |-> 0] /\ last_speed' = pace
      BY <2>1, <1>3 DEF M!NoPoint
    <3> QED
      BY <3>1, MileConstants DEF Point2
  <2>2. CASE ~ dist.moves
    <3>1. old' = [old EXCEPT !.gap = gap, !.far = far] /\ last_speed' = last_speed
      BY <2>2, <1>3
    <3> QED
      BY <3>1, <1>1 DEF MilesKept, Point2, Odometer
  <2> QED
    BY <2>1, <2>2
<1>6. regular' \in BOOLEAN
      /\ (regular' = TRUE => regular = TRUE /\ d <= Unit /\ outcome = "ok")
  <2> DEFINE small == dist.dis <= Unit
             fine == outcome = "ok"
  <2>1. regular' = (regular /\ small /\ fine)
    BY <1>3
  <2>2. regular = TRUE \/ regular = FALSE
    BY Zenon DEF MilesKept
  <2> HIDE DEF small, fine
  <2>3. CASE small /\ fine
    BY <2>1, <2>2, <2>3, Zenon DEF small, fine
  <2>4. CASE ~ (small /\ fine)
    <3>1. regular' = FALSE
      BY <2>1, <2>4, Zenon
    <3> QED
      BY <3>1, Zenon
  <2> QED
    BY <2>3, <2>4
<1> DEFINE kept == excess + dropped
<1>7. /\ kept \in Int /\ file \in Int /\ dropped \in Nat
      /\ file >= 0 => kept >= 0
      /\ regular = TRUE => intvl < Update * Unit /\ file >= 0 /\ kept = 0
  BY MileConstants DEF MilesKept, Odometer
<1>8. /\ file' < 0 => excess' = 0 /\ dropped' = 0
      /\ ~(file' < 0)
           => /\ dropped' = dropped
              /\ excess' = M!UpToUnit(kept + (file' - file) * Unit + intvl' - intvl - d) - dropped
  BY <1>3
(* What a second leaves too much in file and rest, by more. *)
<1>9. ASSUME NEW more \in Int, file' \in Int, ~(file' < 0),
             kept + (file' - file) * Unit + intvl' - intvl - d = kept + more
      PROVE  /\ excess' \in Int /\ dropped' \in Nat
             /\ kept + more >= 0 => excess' + dropped' >= 0
             /\ kept + more = 0 => excess' + dropped' = 0
  <2> DEFINE e == M!UpToUnit(kept + more)
  <2>1. e \in Int /\ (kept + more >= 0 => e >= 0) /\ (kept + more = 0 => e = 0)
    <3> HIDE DEF kept
    <3> QED
      BY <1>7, MileConstants DEF M!UpToUnit
  <2>2. excess' = e - dropped /\ dropped' = dropped
    BY <1>8, <1>9, Zenon
  <2> HIDE DEF e
  <2>3. (e - dropped) + dropped = e
    BY <1>7, <2>1
  <2> QED
    BY <1>7, <2>1, <2>2, <2>3
<1> HIDE DEF kept
<1>10. CASE ~ write
  <2>1. file' = file /\ intvl' = sum /\ outcome = "ok"
    BY <1>3, <1>10
  <2>2. sum < Update * Unit
    BY <1>4, <1>10, Threshold
  <2>3. ~(file' < 0) => /\ excess' \in Int /\ dropped' \in Nat
                        /\ kept + 0 >= 0 => excess' + dropped' >= 0
                        /\ kept + 0 = 0 => excess' + dropped' = 0
    <3>1. kept + (file' - file) * Unit + intvl' - intvl - d = kept + 0 /\ file' \in Int
      BY <1>4, <1>7, <2>1, MileConstants
    <3> QED
      BY <1>9, <3>1
  <2> HIDE DEF sum, dist
  <2>4. file' < 0 => excess' = 0 /\ dropped' = 0
    BY <1>8
  <2>5. file' \in Int /\ (file' >= 0 <=> ~(file' < 0)) /\ file' \in {-1, -2} \cup 0 .. MaxTotal
    BY <1>7, <2>1 DEF MilesKept, Odometer
  <2>6. regular' = TRUE => file' >= 0 /\ kept = 0
    BY <1>6, <1>7, <2>1
  <2> QED
    BY <1>4, <1>5, <1>6, <1>7, <2>1, <2>2, <2>3, <2>4, <2>5, <2>6 DEF MilesKept, Odometer
<1>11. CASE write
  <2>1. /\ q \in Nat /\ q * Unit >= Update * Unit
        /\ sum < Update * Unit + Unit => q * Unit = Update * Unit
    BY <1>4, <1>11, WholeUnits
  <2>2. res = M!mile_stat_add(q, outcome) /\ intvl' = M!Collect(sum, res.added)
    BY <1>3, <1>11
  <2>3. \/ /\ file' = file + q /\ intvl' = sum - Update * Unit /\ outcome = "ok" /\ file >= 0
        \/ /\ file' \in {file, file + q, -1} /\ intvl' = sum
           /\ file < 0 \/ outcome # "ok"
           /\ file < 0 => file' = file
    <3>1. \/ res = [file |-> file + q, added |-> TRUE] /\ outcome = "ok" /\ file >= 0
          \/ /\ res.file \in {file, file + q, -1} /\ res.added = FALSE
             /\ file < 0 \/ outcome # "ok"
             /\ file < 0 => res.file = file
      BY <1>7, <2>2, Added
    <3> HIDE DEF res, q, sum
    <3>2. CASE res = [file |-> file + q, added |-> TRUE] /\ outcome = "ok" /\ file >= 0
      BY <1>3, <2>2, <3>2 DEF M!Collect
    <3>3. CASE /\ res.file \in {file, file + q, -1} /\ res.added = FALSE
               /\ file < 0 \/ outcome # "ok"
               /\ file < 0 => res.file = file
      BY <1>3, <2>2, <3>3 DEF M!Collect
    <3> QED
      BY <3>1, <3>2, <3>3
  <2> DEFINE units == q * Unit
             due == Update * Unit
  <2>4. due \in Nat /\ units \in Nat /\ sum >= due
    BY <1>4, <1>11, <2>1, Threshold, Product, MileConstants
  <2>5. file' \in {-1, -2} \cup 0 .. MaxTotal /\ file' \in Int /\ (file' >= 0 <=> ~(file' < 0))
    <3>1. file' \in {-1, -2} \cup 0 .. MaxTotal
      BY <1>3, <2>1, <2>3, MileConstants DEF MilesKept, Odometer
    <3> QED
      BY <3>1, MileConstants
  <2>6. CASE file' = file + q /\ intvl' = sum - Update * Unit /\ outcome = "ok" /\ file >= 0
    <3>1. (file' - file) * Unit = units /\ ~(file' < 0)
      BY <1>7, <2>1, <2>6, MileConstants
    <3>2. kept + (file' - file) * Unit + intvl' - intvl - d = kept + (units - due)
      <4> HIDE DEF units
      <4> QED
        BY <1>4, <1>7, <2>4, <2>6, <3>1
    <3>3. /\ excess' \in Int /\ dropped' \in Nat
          /\ kept + (units - due) >= 0 => excess' + dropped' >= 0
          /\ kept + (units - due) = 0 => excess' + dropped' = 0
      <4>1. units - due \in Int
        BY <2>4
      <4> HIDE DEF units, due
      <4> QED
        BY <1>9, <2>5, <3>1, <3>2, <4>1
    <3>4. units >= due /\ (sum < due + Unit => units = due)
      BY <2>1
    <3>5. due >= Unit
      BY MileConstants
    <3>6. intvl' = sum - due
      BY <2>6
    <3>7. kept >= 0 /\ (regular = TRUE => kept = 0 /\ intvl < due)
      BY <1>7, <2>6
    <3> HIDE DEF units, due, sum, dist, d
    <3> DEFINE more == units - due
               left == excess' + dropped'
    <3>11. /\ more \in Nat /\ (kept + more >= 0 => left >= 0) /\ (kept + more = 0 => left = 0)
           /\ sum < due + Unit => more = 0
      <4>1. more \in Nat
        BY <2>4, <3>4
      <4>2. units = due => more = 0
        BY <2>4
      <4>3. (kept + more >= 0 => left >= 0) /\ (kept + more = 0 => left = 0)
        BY <3>3, Zenon
      <4> QED
        BY <3>4, <4>1, <4>2, <4>3, Zenon
    <3> HIDE DEF more, left
    <3>8. intvl' \in Nat /\ left >= 0
      BY <1>4, <1>7, <2>4, <3>6, <3>7, <3>11
    <3>9. ASSUME regular' = TRUE
          PROVE  intvl' < due /\ left = 0
      <4>1. regular = TRUE /\ d <= Unit
        BY <1>6, <3>9
      <4>2. kept = 0 /\ sum < due + Unit
        BY <1>4, <2>4, <3>7, <4>1, MileConstants
      <4> QED
        BY <1>4, <1>7, <2>4, <3>5, <3>6, <3>11, <4>2, MileConstants
    <3>10. file' >= 0
      BY <2>5, <3>1
    <3> QED
      BY <1>5, <1>6, <2>5, <3>3, <3>8, <3>9, <3>10 DEF MilesKept, Odometer, due, left
  <2>7. CASE /\ file' \in {file, file + q, -1} /\ intvl' = sum
             /\ file < 0 \/ outcome # "ok"
             /\ file < 0 => file' = file
    <3>1. regular' = FALSE
      <4>1. regular = TRUE => ~(file < 0)
        BY <1>7
      <4> HIDE DEF d, q, sum
      <4> QED
        BY <1>6, <2>7, <4>1
    <3> DEFINE more == (file' - file) * Unit
    <3>2. ~(file' < 0) => more \in Nat /\ file >= 0
      <4>1. ~(file' < 0) => file' - file \in Nat /\ file >= 0
        <5>1. ~(file' < 0) => file' \in {file, file + q} /\ file \in Nat
          BY <1>7, <2>7
        <5> HIDE DEF q
        <5> QED
          BY <2>1, <5>1
      <4> QED
        BY <4>1, Product, MileConstants
    <3>3. ~(file' < 0) => kept + (file' - file) * Unit + intvl' - intvl - d = kept + more
      <4>1. ~(file' < 0) => kept + more + intvl' - intvl - d = kept + more
        <5> HIDE DEF more
        <5> QED
          BY <1>4, <1>7, <2>7, <3>2
      <4> QED
        BY <4>1
    <3>4. ~(file' < 0) => /\ excess' \in Int /\ dropped' \in Nat
                          /\ kept + more >= 0 => excess' + dropped' >= 0
      <4>1. more \in Nat => more \in Int
        OBVIOUS
      <4> HIDE DEF more
      <4> QED
        BY <1>9, <2>5, <3>2, <3>3, <4>1
    <3>5. intvl' \in Nat
      BY <1>4, <2>7
    <3> HIDE DEF more, sum, dist
    <3>6. excess' \in Int /\ dropped' \in Nat /\ (file' >= 0 => excess' + dropped' >= 0)
      BY <1>7, <1>8, <2>5, <3>2, <3>4
    <3> QED
      BY <1>5, <2>5, <3>1, <3>5, <3>6 DEF MilesKept, Odometer
  <2> QED
    BY <2>3, <2>6, <2>7
<1> QED
  BY <1>10, <1>11

(* Whoever sets the file, or loses it, begins anew. *)
LEMMA PresetKeeps ==
  ASSUME MilesKept, NEW total \in {0, 1}, M!Preset(total)
  PROVE  MilesKept'
<1>1. /\ file' = total /\ excess' = 0 /\ dropped' = 0 /\ UNCHANGED <<intvl, old, last_speed>>
      /\ regular' = (regular \/ intvl < Update * Unit)
  BY DEF M!Preset, M!Forget
<1>2. Point2'
  BY <1>1 DEF MilesKept, Point2
<1>3. regular' \in BOOLEAN
  BY <1>1, Zenon
<1>4. regular' = TRUE => intvl < Update * Unit
  <2>1. CASE regular = TRUE
    BY <2>1 DEF MilesKept, Odometer
  <2>2. CASE regular = FALSE
    BY <1>1, <2>2
  <2> QED
    BY <2>1, <2>2, Zenon DEF MilesKept
<1> QED
  BY <1>1, <1>2, <1>3, <1>4, MileConstants DEF MilesKept, Odometer

LEMMA PresetFailsKeeps ==
  ASSUME MilesKept, M!PresetFails
  PROVE  MilesKept'
<1> DEFINE fresh == file' = 0 /\ intvl < Update * Unit
<1>1. /\ file' \in {file, -1, -2, 0}
      /\ UNCHANGED <<intvl, old, last_speed>>
  BY DEF M!PresetFails, M!None, M!Empty
<1>2. Point2'
  BY <1>1 DEF MilesKept, Point2
<1>3. CASE file' = file
  <2>1. excess' = excess /\ dropped' = dropped /\ regular' = regular
    BY <1>3 DEF M!PresetFails, M!ghosts
  <2> QED
    BY <1>1, <1>2, <1>3, <2>1 DEF MilesKept, Odometer
<1>4. CASE file' # file
  <2>1. excess' = 0 /\ dropped' = 0 /\ regular' = fresh
    BY <1>4 DEF M!PresetFails, M!Forget
  <2>2. regular' \in BOOLEAN /\ (regular' = TRUE => fresh)
    BY <2>1, Zenon
  <2>3. file' \in {-1, -2} \cup 0 .. MaxTotal
    BY <1>1, <1>4, MileConstants DEF MilesKept, Odometer
  <2> QED
    BY <1>1, <1>2, <2>1, <2>2, <2>3, MileConstants DEF MilesKept, Odometer
<1> QED
  BY <1>3, <1>4

(* A restart drops what has been collected. *)
LEMMA StartKeeps ==
  ASSUME MilesKept, M!mile_stat_init
  PROVE  MilesKept'
<1> DEFINE fresh == file' = 0
<1>1. /\ file' \in {file, -1, -2, 0}
      /\ intvl' = 0 /\ last_speed' = 0 /\ old' = [known |-> FALSE, gap |-> 0, far |-> 0]
      /\ regular' = IF file' = file THEN regular ELSE fresh
  BY DEF M!mile_stat_init, M!None, M!Empty, M!NoPoint
<1>2. /\ Point2' /\ last_speed' \in Paces \cup {0} /\ intvl' \in Nat /\ intvl' < Update * Unit
      /\ file' \in {-1, -2} \cup 0 .. MaxTotal
  BY <1>1, MileConstants, Threshold DEF MilesKept, Odometer, Point2
<1>3. regular' \in BOOLEAN /\ (regular' = TRUE => (file' = file /\ regular = TRUE) \/ file' = 0)
  <2>1. CASE file' = file
    BY <1>1, <2>1, Zenon DEF MilesKept
  <2>2. CASE file' # file
    <3>1. regular' = fresh
      BY <1>1, <2>2, Zenon
    <3> QED
      BY <3>1, Zenon
  <2> QED
    BY <2>1, <2>2
<1>4. CASE file' = file /\ file >= 0
  <2>1. excess' = excess - intvl /\ dropped' = dropped + intvl
    BY <1>4 DEF M!mile_stat_init
  <2>2. /\ excess' \in Int /\ dropped' \in Nat
        /\ excess' + dropped' >= 0
        /\ regular = TRUE => excess' + dropped' = 0
    BY <1>4, <2>1 DEF MilesKept, Odometer
  <2>3. regular' = regular
    BY <1>1, <1>4
  <2> QED
    BY <1>2, <1>3, <1>4, <2>2, <2>3 DEF MilesKept, Odometer
<1>5. CASE ~(file' = file /\ file >= 0)
  <2>1. excess' = 0 /\ dropped' = 0
    BY <1>5 DEF M!mile_stat_init, M!Forget
  <2>2. regular' = TRUE => file' >= 0
    BY <1>3, <1>5 DEF MilesKept, Odometer
  <2> QED
    BY <1>2, <1>3, <2>1, <2>2 DEF MilesKept, Odometer
<1> QED
  BY <1>4, <1>5

(* Seconds without a position, the first one, and one with an earlier time. *)
LEMMA PointsKeep ==
  ASSUME MilesKept, UNCHANGED <<file, intvl, last_speed, excess, dropped, regular>>,
         \/ \E pace \in Paces : M!Lost(pace)
         \/ M!FirstFix
         \/ M!TimeBack
  PROVE  MilesKept'
<1>1. CASE \E pace \in Paces : M!Lost(pace)
  <2>1. PICK pace \in Paces : M!Lost(pace)
    BY <1>1
  <2>2. old' = [known |-> old.known, gap |-> old.gap + 1, far |-> old.far + pace]
        /\ old.gap < MaxLost /\ old \in [known : BOOLEAN, gap : 0 .. MaxLost, far : Nat]
    BY <2>1 DEF M!Lost, MilesKept, Point2
  <2>3. old'.gap \in 0 .. MaxLost /\ old'.far \in Nat
    BY <2>2, MileConstants
  <2>4. Point2'
    BY <2>2, <2>3 DEF Point2
  <2> QED
    BY <2>4 DEF MilesKept, Odometer
<1>2. CASE M!FirstFix \/ M!TimeBack
  <2>1. \/ old' = [known |-> TRUE, gap |-> 0, far |-> 0]
        \/ old' = [known |-> FALSE, gap |-> 0, far |-> 0]
    BY <1>2 DEF M!FirstFix, M!TimeBack, M!NoPoint
  <2>2. Point2'
    <3>1. CASE old' = [known |-> TRUE, gap |-> 0, far |-> 0]
      BY <3>1, MileConstants DEF Point2
    <3>2. CASE old' = [known |-> FALSE, gap |-> 0, far |-> 0]
      BY <3>2, MileConstants DEF Point2
    <3> QED
      BY <2>1, <3>1, <3>2
  <2> QED
    BY <2>2 DEF MilesKept, Odometer
<1> QED
  BY <1>1, <1>2

LEMMA MilesStep ==
  ASSUME MilesKept, VNext \/ UNCHANGED <<part, hvars, pins, drum, fuel, miles>>
  PROVE  MilesKept'
<1>1. CASE \/ \E pace \in Paces : M!Lost(pace)
           \/ M!FirstFix
           \/ M!TimeBack
  BY <1>1, PointsKeep DEF M!Lost, M!FirstFix, M!TimeBack, M!ghosts
<1>2. CASE \E pace \in Paces, outcome \in M!Outcomes : M!Fix(pace, outcome)
  BY <1>2, FixKeeps
<1>3. CASE M!mile_stat_set_value \/ M!clear_miles
  BY <1>3, PresetKeeps DEF M!mile_stat_set_value, M!clear_miles
<1>4. CASE M!PresetFails
  BY <1>4, PresetFailsKeeps
<1>5. CASE M!mile_stat_init
  BY <1>5, StartKeeps
<1>6. CASE UNCHANGED miles
  BY <1>6 DEF miles, MilesKept, Odometer, Point2
<1>7. M!Next \/ UNCHANGED miles
  BY DEF VNext
<1> QED
  BY <1>1, <1>2, <1>3, <1>4, <1>5, <1>6, <1>7 DEF M!Next

(* For every unit and threshold, whatever the operations on the file do,    *)
(* however long the gaps are and whenever the power goes: as long as the     *)
(* file holds a total, file and rest (oa_gps.c:351) miss nothing of what was *)
(* measured since it was set but what had been collected when the power      *)
(* went; and they make up exactly the remainder, and never more than a       *)
(* restart's loss of less than Update units is collected, as long as nothing *)
(* failed and no second measured more than a unit.                           *)
THEOREM MilesAreNotLost == VSpec => []MilesInv
<1>1. VInit => MilesKept
  BY MilesInit DEF VInit
<1>2. MilesKept /\ [VNext]_<<part, hvars, pins, drum, fuel, miles>> => MilesKept'
  BY MilesStep
<1> QED
  BY <1>1, <1>2, MilesMeant, PTL DEF VSpec

-----------------------------------------------------------------------------
(* The drive *)

LEMMA DriveConstants ==
  /\ Byte \in Nat \ {0} /\ ParkTime \in Nat \ {0}
  /\ CheckGpsErr \in Nat /\ ReportTime \in Nat /\ MaxSpeed \in Nat /\ SpeedDuration \in Nat
  /\ DriveTime \in Nat /\ DayDriveTime \in Nat /\ RestTime \in Nat
  /\ Speeds \subseteq Nat /\ Texted \subseteq Alarm /\ Masks \subseteq SUBSET Alarm
BY DriveAssumption

Gps ==
  [flags : SUBSET Alarm, fixed : BOOLEAN, over : BOOLEAN, alarmed : BOOLEAN,
   reports : Seq(Report), texts : SUBSET Alarm, rtc : BOOLEAN, model_cnt : 0 .. CheckGpsErr,
   os_times : 0 .. SpeedDuration, overspeed_no_area : BOOLEAN, park_times : 0 .. ParkTime,
   driver_time : 0 .. DriveTime, relax_time : 0 .. RestTime, day_drive : 0 .. Byte - 1,
   upload_times : 0 .. ReportTime]

(* What one part of a run leaves of the notes of another. *)
DaySame(v, w) ==
  /\ w.day_drive = v.day_drive /\ w.rtc = v.rtc /\ w.fixed = v.fixed
  /\ "overtime" \in w.flags <=> "overtime" \in v.flags
SpeedSame(v, w) ==
  /\ w.os_times = v.os_times /\ w.overspeed_no_area = v.overspeed_no_area
  /\ "speed" \in w.flags <=> "speed" \in v.flags
ParkSame(v, w) ==
  /\ w.park_times = v.park_times
  /\ "parking" \in w.flags <=> "parking" \in v.flags
TiredSame(v, w) ==
  /\ w.driver_time = v.driver_time /\ w.relax_time = v.relax_time
  /\ "tired" \in w.flags <=> "tired" \in v.flags

(* A report has told of an overspeed only if there was one (e), and what is *)
(* told twice in a run is a masked one (m).                                 *)
Honest(v, e, m) ==
  /\ Told(v) => e
  /\ v.over = TRUE => e /\ (Told(v) => m)

(* A report tells what is noted, once. *)
LEMMA Reported ==
  ASSUME NEW v \in Gps
  PROVE  LET w == report_location_buildbody(v)
         IN  /\ w \in Gps /\ w.over = FALSE
             /\ Told(w) <=> Told(v) \/ v.over = TRUE
             /\ w.flags = v.flags /\ w.alarmed = v.alarmed
             /\ DaySame(v, w) /\ SpeedSame(v, w) /\ ParkSame(v, w) /\ TiredSame(v, w)
<1> DEFINE r == [flags |-> v.flags, over |-> v.over]
           q == Append(v.reports, r)
           w == report_location_buildbody(v)
<1>1. w = [v EXCEPT !.reports = q, !.over = FALSE]
  BY DEF report_location_buildbody
<1>2. r \in Report /\ v.reports \in Seq(Report) /\ v.over \in BOOLEAN
  BY DEF Gps, Report
<1>3. q \in Seq(Report) /\ Len(q) = Len(v.reports) + 1 /\ q[Len(q)] = r
      /\ \A i \in 1 .. Len(v.reports) : q[i] = v.reports[i]
  BY <1>2, AppendProperties
<1>4. w \in Gps /\ w.over = FALSE /\ w.reports = q /\ w.flags = v.flags /\ w.alarmed = v.alarmed
  BY <1>1, <1>3 DEF Gps
<1>5. DaySame(v, w) /\ SpeedSame(v, w) /\ ParkSame(v, w) /\ TiredSame(v, w)
  BY <1>1 DEF Gps, DaySame, SpeedSame, ParkSame, TiredSame
<1>6. Told(w) <=> Told(v) \/ v.over = TRUE
  <2>1. DOMAIN v.reports = 1 .. Len(v.reports) /\ DOMAIN q = 1 .. Len(v.reports) + 1
        /\ Len(v.reports) \in Nat
    BY <1>2, <1>3, LenProperties
  <2>2. Told(w) <=> \E i \in 1 .. Len(v.reports) + 1 : q[i].over
    BY <1>4, <2>1 DEF Told
  <2>3. Told(v) <=> \E i \in 1 .. Len(v.reports) : v.reports[i].over
    BY <2>1 DEF Told
  <2>4. q[Len(v.reports) + 1].over = v.over
    BY <1>3
  <2> HIDE DEF q
  <2>5. (\E i \in 1 .. Len(v.reports) + 1 : q[i].over)
        <=> (\E i \in 1 .. Len(v.reports) : q[i].over) \/ q[Len(v.reports) + 1].over
    BY <2>1
  <2>6. (\E i \in 1 .. Len(v.reports) : q[i].over) <=> (\E i \in 1 .. Len(v.reports) : v.reports[i].over)
    BY <1>3 DEF q
  <2> QED
    BY <1>2, <2>2, <2>3, <2>4, <2>5, <2>6, Zenon
<1> QED
  BY <1>4, <1>5, <1>6

LEMMA ReportedHonest ==
  ASSUME NEW v \in Gps, NEW e, NEW m, Honest(v, e, m)
  PROVE  Honest(report_location_buildbody(v), e, m)
BY Reported, Zenon DEF Honest

(* An alarm that is raised sets its own flag unless it is masked. *)
LEMMA Raised ==
  ASSUME NEW v \in Gps, NEW alarm \in Alarm
  PROVE  LET w == Raise(v, alarm)
         IN  /\ w \in Gps
             /\ w.flags = IF alarm \in masked THEN v.flags ELSE v.flags \cup {alarm}
             /\ w.day_drive = v.day_drive /\ w.rtc = v.rtc /\ w.fixed = v.fixed
             /\ w.os_times = v.os_times /\ w.overspeed_no_area = v.overspeed_no_area
             /\ w.park_times = v.park_times
             /\ w.driver_time = v.driver_time /\ w.relax_time = v.relax_time
             /\ alarm \in masked => w.over = v.over /\ (Told(w) <=> Told(v))
             /\ alarm \notin masked => w.over = FALSE /\ (Told(w) <=> Told(v) \/ v.over = TRUE)
<1> DEFINE u == [v EXCEPT !.flags = v.flags \cup {alarm}]
           h == handle_alarm_status(v, alarm)
           t == handle_alarm_sms(h, alarm)
           w == Raise(v, alarm)
<1>1. u \in Gps /\ (Told(u) <=> Told(v)) /\ u.over = v.over
  BY DEF Gps, Told
<1> HIDE DEF u, h
<1>2. /\ h \in Gps
      /\ h.flags = IF alarm \in masked THEN v.flags ELSE v.flags \cup {alarm}
      /\ h.day_drive = v.day_drive /\ h.rtc = v.rtc /\ h.fixed = v.fixed
      /\ h.os_times = v.os_times /\ h.overspeed_no_area = v.overspeed_no_area
      /\ h.park_times = v.park_times
      /\ h.driver_time = v.driver_time /\ h.relax_time = v.relax_time
      /\ alarm \in masked => h.over = v.over /\ (Told(h) <=> Told(v))
      /\ alarm \notin masked => h.over = FALSE /\ (Told(h) <=> Told(v) \/ v.over = TRUE)
  <2>1. CASE alarm \in masked
    <3>1. h = v
      BY <2>1 DEF handle_alarm_status, h
    <3> QED
      BY <2>1, <3>1
  <2>2. CASE alarm \notin masked
    <3>1. h = report_location_buildbody(u)
      BY <2>2 DEF handle_alarm_status, h, u
    <3>2. /\ h \in Gps /\ h.over = FALSE /\ (Told(h) <=> Told(u) \/ u.over = TRUE)
          /\ h.flags = u.flags
          /\ DaySame(u, h) /\ SpeedSame(u, h) /\ ParkSame(u, h) /\ TiredSame(u, h)
      BY <1>1, <3>1, Reported
    <3>3. /\ u.flags = v.flags \cup {alarm}
          /\ u.day_drive = v.day_drive /\ u.rtc = v.rtc /\ u.fixed = v.fixed
          /\ u.os_times = v.os_times /\ u.overspeed_no_area = v.overspeed_no_area
          /\ u.park_times = v.park_times
          /\ u.driver_time = v.driver_time /\ u.relax_time = v.relax_time
      BY DEF Gps, u
    <3>4. Told(h) <=> Told(v) \/ v.over = TRUE
      BY <1>1, <3>2, Zenon
    <3> QED
      BY <2>2, <3>2, <3>3, <3>4 DEF DaySame, SpeedSame, ParkSame, TiredSame
  <2> QED
    BY <2>1, <2>2
<1>3. t = h \/ t = [h EXCEPT !.texts = h.texts \cup {alarm}]
  BY DEF handle_alarm_sms
<1>4. /\ t \in Gps /\ t.flags = h.flags /\ t.over = h.over /\ t.reports = h.reports
      /\ t.day_drive = h.day_drive /\ t.rtc = h.rtc /\ t.fixed = h.fixed
      /\ t.os_times = h.os_times /\ t.overspeed_no_area = h.overspeed_no_area
      /\ t.park_times = h.park_times
      /\ t.driver_time = h.driver_time /\ t.relax_time = h.relax_time
  <2>1. CASE t = h
    BY <1>2, <2>1
  <2>2. CASE t = [h EXCEPT !.texts = h.texts \cup {alarm}]
    <3>1. h.texts \cup {alarm} \in SUBSET Alarm
      BY <1>2 DEF Gps
    <3> HIDE DEF t
    <3> QED
      BY <1>2, <2>2, <3>1 DEF Gps
  <2> QED
    BY <1>3, <2>1, <2>2
<1>5. w = [t EXCEPT !.alarmed = TRUE]
  BY DEF Raise, h
<1> HIDE DEF t, w
<1>6. /\ w \in Gps /\ w.flags = h.flags /\ w.over = h.over /\ w.reports = h.reports
      /\ w.day_drive = h.day_drive /\ w.rtc = h.rtc /\ w.fixed = h.fixed
      /\ w.os_times = h.os_times /\ w.overspeed_no_area = h.overspeed_no_area
      /\ w.park_times = h.park_times
      /\ w.driver_time = h.driver_time /\ w.relax_time = h.relax_time
  BY <1>4, <1>5 DEF Gps
<1>7. Told(w) <=> Told(h)
  BY <1>6 DEF Told
<1>8. /\ alarm \in masked => w.over = v.over /\ (Told(w) <=> Told(v))
      /\ alarm \notin masked => w.over = FALSE /\ (Told(w) <=> Told(v) \/ v.over = TRUE)
  BY <1>2, <1>6, <1>7, Zenon
<1>9. /\ w \in Gps
      /\ w.flags = IF alarm \in masked THEN v.flags ELSE v.flags \cup {alarm}
      /\ w.day_drive = v.day_drive /\ w.rtc = v.rtc /\ w.fixed = v.fixed
      /\ w.os_times = v.os_times /\ w.overspeed_no_area = v.overspeed_no_area
      /\ w.park_times = v.park_times
      /\ w.driver_time = v.driver_time /\ w.relax_time = v.relax_time
  BY <1>2, <1>6
<1> QED
  BY <1>8, <1>9 DEF w

LEMMA RaisedHonest ==
  ASSUME NEW v \in Gps, NEW alarm \in Alarm, NEW e, NEW m, Honest(v, e, m)
  PROVE  Honest(Raise(v, alarm), e, m)
<1> DEFINE w == Raise(v, alarm)
<1>1. /\ alarm \in masked => w.over = v.over /\ (Told(w) <=> Told(v))
      /\ alarm \notin masked => w.over = FALSE /\ (Told(w) <=> Told(v) \/ v.over = TRUE)
  BY Raised
<1> SUFFICES Honest(w, e, m)
  OBVIOUS
<1> HIDE DEF w
<1>2. CASE alarm \in masked
  BY <1>1, <1>2, Zenon DEF Honest
<1>3. CASE alarm \notin masked
  BY <1>1, <1>3, Zenon DEF Honest
<1> QED
  BY <1>2, <1>3

LEMMA QuietHonest ==
  ASSUME NEW v, NEW w, NEW e, NEW m, Honest(v, e, m), w.over = v.over, w.reports = v.reports
  PROVE  Honest(w, e, m)
<1>1. Told(w) <=> Told(v)
  BY DEF Told
<1> QED
  BY <1>1, Zenon DEF Honest

(* What the part about fatigue does to its notes. *)
TiredAfter(v, w, speed) ==
  \/ /\ speed > 0 /\ v.driver_time + 1 <= DriveTime
     /\ w.driver_time = v.driver_time + 1 /\ w.relax_time = 0
     /\ "tired" \in w.flags <=> "tired" \in v.flags
  \/ /\ speed > 0 /\ v.driver_time + 1 > DriveTime
     /\ w.driver_time = 0 /\ w.relax_time = 0
     /\ "tired" \in v.flags \/ "tired" \notin masked => "tired" \in w.flags
  \/ /\ speed = 0 /\ v.relax_time + 1 <= RestTime
     /\ w.driver_time = v.driver_time /\ w.relax_time = v.relax_time + 1
     /\ "tired" \in w.flags <=> "tired" \in v.flags
  \/ /\ speed = 0 /\ v.relax_time + 1 > RestTime
     /\ w.driver_time = 0 /\ w.relax_time = 0 /\ "tired" \notin w.flags

LEMMA Ranges ==
  /\ 0 \in 0 .. DriveTime /\ 0 \in 0 .. RestTime /\ 0 \in 0 .. SpeedDuration /\ 0 \in 0 .. ParkTime
  /\ 0 \in 0 .. Byte - 1 /\ 0 \in 0 .. CheckGpsErr /\ 0 \in 0 .. ReportTime
  /\ \A v \in Gps :
       /\ v.driver_time \in Nat /\ v.relax_time \in Nat /\ v.os_times \in Nat /\ v.park_times \in Nat
       /\ v.day_drive \in Nat /\ v.upload_times \in Nat /\ v.model_cnt \in Nat
BY DriveConstants DEF Gps

LEMMA FatigueDone ==
  ASSUME NEW v \in Gps, NEW speed \in Nat, NEW e, NEW m, Honest(v, e, m)
  PROVE  LET w == Fatigue(v, speed)
         IN  /\ w \in Gps /\ Honest(w, e, m)
             /\ DaySame(v, w) /\ SpeedSame(v, w) /\ ParkSame(v, w) /\ TiredAfter(v, w, speed)
<1> DEFINE w == Fatigue(v, speed)
<1> SUFFICES /\ w \in Gps /\ Honest(w, e, m)
             /\ DaySame(v, w) /\ SpeedSame(v, w) /\ ParkSame(v, w) /\ TiredAfter(v, w, speed)
  OBVIOUS
<1>0. v.driver_time \in Nat /\ v.relax_time \in Nat /\ DriveTime \in Nat /\ RestTime \in Nat
  BY Ranges, DriveConstants
<1>1. CASE speed > 0 /\ v.driver_time + 1 <= DriveTime
  <2>0. v.driver_time + 1 \in 0 .. DriveTime
    BY <1>0, <1>1
  <2>1. w = [v EXCEPT !.driver_time = v.driver_time + 1, !.relax_time = 0]
    BY <1>1 DEF Fatigue
  <2> HIDE DEF w
  <2>2. w \in Gps /\ w.over = v.over /\ w.reports = v.reports
    BY <2>0, <2>1, Ranges DEF Gps
  <2>3. DaySame(v, w) /\ SpeedSame(v, w) /\ ParkSame(v, w) /\ TiredAfter(v, w, speed)
    BY <1>1, <2>1 DEF Gps, DaySame, SpeedSame, ParkSame, TiredAfter
  <2> QED
    BY <2>2, <2>3, QuietHonest
<1>2. CASE speed > 0 /\ ~ (v.driver_time + 1 <= DriveTime) /\ "tired" \in v.flags
  <2>1. w = [v EXCEPT !.driver_time = 0, !.relax_time = 0]
    BY <1>2 DEF Fatigue
  <2> HIDE DEF w
  <2>2. w \in Gps /\ w.over = v.over /\ w.reports = v.reports
    BY <2>1, Ranges DEF Gps
  <2>3. DaySame(v, w) /\ SpeedSame(v, w) /\ ParkSame(v, w) /\ TiredAfter(v, w, speed)
    BY <1>0, <1>2, <2>1 DEF Gps, DaySame, SpeedSame, ParkSame, TiredAfter
  <2> QED
    BY <2>2, <2>3, QuietHonest
<1>3. CASE speed > 0 /\ ~ (v.driver_time + 1 <= DriveTime) /\ "tired" \notin v.flags
  <2> DEFINE u == [v EXCEPT !.driver_time = 0, !.relax_time = 0]
  <2>1. w = Raise(u, "tired")
    BY <1>3 DEF Fatigue
  <2>2. u \in Gps /\ u.over = v.over /\ u.reports = v.reports /\ u.flags = v.flags
    BY Ranges DEF Gps
  <2>3. /\ u.day_drive = v.day_drive /\ u.rtc = v.rtc /\ u.fixed = v.fixed
        /\ u.os_times = v.os_times /\ u.overspeed_no_area = v.overspeed_no_area
        /\ u.park_times = v.park_times /\ u.driver_time = 0 /\ u.relax_time = 0
    BY DEF Gps
  <2> HIDE DEF u, w
  <2>4. "tired" \in Alarm
    BY DEF Alarm
  <2>5. Honest(w, e, m)
    BY <2>1, <2>2, <2>4, QuietHonest, RaisedHonest
  <2>6. /\ w \in Gps
        /\ w.flags = IF "tired" \in masked THEN u.flags ELSE u.flags \cup {"tired"}
        /\ w.day_drive = u.day_drive /\ w.rtc = u.rtc /\ w.fixed = u.fixed
        /\ w.os_times = u.os_times /\ w.overspeed_no_area = u.overspeed_no_area
        /\ w.park_times = u.park_times
        /\ w.driver_time = u.driver_time /\ w.relax_time = u.relax_time
    BY <2>1, <2>2, <2>4, Raised
  <2>7. TiredAfter(v, w, speed)
    BY <1>0, <1>3, <2>2, <2>3, <2>6 DEF TiredAfter
  <2> QED
    BY <2>2, <2>3, <2>5, <2>6, <2>7 DEF DaySame, SpeedSame, ParkSame
<1>4. CASE ~ (speed > 0) /\ v.relax_time + 1 <= RestTime
  <2>0. v.relax_time + 1 \in 0 .. RestTime
    BY <1>0, <1>4
  <2>1. w = [v EXCEPT !.relax_time = v.relax_time + 1]
    BY <1>4 DEF Fatigue
  <2> HIDE DEF w
  <2>2. w \in Gps /\ w.over = v.over /\ w.reports = v.reports
    BY <2>0, <2>1, Ranges DEF Gps
  <2>3. DaySame(v, w) /\ SpeedSame(v, w) /\ ParkSame(v, w) /\ TiredAfter(v, w, speed)
    BY <1>4, <2>1 DEF Gps, DaySame, SpeedSame, ParkSame, TiredAfter
  <2> QED
    BY <2>2, <2>3, QuietHonest
<1>5. CASE ~ (speed > 0) /\ ~ (v.relax_time + 1 <= RestTime)
  <2>1. w = [v EXCEPT !.flags = v.flags \ {"tired"}, !.relax_time = 0, !.driver_time = 0]
    BY <1>5 DEF Fatigue, Cancel, Gps
  <2>2. v.flags \ {"tired"} \in SUBSET Alarm
    BY DEF Gps
  <2> HIDE DEF w
  <2>3. w \in Gps /\ w.over = v.over /\ w.reports = v.reports
    BY <2>1, <2>2, Ranges DEF Gps
  <2>4. DaySame(v, w) /\ SpeedSame(v, w) /\ ParkSame(v, w) /\ TiredAfter(v, w, speed)
    BY <1>0, <1>5, <2>1 DEF Gps, DaySame, SpeedSame, ParkSame, TiredAfter
  <2> QED
    BY <2>3, <2>4, QuietHonest
<1> QED
  BY <1>1, <1>2, <1>3, <1>4, <1>5

(* The same for the part about parking. *)
ParkAfter(v, w, speed) ==
  \/ speed > 0 /\ w.park_times = 0 /\ "parking" \notin w.flags
  \/ /\ speed = 0 /\ v.park_times + 1 < ParkTime
     /\ w.park_times = v.park_times + 1
     /\ "parking" \in w.flags <=> "parking" \in v.flags
  \/ /\ speed = 0 /\ v.park_times + 1 >= ParkTime /\ w.park_times = 0
     /\ "parking" \in v.flags \/ "parking" \notin masked => "parking" \in w.flags

LEMMA ParkingDone ==
  ASSUME NEW v \in Gps, NEW speed \in Nat, NEW e, NEW m, Honest(v, e, m)
  PROVE  LET w == Parking(v, speed)
         IN  /\ w \in Gps /\ Honest(w, e, m)
             /\ DaySame(v, w) /\ SpeedSame(v, w) /\ TiredSame(v, w) /\ ParkAfter(v, w, speed)
<1> DEFINE w == Parking(v, speed)
<1> SUFFICES /\ w \in Gps /\ Honest(w, e, m)
             /\ DaySame(v, w) /\ SpeedSame(v, w) /\ TiredSame(v, w) /\ ParkAfter(v, w, speed)
  OBVIOUS
<1>0. v.park_times \in Nat /\ ParkTime \in Nat
  BY Ranges, DriveConstants
<1>1. CASE speed > 0
  <2>1. w = [v EXCEPT !.flags = v.flags \ {"parking"}, !.park_times = 0]
    BY <1>1 DEF Parking, Cancel, Gps
  <2>2. v.flags \ {"parking"} \in SUBSET Alarm
    BY DEF Gps
  <2> HIDE DEF w
  <2>3. w \in Gps /\ w.over = v.over /\ w.reports = v.reports
    BY <2>1, <2>2, Ranges DEF Gps
  <2>4. DaySame(v, w) /\ SpeedSame(v, w) /\ TiredSame(v, w) /\ ParkAfter(v, w, speed)
    BY <1>0, <1>1, <2>1 DEF Gps, DaySame, SpeedSame, TiredSame, ParkAfter
  <2> QED
    BY <2>3, <2>4, QuietHonest
<1>2. CASE ~ (speed > 0) /\ v.park_times + 1 < ParkTime
  <2>0. v.park_times + 1 \in 0 .. ParkTime
    BY <1>0, <1>2
  <2>1. w = [v EXCEPT !.park_times = v.park_times + 1]
    BY <1>2 DEF Parking
  <2> HIDE DEF w
  <2>2. w \in Gps /\ w.over = v.over /\ w.reports = v.reports
    BY <2>0, <2>1 DEF Gps
  <2>3. DaySame(v, w) /\ SpeedSame(v, w) /\ TiredSame(v, w) /\ ParkAfter(v, w, speed)
    BY <1>0, <1>2, <2>1 DEF Gps, DaySame, SpeedSame, TiredSame, ParkAfter
  <2> QED
    BY <2>2, <2>3, QuietHonest
<1> DEFINE u == [v EXCEPT !.park_times = 0]
<1>3. /\ u \in Gps /\ u.over = v.over /\ u.reports = v.reports /\ u.flags = v.flags
      /\ u.day_drive = v.day_drive /\ u.rtc = v.rtc /\ u.fixed = v.fixed
      /\ u.os_times = v.os_times /\ u.overspeed_no_area = v.overspeed_no_area
      /\ u.park_times = 0 /\ u.driver_time = v.driver_time /\ u.relax_time = v.relax_time
  BY Ranges DEF Gps
<1>4. CASE ~ (speed > 0) /\ ~ (v.park_times + 1 < ParkTime) /\ "parking" \in v.flags
  <2>1. w = u
    BY <1>4 DEF Parking
  <2> HIDE DEF w, u
  <2>2. DaySame(v, w) /\ SpeedSame(v, w) /\ TiredSame(v, w) /\ ParkAfter(v, w, speed)
    BY <1>0, <1>3, <1>4, <2>1 DEF DaySame, SpeedSame, TiredSame, ParkAfter
  <2> QED
    BY <1>3, <2>1, <2>2, QuietHonest
<1>5. CASE ~ (speed > 0) /\ ~ (v.park_times + 1 < ParkTime) /\ "parking" \notin v.flags
  <2>1. w = Raise(u, "parking")
    BY <1>5 DEF Parking
  <2> HIDE DEF u, w
  <2>2. "parking" \in Alarm
    BY DEF Alarm
  <2>3. Honest(w, e, m)
    BY <1>3, <2>1, <2>2, QuietHonest, RaisedHonest
  <2>4. /\ w \in Gps
        /\ w.flags = IF "parking" \in masked THEN u.flags ELSE u.flags \cup {"parking"}
        /\ w.day_drive = u.day_drive /\ w.rtc = u.rtc /\ w.fixed = u.fixed
        /\ w.os_times = u.os_times /\ w.overspeed_no_area = u.overspeed_no_area
        /\ w.park_times = u.park_times
        /\ w.driver_time = u.driver_time /\ w.relax_time = u.relax_time
    BY <1>3, <2>1, <2>2, Raised
  <2>5. ParkAfter(v, w, speed)
    BY <1>0, <1>3, <1>5, <2>4 DEF ParkAfter
  <2> QED
    BY <1>3, <2>3, <2>4, <2>5 DEF DaySame, SpeedSame, TiredSame
<1> QED
  BY <1>1, <1>2, <1>4, <1>5

(* The same for the part about the speed. *)
SpeedAfter(v, w, speed) ==
  \/ /\ speed > MaxSpeed /\ v.os_times + 1 <= SpeedDuration
     /\ w.os_times = v.os_times + 1 /\ w.overspeed_no_area = v.overspeed_no_area
     /\ "speed" \in w.flags <=> "speed" \in v.flags
  \/ /\ speed > MaxSpeed /\ v.os_times + 1 > SpeedDuration /\ w.os_times = 0
     /\ w.overspeed_no_area = TRUE \/ (w.overspeed_no_area = v.overspeed_no_area /\ "speed" \in v.flags)
     /\ "speed" \in v.flags \/ "speed" \notin masked => "speed" \in w.flags
  \/ /\ ~ (speed > MaxSpeed) /\ w.os_times = 0
     /\ \/ "speed" \notin w.flags
        \/ v.overspeed_no_area # TRUE /\ "speed" \in v.flags

LEMMA OverspeedDone ==
  ASSUME NEW v \in Gps, NEW speed \in Nat, NEW e, NEW m, Honest(v, e, m),
         speed > MaxSpeed /\ v.os_times + 1 > SpeedDuration => e /\ ("speed" \in masked => m)
  PROVE  LET w == Overspeed(v, speed)
         IN  /\ w \in Gps /\ Honest(w, e, m)
             /\ DaySame(v, w) /\ ParkSame(v, w) /\ TiredSame(v, w) /\ SpeedAfter(v, w, speed)
<1> DEFINE w == Overspeed(v, speed)
<1> SUFFICES /\ w \in Gps /\ Honest(w, e, m)
             /\ DaySame(v, w) /\ ParkSame(v, w) /\ TiredSame(v, w) /\ SpeedAfter(v, w, speed)
  OBVIOUS
<1>0. v.os_times \in Nat /\ SpeedDuration \in Nat /\ MaxSpeed \in Nat
  BY Ranges, DriveConstants
<1>1. CASE speed > MaxSpeed /\ v.os_times + 1 <= SpeedDuration
  <2>0. v.os_times + 1 \in 0 .. SpeedDuration
    BY <1>0, <1>1
  <2>1. w = [v EXCEPT !.os_times = v.os_times + 1]
    BY <1>1 DEF Overspeed
  <2> HIDE DEF w
  <2>2. w \in Gps /\ w.over = v.over /\ w.reports = v.reports
    BY <2>0, <2>1 DEF Gps
  <2>3. DaySame(v, w) /\ ParkSame(v, w) /\ TiredSame(v, w) /\ SpeedAfter(v, w, speed)
    BY <1>0, <1>1, <2>1 DEF Gps, DaySame, ParkSame, TiredSame, SpeedAfter
  <2> QED
    BY <2>2, <2>3, QuietHonest
<1>2. CASE \/ speed > MaxSpeed /\ ~ (v.os_times + 1 <= SpeedDuration) /\ "speed" \in v.flags
           \/ ~ (speed > MaxSpeed) /\ ~ ("speed" \in v.flags /\ v.overspeed_no_area)
  <2>1. w = [v EXCEPT !.os_times = 0]
    BY <1>2 DEF Overspeed
  <2> HIDE DEF w
  <2>2. /\ w \in Gps /\ w.over = v.over /\ w.reports = v.reports /\ w.flags = v.flags
        /\ w.overspeed_no_area = v.overspeed_no_area /\ w.os_times = 0
        /\ v.overspeed_no_area \in BOOLEAN
    BY <2>1, Ranges DEF Gps
  <2>3. DaySame(v, w) /\ ParkSame(v, w) /\ TiredSame(v, w)
    BY <2>1 DEF Gps, DaySame, ParkSame, TiredSame
  <2>4. SpeedAfter(v, w, speed)
    <3>1. CASE speed > MaxSpeed /\ ~ (v.os_times + 1 <= SpeedDuration) /\ "speed" \in v.flags
      <4>1. v.os_times + 1 > SpeedDuration
        BY <1>0, <3>1
      <4> QED
        BY <2>2, <3>1, <4>1, Zenon DEF SpeedAfter
    <3>2. CASE ~ (speed > MaxSpeed) /\ ~ ("speed" \in v.flags /\ v.overspeed_no_area)
      <4>1. "speed" \notin v.flags \/ v.overspeed_no_area # TRUE
        BY <3>2, Zenon
      <4> QED
        BY <2>2, <3>2, <4>1 DEF SpeedAfter
    <3> QED
      BY <1>2, <3>1, <3>2
  <2> QED
    BY <2>2, <2>3, <2>4, QuietHonest
<1>3. CASE speed > MaxSpeed /\ ~ (v.os_times + 1 <= SpeedDuration) /\ "speed" \notin v.flags
  <2> DEFINE u == [v EXCEPT !.os_times = 0, !.over = TRUE, !.overspeed_no_area = TRUE]
  <2>1. w = Raise(u, "speed")
    BY <1>3 DEF Overspeed
  <2>2. /\ u \in Gps /\ u.over = TRUE /\ u.reports = v.reports /\ u.flags = v.flags
        /\ u.day_drive = v.day_drive /\ u.rtc = v.rtc /\ u.fixed = v.fixed
        /\ u.os_times = 0 /\ u.overspeed_no_area = TRUE
        /\ u.park_times = v.park_times /\ u.driver_time = v.driver_time /\ u.relax_time = v.relax_time
    BY Ranges DEF Gps
  <2>3. e /\ ("speed" \in masked => m)
    BY <1>0, <1>3
  <2> HIDE DEF u, w
  <2>4. "speed" \in Alarm
    BY DEF Alarm
  <2>5. /\ w \in Gps
        /\ w.flags = IF "speed" \in masked THEN u.flags ELSE u.flags \cup {"speed"}
        /\ w.day_drive = u.day_drive /\ w.rtc = u.rtc /\ w.fixed = u.fixed
        /\ w.os_times = u.os_times /\ w.overspeed_no_area = u.overspeed_no_area
        /\ w.park_times = u.park_times
        /\ w.driver_time = u.driver_time /\ w.relax_time = u.relax_time
    BY <2>1, <2>2, <2>4, Raised
  <2>6. Honest(w, e, m)
    <3>1. Told(u) <=> Told(v)
      BY <2>2 DEF Told
    <3>2. CASE "speed" \in masked
      BY <2>3, <3>2, Zenon DEF Honest
    <3>3. CASE "speed" \notin masked
      <4>1. w.over = FALSE
        BY <2>1, <2>2, <2>4, <3>3, Raised
      <4> QED
        BY <2>3, <4>1, Zenon DEF Honest
    <3> QED
      BY <3>2, <3>3
  <2>7. SpeedAfter(v, w, speed)
    <3>1. v.os_times + 1 > SpeedDuration
      BY <1>0, <1>3
    <3>2. w.os_times = 0 /\ w.overspeed_no_area = TRUE
      BY <2>2, <2>5
    <3>3. "speed" \in v.flags \/ "speed" \notin masked => "speed" \in w.flags
      BY <1>3, <2>5
    <3>4. speed > MaxSpeed
      BY <1>3
    <3> QED
      BY <3>1, <3>2, <3>3, <3>4 DEF SpeedAfter
  <2> QED
    BY <2>2, <2>5, <2>6, <2>7 DEF DaySame, ParkSame, TiredSame
<1>4. CASE ~ (speed > MaxSpeed) /\ "speed" \in v.flags /\ v.overspeed_no_area
  <2>1. w = [v EXCEPT !.flags = v.flags \ {"speed"}, !.os_times = 0, !.overspeed_no_area = FALSE]
    BY <1>4 DEF Overspeed, Cancel, Gps
  <2>2. v.flags \ {"speed"} \in SUBSET Alarm
    BY DEF Gps
  <2> HIDE DEF w
  <2>3. w \in Gps /\ w.over = v.over /\ w.reports = v.reports /\ w.os_times = 0
        /\ "speed" \notin w.flags
    BY <2>1, <2>2, Ranges DEF Gps
  <2>4. DaySame(v, w) /\ ParkSame(v, w) /\ TiredSame(v, w)
    BY <2>1 DEF Gps, DaySame, ParkSame, TiredSame
  <2>5. SpeedAfter(v, w, speed)
    BY <1>4, <2>3 DEF SpeedAfter
  <2> QED
    BY <2>3, <2>4, <2>5, QuietHonest
<1> QED
  BY <1>1, <1>2, <1>3, <1>4

(* The first position of a time sets the clock, so a position has one. *)
LEMMA LocatedDone ==
  ASSUME NEW v \in Gps, v.fixed = TRUE => v.rtc = TRUE, NEW e, NEW m, Honest(v, e, m)
  PROVE  LET w == Located(v)
         IN  /\ w \in Gps /\ Honest(w, e, m)
             /\ w.day_drive = v.day_drive /\ w.rtc = TRUE
             /\ "overtime" \in w.flags <=> "overtime" \in v.flags
             /\ SpeedSame(v, w) /\ ParkSame(v, w) /\ TiredSame(v, w)
<1> DEFINE w == Located(v)
<1> SUFFICES /\ w \in Gps /\ Honest(w, e, m)
             /\ w.day_drive = v.day_drive /\ w.rtc = TRUE
             /\ "overtime" \in w.flags <=> "overtime" \in v.flags
             /\ SpeedSame(v, w) /\ ParkSame(v, w) /\ TiredSame(v, w)
  OBVIOUS
<1>1. CASE v.fixed = TRUE
  <2>1. w = v
    BY <1>1 DEF Located
  <2> HIDE DEF w
  <2> QED
    BY <1>1, <2>1 DEF SpeedSame, ParkSame, TiredSame
<1>2. CASE v.fixed = FALSE
  <2> DEFINE u == [v EXCEPT !.fixed = TRUE]
             r == report_location_buildbody(u)
  <2>1. w = [r EXCEPT !.alarmed = TRUE, !.rtc = TRUE]
    BY <1>2 DEF Located
  <2>2. /\ u \in Gps /\ u.over = v.over /\ u.reports = v.reports /\ u.day_drive = v.day_drive
        /\ u.flags = v.flags
        /\ SpeedSame(v, u) /\ ParkSame(v, u) /\ TiredSame(v, u)
    BY DEF Gps, SpeedSame, ParkSame, TiredSame
  <2> HIDE DEF u, w
  <2>3. Honest(r, e, m)
    BY <2>2, QuietHonest, ReportedHonest
  <2>4. /\ r \in Gps /\ r.flags = u.flags
        /\ DaySame(u, r) /\ SpeedSame(u, r) /\ ParkSame(u, r) /\ TiredSame(u, r)
    BY <2>2, Reported
  <2> HIDE DEF r
  <2>5. /\ w \in Gps /\ w.over = r.over /\ w.reports = r.reports /\ w.rtc = TRUE
        /\ w.flags = r.flags /\ w.day_drive = r.day_drive
        /\ SpeedSame(r, w) /\ ParkSame(r, w) /\ TiredSame(r, w)
    BY <2>1, <2>4 DEF Gps, SpeedSame, ParkSame, TiredSame
  <2>6. Honest(w, e, m)
    BY <2>3, <2>5, QuietHonest
  <2> QED
    BY <2>2, <2>4, <2>5, <2>6 DEF DaySame, SpeedSame, ParkSame, TiredSame
<1> QED
  BY <1>1, <1>2 DEF Gps

(* The same for the part about the day. *)
DayAfter(v, w, speed, midnight) ==
  LET driven == IF speed > 0 THEN (v.day_drive + 1) % Byte ELSE v.day_drive
  IN  \/ midnight = TRUE /\ w.day_drive = 0 /\ "overtime" \notin w.flags
      \/ /\ midnight = FALSE /\ driven < DayDriveTime /\ w.day_drive = driven
         /\ "overtime" \in w.flags <=> "overtime" \in v.flags
      \/ /\ midnight = FALSE /\ driven >= DayDriveTime /\ w.day_drive = 0
         /\ "overtime" \in v.flags /\ "overtime" \in w.flags
      \/ /\ midnight = FALSE /\ driven >= DayDriveTime /\ w.day_drive = driven
         /\ "overtime" \in w.flags <=> "overtime" \notin masked

LEMMA DayDriveDone ==
  ASSUME NEW v \in Gps, v.rtc = TRUE, NEW speed \in Nat, NEW midnight \in BOOLEAN,
         NEW e, NEW m, Honest(v, e, m)
  PROVE  LET w == DayDrive(v, speed, midnight)
         IN  /\ w \in Gps /\ Honest(w, e, m) /\ w.rtc = TRUE
             /\ SpeedSame(v, w) /\ ParkSame(v, w) /\ TiredSame(v, w)
             /\ DayAfter(v, w, speed, midnight)
<1> DEFINE w == DayDrive(v, speed, midnight)
           driven == IF speed > 0 THEN (v.day_drive + 1) % Byte ELSE v.day_drive
<1> SUFFICES /\ w \in Gps /\ Honest(w, e, m) /\ w.rtc = TRUE
             /\ SpeedSame(v, w) /\ ParkSame(v, w) /\ TiredSame(v, w)
             /\ DayAfter(v, w, speed, midnight)
  OBVIOUS
<1>0. driven \in 0 .. Byte - 1 /\ driven \in Nat /\ DayDriveTime \in Nat
  <2> DEFINE before == v.day_drive
  <2>1. before \in 0 .. Byte - 1 /\ Byte \in Nat \ {0} /\ DayDriveTime \in Nat
    BY DriveConstants DEF Gps
  <2> HIDE DEF before
  <2>2. (before + 1) % Byte \in 0 .. Byte - 1
    BY <2>1
  <2>3. driven = (before + 1) % Byte \/ driven = before
    BY DEF before
  <2> HIDE DEF driven
  <2> QED
    BY <2>1, <2>2, <2>3
<1>d. DayDrive(v, speed, midnight) =
        IF midnight THEN [Cancel(v, "overtime") EXCEPT !.day_drive = 0]
        ELSE IF driven < DayDriveTime THEN [v EXCEPT !.day_drive = driven]
        ELSE IF "overtime" \in v.flags THEN [v EXCEPT !.day_drive = 0]
        ELSE Raise([v EXCEPT !.day_drive = driven], "overtime")
  BY DEF DayDrive
<1>a. DayAfter(v, w, speed, midnight) <=>
      \/ midnight = TRUE /\ w.day_drive = 0 /\ "overtime" \notin w.flags
      \/ /\ midnight = FALSE /\ driven < DayDriveTime /\ w.day_drive = driven
         /\ "overtime" \in w.flags <=> "overtime" \in v.flags
      \/ /\ midnight = FALSE /\ driven >= DayDriveTime /\ w.day_drive = 0
         /\ "overtime" \in v.flags /\ "overtime" \in w.flags
      \/ /\ midnight = FALSE /\ driven >= DayDriveTime /\ w.day_drive = driven
         /\ "overtime" \in w.flags <=> "overtime" \notin masked
  BY DEF DayAfter
<1> HIDE DEF w, driven
<1>1. CASE midnight = TRUE
  <2>1. w = [v EXCEPT !.flags = v.flags \ {"overtime"}, !.day_drive = 0]
    BY <1>1, <1>d DEF Cancel, Gps, w
  <2>2. v.flags \ {"overtime"} \in SUBSET Alarm
    BY DEF Gps
  <2>3. /\ w \in Gps /\ w.over = v.over /\ w.reports = v.reports /\ w.rtc = v.rtc
        /\ w.day_drive = 0 /\ "overtime" \notin w.flags
    BY <2>1, <2>2, Ranges DEF Gps
  <2>4. SpeedSame(v, w) /\ ParkSame(v, w) /\ TiredSame(v, w)
    BY <2>1 DEF Gps, SpeedSame, ParkSame, TiredSame
  <2> QED
    BY <1>1, <1>a, <2>3, <2>4, QuietHonest
<1>2. CASE midnight = FALSE /\ driven < DayDriveTime
  <2>1. w = [v EXCEPT !.day_drive = driven]
    BY <1>2, <1>d DEF w
  <2>2. /\ w \in Gps /\ w.over = v.over /\ w.reports = v.reports /\ w.rtc = v.rtc
        /\ w.day_drive = driven /\ w.flags = v.flags
    BY <1>0, <2>1 DEF Gps
  <2>3. SpeedSame(v, w) /\ ParkSame(v, w) /\ TiredSame(v, w)
    BY <2>1 DEF Gps, SpeedSame, ParkSame, TiredSame
  <2> QED
    BY <1>2, <1>a, <2>2, <2>3, QuietHonest
<1>3. CASE midnight = FALSE /\ ~ (driven < DayDriveTime) /\ "overtime" \in v.flags
  <2>1. w = [v EXCEPT !.day_drive = 0]
    BY <1>3, <1>d DEF w
  <2>2. /\ w \in Gps /\ w.over = v.over /\ w.reports = v.reports /\ w.rtc = v.rtc
        /\ w.day_drive = 0 /\ w.flags = v.flags
    BY <2>1, Ranges DEF Gps
  <2>3. SpeedSame(v, w) /\ ParkSame(v, w) /\ TiredSame(v, w)
    BY <2>1 DEF Gps, SpeedSame, ParkSame, TiredSame
  <2>4. driven >= DayDriveTime
    BY <1>0, <1>3
  <2> QED
    BY <1>3, <1>a, <2>2, <2>3, <2>4, QuietHonest
<1>4. CASE midnight = FALSE /\ ~ (driven < DayDriveTime) /\ "overtime" \notin v.flags
  <2> DEFINE u == [v EXCEPT !.day_drive = driven]
  <2>1. w = Raise(u, "overtime")
    BY <1>4, <1>d DEF w
  <2>2. /\ u \in Gps /\ u.over = v.over /\ u.reports = v.reports /\ u.flags = v.flags
        /\ u.day_drive = driven /\ u.rtc = v.rtc
        /\ u.os_times = v.os_times /\ u.overspeed_no_area = v.overspeed_no_area
        /\ u.park_times = v.park_times /\ u.driver_time = v.driver_time /\ u.relax_time = v.relax_time
    BY <1>0 DEF Gps
  <2> HIDE DEF u
  <2>3. "overtime" \in Alarm
    BY DEF Alarm
  <2>4. Honest(w, e, m)
    BY <2>1, <2>2, <2>3, QuietHonest, RaisedHonest
  <2>5. /\ w \in Gps
        /\ w.flags = IF "overtime" \in masked THEN u.flags ELSE u.flags \cup {"overtime"}
        /\ w.day_drive = u.day_drive /\ w.rtc = u.rtc
        /\ w.os_times = u.os_times /\ w.overspeed_no_area = u.overspeed_no_area
        /\ w.park_times = u.park_times
        /\ w.driver_time = u.driver_time /\ w.relax_time = u.relax_time
    <3>1. u \in Gps
      BY <2>2
    <3> QED
      BY <2>1, <2>3, <3>1, Raised
  <2>6. driven >= DayDriveTime
    BY <1>0, <1>4
  <2>7. DayAfter(v, w, speed, midnight)
    BY <1>4, <1>a, <2>2, <2>5, <2>6
  <2> QED
    BY <2>2, <2>4, <2>5, <2>7 DEF SpeedSame, ParkSame, TiredSame
<1> QED
  BY <1>1, <1>2, <1>3, <1>4

LEMMA PeriodicDone ==
  ASSUME NEW v \in Gps, NEW e, NEW m, Honest(v, e, m)
  PROVE  LET w == Periodic(v)
         IN  /\ w \in Gps /\ Honest(w, e, m)
             /\ DaySame(v, w) /\ SpeedSame(v, w) /\ ParkSame(v, w) /\ TiredSame(v, w)
<1> DEFINE w == Periodic(v)
           u == [v EXCEPT !.over = FALSE]
           r == report_location_buildbody(u)
<1> SUFFICES /\ w \in Gps /\ Honest(w, e, m)
             /\ DaySame(v, w) /\ SpeedSame(v, w) /\ ParkSame(v, w) /\ TiredSame(v, w)
  OBVIOUS
<1>1. w = v \/ w = [r EXCEPT !.upload_times = 0]
  BY DEF Periodic
<1> HIDE DEF w
<1>2. CASE w = v
  BY <1>2 DEF DaySame, SpeedSame, ParkSame, TiredSame
<1>3. CASE w = [r EXCEPT !.upload_times = 0]
  <2>1. /\ u \in Gps /\ u.over = FALSE /\ u.reports = v.reports
        /\ DaySame(v, u) /\ SpeedSame(v, u) /\ ParkSame(v, u) /\ TiredSame(v, u)
    BY DEF Gps, DaySame, SpeedSame, ParkSame, TiredSame
  <2> HIDE DEF u
  <2>2. Honest(u, e, m)
    <3>1. Told(u) <=> Told(v)
      BY <2>1 DEF Told
    <3> QED
      BY <2>1, <3>1, Zenon DEF Honest
  <2>3. /\ r \in Gps /\ DaySame(u, r) /\ SpeedSame(u, r) /\ ParkSame(u, r) /\ TiredSame(u, r)
    BY <2>1, Reported
  <2>4. Honest(r, e, m)
    BY <2>1, <2>2, ReportedHonest
  <2> HIDE DEF r
  <2>5. /\ w \in Gps /\ w.over = r.over /\ w.reports = r.reports
        /\ DaySame(r, w) /\ SpeedSame(r, w) /\ ParkSame(r, w) /\ TiredSame(r, w)
    BY <1>3, <2>3, Ranges DEF Gps, DaySame, SpeedSame, ParkSame, TiredSame
  <2>6. Honest(w, e, m)
    BY <2>4, <2>5, QuietHonest
  <2> QED
    BY <2>1, <2>3, <2>5, <2>6 DEF DaySame, SpeedSame, ParkSame, TiredSame
<1> QED
  BY <1>1, <1>2, <1>3

(* A run begins with nothing told, and leaves the notes as they were. *)
Same(v, w) == DaySame(v, w) /\ SpeedSame(v, w) /\ ParkSame(v, w) /\ TiredSame(v, w)

LEMMA RunBegins ==
  ASSUME gps \in Gps
  PROVE  /\ Run \in Gps /\ ~ Told(Run) /\ Run.over = gps.over /\ Same(gps, Run)
         /\ Heard \in Gps /\ ~ Told(Heard) /\ Heard.over = gps.over /\ Same(gps, Heard)
<1> DEFINE n == IF gps.upload_times < ReportTime THEN gps.upload_times + 1 ELSE gps.upload_times
<1>1. n \in 0 .. ReportTime
  <2>1. gps.upload_times \in 0 .. ReportTime /\ ReportTime \in Nat
    BY DriveConstants DEF Gps
  <2> QED
    BY <2>1
<1>2. Run = [gps EXCEPT !.alarmed = FALSE, !.reports = <<>>, !.texts = {}, !.upload_times = n]
  BY DEF Run
<1> HIDE DEF n
<1>3. <<>> \in Seq(Report) /\ {} \in SUBSET Alarm
  OBVIOUS
<1>4. Run \in Gps /\ Run.over = gps.over /\ Run.reports = <<>> /\ Run.flags = gps.flags
  BY <1>1, <1>2, <1>3 DEF Gps
<1>5. Same(gps, Run)
  BY <1>2 DEF Gps, Same, DaySame, SpeedSame, ParkSame, TiredSame
<1>6. Heard = [Run EXCEPT !.flags = Run.flags \ {"gnss"}, !.model_cnt = 0]
  BY <1>4 DEF Heard, Cancel, Gps
<1>7. Run.flags \ {"gnss"} \in SUBSET Alarm
  BY <1>4 DEF Gps
<1>8. Heard \in Gps /\ Heard.over = Run.over /\ Heard.reports = <<>>
  BY <1>4, <1>6, <1>7, Ranges DEF Gps
<1>9. Same(Run, Heard)
  BY <1>4, <1>6 DEF Gps, Same, DaySame, SpeedSame, ParkSame, TiredSame
<1>10. ~ Told(Run) /\ ~ Told(Heard)
  BY <1>4, <1>8 DEF Told
<1> QED
  BY <1>4, <1>5, <1>8, <1>9, <1>10 DEF Same, DaySame, SpeedSame, ParkSame, TiredSame

(* The run with a position, part after part. *)
LEMMA PositionDone ==
  ASSUME gps \in Gps, gps.fixed = TRUE => gps.rtc = TRUE,
         NEW speed \in Nat, NEW midnight \in BOOLEAN, Position(speed, midnight),
         NEW e, NEW m, gps.over = TRUE => e,
         speed > MaxSpeed /\ gps.os_times + 1 > SpeedDuration => e /\ ("speed" \in masked => m)
  PROVE  /\ gps' \in Gps /\ gps'.rtc = TRUE /\ Honest(gps', e, m)
         /\ DayAfter(gps, gps', speed, midnight) /\ SpeedAfter(gps, gps', speed)
         /\ ParkAfter(gps, gps', speed) /\ TiredAfter(gps, gps', speed)
<1> DEFINE v1 == Located(Heard)
           v2 == DayDrive(v1, speed, midnight)
           v3 == Overspeed(v2, speed)
           v4 == Parking(v3, speed)
           v5 == Fatigue(v4, speed)
           v6 == Periodic(v5)
<1>0. gps' = v6
  BY DEF Position
<1>1. Heard \in Gps /\ Same(gps, Heard) /\ (Heard.fixed = TRUE => Heard.rtc = TRUE)
      /\ Honest(Heard, e, m)
  <2>1. Heard \in Gps /\ ~ Told(Heard) /\ Heard.over = gps.over /\ Same(gps, Heard)
    BY RunBegins
  <2>2. Honest(Heard, e, m)
    BY <2>1, Zenon DEF Honest
  <2> QED
    BY <2>1, <2>2 DEF Same, DaySame
<1>2. /\ v1 \in Gps /\ Honest(v1, e, m) /\ v1.day_drive = Heard.day_drive /\ v1.rtc = TRUE
      /\ "overtime" \in v1.flags <=> "overtime" \in Heard.flags
      /\ SpeedSame(Heard, v1) /\ ParkSame(Heard, v1) /\ TiredSame(Heard, v1)
  BY <1>1, LocatedDone
<1> HIDE DEF v1
<1>3. /\ v2 \in Gps /\ Honest(v2, e, m) /\ v2.rtc = TRUE
      /\ SpeedSame(v1, v2) /\ ParkSame(v1, v2) /\ TiredSame(v1, v2)
      /\ DayAfter(v1, v2, speed, midnight)
  BY <1>2, DayDriveDone
<1> HIDE DEF v2
<1>4. v2.os_times = gps.os_times
  BY <1>1, <1>2, <1>3 DEF Same, SpeedSame
<1>5. /\ v3 \in Gps /\ Honest(v3, e, m)
      /\ DaySame(v2, v3) /\ ParkSame(v2, v3) /\ TiredSame(v2, v3) /\ SpeedAfter(v2, v3, speed)
  <2>1. speed > MaxSpeed /\ v2.os_times + 1 > SpeedDuration => e /\ ("speed" \in masked => m)
    BY <1>4
  <2> QED
    BY <1>3, <2>1, OverspeedDone
<1> HIDE DEF v3
<1>6. /\ v4 \in Gps /\ Honest(v4, e, m)
      /\ DaySame(v3, v4) /\ SpeedSame(v3, v4) /\ TiredSame(v3, v4) /\ ParkAfter(v3, v4, speed)
  BY <1>5, ParkingDone
<1> HIDE DEF v4
<1>7. /\ v5 \in Gps /\ Honest(v5, e, m)
      /\ DaySame(v4, v5) /\ SpeedSame(v4, v5) /\ ParkSame(v4, v5) /\ TiredAfter(v4, v5, speed)
  BY <1>6, FatigueDone
<1> HIDE DEF v5
<1>8. /\ v6 \in Gps /\ Honest(v6, e, m)
      /\ DaySame(v5, v6) /\ SpeedSame(v5, v6) /\ ParkSame(v5, v6) /\ TiredSame(v5, v6)
  BY <1>7, PeriodicDone
<1> HIDE DEF v6
<1>9. DayAfter(gps, v6, speed, midnight) /\ v6.rtc = TRUE
  BY <1>1, <1>2, <1>3, <1>5, <1>6, <1>7, <1>8 DEF Same, DaySame, DayAfter
<1>10. SpeedAfter(gps, v6, speed)
  <2>1. SpeedSame(gps, v2) /\ SpeedSame(v3, v6)
    BY <1>1, <1>2, <1>3, <1>6, <1>7, <1>8 DEF Same, SpeedSame
  <2> QED
    BY <1>5, <2>1 DEF SpeedSame, SpeedAfter
<1>11. ParkAfter(gps, v6, speed)
  <2>1. ParkSame(gps, v3) /\ ParkSame(v4, v6)
    BY <1>1, <1>2, <1>3, <1>5, <1>7, <1>8 DEF Same, ParkSame
  <2> QED
    BY <1>6, <2>1 DEF ParkSame, ParkAfter
<1>12. TiredAfter(gps, v6, speed)
  <2>1. TiredSame(gps, v4) /\ TiredSame(v5, v6)
    BY <1>1, <1>2, <1>3, <1>5, <1>6, <1>8 DEF Same, TiredSame
  <2> QED
    BY <1>7, <2>1 DEF TiredSame, TiredAfter
<1> QED
  BY <1>0, <1>8, <1>9, <1>10, <1>11, <1>12

(* The runs without a position change no note. *)
Idle(v, w) ==
  /\ w.day_drive = v.day_drive /\ (w.fixed = TRUE => w.rtc = TRUE)
  /\ "overtime" \in w.flags <=> "overtime" \in v.flags
  /\ SpeedSame(v, w) /\ ParkSame(v, w) /\ TiredSame(v, w)

LEMMA IdleDone ==
  ASSUME gps \in Gps, gps.fixed = TRUE => gps.rtc = TRUE, NoPosition \/ NoData \/ OtherData,
         NEW e, gps.over = TRUE => e
  PROVE  gps' \in Gps /\ Honest(gps', e, FALSE) /\ Idle(gps, gps')
<1>1. /\ Run \in Gps /\ Same(gps, Run) /\ Idle(gps, Run) /\ Honest(Run, e, FALSE)
      /\ Heard \in Gps /\ Same(gps, Heard) /\ Idle(gps, Heard) /\ Honest(Heard, e, FALSE)
  <2>1. /\ Run \in Gps /\ ~ Told(Run) /\ Run.over = gps.over /\ Same(gps, Run)
        /\ Heard \in Gps /\ ~ Told(Heard) /\ Heard.over = gps.over /\ Same(gps, Heard)
    BY RunBegins
  <2>2. Honest(Run, e, FALSE) /\ Honest(Heard, e, FALSE)
    BY <2>1, Zenon DEF Honest
  <2> QED
    BY <2>1, <2>2 DEF Same, Idle, DaySame
<1>2. CASE OtherData
  BY <1>1, <1>2 DEF OtherData
<1>3. CASE NoPosition
  <2> DEFINE u == [Heard EXCEPT !.upload_times = 0, !.fixed = FALSE]
             r == report_location_buildbody(u)
  <2>1. gps' = Heard \/ gps' = r
    BY <1>3 DEF NoPosition
  <2>2. u \in Gps /\ u.over = Heard.over /\ u.reports = Heard.reports /\ u.fixed = FALSE
    BY <1>1, Ranges DEF Gps
  <2>3. Idle(Heard, u)
    BY <1>1 DEF Gps, Idle, SpeedSame, ParkSame, TiredSame
  <2> HIDE DEF u
  <2>4. Honest(r, e, FALSE)
    BY <1>1, <2>2, QuietHonest, ReportedHonest
  <2>5. r \in Gps /\ Same(u, r)
    BY <2>2, Reported DEF Same
  <2> HIDE DEF r
  <2>6. Idle(gps, r)
    BY <1>1, <2>3, <2>5 DEF Same, Idle, DaySame, SpeedSame, ParkSame, TiredSame
  <2> QED
    BY <1>1, <2>1, <2>4, <2>5, <2>6
<1>4. CASE NoData
  <2> DEFINE u == [Run EXCEPT !.model_cnt = Run.model_cnt + 1]
             t == handle_alarm_sms(Run, "gnss")
             q == [t EXCEPT !.flags = t.flags \cup {"gnss"}]
             r == report_location_buildbody(q)
  <2>0. "gnss" \in Alarm
    BY DEF Alarm
  <2>1. \/ Run.model_cnt < CheckGpsErr /\ gps' = u
        \/ gps' = Run \/ gps' = t \/ gps' = r
    BY <1>4 DEF NoData, handle_alarm_status
  <2>2. CASE Run.model_cnt < CheckGpsErr /\ gps' = u
    <3>1. Run.model_cnt + 1 \in 0 .. CheckGpsErr
      BY <1>1, <2>2, Ranges, DriveConstants
    <3>2. u \in Gps /\ u.over = Run.over /\ u.reports = Run.reports /\ Idle(Run, u)
      BY <1>1, <3>1 DEF Gps, Idle, SpeedSame, ParkSame, TiredSame
    <3> HIDE DEF u
    <3>3. Idle(gps, u)
      BY <1>1, <3>2 DEF Idle, SpeedSame, ParkSame, TiredSame
    <3> QED
      BY <1>1, <2>2, <3>2, <3>3, QuietHonest
  <2>3. t \in Gps /\ t.over = Run.over /\ t.reports = Run.reports /\ Same(Run, t) /\ Idle(Run, t)
    <3>1. t = Run \/ t = [Run EXCEPT !.texts = Run.texts \cup {"gnss"}]
      BY DEF handle_alarm_sms
    <3>2. Run.texts \cup {"gnss"} \in SUBSET Alarm
      BY <1>1, <2>0 DEF Gps
    <3> HIDE DEF t
    <3>3. CASE t = Run
      BY <1>1, <3>3 DEF Same, Idle, DaySame, SpeedSame, ParkSame, TiredSame
    <3>4. CASE t = [Run EXCEPT !.texts = Run.texts \cup {"gnss"}]
      <4>1. t \in Gps /\ t.over = Run.over /\ t.reports = Run.reports
        BY <1>1, <3>2, <3>4 DEF Gps
      <4>2. Same(Run, t)
        BY <1>1, <3>4 DEF Gps, Same, DaySame, SpeedSame, ParkSame, TiredSame
      <4> QED
        BY <1>1, <4>1, <4>2 DEF Same, Idle, DaySame
    <3> QED
      BY <3>1, <3>3, <3>4
  <2> HIDE DEF t
  <2>4. q \in Gps /\ q.over = t.over /\ q.reports = t.reports /\ Same(t, q)
    <3>1. t.flags \cup {"gnss"} \in SUBSET Alarm
      BY <2>0, <2>3 DEF Gps
    <3>2. q \in Gps /\ q.over = t.over /\ q.reports = t.reports
      BY <2>3, <3>1 DEF Gps
    <3> QED
      BY <2>3, <3>2 DEF Gps, Same, DaySame, SpeedSame, ParkSame, TiredSame
  <2> HIDE DEF q
  <2>5. Honest(t, e, FALSE)
    BY <1>1, <2>3, QuietHonest
  <2>6. Honest(r, e, FALSE)
    BY <2>4, <2>5, QuietHonest, ReportedHonest
  <2>7. r \in Gps /\ Same(q, r)
    BY <2>4, Reported DEF Same
  <2> HIDE DEF r
  <2>8. Idle(gps, t) /\ Idle(gps, r)
    BY <1>1, <2>3, <2>4, <2>7 DEF Same, Idle, DaySame, SpeedSame, ParkSame, TiredSame
  <2> QED
    BY <1>1, <2>1, <2>2, <2>3, <2>5, <2>6, <2>7, <2>8
<1> QED
  BY <1>2, <1>3, <1>4

(* How the notes of the run and the clock agree. *)
Clock ==
  [driven : 0 .. DriveTime + 1, today : 0 .. DayDriveTime + 1, stood : 0 .. RestTime + ParkTime + 1,
   fast : 0 .. SpeedDuration + 1]

DriveTypes == gps \in Gps /\ masked \in Masks /\ clock \in Clock /\ watched \in Clock

(* The time of driving that is noted was driven, and the rest is noted      *)
(* until it is long enough, when nothing is left to count.                  *)
TiredNoted ==
  /\ gps.driver_time <= clock.driven
  /\ \/ clock.stood = gps.relax_time
     \/ clock.stood > RestTime /\ gps.driver_time = 0
  /\ \/ "tired" \in masked
     \/ "tired" \in gps.flags
     \/ watched.driven <= gps.driver_time

SpeedNoted ==
  /\ gps.os_times <= clock.fast
  /\ "speed" \in gps.flags => gps.overspeed_no_area = TRUE
  /\ \/ "speed" \in masked
     \/ "speed" \in gps.flags
     \/ watched.fast <= gps.os_times

ParkNoted ==
  /\ gps.park_times < ParkTime /\ gps.park_times <= clock.stood
  /\ "parking" \in gps.flags => clock.stood >= ParkTime
  /\ \/ "parking" \in masked
     \/ "parking" \in gps.flags
     \/ watched.stood <= gps.park_times

(* A day that the byte can count is one more behind at most: the run that   *)
(* fills the count with the flag set begins it anew.  A threshold that the  *)
(* byte cannot hold is never reached.                                       *)
DayNoted ==
  /\ DayDriveTime >= Byte => "overtime" \notin gps.flags
  /\ gps.day_drive <= clock.today \/ clock.today >= DayDriveTime
  /\ "overtime" \in gps.flags => clock.today >= DayDriveTime
  /\ \/ "overtime" \in masked
     \/ DayDriveTime >= Byte
     \/ "overtime" \in gps.flags
     \/ watched.today = 0
     \/ watched.today <= gps.day_drive + 1 /\ gps.day_drive < DayDriveTime

(* What the next report will tell has happened, and a position has set the  *)
(* clock of the device.                                                     *)
OverNoted == gps.over = TRUE => exceeded = TRUE
FixNoted == gps.fixed = TRUE => gps.rtc = TRUE

Noted ==
  /\ DriveTypes /\ exceeded \in BOOLEAN
  /\ TiredNoted /\ SpeedNoted /\ ParkNoted /\ DayNoted /\ OverNoted /\ FixNoted

LEMMA DriveBegins == HInit => Noted
<1> SUFFICES ASSUME HInit PROVE Noted
  OBVIOUS
<1>1. gps \in Gps
  <2>1. <<>> \in Seq(Report)
    OBVIOUS
  <2> QED
    BY <2>1, Ranges DEF HInit, Init, Start, Gps
<1>2. /\ gps.flags = {} /\ gps.over = FALSE /\ gps.fixed = FALSE
      /\ gps.driver_time = 0 /\ gps.relax_time = 0 /\ gps.os_times = 0 /\ gps.park_times = 0
      /\ gps.day_drive = 0
  BY DEF HInit, Init, Start
<1>3. /\ masked \in Masks /\ exceeded = FALSE
      /\ clock = [driven |-> 0, today |-> 0, stood |-> 0, fast |-> 0]
      /\ watched = [driven |-> 0, today |-> 0, stood |-> 0, fast |-> 0]
  BY DEF HInit, Init, Nothing
<1>4. clock \in Clock /\ watched \in Clock
  <2>1. /\ 0 \in 0 .. DriveTime + 1 /\ 0 \in 0 .. DayDriveTime + 1
        /\ 0 \in 0 .. RestTime + ParkTime + 1 /\ 0 \in 0 .. SpeedDuration + 1
    BY DriveConstants
  <2> QED
    BY <1>3, <2>1 DEF Clock
<1>5. TiredNoted /\ SpeedNoted /\ ParkNoted /\ DayNoted
  BY <1>2, <1>3, DriveConstants DEF TiredNoted, SpeedNoted, ParkNoted, DayNoted
<1> QED
  BY <1>1, <1>2, <1>3, <1>4, <1>5 DEF Noted, DriveTypes, OverNoted, FixNoted

LEMMA ClockRuns ==
  ASSUME NEW c \in Clock, NEW speed \in Nat, NEW midnight \in BOOLEAN, NEW rest \in BOOLEAN
  PROVE  After(c, speed, midnight, rest) \in Clock
<1> DEFINE d == IF speed > 0 THEN Tick(c.driven, DriveTime) ELSE IF rest THEN 0 ELSE c.driven
           t == IF midnight THEN 0 ELSE IF speed > 0 THEN Tick(c.today, DayDriveTime) ELSE c.today
           s == IF speed > 0 THEN 0 ELSE Tick(c.stood, RestTime + ParkTime)
           f == IF speed > MaxSpeed THEN Tick(c.fast, SpeedDuration) ELSE 0
<1>1. d \in 0 .. DriveTime + 1
  BY DriveConstants DEF Clock, Tick
<1>2. t \in 0 .. DayDriveTime + 1
  BY DriveConstants DEF Clock, Tick
<1>3. s \in 0 .. RestTime + ParkTime + 1
  BY DriveConstants DEF Clock, Tick
<1>4. f \in 0 .. SpeedDuration + 1
  BY DriveConstants DEF Clock, Tick
<1>5. After(c, speed, midnight, rest) = [driven |-> d, today |-> t, stood |-> s, fast |-> f]
  BY DEF After
<1> HIDE DEF d, t, s, f
<1> QED
  BY <1>1, <1>2, <1>3, <1>4, <1>5 DEF Clock

(* One second of the clock. *)
Rest(speed) == speed = 0 /\ clock.stood + 1 > RestTime

Second(speed, midnight) ==
  /\ clock' = After(clock, speed, midnight, Rest(speed))
  /\ watched' = After(watched, speed, midnight, Rest(speed))
  /\ masked' = masked

LEMMA TiredStep ==
  ASSUME Noted, NEW speed \in Nat, NEW midnight \in BOOLEAN, Second(speed, midnight),
         TiredAfter(gps, gps', speed)
  PROVE  /\ TiredNoted'
         /\ Set("tired") => clock'.driven > DriveTime
         /\ Cleared("tired") => clock'.stood > RestTime
<1> DEFINE rest == speed = 0 /\ clock.stood + 1 > RestTime
<1>1. /\ clock'.driven = IF speed > 0 THEN Tick(clock.driven, DriveTime) ELSE IF rest THEN 0 ELSE clock.driven
      /\ watched'.driven = IF speed > 0 THEN Tick(watched.driven, DriveTime) ELSE IF rest THEN 0 ELSE watched.driven
      /\ clock'.stood = IF speed > 0 THEN 0 ELSE Tick(clock.stood, RestTime + ParkTime)
      /\ masked' = masked
  BY DEF Second, After, Rest
<1>2. /\ gps.driver_time \in 0 .. DriveTime /\ gps.relax_time \in 0 .. RestTime
      /\ clock.driven \in 0 .. DriveTime + 1 /\ watched.driven \in 0 .. DriveTime + 1
      /\ clock.stood \in 0 .. RestTime + ParkTime + 1
  BY DEF Noted, DriveTypes, Gps, Clock
<1>3. TiredNoted
  BY DEF Noted
<1>4. CASE speed > 0
  BY <1>1, <1>2, <1>3, <1>4, DriveConstants DEF TiredNoted, TiredAfter, Set, Cleared, Tick
<1>5. CASE speed = 0
  BY <1>1, <1>2, <1>3, <1>5, DriveConstants DEF TiredNoted, TiredAfter, Set, Cleared, Tick
<1> QED
  BY <1>4, <1>5

LEMMA SpeedStep ==
  ASSUME Noted, NEW speed \in Nat, NEW midnight \in BOOLEAN, Second(speed, midnight),
         SpeedAfter(gps, gps', speed)
  PROVE  SpeedNoted'
<1>1. /\ clock'.fast = IF speed > MaxSpeed THEN Tick(clock.fast, SpeedDuration) ELSE 0
      /\ watched'.fast = IF speed > MaxSpeed THEN Tick(watched.fast, SpeedDuration) ELSE 0
      /\ masked' = masked
  BY DEF Second, After
<1>2. /\ gps.os_times \in 0 .. SpeedDuration
      /\ clock.fast \in 0 .. SpeedDuration + 1 /\ watched.fast \in 0 .. SpeedDuration + 1
  BY DEF Noted, DriveTypes, Gps, Clock
<1>3. SpeedNoted
  BY DEF Noted
<1>4. "speed" \in gps'.flags => gps'.overspeed_no_area = TRUE
  BY <1>3, Zenon DEF SpeedNoted, SpeedAfter
<1>5. /\ gps'.os_times <= clock'.fast
      /\ \/ "speed" \in masked
         \/ "speed" \in gps'.flags
         \/ watched'.fast <= gps'.os_times
  <2>1. /\ gps.os_times <= clock.fast
        /\ \/ "speed" \in masked
           \/ "speed" \in gps.flags
           \/ watched.fast <= gps.os_times
    BY <1>3 DEF SpeedNoted
  <2>2. \/ /\ speed > MaxSpeed /\ gps.os_times + 1 <= SpeedDuration
           /\ gps'.os_times = gps.os_times + 1
           /\ "speed" \in gps'.flags <=> "speed" \in gps.flags
        \/ /\ speed > MaxSpeed /\ gps.os_times + 1 > SpeedDuration /\ gps'.os_times = 0
           /\ "speed" \in gps.flags \/ "speed" \notin masked => "speed" \in gps'.flags
        \/ ~ (speed > MaxSpeed) /\ gps'.os_times = 0
    BY Zenon DEF SpeedAfter
  <2> QED
    BY <1>1, <1>2, <2>1, <2>2, DriveConstants DEF Tick
<1> QED
  BY <1>1, <1>4, <1>5 DEF SpeedNoted

LEMMA ParkStep ==
  ASSUME Noted, NEW speed \in Nat, NEW midnight \in BOOLEAN, Second(speed, midnight),
         ParkAfter(gps, gps', speed)
  PROVE  ParkNoted'
<1>1. /\ clock'.stood = IF speed > 0 THEN 0 ELSE Tick(clock.stood, RestTime + ParkTime)
      /\ watched'.stood = IF speed > 0 THEN 0 ELSE Tick(watched.stood, RestTime + ParkTime)
      /\ masked' = masked
  BY DEF Second, After
<1>2. /\ gps.park_times \in 0 .. ParkTime
      /\ clock.stood \in 0 .. RestTime + ParkTime + 1 /\ watched.stood \in 0 .. RestTime + ParkTime + 1
  BY DEF Noted, DriveTypes, Gps, Clock
<1>3. ParkNoted
  BY DEF Noted
<1> QED
  BY <1>1, <1>2, <1>3, DriveConstants DEF ParkNoted, ParkAfter, Tick

LEMMA DayStep ==
  ASSUME Noted, NEW speed \in Nat, NEW midnight \in BOOLEAN, Second(speed, midnight),
         DayAfter(gps, gps', speed, midnight)
  PROVE  DayNoted'
<1> DEFINE driven == IF speed > 0 THEN (gps.day_drive + 1) % Byte ELSE gps.day_drive
<1>1. /\ clock'.today = IF midnight THEN 0 ELSE IF speed > 0 THEN Tick(clock.today, DayDriveTime) ELSE clock.today
      /\ watched'.today = IF midnight THEN 0 ELSE IF speed > 0 THEN Tick(watched.today, DayDriveTime) ELSE watched.today
      /\ masked' = masked
  BY DEF Second, After
<1>2. /\ gps.day_drive \in 0 .. Byte - 1
      /\ clock.today \in 0 .. DayDriveTime + 1 /\ watched.today \in 0 .. DayDriveTime + 1
  BY DEF Noted, DriveTypes, Gps, Clock
<1>3. DayNoted
  BY DEF Noted
<1>4. \/ speed > 0 /\ gps.day_drive + 1 < Byte /\ driven = gps.day_drive + 1
      \/ speed > 0 /\ gps.day_drive + 1 = Byte /\ driven = 0
      \/ speed = 0 /\ driven = gps.day_drive
  BY <1>2, DriveConstants
<1>5. \/ midnight = TRUE /\ gps'.day_drive = 0 /\ "overtime" \notin gps'.flags
      \/ /\ midnight = FALSE /\ driven < DayDriveTime /\ gps'.day_drive = driven
         /\ "overtime" \in gps'.flags <=> "overtime" \in gps.flags
      \/ /\ midnight = FALSE /\ driven >= DayDriveTime /\ gps'.day_drive = 0
         /\ "overtime" \in gps.flags /\ "overtime" \in gps'.flags
      \/ /\ midnight = FALSE /\ driven >= DayDriveTime /\ gps'.day_drive = driven
         /\ "overtime" \in gps'.flags <=> "overtime" \notin masked
  BY DEF DayAfter
<1> HIDE DEF driven
<1>6. CASE midnight = TRUE
  BY <1>1, <1>2, <1>5, <1>6, DriveConstants DEF DayNoted
<1>7. CASE midnight = FALSE
  <2>1. gps'.day_drive <= clock'.today \/ clock'.today >= DayDriveTime
    BY <1>1, <1>2, <1>3, <1>4, <1>5, <1>7, DriveConstants DEF DayNoted, Tick
  <2>2. "overtime" \in gps'.flags => clock'.today >= DayDriveTime
    BY <1>1, <1>2, <1>3, <1>4, <1>5, <1>7, DriveConstants DEF DayNoted, Tick
  <2>3. \/ "overtime" \in masked
        \/ DayDriveTime >= Byte
        \/ "overtime" \in gps'.flags
        \/ watched'.today = 0
        \/ watched'.today <= gps'.day_drive + 1 /\ gps'.day_drive < DayDriveTime
    BY <1>1, <1>2, <1>3, <1>4, <1>5, <1>7, DriveConstants DEF DayNoted, Tick
  <2>4. DayDriveTime >= Byte => "overtime" \notin gps'.flags
    <3>1. driven < Byte
      BY <1>2, <1>4, DriveConstants
    <3>2. DayDriveTime >= Byte => "overtime" \notin gps.flags /\ driven < DayDriveTime
      <4>1. driven \in Nat
        BY <1>2, <1>4, DriveConstants
      <4> QED
        BY <1>3, <3>1, <4>1, DriveConstants DEF DayNoted
    <3>3. driven < DayDriveTime => ~ (driven >= DayDriveTime)
      BY <1>2, <1>4, DriveConstants
    <3> QED
      BY <1>5, <1>7, <3>2, <3>3
  <2> QED
    BY <1>1, <2>1, <2>2, <2>3, <2>4 DEF DayNoted
<1> QED
  BY <1>6, <1>7

LEMMA DriveStep ==
  ASSUME Noted, NEW speed \in Speeds, NEW midnight \in BOOLEAN, Drive(speed, midnight)
  PROVE  /\ Noted'
         /\ Set("tired") => clock'.driven > DriveTime
         /\ Cleared("tired") => clock'.stood > RestTime
         /\ Told(gps') => exceeded = TRUE \/ clock'.fast > SpeedDuration
<1> DEFINE toofast == clock'.fast > SpeedDuration
           e == exceeded = TRUE \/ toofast
           m == "speed" \in masked /\ toofast
<1>1. /\ Position(speed, midnight) /\ speed \in Nat /\ masked' = masked
      /\ exceeded' = IF Told(gps') THEN m ELSE exceeded \/ toofast
  BY DriveConstants DEF Drive, Position
<1>2. Second(speed, midnight)
  BY <1>1 DEF Drive, Second, Rest
<1>3. speed > MaxSpeed /\ gps.os_times + 1 > SpeedDuration => toofast
  <2>1. clock'.fast = IF speed > MaxSpeed THEN Tick(clock.fast, SpeedDuration) ELSE 0
    BY <1>2 DEF Second, After
  <2>2. /\ gps.os_times \in 0 .. SpeedDuration /\ clock.fast \in 0 .. SpeedDuration + 1
        /\ gps.os_times <= clock.fast
    BY DEF Noted, DriveTypes, Gps, Clock, SpeedNoted
  <2> QED
    BY <1>1, <2>1, <2>2, DriveConstants DEF Tick
<1> HIDE DEF toofast
<1>4. /\ gps' \in Gps /\ gps'.rtc = TRUE /\ Honest(gps', e, m)
      /\ DayAfter(gps, gps', speed, midnight) /\ SpeedAfter(gps, gps', speed)
      /\ ParkAfter(gps, gps', speed) /\ TiredAfter(gps, gps', speed)
  <2>1. gps \in Gps /\ (gps.fixed = TRUE => gps.rtc = TRUE) /\ (gps.over = TRUE => e)
    BY Zenon DEF Noted, DriveTypes, FixNoted, OverNoted
  <2>2. speed > MaxSpeed /\ gps.os_times + 1 > SpeedDuration => e /\ ("speed" \in masked => m)
    BY <1>3, Zenon
  <2> HIDE DEF e, m
  <2> QED
    BY <1>1, <2>1, <2>2, PositionDone
<1>5. TiredNoted' /\ SpeedNoted' /\ ParkNoted' /\ DayNoted'
  BY <1>1, <1>2, <1>4, TiredStep, SpeedStep, ParkStep, DayStep
<1>6. /\ Set("tired") => clock'.driven > DriveTime
      /\ Cleared("tired") => clock'.stood > RestTime
  BY <1>1, <1>2, <1>4, TiredStep
<1>7. clock' \in Clock /\ watched' \in Clock
  BY <1>1, <1>2, ClockRuns DEF Second, Rest, Noted, DriveTypes
<1>8. exceeded' \in BOOLEAN /\ (gps'.over = TRUE => exceeded' = TRUE)
  <2>1. exceeded \in BOOLEAN /\ toofast \in BOOLEAN /\ m \in BOOLEAN
    BY DEF Noted, toofast
  <2>2. CASE Told(gps')
    <3>1. exceeded' = m
      BY <1>1, <2>2, Zenon
    <3> QED
      BY <1>4, <2>1, <2>2, <3>1, Zenon DEF Honest
  <2>3. CASE ~ Told(gps')
    <3>1. exceeded' = (exceeded \/ toofast)
      BY <1>1, <2>3, Zenon
    <3>2. (exceeded \/ toofast) \in BOOLEAN /\ ((exceeded \/ toofast) <=> e)
      BY <2>1, Zenon
    <3> QED
      BY <1>4, <3>1, <3>2, Zenon DEF Honest
  <2> QED
    BY <2>2, <2>3
<1>9. Told(gps') => exceeded = TRUE \/ toofast
  BY <1>4, Zenon DEF Honest
<1>10. Noted'
  BY <1>1, <1>4, <1>5, <1>7, <1>8 DEF Noted, DriveTypes, OverNoted, FixNoted
<1> QED
  BY <1>6, <1>9, <1>10 DEF toofast

LEMMA IdleStep ==
  ASSUME Noted, Lost \/ Quiet
  PROVE  Noted' /\ ~ Set("tired") /\ ~ Cleared("tired") /\ (Told(gps') => exceeded = TRUE)
<1> DEFINE e == exceeded = TRUE
<1>1. /\ NoPosition \/ NoData \/ OtherData
      /\ exceeded' = (exceeded /\ ~ Told(gps'))
      /\ UNCHANGED <<clock, watched>>
  BY DEF Lost, Quiet
<1>2. gps' \in Gps /\ Honest(gps', e, FALSE) /\ Idle(gps, gps')
  <2>1. gps \in Gps /\ (gps.fixed = TRUE => gps.rtc = TRUE) /\ (gps.over = TRUE => e)
    BY Zenon DEF Noted, DriveTypes, FixNoted, OverNoted
  <2> HIDE DEF e
  <2> QED
    BY <1>1, <2>1, IdleDone
<1>3. masked' = masked
  BY <1>1 DEF NoPosition, NoData, OtherData
<1>4. exceeded' \in BOOLEAN /\ (gps'.over = TRUE => exceeded' = TRUE)
  <2>1. exceeded \in BOOLEAN
    BY DEF Noted
  <2> QED
    BY <1>1, <1>2, <2>1, Zenon DEF Honest
<1>5. TiredNoted' /\ SpeedNoted' /\ ParkNoted' /\ DayNoted'
  <2>1. TiredNoted'
    BY <1>1, <1>2, <1>3 DEF Noted, TiredNoted, Idle, TiredSame
  <2>2. SpeedNoted'
    BY <1>1, <1>2, <1>3 DEF Noted, SpeedNoted, Idle, SpeedSame
  <2>3. ParkNoted'
    BY <1>1, <1>2, <1>3 DEF Noted, ParkNoted, Idle, ParkSame
  <2>4. DayNoted'
    BY <1>1, <1>2, <1>3 DEF Noted, DayNoted, Idle
  <2> QED
    BY <2>1, <2>2, <2>3, <2>4
<1>6. ~ Set("tired") /\ ~ Cleared("tired")
  BY <1>2 DEF Idle, TiredSame, Set, Cleared
<1>7. Told(gps') => exceeded = TRUE
  BY <1>2, Zenon DEF Honest
<1>8. FixNoted' /\ OverNoted'
  BY <1>2, <1>4, Zenon DEF Idle, FixNoted, OverNoted
<1>9. DriveTypes'
  BY <1>1, <1>2, <1>3 DEF Noted, DriveTypes
<1> QED
  BY <1>4, <1>5, <1>6, <1>7, <1>8, <1>9 DEF Noted

LEMMA MaskStep ==
  ASSUME Noted, NEW mask \in Masks, Mask(mask)
  PROVE  Noted' /\ ~ Set("tired") /\ ~ Cleared("tired") /\ ~ Told(gps')
<1>1. /\ gps' = [gps EXCEPT !.reports = <<>>, !.texts = {}, !.alarmed = FALSE]
      /\ masked' = mask /\ clock' = clock /\ exceeded' = exceeded
      /\ watched' = [driven |-> 0, today |-> 0, stood |-> 0, fast |-> 0]
  BY DEF Mask, SetMask, Nothing
<1>2. gps \in Gps /\ clock \in Clock /\ TiredNoted /\ SpeedNoted /\ ParkNoted /\ DayNoted
  BY DEF Noted, DriveTypes
<1>3. gps' \in Gps /\ gps'.reports = <<>> /\ gps'.flags = gps.flags
      /\ gps'.over = gps.over /\ gps'.fixed = gps.fixed /\ gps'.rtc = gps.rtc
      /\ gps'.overspeed_no_area = gps.overspeed_no_area
      /\ gps'.driver_time = gps.driver_time /\ gps'.relax_time = gps.relax_time
      /\ gps'.os_times = gps.os_times /\ gps'.park_times = gps.park_times
      /\ gps'.day_drive = gps.day_drive
  <2>1. <<>> \in Seq(Report)
    OBVIOUS
  <2> QED
    BY <1>1, <1>2, <2>1 DEF Gps
<1>4. watched' \in Clock
  <2>1. /\ 0 \in 0 .. DriveTime + 1 /\ 0 \in 0 .. DayDriveTime + 1
        /\ 0 \in 0 .. RestTime + ParkTime + 1 /\ 0 \in 0 .. SpeedDuration + 1
    BY DriveConstants
  <2> QED
    BY <1>1, <2>1 DEF Clock
<1>5. TiredNoted' /\ SpeedNoted' /\ ParkNoted' /\ DayNoted'
  <2>1. watched'.driven = 0 /\ watched'.today = 0 /\ watched'.stood = 0 /\ watched'.fast = 0
    BY <1>1
  <2>2. 0 <= gps'.driver_time /\ 0 <= gps'.os_times /\ 0 <= gps'.park_times
    BY <1>3, Ranges
  <2>3. TiredNoted'
    BY <1>1, <1>2, <1>3, <2>1, <2>2 DEF TiredNoted
  <2>4. SpeedNoted'
    BY <1>1, <1>2, <1>3, <2>1, <2>2 DEF SpeedNoted
  <2>5. ParkNoted'
    BY <1>1, <1>2, <1>3, <2>1, <2>2 DEF ParkNoted
  <2>6. DayNoted'
    BY <1>1, <1>2, <1>3, <2>1, <2>2 DEF DayNoted
  <2> QED
    BY <2>3, <2>4, <2>5, <2>6
<1>6. FixNoted' /\ OverNoted' /\ exceeded' \in BOOLEAN
  BY <1>1, <1>3, Zenon DEF Noted, FixNoted, OverNoted
<1>7. ~ Set("tired") /\ ~ Cleared("tired") /\ ~ Told(gps')
  BY <1>3 DEF Set, Cleared, Told
<1>8. Noted'
  BY <1>1, <1>2, <1>3, <1>4, <1>5, <1>6 DEF Noted, DriveTypes
<1> QED
  BY <1>7, <1>8

LEMMA NotedStep ==
  ASSUME Noted, VNext \/ UNCHANGED <<part, hvars, pins, drum, fuel, miles>>
  PROVE  /\ Noted'
         /\ UNCHANGED hvars \/
            /\ Set("tired") => clock'.driven > DriveTime
            /\ Cleared("tired") => clock'.stood > RestTime
            /\ Told(gps') => exceeded = TRUE \/ clock'.fast > SpeedDuration
<1>1. CASE \E speed \in Speeds, midnight \in BOOLEAN : Drive(speed, midnight)
  BY <1>1, DriveStep
<1>2. CASE Lost \/ Quiet
  BY <1>2, IdleStep
<1>3. CASE \E mask \in Masks : Mask(mask)
  BY <1>3, MaskStep
<1>4. CASE UNCHANGED hvars
  BY <1>4 DEF hvars, vars, Noted, DriveTypes, TiredNoted, SpeedNoted, ParkNoted, DayNoted, OverNoted, FixNoted
<1>5. HNext \/ UNCHANGED hvars
  BY DEF VNext
<1> QED
  BY <1>1, <1>2, <1>3, <1>4, <1>5 DEF HNext

LEMMA DriveMeant == Noted => DriveInv
<1> SUFFICES ASSUME Noted PROVE DriveInv
  OBVIOUS
<1>1. /\ gps \in Gps /\ masked \in Masks /\ clock \in Clock /\ watched \in Clock
      /\ TiredNoted /\ SpeedNoted /\ ParkNoted /\ DayNoted
  BY DEF Noted, DriveTypes
<1>2. TypeOK
  <2>1. /\ gps.fixed \in BOOLEAN /\ gps.over \in BOOLEAN /\ gps.alarmed \in BOOLEAN
        /\ gps.rtc \in BOOLEAN /\ gps.overspeed_no_area \in BOOLEAN
    BY <1>1 DEF Gps
  <2>2. {gps.fixed, gps.over, gps.alarmed, gps.rtc, gps.overspeed_no_area} \subseteq BOOLEAN
    BY <2>1, Zenon
  <2>3. /\ gps.flags \subseteq Alarm /\ gps.reports \in Seq(Report) /\ gps.texts \subseteq Alarm
        /\ gps.model_cnt \in 0 .. CheckGpsErr /\ gps.os_times \in 0 .. SpeedDuration
        /\ gps.park_times \in 0 .. ParkTime /\ gps.driver_time \in 0 .. DriveTime
        /\ gps.relax_time \in 0 .. RestTime /\ gps.day_drive \in 0 .. Byte - 1
        /\ gps.upload_times \in 0 .. ReportTime
    BY <1>1 DEF Gps
  <2> QED
    BY <1>1, <2>2, <2>3 DEF TypeOK
<1>3. /\ gps.driver_time \in 0 .. DriveTime /\ gps.os_times \in 0 .. SpeedDuration
      /\ gps.day_drive \in Nat /\ gps.park_times \in Nat
      /\ watched.driven \in Nat /\ watched.fast \in Nat /\ watched.stood \in Nat /\ watched.today \in Nat
  BY <1>1, DriveConstants DEF Gps, Clock
<1>4. AlarmsInTime
  <2>1. "tired" \notin masked /\ watched.driven > DriveTime => "tired" \in gps.flags
    BY <1>1, <1>3, DriveConstants DEF TiredNoted
  <2>2. "speed" \notin masked /\ watched.fast > SpeedDuration => "speed" \in gps.flags
    BY <1>1, <1>3, DriveConstants DEF SpeedNoted
  <2>3. "parking" \notin masked /\ watched.stood >= ParkTime => "parking" \in gps.flags
    BY <1>1, <1>3, DriveConstants DEF ParkNoted
  <2>4. "overtime" \notin masked /\ watched.today > DayDriveTime /\ DayDriveTime < Byte
          => "overtime" \in gps.flags
    BY <1>1, <1>3, DriveConstants DEF DayNoted
  <2>5. DayDriveTime >= Byte => "overtime" \notin gps.flags
    BY <1>1 DEF DayNoted
  <2> QED
    BY <2>1, <2>2, <2>3, <2>4, <2>5 DEF AlarmsInTime
<1>5. AlarmsAreTrue
  BY <1>1 DEF ParkNoted, DayNoted, AlarmsAreTrue
<1> QED
  BY <1>2, <1>4, <1>5 DEF DriveInv

(* For every threshold and set of masks, an alarm that is not masked comes  *)
(* in time: tired, overspeed and parking whatever the byte, the alarm of    *)
(* the day if the byte can hold its threshold.  If it cannot, as with the   *)
(* 57600 s of oa_dev_params.c:78, that alarm never comes, however long the  *)
(* day.  The alarms of the stop and of the day are on only after a stop and *)
(* a day of that length (oa_gps.c:121, 218-334).                            *)
THEOREM DriveIsWatched == VSpec => []DriveInv
<1>1. VInit => Noted
  BY DriveBegins DEF VInit
<1>2. Noted /\ [VNext]_<<part, hvars, pins, drum, fuel, miles>> => Noted'
  BY NotedStep
<1> QED
  BY <1>1, <1>2, DriveMeant, PTL DEF VSpec

(* However many short rests, lost positions and masked alarms lie between,  *)
(* the driver is called tired only after that much driving, and until a     *)
(* rest of that length (oa_gps.c:321-349).                                  *)
THEOREM TiredAfterDriving == VSpec => TiredIsTrue
<1>1. VInit => Noted
  BY DriveBegins DEF VInit
<1>2. Noted /\ [VNext]_<<part, hvars, pins, drum, fuel, miles>> => Noted'
  BY NotedStep
<1>3. Noted /\ [VNext]_<<part, hvars, pins, drum, fuel, miles>>
        => [/\ Set("tired") => clock'.driven > DriveTime
            /\ Cleared("tired") => clock'.stood > RestTime]_hvars
  BY NotedStep
<1> QED
  BY <1>1, <1>2, <1>3, PTL DEF VSpec, TiredIsTrue

(* A report tells of an overspeed only if there was one that no report had  *)
(* told of (oa_gps.c:266-273, oa_jt808.c:4043-4260).                        *)
THEOREM OverspeedIsNew == VSpec => OverspeedToldOnce
<1>1. VInit => Noted
  BY DriveBegins DEF VInit
<1>2. Noted /\ [VNext]_<<part, hvars, pins, drum, fuel, miles>> => Noted'
  BY NotedStep
<1>3. Noted /\ [VNext]_<<part, hvars, pins, drum, fuel, miles>>
        => [Told(gps') => exceeded \/ clock'.fast > SpeedDuration]_hvars
  BY NotedStep, Zenon DEF Noted
<1> QED
  BY <1>1, <1>2, <1>3, PTL DEF VSpec, OverspeedToldOnce

-----------------------------------------------------------------------------
(* The reports of the drive *)

(* What a part of a run leaves of the periodic report: it is withheld only  *)
(* where the part has raised an alarm.                                      *)
Silently(v, w, raised) ==
  /\ w.upload_times = v.upload_times
  /\ w.reports = <<>> => v.reports = <<>>
  /\ w.reports = <<>> /\ w.alarmed = TRUE => v.alarmed = TRUE \/ raised

LEMMA ReportSpeaks ==
  ASSUME NEW v \in Gps
  PROVE  LET w == report_location_buildbody(v)
         IN  w.reports # <<>> /\ w.upload_times = v.upload_times
<1> DEFINE r == [flags |-> v.flags, over |-> v.over]
           q == Append(v.reports, r)
           w == report_location_buildbody(v)
<1>1. w = [v EXCEPT !.reports = q, !.over = FALSE]
  BY DEF report_location_buildbody
<1>2. r \in Report /\ v.reports \in Seq(Report)
  BY DEF Gps, Report
<1> HIDE DEF r
<1>3. q # <<>>
  BY <1>2
<1> HIDE DEF q
<1> QED
  BY <1>1, <1>3 DEF Gps

LEMMA RaisedSpeaks ==
  ASSUME NEW v \in Gps, NEW alarm \in Alarm
  PROVE  LET w == Raise(v, alarm)
         IN  /\ w.upload_times = v.upload_times
             /\ IF alarm \in masked THEN w.reports = v.reports ELSE w.reports # <<>>
<1> DEFINE u == [v EXCEPT !.flags = v.flags \cup {alarm}]
           h == handle_alarm_status(v, alarm)
           t == handle_alarm_sms(h, alarm)
           w == Raise(v, alarm)
<1>1. u \in Gps /\ u.upload_times = v.upload_times
  BY DEF Gps
<1> HIDE DEF u, h
<1>2. /\ h \in Gps /\ h.upload_times = v.upload_times
      /\ IF alarm \in masked THEN h.reports = v.reports ELSE h.reports # <<>>
  <2>1. CASE alarm \in masked
    <3>1. h = v
      BY <2>1 DEF handle_alarm_status, h
    <3> QED
      BY <2>1, <3>1
  <2>2. CASE alarm \notin masked
    <3>1. h = report_location_buildbody(u)
      BY <2>2 DEF handle_alarm_status, h, u
    <3>2. h \in Gps /\ h.upload_times = u.upload_times /\ h.reports # <<>>
      BY <1>1, <3>1, Reported, ReportSpeaks
    <3> QED
      BY <1>1, <2>2, <3>2
  <2> QED
    BY <2>1, <2>2
<1>3. t = h \/ t = [h EXCEPT !.texts = h.texts \cup {alarm}]
  BY DEF handle_alarm_sms
<1>4. t \in Gps /\ t.upload_times = h.upload_times /\ t.reports = h.reports
  <2>1. h.texts \cup {alarm} \in SUBSET Alarm
    BY <1>2 DEF Gps
  <2> HIDE DEF t
  <2>2. CASE t = h
    BY <1>2, <2>2
  <2>3. CASE t = [h EXCEPT !.texts = h.texts \cup {alarm}]
    BY <1>2, <2>1, <2>3 DEF Gps
  <2> QED
    BY <1>3, <2>2, <2>3
<1>5. w = [t EXCEPT !.alarmed = TRUE]
  BY DEF Raise, h
<1> HIDE DEF t, w
<1>6. w.upload_times = t.upload_times /\ w.reports = t.reports
  BY <1>4, <1>5 DEF Gps
<1> QED
  BY <1>2, <1>4, <1>6 DEF w

LEMMA QuietSilently ==
  ASSUME NEW v, NEW w, NEW raised, w.upload_times = v.upload_times, w.reports = v.reports,
         w.alarmed = v.alarmed
  PROVE  Silently(v, w, raised)
BY Zenon DEF Silently

(* An alarm withholds the report only when it is masked, and then it has    *)
(* been raised.                                                             *)
LEMMA RaisedSilently ==
  ASSUME NEW v, NEW u \in Gps, NEW alarm \in Alarm, NEW raised,
         u.upload_times = v.upload_times, u.reports = v.reports,
         alarm \in masked => raised
  PROVE  Silently(v, Raise(u, alarm), raised)
<1> DEFINE w == Raise(u, alarm)
<1>1. /\ w.upload_times = u.upload_times
      /\ IF alarm \in masked THEN w.reports = u.reports ELSE w.reports # <<>>
  BY RaisedSpeaks
<1> HIDE DEF w
<1>2. Silently(v, w, raised)
  BY <1>1, Zenon DEF Silently
<1> QED
  BY <1>2 DEF w

LEMMA LocatedSilently ==
  ASSUME NEW v \in Gps
  PROVE  Silently(v, Located(v), FALSE)
<1> DEFINE u == [v EXCEPT !.fixed = TRUE]
           r == report_location_buildbody(u)
           w == Located(v)
<1>1. CASE v.fixed = TRUE
  <2>1. w = v
    BY <1>1 DEF Located
  <2> QED
    BY <2>1, QuietSilently
<1>2. CASE v.fixed # TRUE
  <2>1. w = [r EXCEPT !.alarmed = TRUE, !.rtc = TRUE]
    BY <1>2 DEF Located, Gps
  <2>2. u \in Gps /\ u.upload_times = v.upload_times
    BY DEF Gps
  <2> HIDE DEF u
  <2>3. r \in Gps /\ r.reports # <<>> /\ r.upload_times = v.upload_times
    BY <2>2, Reported, ReportSpeaks
  <2> HIDE DEF r, w
  <2>4. w.reports # <<>> /\ w.upload_times = v.upload_times
    BY <2>1, <2>3 DEF Gps
  <2>5. Silently(v, w, FALSE)
    BY <2>4, Zenon DEF Silently
  <2> QED
    BY <2>5 DEF w
<1> QED
  BY <1>1, <1>2

LEMMA DayDriveSilently ==
  ASSUME NEW v \in Gps, NEW speed, NEW midnight \in BOOLEAN, "overtime" \notin masked
  PROVE  Silently(v, DayDrive(v, speed, midnight), FALSE)
<1> DEFINE driven == IF speed > 0 THEN (v.day_drive + 1) % Byte ELSE v.day_drive
           w == DayDrive(v, speed, midnight)
           u == [v EXCEPT !.day_drive = driven]
<1>0. driven \in 0 .. Byte - 1
  <2> DEFINE before == v.day_drive
  <2>1. before \in 0 .. Byte - 1 /\ Byte \in Nat \ {0}
    BY DriveConstants DEF Gps
  <2> HIDE DEF before
  <2>2. (before + 1) % Byte \in 0 .. Byte - 1
    BY <2>1
  <2>3. driven = (before + 1) % Byte \/ driven = before
    BY DEF before
  <2> HIDE DEF driven
  <2> QED
    BY <2>1, <2>2, <2>3
<1>1. \/ w = v
      \/ w = [Cancel(v, "overtime") EXCEPT !.day_drive = 0]
      \/ w = u
      \/ w = [v EXCEPT !.day_drive = 0]
      \/ w = Raise(u, "overtime")
  BY Zenon DEF DayDrive
<1> HIDE DEF driven
<1>2. u \in Gps /\ u.upload_times = v.upload_times /\ u.reports = v.reports /\ u.alarmed = v.alarmed
  BY <1>0 DEF Gps
<1>3. CASE w = Raise(u, "overtime")
  <2>1. "overtime" \in Alarm
    BY DEF Alarm
  <2> HIDE DEF u, w
  <2>2. Silently(v, Raise(u, "overtime"), FALSE)
    BY <1>2, <2>1, RaisedSilently
  <2> QED
    BY <1>3, <2>2 DEF w
<1>4. CASE w = v \/ w = [Cancel(v, "overtime") EXCEPT !.day_drive = 0] \/ w = u \/ w = [v EXCEPT !.day_drive = 0]
  <2> HIDE DEF w
  <2>1. w.upload_times = v.upload_times /\ w.reports = v.reports /\ w.alarmed = v.alarmed
    BY <1>2, <1>4 DEF Cancel, Gps
  <2> QED
    BY <2>1, QuietSilently DEF w
<1> QED
  BY <1>1, <1>3, <1>4, Zenon

LEMMA OverspeedSilently ==
  ASSUME NEW v \in Gps, NEW speed \in Nat
  PROVE  Silently(v, Overspeed(v, speed), speed > MaxSpeed /\ v.os_times + 1 > SpeedDuration)
<1> DEFINE w == Overspeed(v, speed)
           u == [v EXCEPT !.os_times = 0, !.over = TRUE, !.overspeed_no_area = TRUE]
           raised == speed > MaxSpeed /\ v.os_times + 1 > SpeedDuration
<1>0. v.os_times \in Nat /\ SpeedDuration \in Nat
  BY Ranges, DriveConstants
<1>1. \/ w = [v EXCEPT !.os_times = v.os_times + 1]
      \/ w = [v EXCEPT !.os_times = 0]
      \/ w = [Cancel(v, "speed") EXCEPT !.os_times = 0, !.overspeed_no_area = FALSE]
      \/ w = Raise(u, "speed") /\ speed > MaxSpeed /\ ~ (v.os_times + 1 <= SpeedDuration)
  BY Zenon DEF Overspeed
<1>2. CASE w = Raise(u, "speed") /\ speed > MaxSpeed /\ ~ (v.os_times + 1 <= SpeedDuration)
  <2>1. u \in Gps /\ u.upload_times = v.upload_times /\ u.reports = v.reports
    BY Ranges DEF Gps
  <2>2. raised
    BY <1>0, <1>2
  <2>3. "speed" \in Alarm
    BY DEF Alarm
  <2> HIDE DEF u, w, raised
  <2>4. Silently(v, Raise(u, "speed"), raised)
    BY <2>1, <2>2, <2>3, RaisedSilently
  <2> QED
    BY <1>2, <2>4 DEF w, raised
<1>3. CASE \/ w = [v EXCEPT !.os_times = v.os_times + 1]
           \/ w = [v EXCEPT !.os_times = 0]
           \/ w = [Cancel(v, "speed") EXCEPT !.os_times = 0, !.overspeed_no_area = FALSE]
  <2> HIDE DEF w
  <2>1. w.upload_times = v.upload_times /\ w.reports = v.reports /\ w.alarmed = v.alarmed
    BY <1>3 DEF Cancel, Gps
  <2> QED
    BY <2>1, QuietSilently DEF w
<1> QED
  BY <1>1, <1>2, <1>3, Zenon

LEMMA ParkingSilently ==
  ASSUME NEW v \in Gps, NEW speed \in Nat
  PROVE  Silently(v, Parking(v, speed), speed = 0 /\ v.park_times + 1 >= ParkTime)
<1> DEFINE w == Parking(v, speed)
           u == [v EXCEPT !.park_times = 0]
           raised == speed = 0 /\ v.park_times + 1 >= ParkTime
<1>0. v.park_times \in Nat /\ ParkTime \in Nat
  BY Ranges, DriveConstants
<1>1. \/ w = [Cancel(v, "parking") EXCEPT !.park_times = 0]
      \/ w = [v EXCEPT !.park_times = v.park_times + 1]
      \/ w = [v EXCEPT !.park_times = 0]
      \/ w = Raise(u, "parking") /\ ~ (speed > 0) /\ ~ (v.park_times + 1 < ParkTime)
  BY Zenon DEF Parking
<1>2. CASE w = Raise(u, "parking") /\ ~ (speed > 0) /\ ~ (v.park_times + 1 < ParkTime)
  <2>1. u \in Gps /\ u.upload_times = v.upload_times /\ u.reports = v.reports
    BY Ranges DEF Gps
  <2>2. raised
    BY <1>0, <1>2
  <2>3. "parking" \in Alarm
    BY DEF Alarm
  <2> HIDE DEF u, w, raised
  <2>4. Silently(v, Raise(u, "parking"), raised)
    BY <2>1, <2>2, <2>3, RaisedSilently
  <2> QED
    BY <1>2, <2>4 DEF w, raised
<1>3. CASE \/ w = [Cancel(v, "parking") EXCEPT !.park_times = 0]
           \/ w = [v EXCEPT !.park_times = v.park_times + 1]
           \/ w = [v EXCEPT !.park_times = 0]
  <2> HIDE DEF w
  <2>1. w.upload_times = v.upload_times /\ w.reports = v.reports /\ w.alarmed = v.alarmed
    BY <1>3 DEF Cancel, Gps
  <2> QED
    BY <2>1, QuietSilently DEF w
<1> QED
  BY <1>1, <1>2, <1>3, Zenon

LEMMA FatigueSilently ==
  ASSUME NEW v \in Gps, NEW speed \in Nat
  PROVE  Silently(v, Fatigue(v, speed), speed > 0 /\ v.driver_time + 1 > DriveTime)
<1> DEFINE w == Fatigue(v, speed)
           u == [v EXCEPT !.driver_time = 0, !.relax_time = 0]
           raised == speed > 0 /\ v.driver_time + 1 > DriveTime
<1>0. v.driver_time \in Nat /\ DriveTime \in Nat
  BY Ranges, DriveConstants
<1>1. \/ w = [v EXCEPT !.driver_time = v.driver_time + 1, !.relax_time = 0]
      \/ w = u
      \/ w = [v EXCEPT !.relax_time = v.relax_time + 1]
      \/ w = [Cancel(v, "tired") EXCEPT !.relax_time = 0, !.driver_time = 0]
      \/ w = Raise(u, "tired") /\ speed > 0 /\ ~ (v.driver_time + 1 <= DriveTime)
  BY Zenon DEF Fatigue
<1>2. CASE w = Raise(u, "tired") /\ speed > 0 /\ ~ (v.driver_time + 1 <= DriveTime)
  <2>1. u \in Gps /\ u.upload_times = v.upload_times /\ u.reports = v.reports
    BY Ranges DEF Gps
  <2>2. raised
    BY <1>0, <1>2
  <2>3. "tired" \in Alarm
    BY DEF Alarm
  <2> HIDE DEF u, w, raised
  <2>4. Silently(v, Raise(u, "tired"), raised)
    BY <2>1, <2>2, <2>3, RaisedSilently
  <2> QED
    BY <1>2, <2>4 DEF w, raised
<1>3. CASE \/ w = [v EXCEPT !.driver_time = v.driver_time + 1, !.relax_time = 0]
           \/ w = u
           \/ w = [v EXCEPT !.relax_time = v.relax_time + 1]
           \/ w = [Cancel(v, "tired") EXCEPT !.relax_time = 0, !.driver_time = 0]
  <2> HIDE DEF w
  <2>1. w.upload_times = v.upload_times /\ w.reports = v.reports /\ w.alarmed = v.alarmed
    BY <1>3 DEF Cancel, Gps
  <2> QED
    BY <2>1, QuietSilently DEF w
<1> QED
  BY <1>1, <1>2, <1>3, Zenon

(* A run that is due stays silent only if it has raised an alarm. *)
LEMMA PeriodicSpeaks ==
  ASSUME NEW v \in Gps, Periodic(v).reports = <<>>
  PROVE  /\ Periodic(v).upload_times = v.upload_times /\ v.reports = <<>>
         /\ v.upload_times >= ReportTime => v.alarmed = TRUE
<1> DEFINE u == [v EXCEPT !.over = FALSE]
           r == report_location_buildbody(u)
           w == Periodic(v)
<1>1. CASE v.upload_times >= ReportTime /\ v.alarmed # TRUE
  <2>1. w = [r EXCEPT !.upload_times = 0]
    BY <1>1 DEF Periodic, Gps
  <2>2. u \in Gps
    BY DEF Gps
  <2> HIDE DEF u
  <2>3. r \in Gps /\ r.reports # <<>>
    BY <2>2, Reported, ReportSpeaks
  <2> HIDE DEF r, w
  <2>4. w.reports # <<>>
    BY <2>1, <2>3 DEF Gps
  <2> QED
    BY <2>4 DEF w
<1>2. CASE ~ (v.upload_times >= ReportTime /\ v.alarmed # TRUE)
  <2>1. w = v
    BY <1>2 DEF Periodic
  <2> QED
    BY <1>2, <2>1
<1> QED
  BY <1>1, <1>2

(* An alarm that one of the parts may have raised in a run. *)
RaisedIn(v, speed) ==
  \/ speed > MaxSpeed /\ v.os_times + 1 > SpeedDuration
  \/ speed = 0 /\ v.park_times + 1 >= ParkTime
  \/ speed > 0 /\ v.driver_time + 1 > DriveTime

Waited(v) == IF v.upload_times < ReportTime THEN v.upload_times + 1 ELSE v.upload_times

LEMMA RunWaited ==
  ASSUME gps \in Gps
  PROVE  /\ Run.upload_times = Waited(gps) /\ Run.reports = <<>> /\ Run.alarmed = FALSE
         /\ Heard.upload_times = Waited(gps) /\ Heard.reports = <<>> /\ Heard.alarmed = FALSE
<1>1. Waited(gps) \in 0 .. ReportTime
  <2>1. gps.upload_times \in 0 .. ReportTime /\ ReportTime \in Nat
    BY DriveConstants DEF Gps
  <2> QED
    BY <2>1 DEF Waited
<1>2. Run = [gps EXCEPT !.alarmed = FALSE, !.reports = <<>>, !.texts = {}, !.upload_times = Waited(gps)]
  BY DEF Run, Waited
<1>3. Run.upload_times = Waited(gps) /\ Run.reports = <<>> /\ Run.alarmed = FALSE
  BY <1>2 DEF Gps
<1>4. Heard = [[Run EXCEPT !.flags = Run.flags \ {"gnss"}] EXCEPT !.model_cnt = 0]
  BY DEF Heard, Cancel
<1>5. Run \in Gps
  BY RunBegins
<1> QED
  BY <1>3, <1>4, <1>5 DEF Gps

LEMMA PositionSilent ==
  ASSUME gps \in Gps, gps.fixed = TRUE => gps.rtc = TRUE, "overtime" \notin masked,
         NEW speed \in Nat, NEW midnight \in BOOLEAN, Position(speed, midnight), gps'.reports = <<>>
  PROVE  /\ gps'.upload_times = Waited(gps)
         /\ Waited(gps) >= ReportTime => RaisedIn(gps, speed)
<1> DEFINE v1 == Located(Heard)
           v2 == DayDrive(v1, speed, midnight)
           v3 == Overspeed(v2, speed)
           v4 == Parking(v3, speed)
           v5 == Fatigue(v4, speed)
           v6 == Periodic(v5)
           s == speed > MaxSpeed /\ v2.os_times + 1 > SpeedDuration
           p == speed = 0 /\ v3.park_times + 1 >= ParkTime
           t == speed > 0 /\ v4.driver_time + 1 > DriveTime
<1>0. gps' = v6
  BY DEF Position
<1>1. Heard \in Gps /\ Same(gps, Heard) /\ (Heard.fixed = TRUE => Heard.rtc = TRUE)
      /\ Honest(Heard, TRUE, TRUE)
  <2>1. Heard \in Gps /\ ~ Told(Heard) /\ Same(gps, Heard)
    BY RunBegins
  <2>2. Honest(Heard, TRUE, TRUE)
    BY <2>1, Zenon DEF Honest
  <2> QED
    BY <2>1, <2>2 DEF Same, DaySame
<1>2. /\ v1 \in Gps /\ Honest(v1, TRUE, TRUE) /\ v1.rtc = TRUE
      /\ SpeedSame(Heard, v1) /\ ParkSame(Heard, v1) /\ TiredSame(Heard, v1)
      /\ Silently(Heard, v1, FALSE)
  BY <1>1, LocatedDone, LocatedSilently
<1> HIDE DEF v1
<1>3. /\ v2 \in Gps /\ Honest(v2, TRUE, TRUE)
      /\ SpeedSame(v1, v2) /\ ParkSame(v1, v2) /\ TiredSame(v1, v2)
      /\ Silently(v1, v2, FALSE)
  BY <1>2, DayDriveDone, DayDriveSilently
<1> HIDE DEF v2
<1>4. /\ v3 \in Gps /\ Honest(v3, TRUE, TRUE)
      /\ ParkSame(v2, v3) /\ TiredSame(v2, v3)
      /\ Silently(v2, v3, s)
  BY <1>3, OverspeedDone, OverspeedSilently
<1> HIDE DEF v3
<1>5. /\ v4 \in Gps /\ Honest(v4, TRUE, TRUE) /\ TiredSame(v3, v4)
      /\ Silently(v3, v4, p)
  BY <1>4, ParkingDone, ParkingSilently
<1> HIDE DEF v4
<1>6. v5 \in Gps /\ Silently(v4, v5, t)
  BY <1>5, FatigueDone, FatigueSilently
<1> HIDE DEF v5
<1>7. /\ v6.upload_times = v5.upload_times /\ v5.reports = <<>>
      /\ v5.upload_times >= ReportTime => v5.alarmed = TRUE
  BY <1>0, <1>6, PeriodicSpeaks
<1>8. /\ v4.reports = <<>> /\ v3.reports = <<>> /\ v2.reports = <<>> /\ v1.reports = <<>>
      /\ v5.upload_times = Heard.upload_times
      /\ v5.alarmed = TRUE => Heard.alarmed = TRUE \/ s \/ p \/ t
  <2> HIDE DEF s, p, t
  <2>1. v4.reports = <<>> /\ v5.upload_times = v4.upload_times /\ (v5.alarmed = TRUE => v4.alarmed = TRUE \/ t)
    BY <1>6, <1>7, Zenon DEF Silently
  <2>2. v3.reports = <<>> /\ v4.upload_times = v3.upload_times /\ (v4.alarmed = TRUE => v3.alarmed = TRUE \/ p)
    BY <1>5, <2>1, Zenon DEF Silently
  <2>3. v2.reports = <<>> /\ v3.upload_times = v2.upload_times /\ (v3.alarmed = TRUE => v2.alarmed = TRUE \/ s)
    BY <1>4, <2>2, Zenon DEF Silently
  <2>4. v1.reports = <<>> /\ v2.upload_times = v1.upload_times /\ (v2.alarmed = TRUE => v1.alarmed = TRUE)
    BY <1>3, <2>3, Zenon DEF Silently
  <2>5. v1.upload_times = Heard.upload_times /\ (v1.alarmed = TRUE => Heard.alarmed = TRUE)
    BY <1>2, <2>4, Zenon DEF Silently
  <2> QED
    BY <2>1, <2>2, <2>3, <2>4, <2>5, Zenon
<1>9. Heard.upload_times = Waited(gps) /\ Heard.alarmed = FALSE
  BY RunWaited
<1>10. v2.os_times = gps.os_times /\ v3.park_times = gps.park_times /\ v4.driver_time = gps.driver_time
  BY <1>1, <1>2, <1>3, <1>4, <1>5 DEF Same, SpeedSame, ParkSame, TiredSame
<1>11. Waited(gps) >= ReportTime => s \/ p \/ t
  <2> HIDE DEF s, p, t, v6
  <2> QED
    BY <1>7, <1>8, <1>9
<1>12. s \/ p \/ t => RaisedIn(gps, speed)
  BY <1>10 DEF RaisedIn
<1>13. gps'.upload_times = Waited(gps)
  BY <1>0, <1>7, <1>8, <1>9
<1> QED
  BY <1>11, <1>12, <1>13

(* A position that is not known is told of when a report is due. *)
LEMMA NoPositionSilent ==
  ASSUME gps \in Gps, NoPosition
  PROVE  /\ gps'.reports = <<>> => gps'.upload_times = Waited(gps) /\ Waited(gps) < ReportTime
         /\ gps'.upload_times \in {0, Waited(gps)}
<1> DEFINE u == [Heard EXCEPT !.upload_times = 0, !.fixed = FALSE]
           r == report_location_buildbody(u)
<1>1. Heard \in Gps /\ Heard.upload_times = Waited(gps) /\ Waited(gps) \in Nat /\ ReportTime \in Nat
  BY RunBegins, RunWaited, Ranges, DriveConstants
<1>2. CASE Heard.upload_times >= ReportTime
  <2>1. u \in Gps /\ u.upload_times = 0
    BY <1>1, Ranges DEF Gps
  <2>2. gps' = r
    BY <1>2 DEF NoPosition
  <2> HIDE DEF u
  <2>3. r.reports # <<>> /\ r.upload_times = 0
    BY <2>1, ReportSpeaks
  <2> HIDE DEF r
  <2> QED
    BY <2>2, <2>3
<1>3. CASE ~ (Heard.upload_times >= ReportTime)
  <2>1. gps' = Heard
    BY <1>3 DEF NoPosition
  <2> QED
    BY <1>1, <1>3, <2>1
<1> QED
  BY <1>2, <1>3

LEMMA QuietWaits ==
  ASSUME gps \in Gps, NoData \/ OtherData
  PROVE  gps'.upload_times = Waited(gps)
<1>1. /\ Run \in Gps /\ Run.upload_times = Waited(gps)
      /\ Heard.upload_times = Waited(gps)
  BY RunBegins, RunWaited
<1>2. CASE OtherData
  BY <1>1, <1>2 DEF OtherData
<1>3. CASE NoData
  <2> DEFINE t == handle_alarm_sms(Run, "gnss")
             u == [t EXCEPT !.flags = t.flags \cup {"gnss"}]
  <2>1. \/ gps' = [Run EXCEPT !.model_cnt = Run.model_cnt + 1]
        \/ gps' = Run
        \/ gps' = t
        \/ gps' = report_location_buildbody(u)
    BY <1>3, Zenon DEF NoData, handle_alarm_status
  <2>2. t \in Gps /\ t.upload_times = Run.upload_times
    <3>1. Run.texts \cup {"gnss"} \in SUBSET Alarm
      BY <1>1 DEF Gps, Alarm
    <3>2. t = Run \/ t = [Run EXCEPT !.texts = Run.texts \cup {"gnss"}]
      BY DEF handle_alarm_sms
    <3> HIDE DEF t
    <3> QED
      BY <1>1, <3>1, <3>2 DEF Gps
  <2> HIDE DEF t
  <2>3. u \in Gps /\ u.upload_times = Run.upload_times
    BY <2>2 DEF Gps, Alarm
  <2> HIDE DEF u
  <2>4. report_location_buildbody(u).upload_times = Run.upload_times
    BY <2>3, ReportSpeaks
  <2>5. CASE gps' = [Run EXCEPT !.model_cnt = Run.model_cnt + 1]
    BY <1>1, <2>5 DEF Gps
  <2> QED
    BY <1>1, <2>1, <2>2, <2>4, <2>5
<1> QED
  BY <1>2, <1>3

(* The parameters of a device whose alarms leave a run between them, as     *)
(* those that oa_dev_params.c:78-99 starts with do.  Each of the four is     *)
(* needed: with one run less the alarms that are masked withhold the report  *)
(* for longer.                                                               *)
Spaced == ReportTime >= 1 /\ SpeedDuration >= 1 /\ DriveTime >= 2 /\ ParkTime >= 2

(* The counters after one, two and three runs on end that raised an alarm:   *)
(* none of them can be full after the third.                                *)
Once == gps.park_times = 0 /\ (gps.os_times = 0 \/ gps.driver_time = 0)
Twice ==
  /\ gps.park_times = 0
  /\ \/ gps.driver_time = 0 /\ gps.os_times <= 1
     \/ gps.os_times = 0 /\ gps.driver_time <= 1
Thrice == gps.park_times = 0 /\ gps.os_times = 0 /\ gps.driver_time <= 1

Spoken ==
  "overtime" \notin masked =>
    \/ silent <= gps.upload_times /\ silent < ReportTime
    \/ gps.upload_times = ReportTime /\ silent = ReportTime /\ Once
    \/ gps.upload_times = ReportTime /\ silent = ReportTime + 1 /\ Twice
    \/ gps.upload_times = ReportTime /\ silent = ReportTime + 2 /\ Thrice

(* What the counters of a run say of those of the next. *)
LEMMA CountersTurn ==
  ASSUME Spaced, gps \in Gps, gps' \in Gps, NEW speed \in Nat, RaisedIn(gps, speed),
         SpeedAfter(gps, gps', speed), ParkAfter(gps, gps', speed), TiredAfter(gps, gps', speed)
  PROVE  Once' /\ (Once => Twice') /\ (Twice => Thrice') /\ ~ Thrice
<1> DEFINE o == gps.os_times p == gps.park_times t == gps.driver_time
           o1 == gps'.os_times p1 == gps'.park_times t1 == gps'.driver_time
           fast == speed > MaxSpeed
<1>1. /\ o \in Nat /\ p \in Nat /\ t \in Nat /\ o1 \in Nat /\ p1 \in Nat /\ t1 \in Nat
      /\ o <= SpeedDuration /\ t <= DriveTime
      /\ SpeedDuration \in Nat /\ DriveTime \in Nat /\ ParkTime \in Nat /\ MaxSpeed \in Nat
  BY DriveConstants, Ranges DEF Gps
<1>2. SpeedDuration >= 1 /\ DriveTime >= 2 /\ ParkTime >= 2
  BY DEF Spaced
<1>3. \/ fast /\ o + 1 <= SpeedDuration /\ o1 = o + 1
      \/ fast /\ o + 1 > SpeedDuration /\ o1 = 0
      \/ ~ fast /\ o1 = 0
  BY DEF SpeedAfter
<1>4. \/ speed > 0 /\ p1 = 0
      \/ speed = 0 /\ p + 1 < ParkTime /\ p1 = p + 1
      \/ speed = 0 /\ p + 1 >= ParkTime /\ p1 = 0
  BY DEF ParkAfter
<1>5. \/ speed > 0 /\ t + 1 <= DriveTime /\ t1 = t + 1
      \/ speed > 0 /\ t + 1 > DriveTime /\ t1 = 0
      \/ speed = 0 /\ t1 \in {t, 0}
  BY DEF TiredAfter
<1>6. \/ fast /\ o + 1 > SpeedDuration
      \/ speed = 0 /\ p + 1 >= ParkTime
      \/ speed > 0 /\ t + 1 > DriveTime
  BY DEF RaisedIn
<1>7. fast => speed > 0
  BY <1>1
<1> HIDE DEF o, p, t, o1, p1, t1, fast
<1>8. p1 = 0 /\ (o1 = 0 \/ t1 = 0)
  BY <1>1, <1>2, <1>3, <1>4, <1>5, <1>6, <1>7
<1>9. p = 0 /\ (o = 0 \/ t = 0)
      => p1 = 0 /\ ((t1 = 0 /\ o1 <= 1) \/ (o1 = 0 /\ t1 <= 1))
  BY <1>1, <1>2, <1>3, <1>4, <1>5, <1>6, <1>7
<1>10. p = 0 /\ ((t = 0 /\ o <= 1) \/ (o = 0 /\ t <= 1))
       => p1 = 0 /\ o1 = 0 /\ t1 <= 1
  BY <1>1, <1>2, <1>3, <1>4, <1>5, <1>6, <1>7
<1>11. ~ (p = 0 /\ o = 0 /\ t <= 1)
  BY <1>1, <1>2, <1>3, <1>4, <1>5, <1>6, <1>7
<1>12. /\ Once <=> p = 0 /\ (o = 0 \/ t = 0)
       /\ Once' <=> p1 = 0 /\ (o1 = 0 \/ t1 = 0)
  BY DEF Once, o, p, t, o1, p1, t1
<1>13. /\ Twice <=> p = 0 /\ ((t = 0 /\ o <= 1) \/ (o = 0 /\ t <= 1))
       /\ Twice' <=> p1 = 0 /\ ((t1 = 0 /\ o1 <= 1) \/ (o1 = 0 /\ t1 <= 1))
  BY DEF Twice, o, p, t, o1, p1, t1
<1>14. /\ Thrice <=> p = 0 /\ o = 0 /\ t <= 1
       /\ Thrice' <=> p1 = 0 /\ o1 = 0 /\ t1 <= 1
  BY DEF Thrice, o, p, t, o1, p1, t1
<1> QED
  BY <1>8, <1>9, <1>10, <1>11, <1>12, <1>13, <1>14, Zenon

Reporting == silent \in Nat /\ Spoken

LEMMA DriveSpeaks ==
  ASSUME Spaced, Noted, Reporting, NEW speed \in Speeds, NEW midnight \in BOOLEAN, Drive(speed, midnight)
  PROVE  Reporting'
<1>1. /\ gps \in Gps /\ (gps.fixed = TRUE => gps.rtc = TRUE) /\ speed \in Nat
      /\ Position(speed, midnight) /\ masked' = masked
      /\ silent' = IF gps'.reports # <<>> THEN 0 ELSE Tick(silent, ReportTime + 3)
  BY DriveConstants DEF Noted, DriveTypes, FixNoted, Drive, Position, Listen
<1>2. /\ gps' \in Gps /\ SpeedAfter(gps, gps', speed) /\ ParkAfter(gps, gps', speed)
      /\ TiredAfter(gps, gps', speed)
  BY <1>1, PositionDone
<1>3. /\ gps.upload_times \in 0 .. ReportTime /\ gps'.upload_times \in 0 .. ReportTime
      /\ ReportTime \in Nat /\ ReportTime >= 1
  BY <1>1, <1>2, DriveConstants DEF Gps, Spaced
<1>4. silent' \in Nat
  BY <1>1 DEF Reporting, Tick
<1>5. ASSUME "overtime" \notin masked', gps'.reports # <<>>
      PROVE  Spoken'
  BY <1>1, <1>3, <1>5 DEF Spoken
<1>6. ASSUME "overtime" \notin masked', gps'.reports = <<>>
      PROVE  Spoken'
  <2>1. /\ gps'.upload_times = Waited(gps)
        /\ Waited(gps) >= ReportTime => RaisedIn(gps, speed)
    BY <1>1, <1>6, PositionSilent
  <2>2. RaisedIn(gps, speed) => Once' /\ (Once => Twice') /\ (Twice => Thrice') /\ ~ Thrice
    BY <1>1, <1>2, CountersTurn
  <2>3. Waited(gps) = IF gps.upload_times < ReportTime THEN gps.upload_times + 1 ELSE gps.upload_times
    BY DEF Waited
  <2>4. \/ silent <= gps.upload_times /\ silent < ReportTime
        \/ gps.upload_times = ReportTime /\ silent = ReportTime /\ Once
        \/ gps.upload_times = ReportTime /\ silent = ReportTime + 1 /\ Twice
        \/ gps.upload_times = ReportTime /\ silent = ReportTime + 2 /\ Thrice
    BY <1>1, <1>6 DEF Reporting, Spoken
  <2>5. silent \in Nat /\ (silent <= ReportTime + 2 => silent' = silent + 1)
    BY <1>1, <1>3, <1>6 DEF Reporting, Tick
  <2>6. \/ silent' <= gps'.upload_times /\ silent' < ReportTime
        \/ gps'.upload_times = ReportTime /\ silent' = ReportTime /\ Once'
        \/ gps'.upload_times = ReportTime /\ silent' = ReportTime + 1 /\ Twice'
        \/ gps'.upload_times = ReportTime /\ silent' = ReportTime + 2 /\ Thrice'
    <3>1. CASE silent <= gps.upload_times /\ silent < ReportTime
      BY <1>3, <2>1, <2>2, <2>3, <2>5, <3>1
    <3>2. CASE gps.upload_times = ReportTime /\ silent = ReportTime /\ Once
      BY <1>3, <2>1, <2>2, <2>3, <2>5, <3>2
    <3>3. CASE gps.upload_times = ReportTime /\ silent = ReportTime + 1 /\ Twice
      BY <1>3, <2>1, <2>2, <2>3, <2>5, <3>3
    <3>4. CASE gps.upload_times = ReportTime /\ silent = ReportTime + 2 /\ Thrice
      BY <1>3, <2>1, <2>2, <2>3, <2>5, <3>4
    <3> QED
      BY <2>4, <3>1, <3>2, <3>3, <3>4
  <2> QED
    BY <2>6 DEF Spoken
<1>7. "overtime" \in masked' => Spoken'
  BY DEF Spoken
<1> QED
  BY <1>4, <1>5, <1>6, <1>7 DEF Reporting

LEMMA LostSpeaks ==
  ASSUME Spaced, Noted, Reporting, Lost
  PROVE  Reporting'
<1>1. /\ gps \in Gps /\ (gps.fixed = TRUE => gps.rtc = TRUE) /\ NoPosition /\ masked' = masked
      /\ silent' = IF gps'.reports # <<>> THEN 0 ELSE Tick(silent, ReportTime + 3)
  BY DEF Noted, DriveTypes, FixNoted, Lost, NoPosition, Listen
<1>2. /\ gps'.reports = <<>> => gps'.upload_times = Waited(gps) /\ Waited(gps) < ReportTime
      /\ gps'.upload_times \in {0, Waited(gps)}
  BY <1>1, NoPositionSilent
<1>3. /\ gps.upload_times \in 0 .. ReportTime /\ ReportTime \in Nat /\ ReportTime >= 1
      /\ Waited(gps) = IF gps.upload_times < ReportTime THEN gps.upload_times + 1 ELSE gps.upload_times
  BY <1>1, DriveConstants DEF Gps, Spaced, Waited
<1>4. silent \in Nat /\ silent' \in Nat
  BY <1>1 DEF Reporting, Tick
<1>5. CASE "overtime" \notin masked' /\ gps'.reports # <<>>
  <2>1. silent' = 0 /\ gps'.upload_times \in Nat
    BY <1>1, <1>2, <1>3, <1>5
  <2>2. Spoken'
    BY <1>3, <2>1 DEF Spoken
  <2> QED
    BY <1>4, <2>2 DEF Reporting
<1>6. CASE "overtime" \notin masked' /\ gps'.reports = <<>>
  <2>1. gps.upload_times < ReportTime
    BY <1>2, <1>3, <1>6
  <2>2. silent <= gps.upload_times /\ silent < ReportTime
    BY <1>1, <1>3, <1>6, <2>1 DEF Reporting, Spoken
  <2>3. silent' = silent + 1 /\ gps'.upload_times = gps.upload_times + 1 /\ gps.upload_times + 1 < ReportTime
    BY <1>1, <1>2, <1>3, <1>4, <1>6, <2>1, <2>2 DEF Tick
  <2>4. silent' <= gps'.upload_times /\ silent' < ReportTime
    BY <1>3, <1>4, <2>2, <2>3
  <2>5. Spoken'
    BY <2>4 DEF Spoken
  <2> QED
    BY <1>4, <2>5 DEF Reporting
<1>7. CASE "overtime" \in masked'
  BY <1>4, <1>7 DEF Reporting, Spoken
<1> QED
  BY <1>5, <1>6, <1>7

LEMMA QuietSpeaks ==
  ASSUME Spaced, Noted, Reporting, Quiet
  PROVE  Reporting'
<1>1. /\ gps \in Gps /\ (gps.fixed = TRUE => gps.rtc = TRUE) /\ (NoData \/ OtherData)
      /\ masked' = masked /\ silent' = silent
  BY DEF Noted, DriveTypes, FixNoted, Quiet, NoData, OtherData
<1>2. gps'.upload_times = Waited(gps)
  BY <1>1, QuietWaits
<1>3. Idle(gps, gps')
  BY <1>1, IdleDone
<1>4. gps'.os_times = gps.os_times /\ gps'.park_times = gps.park_times /\ gps'.driver_time = gps.driver_time
  BY <1>3 DEF Idle, SpeedSame, ParkSame, TiredSame
<1>5. (Once' <=> Once) /\ (Twice' <=> Twice) /\ (Thrice' <=> Thrice)
  BY <1>4 DEF Once, Twice, Thrice
<1>6. /\ gps.upload_times \in 0 .. ReportTime /\ ReportTime \in Nat /\ silent \in Nat
      /\ Waited(gps) = IF gps.upload_times < ReportTime THEN gps.upload_times + 1 ELSE gps.upload_times
  BY <1>1, DriveConstants DEF Gps, Waited, Reporting
<1>7. Spoken'
  BY <1>1, <1>2, <1>5, <1>6 DEF Spoken, Reporting
<1> QED
  BY <1>1, <1>7 DEF Reporting

LEMMA ReportingStep ==
  ASSUME Spaced, Noted, Reporting, VNext \/ UNCHANGED <<part, hvars, pins, drum, fuel, miles>>
  PROVE  Reporting'
<1>1. CASE \E speed \in Speeds, midnight \in BOOLEAN : Drive(speed, midnight)
  BY <1>1, DriveSpeaks
<1>2. CASE Lost
  BY <1>2, LostSpeaks
<1>3. CASE Quiet
  BY <1>3, QuietSpeaks
<1>4. CASE \E mask \in Masks : Mask(mask)
  <2>1. silent' = 0 /\ gps'.upload_times = gps.upload_times
    BY <1>4 DEF Mask, SetMask, Noted, DriveTypes, Gps
  <2>2. gps.upload_times \in Nat /\ ReportTime \in Nat /\ ReportTime >= 1
    BY DriveConstants, Ranges DEF Noted, DriveTypes, Spaced
  <2> QED
    BY <2>1, <2>2 DEF Reporting, Spoken
<1>5. CASE UNCHANGED hvars
  BY <1>5 DEF hvars, vars, Reporting, Spoken, Once, Twice, Thrice
<1>6. HNext \/ UNCHANGED hvars
  BY DEF VNext
<1> QED
  BY <1>1, <1>2, <1>3, <1>4, <1>5, <1>6 DEF HNext

(* Where the alarms leave a run between them, reports go on however the     *)
(* alarms that are masked fall together: a report is withheld by at most    *)
(* three runs on end (oa_gps.c:366-380, 405-416).                           *)
THEOREM ReportsAreSent ==
  ASSUME Spaced
  PROVE  VSpec => []ReportsGoOn
<1>1. VInit => Noted /\ Reporting
  <2>1. VInit => Noted
    BY DriveBegins DEF VInit
  <2>2. VInit => Reporting
    BY DriveConstants DEF VInit, HInit, Init, Start, Reporting, Spoken, Spaced
  <2> QED
    BY <2>1, <2>2
<1>2. Noted /\ [VNext]_<<part, hvars, pins, drum, fuel, miles>> => Noted'
  BY NotedStep
<1>3. Noted /\ Reporting /\ [VNext]_<<part, hvars, pins, drum, fuel, miles>> => Reporting'
  BY ReportingStep
<1>4. Noted /\ Reporting => ReportsGoOn
  BY DriveConstants DEF Reporting, Spoken, ReportsGoOn
<1> QED
  BY <1>1, <1>2, <1>3, <1>4, PTL DEF VSpec

-----------------------------------------------------------------------------
(* The fuel *)

LEMMA FuelConstants ==
  /\ AD_SAMPLES \in Nat \ {0} /\ Size \in Nat \ {0} /\ Check \in Nat /\ UartCheck \in Nat
  /\ Limit \in Nat /\ UartLimit \in Nat /\ Longest \in Nat
  /\ Levels \subseteq Nat /\ Percents \subseteq Nat
  /\ Tables \subseteq F!Table /\ Strays \subseteq F!Word
  /\ Longest > Check * (AD_SAMPLES + 1) /\ Longest > UartCheck
BY VehicleAssumption DEF F!FuelAssumption

LEMMA Words ==
  /\ F!Word \subseteq Nat /\ F!Volume \subseteq F!Word /\ 0 \in F!Volume
  /\ \A n \in Int : F!u16(n) \in F!Word
<1>1. F!Word \subseteq Nat /\ F!Volume \subseteq F!Word /\ 0 \in F!Volume
  <2> DEFINE w == 65535
             v == 16383
  <2>1. w \in Nat /\ v \in Nat /\ v <= w
    OBVIOUS
  <2>2. F!Word = 0 .. w /\ F!Volume = 0 .. v
    BY DEF F!Word, F!Volume
  <2> HIDE DEF w, v
  <2> QED
    BY <2>1, <2>2
<1>2. ASSUME NEW n \in Int
      PROVE  F!u16(n) \in F!Word
  <2> DEFINE w == 65536
  <2>1. w \in Nat \ {0} /\ F!Word = 0 .. w - 1 /\ F!u16(n) = n % w
    BY SMT DEF F!Word, F!u16
  <2> HIDE DEF w
  <2>2. n % w \in 0 .. w - 1
    BY <2>1, SMT
  <2> QED
    BY <2>1, <2>2, SMT
<1> QED
  BY <1>1, <1>2

Entry == [real : F!Volume, measure : F!Word]

(* What the file holds is a table, whether or not its points rise. *)
Saved(t) == t.num \in Nat /\ t.data \in [1 .. Size -> Entry]

LEMMA TablesAreSaved ==
  ASSUME NEW t \in {F!NoFile, F!Zeros} \cup Tables
  PROVE  Saved(t)
<1>1. CASE t \in Tables
  <2>1. t.num \in 0 .. 255 /\ t.data \in [1 .. Size -> Entry]
    BY <1>1, FuelConstants DEF F!Table, Entry
  <2>2. t.num \in Nat
    <3> DEFINE most == 255
    <3>1. most \in Nat /\ t.num \in 0 .. most
      BY <2>1
    <3> HIDE DEF most
    <3> QED
      BY <3>1
  <2> QED
    BY <2>1, <2>2, Zenon DEF Saved
<1>2. CASE t \in {F!NoFile, F!Zeros}
  <2>1. [real |-> 0, measure |-> 0] \in Entry
    BY Words DEF Entry
  <2>2. F!Blank \in [1 .. Size -> Entry]
    BY <2>1 DEF F!Blank
  <2>3. t.num = 0 /\ t.data = F!Blank
    BY <1>2 DEF F!NoFile, F!Zeros
  <2> QED
    BY <2>2, <2>3 DEF Saved
<1> QED
  BY <1>1, <1>2

LEMMA EntryFields ==
  ASSUME NEW t, Saved(t), NEW k \in 1 .. Size
  PROVE  /\ t.data[k].real \in F!Volume /\ t.data[k].real \in F!Word /\ t.data[k].real \in Nat
         /\ t.data[k].measure \in Nat
<1>1. t.data[k] \in Entry
  BY DEF Saved
<1> QED
  BY <1>1, Words DEF Entry

NatLess == {ss \in Nat \X Nat : ss[1] < ss[2]}

(* The least of a set of numbers, for FiniteSetsExt's Min. *)
LEMMA LeastNatural ==
  ASSUME NEW T \in SUBSET Nat, T # {}
  PROVE  F!Min(T) \in T /\ \A k \in T : F!Min(T) <= k
<1>1. IsWellFoundedOn(NatLess, Nat)
  BY NatLessThanWellFounded DEF OpToRel, NatLess
<1>2. PICK m \in T : \A k \in T : <<k, m>> \notin NatLess
  BY <1>1, WFMin
<1>3. ASSUME NEW k \in T
      PROVE  m <= k
  <2>1. ~(k < m)
    BY <1>2 DEF NatLess
  <2> QED
    BY <2>1
<1> QED
  BY <1>3 DEF F!Min

LEMMA SmallerAndGreater ==
  ASSUME NEW a \in Nat, NEW b \in Nat
  PROVE  /\ F!Min({a, b}) \in Nat /\ F!Min({a, b}) <= a /\ F!Min({a, b}) <= b
         /\ F!Max({a, b}) \in Nat /\ F!Max({a, b}) >= a /\ F!Max({a, b}) >= b
         /\ F!Max({a, b}) \in {a, b}
<1>1. \E m \in {a, b} : \A k \in {a, b} : m <= k
  <2>1. CASE a <= b
    BY <2>1
  <2>2. CASE b <= a
    BY <2>2
  <2> QED
    BY <2>1, <2>2
<1>2. \E m \in {a, b} : \A k \in {a, b} : m >= k
  <2>1. CASE a <= b
    BY <2>1
  <2>2. CASE b <= a
    BY <2>2
  <2> QED
    BY <2>1, <2>2
<1>3. F!Min({a, b}) \in {a, b} /\ \A k \in {a, b} : F!Min({a, b}) <= k
  BY <1>1 DEF F!Min
<1>4. F!Max({a, b}) \in {a, b} /\ \A k \in {a, b} : F!Max({a, b}) >= k
  BY <1>2 DEF F!Max
<1> QED
  BY <1>3, <1>4

LEMMA QuotientIsInt ==
  ASSUME NEW a \in Int, NEW b \in Int \ {0}
  PROVE  F!Quotient(a, b) \in Int
<1>1. F!Abs(a) \in Nat /\ F!Abs(b) \in Nat \ {0}
  BY DEF F!Abs
<1>2. F!Abs(a) \div F!Abs(b) \in Int
  BY <1>1
<1> QED
  BY <1>2 DEF F!Quotient

(* The points that reach a value, and the entry that is taken for the first. *)
Above(t, value) == {k \in 1 .. Size : k <= t.num /\ value <= t.data[k].measure}
Reached(t, value) == IF Above(t, value) = {} THEN t.num + 1 ELSE F!Min(Above(t, value))

LEMMA VolumeIs ==
  ASSUME NEW t, NEW value
  PROVE  LET i == Reached(t, value)
             hi == t.data[i]
             lo == t.data[i - 1]
         IN  F!look4_oil_vol(t, value) =
               IF i = 1 THEN {t.data[1].real}
               ELSE IF i > Size \/ hi.measure = lo.measure THEN Strays
               ELSE {F!u16(F!Quotient(hi.real * value - lo.real * value - lo.measure * hi.real
                                        + lo.real * hi.measure,
                                      hi.measure - lo.measure))}
BY Zenon DEF F!look4_oil_vol, Reached, Above

LEMMA ReachedOne ==
  ASSUME NEW t, Saved(t), NEW value \in Nat
  PROVE  Reached(t, value) \in Nat \ {0}
<1>1. Above(t, value) \in SUBSET Nat
  BY DEF Above
<1>2. CASE Above(t, value) = {}
  BY <1>2 DEF Reached, Saved
<1>3. CASE Above(t, value) # {}
  <2>1. F!Min(Above(t, value)) \in 1 .. Size
    BY <1>1, <1>3, LeastNatural DEF Above
  <2> QED
    BY <1>3, <2>1 DEF Reached
<1> QED
  BY <1>2, <1>3

(* Whatever the table holds, a volume is one of 16 bits. *)
LEMMA VolumeIsWord ==
  ASSUME NEW t, Saved(t), NEW value \in Nat, NEW v \in F!look4_oil_vol(t, value)
  PROVE  v \in F!Word
<1> DEFINE i == Reached(t, value)
           hi == t.data[i]
           lo == t.data[i - 1]
           top == hi.real * value - lo.real * value - lo.measure * hi.real + lo.real * hi.measure
           bottom == hi.measure - lo.measure
<1>1. i \in Nat \ {0}
  BY ReachedOne
<1>2. F!look4_oil_vol(t, value) =
        IF i = 1 THEN {t.data[1].real} ELSE IF i > Size \/ hi.measure = lo.measure THEN Strays
        ELSE {F!u16(F!Quotient(top, bottom))}
  BY VolumeIs
<1> HIDE DEF i
<1>3. CASE i = 1
  <2>1. t.data[1].real \in F!Word
    BY EntryFields, FuelConstants
  <2> QED
    BY <1>2, <1>3, <2>1
<1>4. CASE i # 1 /\ (i > Size \/ hi.measure = lo.measure)
  BY <1>2, <1>4, FuelConstants
<1>5. CASE i # 1 /\ ~(i > Size \/ hi.measure = lo.measure)
  <2>1. i \in 1 .. Size /\ i - 1 \in 1 .. Size
    BY <1>1, <1>5, FuelConstants
  <2>2. /\ hi.real \in Nat /\ hi.measure \in Nat /\ lo.real \in Nat /\ lo.measure \in Nat
    BY <2>1, EntryFields
  <2>3. hi.measure # lo.measure
    BY <1>5
  <2>4. bottom \in Int \ {0}
    <3> DEFINE a == hi.measure b == lo.measure
    <3>1. a \in Nat /\ b \in Nat /\ a # b
      BY <2>2, <2>3
    <3> HIDE DEF a, b
    <3>2. a - b \in Int \ {0}
      BY <3>1
    <3> QED
      BY <3>2 DEF a, b
  <2> HIDE DEF hi, lo
  <2>5. top \in Int
    <3>1. /\ hi.real * value \in Nat /\ lo.real * value \in Nat
          /\ lo.measure * hi.real \in Nat /\ lo.real * hi.measure \in Nat
      BY <2>2, Product
    <3> QED
      BY <3>1
  <2> HIDE DEF top, bottom
  <2>6. F!u16(F!Quotient(top, bottom)) \in F!Word
    BY <2>4, <2>5, QuotientIsInt, Words
  <2>7. v = F!u16(F!Quotient(top, bottom))
    BY <1>2, <1>5
  <2> QED
    BY <2>6, <2>7
<1> QED
  BY <1>3, <1>4, <1>5

LEMMA Divided ==
  ASSUME NEW n \in Nat, NEW d \in Nat \ {0}, NEW r \in Nat
  PROVE  /\ n \div d \in Nat
         /\ r * d <= n => r <= n \div d
         /\ n <= r * d => n \div d <= r
<1> DEFINE q == n \div d
<1>1. q \in Nat /\ q * d <= n /\ n < q * d + d
  OBVIOUS
<1> HIDE DEF q
<1>2. q * d \in Nat /\ r * d \in Nat
  BY <1>1, Product
<1>3. r * d <= n => r <= q
  <2>1. ASSUME q < r
        PROVE  r * d > n
    <3>1. (r - (q + 1)) * d \in Nat
      BY <1>1, <2>1, Product
    <3>2. (r - (q + 1)) * d = r * d - (q * d + d)
      BY <1>1
    <3> QED
      BY <1>1, <1>2, <3>1, <3>2
  <2> QED
    BY <1>1, <1>2, <2>1
<1>4. n <= r * d => q <= r
  <2>1. ASSUME r < q
        PROVE  n > r * d
    <3>1. (q - (r + 1)) * d \in Nat
      BY <1>1, <2>1, Product
    <3>2. (q - (r + 1)) * d = q * d - (r * d + d)
      BY <1>1
    <3> QED
      BY <1>1, <1>2, <3>1, <3>2
  <2> QED
    BY <1>1, <1>2, <2>1
<1> QED
  BY <1>1, <1>3, <1>4 DEF q

(* A weighted mean lies between what it is the mean of. *)
LEMMA Mean ==
  ASSUME NEW a \in Nat, NEW b \in Nat, NEW x \in Nat, NEW y \in Nat, x + y # 0,
         NEW lo \in Nat, NEW hi \in Nat, lo <= a, lo <= b, a <= hi, b <= hi
  PROVE  /\ a * x + b * y \in Nat /\ (a * x + b * y) \div (x + y) \in Nat
         /\ lo <= (a * x + b * y) \div (x + y)
         /\ (a * x + b * y) \div (x + y) <= hi
<1> DEFINE n == a * x + b * y
           d == x + y
<1>1. n \in Nat /\ d \in Nat \ {0}
  BY Product
<1>2. lo * d <= n
  <2>1. (a - lo) * x \in Nat /\ (b - lo) * y \in Nat
    BY Product
  <2>2. (a - lo) * x + (b - lo) * y = n - lo * d
    OBVIOUS
  <2>3. lo * d \in Nat
    BY <1>1, Product
  <2> HIDE DEF n, d
  <2> QED
    BY <1>1, <2>1, <2>2, <2>3
<1>3. n <= hi * d
  <2>1. (hi - a) * x \in Nat /\ (hi - b) * y \in Nat
    BY Product
  <2>2. (hi - a) * x + (hi - b) * y = hi * d - n
    OBVIOUS
  <2>3. hi * d \in Nat
    BY <1>1, Product
  <2> HIDE DEF n, d
  <2> QED
    BY <1>1, <2>1, <2>2, <2>3
<1> HIDE DEF n, d
<1>4. n \div d \in Nat /\ lo <= n \div d /\ n \div d <= hi
  BY <1>1, <1>2, <1>3, Divided
<1> QED
  BY <1>1, <1>4 DEF n, d

(* What is no more than a number of 16 bits is not cut. *)
LEMMA SmallWord ==
  ASSUME NEW r \in F!Word, NEW n \in Nat, n <= r
  PROVE  F!u16(n) = n
<1> DEFINE w == 65536
<1>1. w \in Nat \ {0} /\ r \in Nat /\ r < w
  BY SMT DEF F!Word
<1>2. F!u16(n) = n % w
  BY SMT DEF F!u16
<1> HIDE DEF w
<1>3. n \in 0 .. w - 1
  BY <1>1
<1>4. n % w = n
  BY <1>1, <1>3
<1> QED
  BY <1>2, <1>4

(* Between two points the volume is the mean of theirs by the distance. *)
LEMMA VolumeOnLine ==
  ASSUME NEW t, Saved(t), NEW k \in 1 .. Size - 1, k < t.num, NEW value \in Nat,
         \A j \in 1 .. k : t.data[j].measure < value,
         value <= t.data[k + 1].measure
  PROVE  LET lo == t.data[k]
             hi == t.data[k + 1]
         IN  F!look4_oil_vol(t, value) =
               {F!u16(F!Quotient(hi.real * value - lo.real * value - lo.measure * hi.real
                                   + lo.real * hi.measure,
                                 hi.measure - lo.measure))}
<1>1. k \in 1 .. Size /\ k + 1 \in 1 .. Size /\ k + 1 <= t.num /\ t.num \in Nat /\ k \in 1 .. k
  BY FuelConstants DEF Saved
<1>2. t.data[k].measure < value /\ t.data[k].measure \in Nat /\ t.data[k + 1].measure \in Nat
  BY <1>1, EntryFields
<1>3. Reached(t, value) = k + 1
  <2>1. Above(t, value) \in SUBSET Nat /\ k + 1 \in Above(t, value)
    BY <1>1 DEF Above
  <2> DEFINE m == F!Min(Above(t, value))
  <2>2. m \in Above(t, value) /\ m <= k + 1
    BY <2>1, LeastNatural
  <2>3. m \in 1 .. Size /\ value <= t.data[m].measure
    BY <2>2 DEF Above
  <2> HIDE DEF m
  <2>4. ~(m \in 1 .. k)
    <3>1. m \in 1 .. k => t.data[m].measure < value /\ t.data[m].measure \in Nat
      BY <2>3, EntryFields
    <3> QED
      BY <2>3, <3>1
  <2>5. m = k + 1
    BY <2>2, <2>3, <2>4
  <2>6. Reached(t, value) = m
    BY <2>1 DEF Reached, m
  <2> QED
    BY <2>5, <2>6
<1>4. (k + 1) - 1 = k /\ k + 1 # 1 /\ ~(k + 1 > Size)
  BY <1>1, FuelConstants
<1>5. t.data[k + 1].measure # t.data[k].measure
  BY <1>2
<1> QED
  BY <1>3, <1>4, <1>5, VolumeIs

LEMMA LineIsMean ==
  ASSUME NEW hr \in Nat, NEW lr \in Nat, NEW hm \in Nat, NEW lm \in Nat, NEW value \in Nat
  PROVE  hr * value - lr * value - lm * hr + lr * hm = hr * (value - lm) + lr * (hm - value)
BY SMTT(30)

(* In any table a value between two points, the first to reach it and the   *)
(* one before, has a volume between theirs.                                 *)
LEMMA SavedIsFollowed ==
  ASSUME NEW t, Saved(t), NEW k \in 1 .. Size - 1, k < t.num,
         NEW value \in t.data[k].measure + 1 .. t.data[k + 1].measure,
         \A j \in 1 .. k : t.data[j].measure < value,
         NEW v \in F!look4_oil_vol(t, value)
  PROVE  LET lo == t.data[k]
             hi == t.data[k + 1]
         IN  /\ F!Min({lo.real, hi.real}) <= v /\ v <= F!Max({lo.real, hi.real})
             /\ value = hi.measure => v = hi.real
<1> DEFINE hr == t.data[k + 1].real
           lr == t.data[k].real
           hm == t.data[k + 1].measure
           lm == t.data[k].measure
           x == value - lm
           y == hm - value
           n == hr * x + lr * y
           q == n \div (x + y)
           low == F!Min({lr, hr})
           high == F!Max({lr, hr})
<1>1. k \in 1 .. Size /\ k + 1 \in 1 .. Size
  BY FuelConstants
<1>2. /\ hr \in Nat /\ lr \in Nat /\ hm \in Nat /\ lm \in Nat
      /\ hr \in F!Word /\ lr \in F!Word
  BY <1>1, EntryFields
<1>3. value \in Nat /\ lm < value /\ value <= hm
  <2> value \in lm + 1 .. hm
    OBVIOUS
  <2> HIDE DEF hm, lm
  <2> QED
    BY <1>2
<1>4. v = F!u16(F!Quotient(hr * value - lr * value - lm * hr + lr * hm, hm - lm))
  BY <1>3, VolumeOnLine
<1>5. /\ low \in Nat /\ low <= lr /\ low <= hr
      /\ high \in Nat /\ high >= lr /\ high >= hr /\ high \in {lr, hr}
  <2> HIDE DEF lr, hr
  <2> QED
    BY <1>2, SmallerAndGreater
<1> HIDE DEF hr, lr, hm, lm, low, high
<1>6. x \in Nat /\ y \in Nat /\ x + y = hm - lm /\ x + y \in Nat \ {0}
  BY <1>2, <1>3
<1>7. hr * value - lr * value - lm * hr + lr * hm = n
  BY <1>2, <1>3, LineIsMean
<1> HIDE DEF x, y
<1>8. n \in Nat /\ q \in Nat /\ low <= q /\ q <= high
  BY <1>2, <1>5, <1>6, Mean
<1>9. y = 0 => q = hr
  <2>1. ASSUME y = 0
        PROVE  n <= hr * (x + y) /\ hr * (x + y) <= n
    <3>1. lr * y = 0 /\ x + y = x /\ hr * x \in Nat
      BY <1>2, <1>6, <2>1, Product
    <3> QED
      BY <3>1
  <2> HIDE DEF n
  <2>2. y = 0 => hr <= q /\ q <= hr
    BY <1>2, <1>6, <1>8, <2>1, Divided
  <2> QED
    BY <1>2, <1>8, <2>2
<1>10. F!Quotient(n, x + y) = q
  <2> DEFINE d == x + y
  <2>1. d \in Nat \ {0} /\ q = n \div d
    BY <1>6
  <2> HIDE DEF d, n, q
  <2>2. F!Abs(n) = n /\ F!Abs(d) = d /\ ~(n < 0) /\ ~(d < 0)
    BY <1>8, <2>1 DEF F!Abs
  <2>3. F!Quotient(n, d) = q
    BY <2>1, <2>2, SMT DEF F!Quotient
  <2> QED
    BY <2>3 DEF d
<1>11. F!u16(q) = q
  <2> HIDE DEF q
  <2>1. high \in F!Word
    BY <1>2, <1>5
  <2> QED
    BY <1>8, <2>1, SmallWord
<1>12. v = q
  BY <1>4, <1>6, <1>7, <1>10, <1>11, Zenon
<1>13. value = hm => y = 0
  BY <1>2, <1>3 DEF y
<1> HIDE DEF q
<1>14. low <= v /\ v <= high /\ (value = hm => v = hr)
  BY <1>8, <1>9, <1>12, <1>13
<1> QED
  BY <1>14 DEF low, high, hr, lr, hm

(* A detector remembers the first value of the stop.  period is the time    *)
(* from one of its values to the next, of which n has passed: its counter    *)
(* has run at least as long as the value has been too low without an alarm,  *)
(* and no longer than the stop.                                              *)
Watching(w, s, limit, check, period, n) ==
  /\ w \in [record : BOOLEAN, last : Nat, times : 0 .. check, alarm : BOOLEAN]
  /\ s \in [on : BOOLEAN, first : Nat, last : Nat, stood : 0 .. Longest, low : 0 .. Longest]
  /\ w.record = s.on
  /\ s.on => w.last = s.first
  /\ ~s.on => w.times = 0 /\ s.low = 0
  /\ s.low > 0 => w.times > 0 /\ s.low <= (w.times - 1) * period + n + 1
  /\ s.stood >= (w.times - 1) * period + n \/ ~s.on
  /\ w.alarm => s.on /\ s.first - s.last > limit /\ s.stood >= check * period

(* The detector has a limit and a number of values to wait for, and the      *)
(* observer counts beyond them.                                              *)
Bounds(limit, check, period) ==
  /\ limit \in Nat /\ check \in Nat /\ period \in Nat \ {0}
  /\ Longest \in Nat /\ Longest > check * period

LEMMA DetectorBounds ==
  /\ Bounds(Limit, Check, AD_SAMPLES + 1)
  /\ Bounds(UartLimit, UartCheck, 1)
<1>1. AD_SAMPLES + 1 \in Nat \ {0} /\ UartCheck * 1 = UartCheck
  BY FuelConstants
<1> QED
  BY <1>1, FuelConstants DEF Bounds

LEMMA Unwatching ==
  ASSUME NEW limit, NEW check, NEW period, Bounds(limit, check, period)
  PROVE  Watching(F!Unwatched, F!Unseen, limit, check, period, 0)
<1>1. /\ F!Unwatched = [record |-> FALSE, last |-> 0, times |-> 0, alarm |-> FALSE]
      /\ F!Unseen = [on |-> FALSE, first |-> 0, last |-> 0, stood |-> 0, low |-> 0]
  BY DEF F!Unwatched, F!Unseen
<1>2. check \in Nat /\ Longest \in Nat
  BY DEF Bounds
<1> QED
  BY <1>1, <1>2 DEF Watching

LEMMA QuietIs ==
  ASSUME NEW w, NEW check, w \in [record : BOOLEAN, last : Nat, times : 0 .. check, alarm : BOOLEAN]
  PROVE  F!Quiet(w) = [record |-> w.record, last |-> w.last, times |-> w.times, alarm |-> FALSE]
<1> DEFINE r == w.record l == w.last t == w.times a == w.alarm off == FALSE
<1>1. w = [record |-> r, last |-> l, times |-> t, alarm |-> a]
  OBVIOUS
<1> HIDE DEF r, l, t, a, off
<1>2. [[record |-> r, last |-> l, times |-> t, alarm |-> a] EXCEPT !.alarm = off]
        = [record |-> r, last |-> l, times |-> t, alarm |-> off]
  OBVIOUS
<1>3. [w EXCEPT !.alarm = off] = [record |-> r, last |-> l, times |-> t, alarm |-> off]
  BY <1>1, <1>2, Zenon
<1> QED
  BY <1>3 DEF F!Quiet, r, l, t, off

LEMMA QuietWatching ==
  ASSUME NEW w, NEW s, NEW limit, NEW check, NEW period, NEW n,
         Watching(w, s, limit, check, period, n)
  PROVE  Watching(F!Quiet(w), s, limit, check, period, n)
<1>1. w \in [record : BOOLEAN, last : Nat, times : 0 .. check, alarm : BOOLEAN]
  BY DEF Watching
<1>2. F!Quiet(w) = [record |-> w.record, last |-> w.last, times |-> w.times, alarm |-> FALSE]
  BY <1>1, QuietIs
<1> QED
  BY <1>1, <1>2 DEF Watching

LEMMA Ticks ==
  ASSUME NEW n \in 0 .. Longest, Longest \in Nat
  PROVE  /\ F!Tick(n) \in 0 .. Longest /\ F!Tick(n) <= n + 1
         /\ \A m \in Int : m <= n + 1 /\ m <= Longest => F!Tick(n) >= m
BY DEF F!Tick

(* What the observer notes of the time. *)
LEMMA LaterIs ==
  ASSUME NEW s, Longest \in Nat,
         s \in [on : BOOLEAN, first : Nat, last : Nat, stood : 0 .. Longest, low : 0 .. Longest]
  PROVE  F!Later(s) = [on |-> s.on, first |-> s.first, last |-> s.last,
                       stood |-> IF s.on THEN F!Tick(s.stood) ELSE s.stood,
                       low |-> IF s.low > 0 THEN F!Tick(s.low) ELSE s.low]
<1> DEFINE o == s.on f == s.first l == s.last d == s.stood b == s.low
           stood == IF s.on THEN F!Tick(s.stood) ELSE s.stood
           low == IF s.low > 0 THEN F!Tick(s.low) ELSE s.low
<1>1. s = [on |-> o, first |-> f, last |-> l, stood |-> d, low |-> b]
  OBVIOUS
<1>2. F!Later(s) = [s EXCEPT !.stood = stood, !.low = low]
  BY DEF F!Later
<1> HIDE DEF o, f, l, d, b, stood, low
<1>3. [[on |-> o, first |-> f, last |-> l, stood |-> d, low |-> b] EXCEPT !.stood = stood]
        = [on |-> o, first |-> f, last |-> l, stood |-> stood, low |-> b]
  OBVIOUS
<1>4. [[on |-> o, first |-> f, last |-> l, stood |-> stood, low |-> b] EXCEPT !.low = low]
        = [on |-> o, first |-> f, last |-> l, stood |-> stood, low |-> low]
  OBVIOUS
<1>5. F!Later(s) = [on |-> o, first |-> f, last |-> l, stood |-> stood, low |-> low]
  BY <1>1, <1>2, <1>3, <1>4, Zenon
<1> QED
  BY <1>5 DEF o, f, l, stood, low

(* Nothing that has been counted goes beyond the check. *)
LEMMA Periods ==
  ASSUME NEW check \in Nat, NEW period \in Nat \ {0}, NEW times \in 0 .. check, NEW n \in 0 .. period - 1
  PROVE  /\ (times - 1) * period \in Int /\ times * period \in Nat /\ check * period \in Nat
         /\ (times - 1) * period = times * period - period
         /\ (times - 1) * period + n + 1 <= check * period
         /\ times * period <= check * period
<1>1. times * period \in Nat /\ check * period \in Nat /\ (check - times) * period \in Nat
  BY Product
<1>2. (times - 1) * period = times * period - period /\ (check - times) * period = check * period - times * period
  OBVIOUS
<1> DEFINE a == times * period
           b == check * period
<1>3. a \in Nat /\ b \in Nat /\ a <= b /\ (times - 1) * period = a - period
  BY <1>1, <1>2
<1> HIDE DEF a, b
<1>4. a - period \in Int /\ a - period + n + 1 <= b
  BY <1>3
<1> QED
  BY <1>3, <1>4 DEF a, b

(* A second without a value, or one whose value is unknown. *)
LEMMA SecondWatching ==
  ASSUME NEW w, NEW s, NEW limit, NEW check, NEW period, Bounds(limit, check, period),
         NEW n \in 0 .. period - 1, Watching(w, s, limit, check, period, n)
  PROVE  /\ n + 1 < period => Watching(F!Quiet(w), F!Later(s), limit, check, period, n + 1)
         /\ Watching(F!Quiet(w), [F!Later(s) EXCEPT !.low = 0], limit, check, period, 0)
<1> DEFINE low == IF s.low > 0 THEN F!Tick(s.low) ELSE s.low
           stood == IF s.on THEN F!Tick(s.stood) ELSE s.stood
           quiet == [record |-> w.record, last |-> w.last, times |-> w.times, alarm |-> FALSE]
           late == [on |-> s.on, first |-> s.first, last |-> s.last, stood |-> stood, low |-> low]
           unknown == [on |-> s.on, first |-> s.first, last |-> s.last, stood |-> stood, low |-> 0]
           base == (w.times - 1) * period
<1>1. /\ w \in [record : BOOLEAN, last : Nat, times : 0 .. check, alarm : BOOLEAN]
      /\ s \in [on : BOOLEAN, first : Nat, last : Nat, stood : 0 .. Longest, low : 0 .. Longest]
      /\ w.record = s.on /\ (s.on => w.last = s.first)
      /\ ~s.on => w.times = 0 /\ s.low = 0
      /\ s.low > 0 => w.times > 0 /\ s.low <= base + n + 1
      /\ s.stood >= base + n \/ ~s.on
  BY Zenon DEF Watching
<1>2. Longest \in Nat /\ check \in Nat /\ period \in Nat \ {0} /\ Longest > check * period
  BY DEF Bounds
<1>3. /\ w.times \in 0 .. check /\ s.stood \in 0 .. Longest /\ s.low \in 0 .. Longest /\ s.on \in BOOLEAN
      /\ w.record \in BOOLEAN /\ w.last \in Nat /\ s.first \in Nat /\ s.last \in Nat
  BY <1>1
<1>4. /\ base \in Int /\ base + n + 1 <= check * period /\ check * period \in Nat
  BY <1>2, <1>3, Periods
<1>5. F!Quiet(w) = quiet
  BY <1>1, QuietIs
<1>6. F!Later(s) = late /\ [F!Later(s) EXCEPT !.low = 0] = unknown
  <2>1. F!Later(s) = late
    BY <1>1, <1>2, LaterIs
  <2> HIDE DEF stood, low
  <2>2. [late EXCEPT !.low = 0] = unknown
    OBVIOUS
  <2> QED
    BY <2>1, <2>2
<1> HIDE DEF base
<1>7. /\ low \in 0 .. Longest /\ (low > 0 => s.low > 0) /\ low <= s.low + 1
      /\ (~s.on => low = 0)
  <2>1. F!Tick(s.low) \in 0 .. Longest /\ F!Tick(s.low) <= s.low + 1
    BY <1>2, <1>3, Ticks
  <2> QED
    BY <1>1, <1>2, <1>3, <2>1
<1>8. stood \in 0 .. Longest /\ (stood >= base + (n + 1) \/ ~s.on)
  <2>1. F!Tick(s.stood) \in 0 .. Longest
    BY <1>2, <1>3, Ticks
  <2>2. base + n + 1 \in Int /\ base + n + 1 <= Longest
    BY <1>2, <1>4
  <2>3. s.on => F!Tick(s.stood) >= base + n + 1
    <3>1. s.on => base + n + 1 <= s.stood + 1
      BY <1>1, <1>3, <1>4
    <3> QED
      BY <1>2, <1>3, <2>2, <3>1, Ticks
  <2> QED
    BY <1>3, <1>4, <2>1, <2>3
<1> HIDE DEF low, stood
<1>9. /\ quiet.record = w.record /\ quiet.last = w.last /\ quiet.times = w.times /\ quiet.alarm = FALSE
      /\ quiet \in [record : BOOLEAN, last : Nat, times : 0 .. check, alarm : BOOLEAN]
  BY <1>3
<1>10. ASSUME n + 1 < period
       PROVE  Watching(quiet, late, limit, check, period, n + 1)
  <2>1. /\ late.on = s.on /\ late.first = s.first /\ late.low = low /\ late.stood = stood
        /\ late \in [on : BOOLEAN, first : Nat, last : Nat, stood : 0 .. Longest, low : 0 .. Longest]
    BY <1>3, <1>7, <1>8
  <2> HIDE DEF quiet, late
  <2>2. low > 0 => w.times > 0 /\ low <= base + (n + 1) + 1
    BY <1>1, <1>3, <1>4, <1>7
  <2> QED
    BY <1>1, <1>7, <1>8, <1>9, <2>1, <2>2, Zenon DEF Watching, base
<1>11. Watching(quiet, unknown, limit, check, period, 0)
  <2>1. /\ unknown.on = s.on /\ unknown.first = s.first /\ unknown.low = 0 /\ unknown.stood = stood
        /\ unknown \in [on : BOOLEAN, first : Nat, last : Nat, stood : 0 .. Longest, low : 0 .. Longest]
    BY <1>2, <1>3, <1>8
  <2> HIDE DEF quiet, unknown
  <2>2. stood >= base + 0 \/ ~s.on
    BY <1>4, <1>8
  <2>3. ~(0 > 0)
    OBVIOUS
  <2> QED
    BY <1>1, <1>9, <2>1, <2>2, <2>3, Zenon DEF Watching, base
<1> QED
  BY <1>5, <1>6, <1>10, <1>11

(* A value, when the time from one to the next has passed. *)
LEMMA Watched ==
  ASSUME NEW w, NEW s, NEW limit, NEW check, NEW period, Bounds(limit, check, period),
         Watching(w, s, limit, check, period, period - 1),
         NEW value \in Nat, NEW standing \in BOOLEAN, NEW silenced \in BOOLEAN
  PROVE  LET next == F!Watch(w, value, standing, silenced, limit, check)
         IN  Watching(next, F!Seen(s, value, standing, silenced, limit, next.alarm), limit, check, period, 0)
<1> DEFINE next == F!Watch(w, value, standing, silenced, limit, check)
           seen == F!Seen(s, value, standing, silenced, limit, next.alarm)
           last == IF w.record THEN w.last ELSE value
           due == w.times + 1 > check
           short == last - value > limit
           base == (w.times - 1) * period
           all == w.times * period
<1>1. /\ w.record \in BOOLEAN /\ w.last \in Nat /\ w.times \in 0 .. check
      /\ s \in [on : BOOLEAN, first : Nat, last : Nat, stood : 0 .. Longest, low : 0 .. Longest]
      /\ w.record = s.on /\ (s.on => w.last = s.first)
      /\ ~s.on => w.times = 0 /\ s.low = 0
      /\ s.low > 0 => w.times > 0 /\ s.low <= base + (period - 1) + 1
      /\ s.stood >= base + (period - 1) \/ ~s.on
  BY Zenon DEF Watching
<1>2. /\ Longest \in Nat /\ check \in Nat /\ period \in Nat \ {0} /\ Longest > check * period
      /\ limit \in Nat
  BY DEF Bounds
<1>3. s.on \in BOOLEAN /\ s.first \in Nat /\ s.stood \in 0 .. Longest /\ s.low \in 0 .. Longest
  BY <1>1
<1>4. /\ base = all - period /\ all \in Nat /\ check * period \in Nat /\ all <= check * period
  <2>1. 0 \in 0 .. period - 1
    BY <1>2
  <2> QED
    BY <1>1, <1>2, <2>1, Periods
<1>5. CASE ~standing
  <2>1. next = F!Unwatched /\ seen = F!Unseen
    BY <1>5, Zenon DEF F!Watch, F!Seen
  <2> QED
    BY <2>1, Unwatching
<1>6. CASE standing
  <2> DEFINE alarm == due /\ short /\ ~silenced
             times == IF due THEN 0 ELSE w.times + 1
             low == IF short /\ ~alarm /\ ~silenced THEN F!Tick(s.low) ELSE 0
             stood == IF s.on THEN F!Tick(s.stood) ELSE s.stood
  <2>1. next = [record |-> TRUE, last |-> last, times |-> times, alarm |-> alarm]
    BY <1>6, Zenon DEF F!Watch
  <2>2. (IF s.on THEN s.first ELSE value) = last
    BY <1>1, Zenon
  <2>3. next.alarm = alarm
    <3> HIDE DEF next, last, times, alarm
    <3> QED
      BY <2>1
  <2>4. F!Later(s).stood = stood
    <3>1. F!Later(s) = [on |-> s.on, first |-> s.first, last |-> s.last, stood |-> stood,
                        low |-> IF s.low > 0 THEN F!Tick(s.low) ELSE s.low]
      BY <1>1, <1>2, LaterIs
    <3> HIDE DEF stood
    <3> QED
      BY <3>1
  <2>5. seen = [on |-> TRUE, first |-> last, last |-> value, stood |-> stood, low |-> low]
    <3>1. seen = [on |-> TRUE, first |-> IF s.on THEN s.first ELSE value, last |-> value,
                  stood |-> F!Later(s).stood,
                  low |-> IF (IF s.on THEN s.first ELSE value) - value > limit /\ ~next.alarm /\ ~silenced
                          THEN F!Tick(s.low) ELSE 0]
      BY <1>6, Zenon DEF F!Seen
    <3> HIDE DEF next, seen, last, due, stood
    <3> QED
      BY <2>2, <2>3, <2>4, <3>1, Zenon
  <2>6. last \in Nat
    BY <1>1
  <2>7. ~s.on => last = value /\ ~short
    BY <1>1, <1>2
  <2>8. alarm \in BOOLEAN
    BY Zenon
  <2>9. /\ stood \in 0 .. Longest
        /\ s.on => stood >= all
        /\ ~s.on => w.times = 0 /\ all = 0
    <3>1. F!Tick(s.stood) \in 0 .. Longest
      BY <1>2, <1>3, Ticks
    <3> HIDE DEF base, all
    <3>2. s.on => all <= s.stood + 1 /\ all <= Longest
      BY <1>1, <1>2, <1>3, <1>4
    <3>3. s.on => F!Tick(s.stood) >= all
      BY <1>2, <1>3, <1>4, <3>2, Ticks
    <3>4. w.times = 0 => all = 0
      BY <1>2 DEF all
    <3> QED
      BY <1>1, <1>3, <3>1, <3>3, <3>4
  <2>10. F!Tick(s.low) \in 0 .. Longest /\ F!Tick(s.low) <= s.low + 1
    BY <1>2, <1>3, Ticks
  <2>11. /\ times \in 0 .. check /\ low \in 0 .. Longest
         /\ low > 0 => times > 0 /\ low <= (times - 1) * period + 0 + 1
         /\ stood >= (times - 1) * period + 0
         /\ alarm => stood >= check * period
    <3>1. CASE due
      <4>1. times = 0 /\ w.times = check
        BY <1>1, <1>2, <3>1
      <4>2. low = 0
        BY <3>1, Zenon
      <4>3. (times - 1) * period = 0 - period
        BY <1>2, <4>1
      <4>4. alarm => s.on
        BY <1>3, <2>7, Zenon
      <4>5. all = check * period
        BY <4>1
      <4> HIDE DEF times, low, stood, alarm, all
      <4> QED
        BY <1>2, <2>9, <4>1, <4>2, <4>3, <4>4, <4>5
    <3>2. CASE ~due
      <4>1. times = w.times + 1 /\ w.times + 1 \in 0 .. check
        BY <1>1, <1>2, <3>2
      <4>2. (times - 1) * period = all
        BY <1>1, <4>1
      <4>3. ~alarm
        BY <3>2, Zenon
      <4>4. low = 0 \/ low = F!Tick(s.low)
        BY Zenon
      <4> HIDE DEF times, low, stood, alarm, all, base
      <4>5. stood >= all
        BY <1>3, <1>4, <2>9
      <4>6. low > 0 => low <= all + 1
        <5>1. s.low > 0 => s.low <= all
          BY <1>1, <1>2, <1>3, <1>4
        <5> QED
          BY <1>3, <1>4, <2>10, <4>4, <5>1
      <4> QED
        BY <1>1, <1>2, <1>4, <2>9, <2>10, <4>1, <4>2, <4>3, <4>4, <4>5, <4>6
    <3> QED
      BY <3>1, <3>2
  <2>12. alarm => last - value > limit
    BY Zenon
  <2> HIDE DEF next, seen, last, due, short, alarm, times, low, stood, base, all
  <2>13. /\ next.record = TRUE /\ next.last = last /\ next.times = times /\ next.alarm = alarm
         /\ seen.on = TRUE /\ seen.first = last /\ seen.last = value /\ seen.low = low
         /\ seen.stood = stood
    BY <2>1, <2>5
  <2>14. next \in [record : BOOLEAN, last : Nat, times : 0 .. check, alarm : BOOLEAN]
    BY <2>1, <2>6, <2>8, <2>11
  <2>15. seen \in [on : BOOLEAN, first : Nat, last : Nat, stood : 0 .. Longest, low : 0 .. Longest]
    BY <2>5, <2>6, <2>9, <2>11
  <2>16. next.record = seen.on /\ (seen.on => next.last = seen.first) /\ seen.on
    BY <2>13, Zenon
  <2>17. /\ seen.low > 0 => next.times > 0 /\ seen.low <= (next.times - 1) * period + 0 + 1
         /\ seen.stood >= (next.times - 1) * period + 0
         /\ next.alarm => seen.stood >= check * period
    BY <2>11, <2>13, Zenon
  <2>18. next.alarm => seen.on /\ seen.first - seen.last > limit
    BY <2>12, <2>13, Zenon
  <2>19. Watching(next, seen, limit, check, period, 0)
    BY <2>14, <2>15, <2>16, <2>17, <2>18, Zenon DEF Watching
  <2> QED
    BY <2>19 DEF next, seen
<1> QED
  BY <1>5, <1>6

(* What the fuel's steps keep. *)
FuelKept ==
  /\ table \in {F!NoFile, F!Zeros} \cup Tables
  /\ samples \in [n : 0 .. AD_SAMPLES, sum : Nat]
  /\ since = [ad |-> since.ad, uart |-> since.uart]
  /\ Watching(ad, since.ad, Limit, Check, AD_SAMPLES + 1, samples.n)
  /\ Watching(uart, since.uart, UartLimit, UartCheck, 1, 0)

LEMMA Unfilled ==
  /\ [n |-> 0, sum |-> 0] \in [n : 0 .. AD_SAMPLES, sum : Nat]
  /\ Watching(F!Unwatched, F!Unseen, Limit, Check, AD_SAMPLES + 1, 0)
  /\ Watching(F!Unwatched, F!Unseen, UartLimit, UartCheck, 1, 0)
BY FuelConstants, DetectorBounds, Unwatching

LEMMA FuelBegins ==
  ASSUME F!Init
  PROVE  FuelKept
<1>1. /\ table = F!NoFile /\ ad = F!Unwatched /\ uart = F!Unwatched
      /\ samples = [n |-> 0, sum |-> 0]
      /\ since = [ad |-> F!Unseen, uart |-> F!Unseen]
  BY DEF F!Init
<1>2. since.ad = F!Unseen /\ since.uart = F!Unseen /\ samples.n = 0
  BY <1>1
<1> QED
  BY <1>1, <1>2, Unfilled, Zenon DEF FuelKept

LEMMA RestartKeeps ==
  ASSUME FuelKept, F!Restart
  PROVE  FuelKept'
<1>1. /\ table' = table /\ ad' = F!Unwatched /\ uart' = F!Unwatched
      /\ samples' = [n |-> 0, sum |-> 0]
      /\ since' = [ad |-> F!Unseen, uart |-> F!Unseen]
  BY DEF F!Restart, F!Begin
<1>2. since'.ad = F!Unseen /\ since'.uart = F!Unseen /\ samples'.n = 0
  BY <1>1
<1> QED
  BY <1>1, <1>2, Unfilled, Zenon DEF FuelKept

LEMMA QuietKept ==
  ASSUME FuelKept
  PROVE  /\ Watching(F!Quiet(ad), since.ad, Limit, Check, AD_SAMPLES + 1, samples.n)
         /\ Watching(F!Quiet(uart), since.uart, UartLimit, UartCheck, 1, 0)
BY QuietWatching DEF FuelKept

LEMMA CollectKeeps ==
  ASSUME FuelKept, NEW level \in Levels, F!Collect(level)
  PROVE  FuelKept'
<1> DEFINE late == F!Later(since.ad)
<1>1. /\ samples.n < AD_SAMPLES /\ samples.n \in 0 .. AD_SAMPLES
      /\ samples' = [n |-> samples.n + 1, sum |-> samples.sum + level]
  BY DEF F!Collect, FuelKept
<1>2. samples' \in [n : 0 .. AD_SAMPLES, sum : Nat] /\ samples'.n = samples.n + 1
  BY <1>1, FuelConstants DEF FuelKept
<1>3. /\ ad' = F!Quiet(ad) /\ uart' = F!Quiet(uart) /\ table' = table
      /\ since' = [since EXCEPT !.ad = late]
  BY DEF F!Collect
<1>4. Watching(F!Quiet(ad), late, Limit, Check, AD_SAMPLES + 1, samples.n + 1)
  <2>1. samples.n \in 0 .. (AD_SAMPLES + 1) - 1 /\ samples.n + 1 < AD_SAMPLES + 1
    BY <1>1, FuelConstants
  <2> QED
    BY <2>1, DetectorBounds, SecondWatching DEF FuelKept
<1> HIDE DEF late
<1>5. since' = [ad |-> late, uart |-> since.uart]
  BY <1>3 DEF FuelKept
<1>6. since'.ad = late /\ since'.uart = since.uart
  BY <1>5
<1> QED
  BY <1>2, <1>3, <1>4, <1>5, <1>6, QuietKept, Zenon DEF FuelKept

LEMMA JudgeKeeps ==
  ASSUME FuelKept, NEW standing \in BOOLEAN, NEW silenced \in BOOLEAN, F!Judge(standing, silenced)
  PROVE  FuelKept'
<1> DEFINE mean == samples.sum \div AD_SAMPLES
<1>1. samples' = [n |-> 0, sum |-> 0] /\ samples.n = AD_SAMPLES /\ uart' = F!Quiet(uart) /\ table' = table
  BY DEF F!Judge
<1>2. /\ samples' \in [n : 0 .. AD_SAMPLES, sum : Nat] /\ samples'.n = 0
  BY <1>1, Unfilled
<1>3. Watching(ad, since.ad, Limit, Check, AD_SAMPLES + 1, AD_SAMPLES)
  BY <1>1 DEF FuelKept
<1>4. ASSUME NEW seen, since' = [since EXCEPT !.ad = seen],
             Watching(ad', seen, Limit, Check, AD_SAMPLES + 1, 0)
      PROVE  FuelKept'
  <2>1. since' = [ad |-> seen, uart |-> since.uart]
    BY <1>4 DEF FuelKept
  <2>2. since'.ad = seen /\ since'.uart = since.uart
    BY <2>1
  <2> QED
    BY <1>1, <1>2, <1>4, <2>1, <2>2, QuietKept, Zenon DEF FuelKept
<1>5. CASE ad' = F!Quiet(ad) /\ since' = [since EXCEPT !.ad = [F!Later(since.ad) EXCEPT !.low = 0]]
  <2>1. AD_SAMPLES \in 0 .. (AD_SAMPLES + 1) - 1
    BY FuelConstants
  <2>2. Watching(F!Quiet(ad), [F!Later(since.ad) EXCEPT !.low = 0], Limit, Check, AD_SAMPLES + 1, 0)
    BY <1>3, <2>1, DetectorBounds, SecondWatching
  <2> QED
    BY <1>4, <1>5, <2>2
<1>6. ASSUME NEW volume \in F!look4_oil_vol(table, mean),
             ad' = F!Watch(ad, F!u16(10 * volume), standing, silenced, Limit, Check),
             since' = [since EXCEPT !.ad = F!Seen(since.ad, F!u16(10 * volume), standing, silenced, Limit,
                                                  ad'.alarm)]
      PROVE  FuelKept'
  <2> DEFINE value == F!u16(10 * volume)
  <2>1. value \in Nat
    <3>1. mean \in Nat
      <4>1. samples.sum \in Nat
        BY DEF FuelKept
      <4> QED
        BY <4>1, FuelConstants
    <3>2. Saved(table)
      BY TablesAreSaved DEF FuelKept
    <3> HIDE DEF mean
    <3>3. volume \in Nat
      BY <1>6, <3>1, <3>2, VolumeIsWord, Words
    <3>4. 10 * volume \in Int
      BY <3>3
    <3> QED
      BY <3>4, Words
  <2> HIDE DEF value
  <2>2. (AD_SAMPLES + 1) - 1 = AD_SAMPLES
    BY FuelConstants
  <2>3. Watching(ad, since.ad, Limit, Check, AD_SAMPLES + 1, (AD_SAMPLES + 1) - 1)
    BY <1>3, <2>2
  <2>4. Watching(ad', F!Seen(since.ad, value, standing, silenced, Limit, ad'.alarm), Limit, Check,
                 AD_SAMPLES + 1, 0)
    BY <1>6, <2>1, <2>3, DetectorBounds, Watched, Zenon DEF value
  <2> QED
    BY <1>4, <1>6, <2>4 DEF value
<1>7. \/ ad' = F!Quiet(ad) /\ since' = [since EXCEPT !.ad = [F!Later(since.ad) EXCEPT !.low = 0]]
      \/ \E volume \in F!look4_oil_vol(table, mean) :
           /\ ad' = F!Watch(ad, F!u16(10 * volume), standing, silenced, Limit, Check)
           /\ since' = [since EXCEPT !.ad = F!Seen(since.ad, F!u16(10 * volume), standing, silenced, Limit,
                                                   ad'.alarm)]
  BY Zenon DEF F!Judge
<1> QED
  BY <1>5, <1>6, <1>7

LEMMA UploadKeeps ==
  ASSUME FuelKept, NEW percent \in Percents, NEW standing \in BOOLEAN, NEW silenced \in BOOLEAN,
         F!Upload(percent, standing, silenced)
  PROVE  FuelKept'
<1> DEFINE seen == F!Seen(since.uart, percent, standing, silenced, UartLimit, uart'.alarm)
<1>1. /\ uart' = F!Watch(uart, percent, standing, silenced, UartLimit, UartCheck)
      /\ since' = [since EXCEPT !.uart = seen]
      /\ ad' = F!Quiet(ad) /\ table' = table /\ samples' = samples
  BY DEF F!Upload
<1>2. percent \in Nat
  BY FuelConstants
<1>3. Watching(uart', seen, UartLimit, UartCheck, 1, 0)
  <2>1. Watching(uart, since.uart, UartLimit, UartCheck, 1, 1 - 1)
    BY DEF FuelKept
  <2> QED
    BY <1>1, <1>2, <2>1, DetectorBounds, Watched, Zenon
<1> HIDE DEF seen
<1>4. since' = [ad |-> since.ad, uart |-> seen]
  BY <1>1 DEF FuelKept
<1>5. since'.uart = seen /\ since'.ad = since.ad
  BY <1>4
<1> QED
  BY <1>1, <1>3, <1>4, <1>5, QuietKept, Zenon DEF FuelKept

LEMMA TableKeeps ==
  ASSUME FuelKept, NEW new \in Tables, F!save_st_ad(new)
  PROVE  FuelKept'
<1>1. ad' = F!Quiet(ad) /\ uart' = F!Quiet(uart) /\ samples' = samples /\ since' = since
  BY DEF F!save_st_ad
<1>2. table' \in {F!NoFile, F!Zeros} \cup Tables
  <2>1. table' = new \/ table' = table \/ table' = F!Zeros
    BY DEF F!save_st_ad
  <2> QED
    BY <2>1, Zenon DEF FuelKept
<1> QED
  BY <1>1, <1>2, QuietKept, Zenon DEF FuelKept

LEMMA FuelStep ==
  ASSUME FuelKept, [VNext]_<<part, hvars, pins, drum, fuel, miles>>
  PROVE  FuelKept'
<1>1. CASE part = "fuel" /\ F!Next
  BY <1>1, CollectKeeps, JudgeKeeps, UploadKeeps, TableKeeps, RestartKeeps, Zenon DEF F!Next
<1>2. CASE fuel' = fuel
  <2>1. table' = table /\ samples' = samples /\ ad' = ad /\ uart' = uart /\ since' = since
    BY <1>2 DEF fuel
  <2> QED
    BY <2>1, Zenon DEF FuelKept
<1> QED
  BY <1>1, <1>2, Zenon DEF VNext

(* How long a value may have been too low. *)
LEMMA InTime ==
  ASSUME NEW w, NEW s, NEW limit, NEW check, NEW period, Bounds(limit, check, period),
         NEW n \in 0 .. period - 1, Watching(w, s, limit, check, period, n)
  PROVE  s.low <= check * period
<1>1. /\ w.times \in 0 .. check /\ s.low \in 0 .. Longest
      /\ s.low > 0 => s.low <= (w.times - 1) * period + n + 1
  BY DEF Watching
<1>2. check \in Nat /\ period \in Nat \ {0} /\ Longest \in Nat
  BY DEF Bounds
<1> DEFINE m == (w.times - 1) * period
           most == check * period
<1>3. m \in Int /\ most \in Nat /\ m + n + 1 <= most
  BY <1>1, <1>2, Periods
<1>4. s.low > 0 => s.low <= m + n + 1
  BY <1>1
<1> HIDE DEF m, most
<1>5. s.low <= most
  BY <1>1, <1>2, <1>3, <1>4
<1> QED
  BY <1>5 DEF most

LEMMA FuelMeant == FuelKept => FuelInv
<1> SUFFICES ASSUME FuelKept
             PROVE  FuelInv
  OBVIOUS
<1>1. /\ ad \in [record : BOOLEAN, last : Nat, times : 0 .. Check, alarm : BOOLEAN]
      /\ uart \in [record : BOOLEAN, last : Nat, times : 0 .. UartCheck, alarm : BOOLEAN]
      /\ since.ad \in [on : BOOLEAN, first : Nat, last : Nat, stood : 0 .. Longest, low : 0 .. Longest]
      /\ since.uart \in [on : BOOLEAN, first : Nat, last : Nat, stood : 0 .. Longest, low : 0 .. Longest]
  BY Zenon DEF FuelKept, Watching
<1>2. F!TypeOK
  <2>1. samples.n \in 0 .. AD_SAMPLES /\ samples.sum \in Nat
    BY DEF FuelKept
  <2> QED
    BY <1>1, <2>1, Zenon DEF FuelKept, F!TypeOK
<1>3. UartCheck * 1 = UartCheck /\ 0 \in 0 .. 1 - 1 /\ samples.n \in 0 .. (AD_SAMPLES + 1) - 1
  BY FuelConstants DEF FuelKept
<1>4. F!LossIsTold
  <2>1. since.ad.low <= Check * (AD_SAMPLES + 1) /\ since.uart.low <= UartCheck * 1
    BY <1>3, DetectorBounds, InTime DEF FuelKept
  <2> QED
    BY <1>3, <2>1 DEF F!LossIsTold
<1>5. F!AlarmIsLoss
  BY Zenon DEF FuelKept, Watching, F!AlarmIsLoss
<1>6. F!AlarmIsLate
  <2>1. /\ ad.alarm => since.ad.stood >= Check * (AD_SAMPLES + 1)
        /\ uart.alarm => since.uart.stood >= UartCheck * 1
    BY Zenon DEF FuelKept, Watching
  <2> QED
    BY <1>3, <2>1, Zenon DEF F!AlarmIsLate
<1>7. F!TableIsFollowed
  <2>1. Saved(table)
    BY TablesAreSaved DEF FuelKept
  <2>2. ASSUME NEW k \in 1 .. Size - 1, k < table.num,
               NEW value \in table.data[k].measure + 1 .. table.data[k + 1].measure,
               \A j \in 1 .. k : table.data[j].measure < value,
               NEW v \in F!look4_oil_vol(table, value)
        PROVE  /\ F!Min({table.data[k].real, table.data[k + 1].real}) <= v
               /\ v <= F!Max({table.data[k].real, table.data[k + 1].real})
               /\ value = table.data[k + 1].measure => v = table.data[k + 1].real
    BY <2>1, <2>2, SavedIsFollowed
  <2> QED
    BY <2>2, Zenon DEF F!TableIsFollowed
<1> QED
  BY <1>2, <1>4, <1>5, <1>6, <1>7 DEF FuelInv, F!FuelInv

(* For every table, threshold and number of samples: of fuel that is missing *)
(* from a stop and not masked the platform is told within Check mean values, *)
(* or UartCheck uploads, and not before the stop has lasted that long; an    *)
(* alarm is about a value too low beside the first one of the same stop; and *)
(* the volume between two points of the table lies between theirs.           *)
THEOREM FuelIsWatched == VSpec => []FuelInv
<1>1. VInit => FuelKept
  BY FuelBegins DEF VInit
<1>2. FuelKept /\ [VNext]_<<part, hvars, pins, drum, fuel, miles>> => FuelKept'
  BY FuelStep
<1>3. FuelKept => FuelInv
  BY FuelMeant
<1> QED
  BY <1>1, <1>2, <1>3, PTL DEF VSpec
=============================================================================
