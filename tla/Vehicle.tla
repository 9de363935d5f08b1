------------------------------- MODULE Vehicle -------------------------------
(***************************************************************************)
(* The parts of the device that watch the vehicle, for TLC.  They share the *)
(* reports they send, which DriveAlarms has, and read the speed and the     *)
(* ignition, which each of them takes as input; so they are explored one at *)
(* a time.                                                                  *)
(***************************************************************************)
EXTENDS DriveHistory, Integers

CONSTANTS
    Debounce, StopTime, Turns,
    AD_SAMPLES, Check, UartCheck, Limit, UartLimit, Size, Levels, Percents, Tables, Strays, Longest,
    Unit, Update, Frq, Fastest, Paces, MaxLost, MaxTotal, MaxDropped,
    MaxCount

VARIABLES
    part,
    acc, key, keyMasked, same, pressed,
    zfz_sensor_status, cal, tz_times, pc, read, still, edges,
    table, samples, ad, uart, since,
    file, intvl, old, last_speed, excess, dropped, regular

\* Tables of points <<real, measure>>: what rises; what falls, with a point twice and an entry left behind
\* the last one; what ends in measure 0, with zeros behind; and more points than entries.
Entries(s) == [k \in DOMAIN s |-> [real |-> s[k][1], measure |-> s[k][2]]]
SavedTable(n, s) == [there |-> TRUE, num |-> n, data |-> Entries(s)]
MCTables ==
    {SavedTable(3, <<<<0, 2>>, <<4, 6>>, <<9, 13>>, <<0, 0>>>>),
     SavedTable(3, <<<<6, 3>>, <<6, 3>>, <<1, 8>>, <<2, 10>>>>),
     SavedTable(2, <<<<6, 3>>, <<1, 0>>, <<0, 0>>, <<0, 0>>>>),
     SavedTable(5, <<<<1, 3>>, <<6, 8>>, <<0, 0>>, <<3, 7>>>>)}
MCMasks == {{}, {"tired", "speed", "parking"}, {"overtime"}}

pins == <<acc, key, keyMasked, same, pressed>>
drum == <<zfz_sensor_status, cal, tz_times, pc, read, still, edges>>
fuel == <<table, samples, ad, uart, since>>
miles == <<file, intvl, old, last_speed, excess, dropped, regular>>

I == INSTANCE VehicleInputs WITH masked <- keyMasked
D == INSTANCE Drum
F == INSTANCE Fuel
M == INSTANCE Mileage

ASSUME VehicleAssumption ==
    I!InputsAssumption /\ D!DrumAssumption /\ F!FuelAssumption /\ M!MileageAssumption

VInit ==
    /\ part \in {"drive", "pins", "drum", "fuel", "miles"}
    /\ HInit /\ I!Init /\ D!Init /\ F!Init /\ M!Init
    /\ part # "drive" => masked = {}
    /\ part # "pins" => keyMasked = FALSE

VNext ==
    \/ part = "drive" /\ HNext /\ UNCHANGED <<part, pins, drum, fuel, miles>>
    \/ part = "pins" /\ I!Next /\ UNCHANGED <<part, hvars, drum, fuel, miles>>
    \/ part = "drum" /\ D!Next /\ UNCHANGED <<part, hvars, pins, fuel, miles>>
    \/ part = "fuel" /\ F!Next /\ UNCHANGED <<part, hvars, pins, drum, miles>>
    \/ part = "miles" /\ M!Next /\ UNCHANGED <<part, hvars, pins, drum, fuel>>

VSpec == VInit /\ [][VNext]_<<part, hvars, pins, drum, fuel, miles>>

----------------------------------------------------------------------------

\* What is to hold of the parts, as they state it.
InputsInv == I!InputsInv /\ D!TypeOK
FuelInv == F!FuelInv
MilesInv == M!MilesInv
TurnsAreEarned == D!TurnsAreEarned
=============================================================================
