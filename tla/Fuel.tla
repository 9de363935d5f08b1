-------------------------------- MODULE Fuel --------------------------------
(***************************************************************************)
(* The fuel in the tank: the level that oa_app_ad samples every second and  *)
(* converts by a table (oa_fuel_sensor.c), the percentage that a sensor at  *)
(* the serial port tells (oa_app_uart in oa_uart.c), and the alarm that     *)
(* each of them raises when a vehicle that stands loses fuel.               *)
(***************************************************************************)
EXTENDS Integers, FiniteSetsExt

CONSTANTS
    AD_SAMPLES,   \* samples of one mean value
    Check,        \* Fuel_Check_Shreshold_Time, which oa_app_ad compares with a number of mean values
    UartCheck,    \* the same in uploads of the sensor, of Fuel_Data_Upload_Time seconds each
    Limit,        \* 10 * def_oil_shreshold
    UartLimit,    \* Fuel_Change_Shreshold
    Size,         \* entries of a table
    Levels,       \* bound: the voltages that are sampled
    Percents,     \* bound: the percentages that are told
    Tables,       \* bound: the tables that the screen may send
    Strays,       \* bound: what the code may find where nothing is defined
    Longest       \* bound: where the clock of a stop ends

\* Volumes for which the products of look4_oil_vol fit into 32 bits.
Volume == 0 .. 16383
Word == 0 .. 65535

Table == [there : {TRUE}, num : 0 .. 255, data : [1 .. Size -> [real : Volume, measure : Word]]]

FuelAssumption ==
    /\ {AD_SAMPLES, Size} \subseteq Nat \ {0} /\ {Check, UartCheck, Limit, UartLimit, Longest} \subseteq Nat
    /\ Levels \subseteq Nat /\ Percents \subseteq Nat /\ Tables \subseteq Table /\ Strays \subseteq Word
    /\ Longest > Check * (AD_SAMPLES + 1) /\ Longest > UartCheck

VARIABLES
    table,    \* STANDAND_AD_FILE: the number of its points and its entries, or NoFile
    samples,  \* ad_array: how many samples it holds, and their sum
    ad,       \* fuel_record, fuel_vol_last and times of oa_app_ad, and whether this run alarms
    uart,     \* those of oa_app_uart
    since     \* ghost: of each detector, the first and last value of this stop, and two clocks

vars == <<table, samples, ad, uart, since>>

Blank == [k \in 1 .. Size |-> [real |-> 0, measure |-> 0]]
NoFile == [there |-> FALSE, num |-> 0, data |-> Blank]
Zeros == [NoFile EXCEPT !.there = TRUE]

u16(n) == n % 65536

\* C's division: towards zero.
Abs(n) == IF n < 0 THEN -n ELSE n
Quotient(a, b) == IF (a < 0) = (b < 0) THEN Abs(a) \div Abs(b) ELSE -(Abs(a) \div Abs(b))

\* look4_oil_vol: the line through the two entries around the value.  Above the last point the next entry
\* is taken for one, whatever it holds; behind the array, and for a division by zero, anything is.
look4_oil_vol(t, value) ==
    LET above == {k \in 1 .. Size : k <= t.num /\ value <= t.data[k].measure}
        i == IF above = {} THEN t.num + 1 ELSE Min(above)
        hi == t.data[i]
        lo == t.data[i - 1]
    IN  IF i = 1 THEN {t.data[1].real}
        ELSE IF i > Size \/ hi.measure = lo.measure THEN Strays
        ELSE {u16(Quotient(hi.real * value - lo.real * value - lo.measure * hi.real + lo.real * hi.measure,
                           hi.measure - lo.measure))}

----------------------------------------------------------------------------

Unwatched == [record |-> FALSE, last |-> 0, times |-> 0, alarm |-> FALSE]

\* Variant: every check starts from the value of the last one.
RecordMoves(w, value, standing, masked, limit, check) ==
    LET last == IF w.record THEN w.last ELSE value
        due == w.times + 1 > check
    IN  IF standing
        THEN [record |-> TRUE, last |-> IF due THEN value ELSE last, times |-> IF due THEN 0 ELSE w.times + 1,
              alarm |-> due /\ last - value > limit /\ ~masked]
        ELSE Unwatched

\* A vehicle that stands, or whose ignition is off, is checked every time that check values have come: the
\* value against the first one of the stop.  handle_alarm_status tells nobody of ALARM_OIL_ERR if the
\* platform has masked it; the next check comes as late then.
Watch(w, value, standing, masked, limit, check) ==
    LET last == IF w.record THEN w.last ELSE value
        due == w.times + 1 > check
    IN  IF standing
        THEN [record |-> TRUE, last |-> last, times |-> IF due THEN 0 ELSE w.times + 1,
              alarm |-> due /\ last - value > limit /\ ~masked]
        ELSE Unwatched

Unseen == [on |-> FALSE, first |-> 0, last |-> 0, stood |-> 0, low |-> 0]

Tick(n) == IF n < Longest THEN n + 1 ELSE n

\* Time passes for an observer of the stop: how long it has lasted since the first value, and for how long
\* the values have been too low, unmasked and without an alarm.
Later(s) == [s EXCEPT !.stood = IF s.on THEN Tick(@) ELSE @, !.low = IF @ > 0 THEN Tick(@) ELSE @]

\* What the observer sees of a value.
Seen(s, value, standing, masked, limit, alarm) ==
    LET first == IF s.on THEN s.first ELSE value IN
    IF ~standing THEN Unseen
    ELSE [on |-> TRUE, first |-> first, last |-> value, stood |-> Later(s).stood,
          low |-> IF first - value > limit /\ ~alarm /\ ~masked THEN Tick(s.low) ELSE 0]

----------------------------------------------------------------------------

Quiet(w) == [w EXCEPT !.alarm = FALSE]

\* oa_app_ad, every second: the sample that comes when the array is full is not kept.
Collect(level) ==
    /\ samples.n < AD_SAMPLES
    /\ samples' = [n |-> samples.n + 1, sum |-> samples.sum + level]
    /\ ad' = Quiet(ad) /\ uart' = Quiet(uart)
    /\ since' = [since EXCEPT !.ad = Later(@)]
    /\ UNCHANGED table

\* The second after AD_SAMPLES of them.  A table that is missing or cannot be read gives no value.
Judge(standing, masked) ==
    /\ samples.n = AD_SAMPLES
    /\ samples' = [n |-> 0, sum |-> 0]
    /\ uart' = Quiet(uart)
    /\ \/ ad' = Quiet(ad) /\ since' = [since EXCEPT !.ad = [Later(@) EXCEPT !.low = 0]]
       \/ /\ table.there
          /\ \E volume \in look4_oil_vol(table, samples.sum \div AD_SAMPLES) :
               LET value == u16(10 * volume) IN
               /\ ad' = Watch(ad, value, standing, masked, Limit, Check)
               /\ since' = [since EXCEPT !.ad = Seen(@, value, standing, masked, Limit, ad'.alarm)]
    /\ UNCHANGED table

\* oa_app_uart, for an upload of the sensor.
Upload(percent, standing, masked) ==
    /\ uart' = Watch(uart, percent, standing, masked, UartLimit, UartCheck)
    /\ since' = [since EXCEPT !.uart = Seen(@, percent, standing, masked, UartLimit, uart'.alarm)]
    /\ ad' = Quiet(ad)
    /\ UNCHANGED <<table, samples>>

\* save_st_ad, for a table from the screen.  A file that is new is filled with zeros first.
save_st_ad(new) ==
    /\ table' \in {new, table} \cup IF table.there THEN {} ELSE {Zeros}
    /\ ad' = Quiet(ad) /\ uart' = Quiet(uart)
    /\ UNCHANGED <<samples, since>>

Begin ==
    /\ samples' = [n |-> 0, sum |-> 0]
    /\ ad' = Unwatched /\ uart' = Unwatched
    /\ since' = [ad |-> Unseen, uart |-> Unseen]

\* The power is back: the records are static variables, the table is a file.
Restart == Begin /\ UNCHANGED table

Init ==
    /\ table = NoFile /\ samples = [n |-> 0, sum |-> 0]
    /\ ad = Unwatched /\ uart = Unwatched
    /\ since = [ad |-> Unseen, uart |-> Unseen]

Next ==
    \/ \E level \in Levels : Collect(level)
    \/ \E standing, masked \in BOOLEAN : Judge(standing, masked)
    \/ \E percent \in Percents, standing, masked \in BOOLEAN : Upload(percent, standing, masked)
    \/ \E new \in Tables : save_st_ad(new)
    \/ Restart

Spec == Init /\ [][Next]_vars

----------------------------------------------------------------------------

TypeOK ==
    /\ table \in {NoFile, Zeros} \cup Tables
    /\ samples.n \in 0 .. AD_SAMPLES /\ samples.sum \in Nat
    /\ ad \in [record : BOOLEAN, last : Nat, times : 0 .. Check, alarm : BOOLEAN]
    /\ uart \in [record : BOOLEAN, last : Nat, times : 0 .. UartCheck, alarm : BOOLEAN]
    /\ \A d \in {"ad", "uart"} :
         since[d] \in [on : BOOLEAN, first : Nat, last : Nat, stood : 0 .. Longest, low : 0 .. Longest]

\* Of fuel that is missing from a stop, and not masked, the platform is told: by the converter within
\* Check mean values, each of AD_SAMPLES + 1 seconds, by the sensor at the serial port within UartCheck
\* uploads, however often the level wavers and whatever the drives before did (oa_fuel_sensor.c:247-279,
\* oa_uart.c:315-337).
LossIsTold == since.ad.low <= Check * (AD_SAMPLES + 1) /\ since.uart.low <= UartCheck

\* An alarm is only raised about a value that is too low beside the first one of the same stop.
AlarmIsLoss ==
    /\ ad.alarm => since.ad.on /\ since.ad.first - since.ad.last > Limit
    /\ uart.alarm => since.uart.on /\ since.uart.first - since.uart.last > UartLimit

\* And it is not raised before the stop has lasted that long.  The comments say 5min of both
\* (oa_fuel_sensor.h:39, oa_fuel_sensor.c:269, oa_uart.c:323).  That is so of 20 uploads of 15 seconds;
\* 300 mean values of 121 seconds are ten hours, and the converter never alarms within 5 minutes.
AlarmIsLate ==
    /\ ad.alarm => since.ad.stood >= Check * (AD_SAMPLES + 1)
    /\ uart.alarm => since.uart.stood >= UartCheck

\* A value between two points of the table, the first to reach it and the one before, has a volume
\* between theirs, and the value of a point that of the point, whether the volumes rise or fall.  Of a
\* value beyond the last point nothing is said (oa_fuel_sensor.c:186-219).
TableIsFollowed ==
    \A k \in 1 .. Size - 1 :
      LET lo == table.data[k] hi == table.data[k + 1] IN
      k < table.num =>
        \A value \in lo.measure + 1 .. hi.measure :
          (\A j \in 1 .. k : table.data[j].measure < value) =>
            \A v \in look4_oil_vol(table, value) :
              /\ Min({lo.real, hi.real}) <= v /\ v <= Max({lo.real, hi.real})
              /\ value = hi.measure => v = hi.real

\* The types of the fuel records, the volume and its alarm.
FuelInv == TypeOK /\ LossIsTold /\ AlarmIsLoss /\ AlarmIsLate /\ TableIsFollowed
=============================================================================
