--------------------------- MODULE VehicleInputs ---------------------------
(***************************************************************************)
(* acc_status_detect (oa_hw.c) reads the ignition and the key for help      *)
(* every second; the platform takes the alarm of the key back               *)
(* (handle_aritifial_ack_alarm in oa_jt808.c).                              *)
(***************************************************************************)
EXTENDS Naturals

CONSTANTS
    Debounce,   \* 2: so many samples change nothing
    MaxCount    \* bound: where the ghost counters stop

InputsAssumption == Debounce \in Nat /\ MaxCount \in Nat \ {0}

Level == {"on", "off"}

VARIABLES
    acc,      \* acc_status, its two counters, the bit STA_ACC_ON, and the pin that feeds the screen
    key,      \* key_cal, and whether ALARM_EMERGENCY_k is set
    masked,   \* whether alarm_mask holds ALARM_EMERGENCY_k
    same,     \* ghost: the last level of the ignition, and how many samples on end had it
    pressed   \* ghost: samples of the pressed key on end, since the alarm was taken back or masked

vars == <<acc, key, masked, same, pressed>>

Tick(n) == IF n < MaxCount THEN n + 1 ELSE n

----------------------------------------------------------------------------

\* Variant: a sample of the other level keeps the counts small.
CountDown(a, level) ==
    LET other == CHOOSE l \in Level : l # level IN
    IF a.cal[other] > 0 THEN [a EXCEPT !.cal[other] = @ - 1]
    ELSE IF a.cal[level] + 1 > Debounce
    THEN [a EXCEPT !.cal = [l \in Level |-> 0], !.status = level, !.bit = level, !.screen = level]
    ELSE [a EXCEPT !.cal[level] = @ + 1]

\* The ignition has a level for one more sample.  A sample takes nothing off the count of the other level.
Ignition(a, level) ==
    IF a.cal[level] + 1 > Debounce
    THEN [a EXCEPT !.cal = [l \in Level |-> 0], !.status = level, !.bit = level, !.screen = level]
    ELSE [a EXCEPT !.cal[level] = @ + 1]

\* The key is pressed for one more sample.  Letting go takes nothing off its count.
Pressed(k) ==
    IF k.cal + 1 > Debounce THEN [k EXCEPT !.cal = 0, !.alarm = @ \/ ~masked] ELSE [k EXCEPT !.cal = @ + 1]

\* The two pins may change between their two reads: then the sample counts for neither level.
acc_status_detect(levels, down) ==
    /\ acc' = IF \E l \in Level : levels = {l} THEN Ignition(acc, CHOOSE l \in Level : levels = {l}) ELSE acc
    /\ key' = IF down THEN Pressed(key) ELSE key
    /\ same' = IF levels = {same.level} THEN [same EXCEPT !.n = Tick(@)]
               ELSE [level |-> CHOOSE l \in levels : l # same.level, n |-> IF levels = Level THEN 0 ELSE 1]
    /\ pressed' = IF down THEN Tick(pressed) ELSE 0
    /\ UNCHANGED masked

handle_aritifial_ack_alarm ==
    /\ key' = [key EXCEPT !.alarm = FALSE]
    /\ pressed' = 0
    /\ UNCHANGED <<acc, masked, same>>

SetMask ==
    /\ masked' = ~masked
    /\ pressed' = 0
    /\ UNCHANGED <<acc, key, same>>

Init ==
    /\ acc = [status |-> "off", bit |-> "off", screen |-> "off", cal |-> [l \in Level |-> 0]]
    /\ key = [cal |-> 0, alarm |-> FALSE]
    /\ masked \in BOOLEAN
    /\ same = [level |-> "off", n |-> 0] /\ pressed = 0

Next ==
    \/ \E levels \in (SUBSET Level) \ {{}}, down \in BOOLEAN : acc_status_detect(levels, down)
    \/ handle_aritifial_ack_alarm
    \/ SetMask

Spec == Init /\ [][Next]_vars

----------------------------------------------------------------------------

TypeOK ==
    /\ {acc.status, acc.bit, acc.screen} \subseteq Level
    /\ acc.cal \in [Level -> 0 .. Debounce]
    /\ key \in [cal : 0 .. Debounce, alarm : BOOLEAN]
    /\ masked \in BOOLEAN
    /\ same \in [level : Level, n : 0 .. MaxCount] /\ pressed \in 0 .. MaxCount

\* An ignition that keeps its level for Debounce + 1 samples is known, whatever came before, and the bit,
\* the screen and the detection of stolen fuel go by the same level (oa_hw.c:251-285).
IgnitionIsKnown ==
    /\ same.n > Debounce => acc.status = same.level
    /\ acc.bit = acc.status /\ acc.screen = acc.status

\* A key that is held down for Debounce + 1 samples is told of, again so after the platform has taken the
\* alarm back, unless it is masked (oa_hw.c:288-304, oa_jt808.c:2188-2195).
KeyIsHeard == pressed > Debounce /\ ~masked => key.alarm

\* The types of the inputs, and both are heard.
InputsInv == TypeOK /\ IgnitionIsKnown /\ KeyIsHeard
=============================================================================
