----------------------------- MODULE MCAreaHistory -----------------------------
(***************************************************************************)
(* AreaAlarm with what has happened at the rounds so far.                  *)
(***************************************************************************)
EXTENDS MCAreaAlarm

CONSTANT Long   \* the number of rounds after which the histories stop counting

VARIABLES
  streak,   \* for how many rounds on end each item found the vehicle too fast
  silent    \* for how many of the last ones, in the area it holds now and
            \* unmasked, there was no alarm

history == <<streak, silent>>

None == [i \in Item |-> 0]

Count(n) == IF n < Long THEN n + 1 ELSE n

TooFast(i) == last'[i] = "inside" /\ Over(i)

Remember(i) ==
  /\ streak' = [streak EXCEPT ![i] = IF TooFast(i) THEN Count(@) ELSE 0]
  /\ silent' = [silent EXCEPT ![i] =
       IF TooFast(i) /\ ~masked /\ ~alarm' THEN Count(@) ELSE 0]

MCInit == Init /\ streak = None /\ silent = None

MCNext ==
  \/ /\ \/ \E v \in Speeds : Drive(v)
        \/ \E b \in Masks : SetMask(b)
        \/ oa_app_gps
        \/ oa_app_area
     /\ UNCHANGED history
  \/ \E i \in Item, a \in Areas \cup {NoArea} :
       /\ ChangeArea(i, a)
       /\ silent' = [silent EXCEPT ![i] = 0]
       /\ UNCHANGED streak
  \/ Restart /\ streak' = None /\ silent' = None
  \/ \E i \in Item, status \in Status : JudgeItem(i, status) /\ Remember(i)

MCSpec == MCInit /\ [][MCNext]_<<vars, history>>

(* A circle or a polygon raises the alarm only after the vehicle was too fast *)
(* for longer than the duration the platform set, round after round, in it    *)
(* and in the areas that were in its item before, whose count it inherits; a  *)
(* rectangle does not keep to that, it goes on counting after a slow round.   *)
(* And every area raises it in time: it never lets the vehicle be too fast    *)
(* for longer than the duration while there is no alarm.  The runs leave out  *)
(* the largest duration a byte holds: the count, a byte too, never exceeds it. *)
RaisedAfterDuration ==
  [][\A i \in Item : next = i =>
       /\ Kind[i] # "rect" /\ ~alarm /\ alarm' => streak'[i] > area[i].time
       /\ area[i] # NoArea => silent'[i] <= area[i].time]_<<vars, history>>
=============================================================================
