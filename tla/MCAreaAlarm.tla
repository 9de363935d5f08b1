----------------------------- MODULE MCAreaAlarm -----------------------------
(***************************************************************************)
(* AreaAlarm with one or two items of the kinds a run is about.             *)
(***************************************************************************)
EXTENDS AreaAlarm

Circle == <<"circle">>
CircleRect == <<"circle", "rect">>
CirclePoly == <<"circle", "poly">>

=============================================================================
