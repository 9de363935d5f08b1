----------------------------- MODULE MCExchange -----------------------------
(***************************************************************************)
(* The exchange with a body that begins with what follows an escape and     *)
(* holds a flag.                                                            *)
(***************************************************************************)
EXTENDS Exchange

MCReports == {<<>>, <<2, 6>>}
MCOrders == {<<2, 6>>}
=============================================================================
