------------------------------ MODULE MCTxRing ------------------------------
(***************************************************************************)
(* TxRing with a buffer of four bytes, so that frames of up to three bytes  *)
(* meet every offset, the one at the very end included, and every filling. *)
(***************************************************************************)
EXTENDS TxRing

CONSTANTS b1, b2

MCByte == {b1, b2}

MCFrame == UNION {[1 .. n -> MCByte] : n \in 1 .. 3}
=============================================================================
