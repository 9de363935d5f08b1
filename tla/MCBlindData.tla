----------------------------- MODULE MCBlindData -----------------------------
(***************************************************************************)
(* The store of blind reports for TLC: BlindData on four slots and two      *)
(* kinds of report, enough for each index to wrap while the other is in     *)
(* every position and to tell the order of the reports apart; and apart     *)
(* from it BlindFiles, the files it is made of.                             *)
(***************************************************************************)
EXTENDS BlindData

CONSTANTS r1, r2

MCRecord == {r1, r2}

VARIABLES
  part,   \* which of the two this behaviour is about
  fconf, fdir, fmanage, fdata, fop, fpc, fdirAgain, fcalm, fcut

Files == INSTANCE BlindFiles WITH
  conf <- fconf, dir <- fdir, manage <- fmanage, data <- fdata, op <- fop, pc <- fpc,
  dirAgain <- fdirAgain, calm <- fcalm, cut <- fcut

fvars == <<fconf, fdir, fmanage, fdata, fop, fpc, fdirAgain, fcalm, fcut>>

BInit == part \in {"reports", "files"} /\ Init /\ Files!Init

BNext ==
  \/ part = "reports" /\ Next /\ UNCHANGED <<part, fvars>>
  \/ part = "files" /\ Files!Next /\ UNCHANGED <<part, vars>>

bvars == <<part, vars, fvars>>

(* The fairness of BlindData where reports are at work. *)
Reports(A) == part = "reports" /\ A /\ UNCHANGED <<part, fvars>>

BSpec ==
  /\ BInit /\ [][BNext]_bvars
  /\ WF_bvars(Reports(Continue)) /\ SF_bvars(Reports(ReadSlot)) /\ SF_bvars(Reports(SaveReadIndex))

-----------------------------------------------------------------------------
(* What is to hold of the files, as BlindFiles states it. *)
FilesInv == Files!FilesInv
=============================================================================
