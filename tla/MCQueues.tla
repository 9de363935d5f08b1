------------------------------ MODULE MCQueues ------------------------------
(***************************************************************************)
(* The two queues of the drivers for TLC: TxRing, the bytes for the socket, *)
(* and SmsQueue, the commands for the modem.  They share no state and are   *)
(* explored one at a time.                                                  *)
(***************************************************************************)
EXTENDS MCTxRing

CONSTANTS Addr, MaxOut, Faults, Setup, MaxSms, MaxRecv

VARIABLES
    part,
    w       \* the SMS driver and the modem

S == INSTANCE SmsQueue

ASSUME QueuesAssumption == S!AtAssumption /\ S!SetupAssumption

QInit ==
    /\ part \in {"ring", "sms"}
    /\ Init /\ S!Init

QNext ==
    \/ part = "ring" /\ Next /\ UNCHANGED <<part, w>>
    \/ part = "sms" /\ S!Next /\ UNCHANGED <<part, vars>>

qvars == <<part, vars, w>>

\* The fairness of SmsQueue where there is an SMS driver.
OfSms(A) == part = "sms" /\ A /\ UNCHANGED <<part, vars>>

QSpec ==
    /\ QInit /\ [][QNext]_qvars
    /\ WF_qvars(OfSms(S!oa_sms_handler))
    /\ WF_qvars(OfSms(S!oa_at_cmd_timeout_callback))
    /\ WF_qvars(OfSms(S!oa_sms_initial_by_at_cmd))

----------------------------------------------------------------------------
\* What is to hold of the SMS driver, as its module states it.

SmsInv == S!SmsInv
OwnAnswer == S!OwnAnswer
SendEnds == S!SendEnds
=============================================================================
