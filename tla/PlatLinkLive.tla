---------------------------- MODULE PlatLinkLive ----------------------------
(***************************************************************************)
(* What the link of PlatLink eventually does, once the network, the        *)
(* platform and the users leave it alone.                                  *)
(***************************************************************************)
EXTENDS PlatLink

(* From some moment on there are no faults and no requests; the device has  *)
(* been activated by then, and its tasks run.                               *)
BecomeCalm ==
  /\ ~ calm /\ running
  /\ calm' = TRUE
  /\ UNCHANGED <<conn, steps, timer, plat_check_value, need_reconn, files, locked, running>>

(* The watchdog's 25 minutes are long against all the other times: in a     *)
(* calm it comes only when nothing else can happen.                         *)
PatientWatchdog ==
  /\ calm => ~ ENABLED <<Busy>>_vars
  /\ Watchdog

LiveNext == Busy \/ PatientWatchdog \/ BecomeCalm

(* oa_app_main and the timer functions run, the SDK reports what it         *)
(* announced, a calm platform answers, reports are due again and again, and *)
(* disturbances end.                                                        *)
SelfHealSpec ==
  /\ Init /\ [][LiveNext]_vars
  /\ WF_vars(oa_app_main) /\ WF_vars(oa_app_plat_link)
  /\ SF_vars(TimeoutExpires) /\ WF_vars(TimeoutIdle)
  /\ WF_vars(ReportLocation) /\ WF_vars(ReleaseOver)
  /\ WF_vars(ConnectDone) /\ WF_vars(WriteReady) /\ WF_vars(RemoteClose)
  /\ WF_vars(Answer)
  /\ WF_vars(BecomeCalm)

(* The watchdog restarts a device that stays OFFLINE. *)
FairSpec == SelfHealSpec /\ WF_vars(PatientWatchdog)

LoggedIn == /\ plat_status = "ONLINE"
            /\ conn.state = "ONLINE" /\ conn.session = "authed"

(* Once the disturbances end, a device that has been activated is logged in *)
(* for good: whichever state the faults, refusals and requests left the     *)
(* step machine of oa_app.c:95, the timers and the socket in, they and at   *)
(* last the watchdog (oa_wdt.c:39) bring it back.                           *)
Recovers == <>[](locked \/ LoggedIn)
=============================================================================
