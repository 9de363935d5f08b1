------------------------------ MODULE PlatLink ------------------------------
(***************************************************************************)
(* The device's link to the monitoring platform: connect, register, log    *)
(* in, keep alive, retransmit, reconnect.  The step machine is             *)
(* oa_app_plat_link in src/src/oa_app.c, driven by the socket callbacks    *)
(* and the platform's answers of src/src/oa_soc.c, the acknowledge timer   *)
(* of oa_app_timeout, the requests of src/src/oa_dev_control.c and the     *)
(* watchdog of src/src/oa_wdt.c.  One action is one run of a timer         *)
(* function or of a callback; nothing preempts it.                         *)
(*                                                                         *)
(* Time is abstract: a timer that is armed may fire at any moment.         *)
(***************************************************************************)
EXTENDS Soc

CONSTANTS
  TcpRetransTimes,      \* the parameter tcp_retrans_times
  AuthenErrMaxTimes,    \* AUTHEN_ERR_MAX_TIMES (10 in oa_platform.h)
  Faults,               \* what the network, the SDK and the platform may do
  Commands              \* what the platform and the SMS sender may ask for

FaultKind == {"block", "short", "send", "close", "sync", "connect", "error",
              "silent", "lost", "reject", "sim", "file", "lock"}

CommandKind == {"query", "reconn", "conn2server", "turnoff", "reset",
                "factory", "rereg", "update_authcode", "unlock", "unlock_reconn"}

ASSUME LinkAssumption ==
  /\ TcpRetransTimes \in Nat
  /\ AuthenErrMaxTimes \in Nat /\ AuthenErrMaxTimes >= 1
  /\ Faults \subseteq FaultKind
  /\ Commands \subseteq CommandKind

VARIABLES
  conn,              \* g_soc_context, see Soc
  next_step,         \* dev_running ...
  plat_status,
  plat_switch,
  doing_what,
  authen_err_time,
  plat_check_value,
  need_reconn,       \* try_unlock has NEED_RECONN_BIT
  timeout_en,        \* timeout_var ...: an acknowledgement is awaited
  do_timeout,        \* a retransmission is on its way
  retrans_times,     \* the static counter of oa_app_timeout
  timeout_data,      \* the message to be retransmitted (and eDevMsgid)
  authcode,          \* the file with the authentication code: none, a good or a bad one
  locked,            \* now_use_lock: the device has not been activated
  running,           \* oa_app_main has found the device unlocked and started the tasks
  lock_file,         \* the file of the use lock: what it says, or none, or one cut short
  calm               \* no more faults and no more commands from now on

steps == <<next_step, plat_status, plat_switch, doing_what, authen_err_time>>
timer == <<timeout_en, do_timeout, retrans_times, timeout_data>>
files == <<authcode, lock_file>>
rest == <<plat_check_value, need_reconn, files, locked, running, calm>>
vars == <<conn, steps, timer, rest>>

(* Every variable keeps its type.  In particular the refusals counted       *)
(* (oa_soc.c:511) and the retransmissions (oa_app.c:413) stay below the     *)
(* limits they are compared with, whichever answers come in which order.    *)
TypeOK ==
  /\ conn \in Connection /\ Len(conn.tx) <= TxMax
  /\ next_step \in {"SOC_INIT", "RECONN", "DEV_REG", "DEV_LOGIN", "DEV_UNREG"}
  /\ plat_status \in {"OFFLINE", "ONLINE"}
  /\ doing_what \in {"none", "authen", "unreg"}
  /\ authen_err_time \in 0 .. AuthenErrMaxTimes - 1
  /\ retrans_times \in 0 .. TcpRetransTimes
  /\ timeout_data \in {"none", "reg", "login", "unreg", "loc"}
  /\ authcode \in {"none", "good", "bad"}
  /\ lock_file \in {"lock", "unlock", "none", "short"}
  /\ {plat_switch, plat_check_value, need_reconn, timeout_en, do_timeout,
      locked, running, calm} \subseteq BOOLEAN

Init ==
  /\ conn = Fresh
  /\ next_step = "SOC_INIT" /\ plat_status = "OFFLINE" /\ plat_switch = TRUE
  /\ doing_what = "none" /\ authen_err_time = 0
  /\ timeout_en = FALSE /\ do_timeout = FALSE
  /\ retrans_times = 0 /\ timeout_data = "none"
  /\ plat_check_value = TRUE /\ need_reconn = FALSE
  /\ authcode \in {"none", "good"}
  /\ lock_file \in {"lock", "unlock"}
  /\ locked = (lock_file = "lock") /\ running = ~ locked
  /\ calm = FALSE

Now == IF calm THEN {} ELSE Faults

(* use_lock: a file that is missing or cannot be opened is created as       *)
(* locked; one that cannot be read is deleted.  When it fails now_use_lock  *)
(* stays as it is, and after a failed write the file is left as it is.      *)
use_lock(file, now) ==
  If(file \in {"lock", "unlock"}, {[file |-> file, locked |-> file = "lock"]})
  \cup If(file = "none" \/ "lock" \in Now, {[file |-> "lock", locked |-> TRUE]})
  \cup If(file = "short", {[file |-> "none", locked |-> now]})
  \cup If("lock" \in Now, {[file |-> f, locked |-> now] : f \in {file, "short", "none"}})

(* What oa_app_main reads, and whether it starts the tasks. *)
ReadLock(file, now) ==
  \E u \in use_lock(file, now) :
    lock_file' = u.file /\ locked' = u.locked /\ running' = ~ u.locked

(* oa_module_restart, or the power: only the files survive, and the first   *)
(* run of oa_app_main reads the one of the lock.                            *)
Reboot(file) ==
  /\ conn' = Fresh
  /\ next_step' = "SOC_INIT" /\ plat_status' = "OFFLINE" /\ plat_switch' = TRUE
  /\ doing_what' = "none" /\ authen_err_time' = 0
  /\ timeout_en' = FALSE /\ do_timeout' = FALSE
  /\ retrans_times' = 0 /\ timeout_data' = "none"
  /\ plat_check_value' = TRUE /\ need_reconn' = FALSE
  /\ ReadLock(file, FALSE)
  /\ UNCHANGED calm

Restart == UNCHANGED authcode /\ Reboot(lock_file)

has_reg == authcode # "none"

-----------------------------------------------------------------------------
(* oa_app_main runs again every two seconds until it has found the device   *)
(* unlocked: then it starts the tasks, and ends.  It reads the file, so     *)
(* that an unlocking whose write failed is undone, and finds a socket that  *)
(* was opened meanwhile.                                                    *)
oa_app_main ==
  /\ ~ running
  /\ ReadLock(lock_file, locked)
  /\ UNCHANGED <<conn, steps, timer, plat_check_value, need_reconn, authcode, calm>>

-----------------------------------------------------------------------------
(* oa_app_plat_link: one action for each case of its switch *)

(* It runs from the start, and does nothing while the device is locked. *)
DoStep(step) == ~ locked /\ plat_switch /\ next_step = step

Schedule(step) ==
  /\ plat_switch' = TRUE
  /\ next_step' = step

(* An unlocking SMS that changed the server had the old connection closed. *)
PlatSocInit ==
  /\ DoStep("SOC_INIT")
  /\ \E c \in IF need_reconn THEN oa_soc_close_req(conn, Now)
              ELSE {[conn |-> conn, ok |-> TRUE]} :
       \/ /\ c.ok
          /\ conn' \in oa_soc_state_check(c.conn, Now)
          /\ plat_switch' = FALSE
          /\ UNCHANGED <<next_step, plat_status, doing_what, authen_err_time, timer, rest>>
       \/ ~ c.ok /\ Restart

PlatReconn ==
  /\ DoStep("RECONN")
  /\ conn' \in oa_soc_state_check(conn, Now)
  /\ plat_switch' = FALSE
  /\ UNCHANGED <<next_step, plat_status, doing_what, authen_err_time, timer, rest>>

(* DevReq2ServPackag_build and oa_soc_send_req: sent is what the caller     *)
(* compares, build_ret = soc_ret, true only if the ring was empty before.   *)
BuildAndSend(m, sent) ==
  /\ \E s \in oa_soc_send_req(escape_copy_to_send(conn, m), Now) :
       /\ conn' = s.conn
       /\ sent = (s.ret = 1)
  /\ timeout_en' = TRUE
  /\ timeout_data' = m
  /\ UNCHANGED <<do_timeout, retrans_times>>

PlatDevReg ==
  /\ DoStep("DEV_REG")
  /\ conn.state = "ONLINE"
  /\ \E sent \in BOOLEAN : /\ BuildAndSend("reg", sent)
                           /\ plat_switch' = ~ sent
  /\ UNCHANGED <<next_step, plat_status, doing_what, authen_err_time, rest>>

PlatDevLogin ==
  /\ DoStep("DEV_LOGIN")
  /\ conn.state = "ONLINE"
  /\ \E sent \in BOOLEAN :
       /\ BuildAndSend("login", sent)
       /\ plat_switch' = ~ sent
       /\ doing_what' = IF sent THEN "authen" ELSE doing_what
  /\ UNCHANGED <<next_step, plat_status, authen_err_time, rest>>

PlatDevUnreg ==
  /\ DoStep("DEV_UNREG")
  /\ conn.state = "ONLINE" /\ plat_status = "ONLINE"
  /\ \E sent \in BOOLEAN :
       /\ BuildAndSend("unreg", sent)
       /\ plat_switch' = ~ sent
       /\ doing_what' = IF sent THEN "unreg" ELSE doing_what
  /\ UNCHANGED <<next_step, plat_status, authen_err_time, rest>>

(* Nothing to do: the state of the socket is checked every tenth time. *)
PlatPoll ==
  /\ ~ locked /\ ~ plat_switch
  /\ plat_check_value
  /\ conn' \in oa_soc_state_check(conn, Now)
  /\ UNCHANGED <<steps, timer, rest>>

oa_app_plat_link == \/ PlatSocInit \/ PlatReconn \/ PlatDevReg
                    \/ PlatDevLogin \/ PlatDevUnreg \/ PlatPoll

-----------------------------------------------------------------------------
(* What several handlers do *)

(* Mutant: the socket is closed and plat_status forgotten. *)
LeavePlatformStaysOnline(c) ==
  IF plat_status = "OFFLINE"
  THEN {[conn |-> c, plat |-> "OFFLINE"]}
  ELSE UNION {{[conn |-> x.conn, plat |-> "ONLINE"] : x \in oa_soc_close_req(s.conn, Now)}
               : s \in oa_soc_send_req(c, Now)}

(* do_soc_reconn, just_reconn, do_turnoff_datatraffic: with the platform    *)
(* ONLINE, what the ring holds is sent and the socket closed; a socket      *)
(* that does not close leaves plat_status as it is.                         *)
LeavePlatform(c) ==
  IF plat_status = "OFFLINE"
  THEN {[conn |-> c, plat |-> "OFFLINE"]}
  ELSE UNION {{[conn |-> x.conn, plat |-> IF x.ok THEN "OFFLINE" ELSE "ONLINE"]
                 : x \in oa_soc_close_req(s.conn, Now)}
               : s \in oa_soc_send_req(c, Now)}

just_reconn(c) ==
  /\ \E x \in LeavePlatform(c) : conn' = x.conn /\ plat_status' = x.plat
  /\ Schedule("RECONN")

(* escape_copy_to_send and oa_soc_send_req, without the timer. *)
Sent(m) ==
  {s.conn : s \in oa_soc_send_req(escape_copy_to_send(conn, m), Now)}

-----------------------------------------------------------------------------
(* The other timer functions *)

(* oa_app_timeout with no acknowledgement awaited. *)
TimeoutIdle ==
  /\ conn.state = "ONLINE"
  /\ ~ timeout_en
  /\ do_timeout' = FALSE
  /\ UNCHANGED <<conn, steps, timeout_en, retrans_times, timeout_data, rest>>

(* oa_app_timeout after Tn.  Only a retransmission that was sent counts,    *)
(* and the count outlives the acknowledgement.  A calm platform answers     *)
(* before Tn.                                                               *)
TimeoutExpires ==
  /\ conn.state = "ONLINE"
  /\ timeout_en
  /\ calm => \A f \in conn.wire : ~ f.last
  /\ \E s \in oa_soc_send_req(escape_copy_to_send(conn, timeout_data), Now) :
       \/ /\ s.ret # 1
          /\ conn' = s.conn
          /\ do_timeout' = TRUE
          /\ UNCHANGED <<steps, timeout_en, retrans_times>>
       \/ /\ s.ret = 1 /\ retrans_times < TcpRetransTimes
          /\ conn' = s.conn
          /\ do_timeout' = TRUE
          /\ retrans_times' = retrans_times + 1
          /\ UNCHANGED <<steps, timeout_en>>
       \/ /\ s.ret = 1 /\ retrans_times = TcpRetransTimes
          /\ do_timeout' = FALSE /\ timeout_en' = FALSE
          /\ retrans_times' = 0
          /\ just_reconn(s.conn)
          /\ UNCHANGED <<doing_what, authen_err_time>>
  /\ UNCHANGED <<timeout_data, rest>>

(* Mutant: only a retransmission holds the heartbeat back. *)
HeartbeatDueInTimeout == plat_status = "ONLINE" /\ ~ do_timeout /\ ~ conn.is_blocksend

HeartbeatDue ==
  plat_status = "ONLINE" /\ ~ timeout_en /\ ~ do_timeout /\ ~ conn.is_blocksend

(* oa_app_plat_data. *)
Heartbeat ==
  /\ running /\ HeartbeatDue
  /\ conn' \in Sent("heartbeat")
  /\ UNCHANGED <<steps, timer, rest>>

(* handle_alarm_status, called by the tasks, and by the serial port's       *)
(* callback before they run: otherwise the report goes to the blind store.  *)
MayReport == plat_status = "ONLINE" /\ ~ do_timeout /\ ~ conn.is_blocksend

ReportLocation ==
  /\ MayReport
  /\ \E sent \in BOOLEAN : BuildAndSend("loc", sent)
  /\ UNCHANGED <<steps, rest>>

(* oa_app_blinddata: a stored report is sent outside the timer. *)
SendBlind ==
  /\ running /\ MayReport
  /\ conn' \in Sent("loc")
  /\ timeout_en' = FALSE
  /\ UNCHANGED <<steps, do_timeout, retrans_times, timeout_data, rest>>

ReleaseOver ==
  /\ conn.releasing
  /\ conn' = oa_soc_can_reconnect_again(conn)
  /\ UNCHANGED <<steps, timer, rest>>

(* Mutant: the watchdog looks at the socket. *)
WatchdogOfSocket == running /\ conn.state = "OFFLINE" /\ Restart

(* oa_app_online_offline: OFFLINE for 25 minutes, or 5 without a SIM card.  *)
Watchdog ==
  /\ running
  /\ plat_status = "OFFLINE" \/ "sim" \in Now
  /\ Restart

-----------------------------------------------------------------------------
(* oa_soc_notify_ind_user_callback *)

ConnectDone ==
  /\ conn.state = "CONNECT"
  /\ conn' = [conn EXCEPT !.state = "ONLINE", !.session = "open"]
  /\ IF plat_status = "OFFLINE"
     THEN Schedule(IF has_reg THEN "DEV_LOGIN" ELSE "DEV_REG")
     ELSE UNCHANGED <<next_step, plat_switch>>
  /\ UNCHANGED <<plat_status, doing_what, authen_err_time, timer, rest>>

ConnectFails ==
  /\ ~ calm
  /\ conn.state = "CONNECT"
  /\ conn' \in {x.conn : x \in oa_soc_close_req(conn, Now)}
  /\ Schedule("SOC_INIT")
  /\ UNCHANGED <<plat_status, doing_what, authen_err_time, timer, rest>>

WriteReady ==
  /\ conn.state = "ONLINE" /\ conn.is_blocksend
  /\ conn.session # "none"
  /\ conn' \in {s.conn : s \in oa_soc_send_req([conn EXCEPT !.is_blocksend = FALSE], Now)}
  /\ UNCHANGED <<steps, timer, rest>>

(* OA_SOC_WRITE or OA_SOC_READ reports an error: the socket is closed and   *)
(* dev_running is left alone.                                               *)
SocketError ==
  /\ "error" \in Now
  /\ conn.state = "ONLINE"
  /\ conn' \in {x.conn : x \in oa_soc_close_req(conn, Now)}
  /\ UNCHANGED <<steps, timer, rest>>

(* OA_SOC_CLOSE.  A connection that died in silence is reported at the      *)
(* latest when a send blocks on it.  A locked device forgets that it was to *)
(* connect anew, and keeps its status.                                      *)
RemoteClose ==
  /\ conn.state \in {"CONNECT", "ONLINE"}
  /\ calm => conn.state = "ONLINE" /\ conn.session = "none" /\ conn.is_blocksend
  /\ \E x \in oa_soc_close_req(conn, Now) :
       /\ conn' = x.conn
       /\ IF x.ok /\ ~ locked
          THEN plat_status' = "OFFLINE" /\ Schedule("SOC_INIT")
          ELSE UNCHANGED <<plat_status, plat_switch, next_step>>
       /\ need_reconn' = (need_reconn /\ ~ (x.ok /\ locked))
  /\ UNCHANGED <<doing_what, authen_err_time, timer, plat_check_value, files,
                 locked, running, calm>>

(* The connection dies and nobody is told. *)
SilentLoss ==
  /\ "silent" \in Now
  /\ conn.session # "none"
  /\ conn' = [conn EXCEPT !.session = "none", !.wire = {}]
  /\ UNCHANGED <<steps, timer, rest>>

-----------------------------------------------------------------------------
(* Answers of the platform: JT808_recv_analysis, then oa_soc_gprs_recv.     *)
(* The platform answers a frame once, or never; it grants a login to anyone *)
(* it registered, and everything else only to who has logged in.            *)

Waiting(f) == f \in conn.wire

Answered(f, session) ==
  [conn EXCEPT !.wire = @ \ {f}, !.session = session]

(* What a write of the authentication code leaves: a failure may come       *)
(* before the file is touched or after it is created.                       *)
Saved(code) == {code} \cup If("file" \in Now, {authcode, "bad"})

(* del_authcode. *)
Deleted == {"none"} \cup If("file" \in Now, {authcode})

(* The acknowledgement stops the timer if it is of the frame built last. *)
StopTimer(match) ==
  /\ timeout_en' = (timeout_en /\ ~ match)
  /\ do_timeout' = (do_timeout /\ ~ (timeout_en /\ match))
  /\ UNCHANGED <<retrans_times, timeout_data>>

RegisterAck(f, result) ==
  /\ Waiting(f) /\ f.msg = "reg"
  /\ result = "ok" \/ "reject" \in Now
  /\ conn' = Answered(f, conn.session)
  /\ StopTimer(f.last)
  /\ authcode' \in IF result = "ok" THEN Saved("good") ELSE {authcode}
  /\ IF plat_status = "OFFLINE" /\ result # "no_code"
     THEN Schedule(IF result = "ok" THEN "DEV_LOGIN" ELSE "DEV_REG")
     ELSE UNCHANGED <<next_step, plat_switch>>
  /\ UNCHANGED <<plat_status, doing_what, authen_err_time,
                 plat_check_value, need_reconn, lock_file, locked, running, calm>>

CommonAck(f) ==
  /\ Waiting(f) /\ f.msg # "reg"
  /\ StopTimer(f.last /\ f.msg = timeout_data)

SessionAfter(f) == CASE f.msg = "login" -> "authed"
                     [] f.msg = "unreg" -> "open"
                     [] OTHER           -> conn.session

LoggingIn == doing_what = "authen" /\ plat_status = "OFFLINE"

Unregistering == doing_what = "unreg" /\ plat_status = "ONLINE"

(* Mutant: a login that is scheduled again stays so. *)
LoginAcceptedKeepsSwitch ==
  /\ plat_status' = "ONLINE"
  /\ doing_what' = "none"
  /\ authen_err_time' = 0
  /\ UNCHANGED <<next_step, plat_switch>>

LoginAccepted ==
  /\ plat_switch' = FALSE
  /\ plat_status' = "ONLINE"
  /\ doing_what' = "none"
  /\ authen_err_time' = 0
  /\ UNCHANGED next_step

(* RspOK: whichever message it is for, it ends the login that is under way. *)
CommonAckOk(f) ==
  /\ CommonAck(f)
  /\ f.msg = "login" \/ conn.session = "authed"
  /\ LET c == Answered(f, SessionAfter(f)) IN
     \/ LoggingIn /\ LoginAccepted /\ conn' = c
     \/ Unregistering /\ just_reconn(c) /\ UNCHANGED <<doing_what, authen_err_time>>
     \/ /\ ~ LoggingIn /\ ~ Unregistering
        /\ conn' = c
        /\ UNCHANGED steps
  /\ UNCHANGED rest

TooManyRefusals == authen_err_time + 1 >= AuthenErrMaxTimes

(* RspError, RspMsgerr, RspUnsurport: try again, and after so many refusals *)
(* delete the authentication code and register anew.                        *)
CommonAckRefused(f) ==
  /\ CommonAck(f)
  /\ \/ "reject" \in Now
     \/ f.msg = "login" /\ authcode # "good"
     \/ f.msg # "login" /\ conn.session # "authed"
  /\ conn' = Answered(f, conn.session)
  /\ plat_switch' = (plat_switch \/ LoggingIn \/ Unregistering)
  /\ \/ /\ LoggingIn /\ TooManyRefusals
        /\ authen_err_time' = 0
        /\ authcode' \in Deleted
        /\ next_step' = IF authcode' = "none" THEN "DEV_REG" ELSE next_step
     \/ /\ ~ (LoggingIn /\ TooManyRefusals)
        /\ authen_err_time' = authen_err_time + IF LoggingIn THEN 1 ELSE 0
        /\ UNCHANGED <<authcode, next_step>>
  /\ UNCHANGED <<plat_status, doing_what, plat_check_value, need_reconn,
                 lock_file, locked, running, calm>>

(* The frame, or its answer, never arrives. *)
NoAnswer(f) ==
  /\ Waiting(f)
  /\ \/ /\ "lost" \in Now
        /\ conn' \in {Answered(f, conn.session), Answered(f, SessionAfter(f))}
     \/ /\ f.msg \notin {"reg", "login"} /\ conn.session # "authed"
        /\ conn' = Answered(f, conn.session)
  /\ UNCHANGED <<steps, timer, rest>>

-----------------------------------------------------------------------------
(* Requests *)

Asked(command) == ~ calm /\ command \in Commands

(* PLAT_REQ: JT808_ServReq_handle answers first, then the request is done.  *)
FromPlatform(command) == Asked(command) /\ conn.session = "authed"

PlatQuery ==
  /\ FromPlatform("query")
  /\ conn' \in Sent("rsp")
  /\ UNCHANGED <<steps, timer, rest>>

PlatReconnect ==
  /\ FromPlatform("reconn")
  /\ \E c \in Sent("rsp") : just_reconn(c)
  /\ UNCHANGED <<doing_what, authen_err_time, timer, rest>>

(* conn2specific_server with another server's address. *)
conn2specific_server ==
  /\ FromPlatform("conn2server")
  /\ authcode' \in {"none"} \cup If("file" \in Now /\ has_reg, {"bad"})
  /\ \E c \in Sent("rsp") : just_reconn(c)
  /\ UNCHANGED <<doing_what, authen_err_time, timer, plat_check_value,
                 need_reconn, lock_file, locked, running, calm>>

(* do_turnoff_datatraffic and do_turnoff_allwireless. *)
TurnOff(c) ==
  /\ \E x \in LeavePlatform(c) : conn' = x.conn /\ plat_status' = x.plat
  /\ plat_check_value' = (plat_check_value /\ plat_status = "OFFLINE")

do_turnoff_datatraffic ==
  /\ FromPlatform("turnoff")
  /\ \E c \in Sent("rsp") : TurnOff(c)
  /\ UNCHANGED <<next_step, plat_switch, doing_what, authen_err_time, timer,
                 need_reconn, files, locked, running, calm>>

(* do_reset and do_powerdown: by SMS, call or platform. *)
do_reset == Asked("reset") /\ Restart

(* do_factory_set: by SMS or call.  del_some_files deletes the lock's file, *)
(* then the code's; when it fails there is no restart.                      *)
do_factory_set ==
  /\ Asked("factory")
  /\ \/ authcode' = "none" /\ Reboot("none")
     \/ /\ "file" \in Now
        /\ \/ UNCHANGED files
           \/ lock_file' = "none" /\ authcode' \in {authcode, "none"}
        /\ TurnOff(conn)
        /\ UNCHANGED <<next_step, plat_switch, doing_what, authen_err_time,
                       timer, need_reconn, locked, running, calm>>

(* do_rereg, and the SMS command clr_authcode. *)
do_rereg ==
  /\ Asked("rereg")
  /\ authcode' = "none"
  /\ Schedule(IF plat_status = "OFFLINE" THEN "DEV_REG" ELSE "DEV_UNREG")
  /\ UNCHANGED <<conn, plat_status, doing_what, authen_err_time, timer,
                 plat_check_value, need_reconn, lock_file, locked, running, calm>>

(* The SMS command update_authcode, which writes to an existing file only.  *)
update_authcode ==
  /\ Asked("update_authcode") /\ has_reg
  /\ authcode' \in {"good", "bad"}
  /\ Schedule(IF plat_status = "OFFLINE" THEN "DEV_LOGIN" ELSE "DEV_UNREG")
  /\ UNCHANGED <<conn, plat_status, doing_what, authen_err_time, timer,
                 plat_check_value, need_reconn, lock_file, locked, running, calm>>

(* An SMS that unlocks the device, and one that also changes the server.    *)
(* use_unlock clears now_use_lock before it writes the file, but only if it *)
(* can open it.                                                             *)
use_unlock ==
  /\ \/ /\ locked /\ lock_file # "none"
        /\ locked' = FALSE
        /\ lock_file' \in {"unlock"} \cup If("lock" \in Now, {lock_file})
     \/ /\ ~ locked \/ lock_file = "none" \/ "lock" \in Now
        /\ UNCHANGED <<locked, lock_file>>
  /\ UNCHANGED running

SmsUnlock ==
  /\ Asked("unlock")
  /\ use_unlock
  /\ plat_switch' = (plat_switch \/ plat_status = "OFFLINE")
  /\ UNCHANGED <<conn, next_step, plat_status, doing_what, authen_err_time,
                 timer, plat_check_value, need_reconn, authcode, calm>>

SmsUnlockReconnect ==
  /\ Asked("unlock_reconn")
  /\ use_unlock
  /\ need_reconn' = TRUE
  /\ Schedule("SOC_INIT")
  /\ plat_status' = "OFFLINE"
  /\ UNCHANGED <<conn, doing_what, authen_err_time, timer,
                 plat_check_value, authcode, calm>>

-----------------------------------------------------------------------------
oa_app_timeout == TimeoutIdle \/ TimeoutExpires

Answer == \E f \in Frame :
            \/ \E result \in {"ok", "no_code", "refused"} : RegisterAck(f, result)
            \/ CommonAckOk(f) \/ CommonAckRefused(f) \/ NoAnswer(f)

Notify == ConnectDone \/ ConnectFails \/ WriteReady \/ SocketError \/ RemoteClose

Request == \/ PlatQuery \/ PlatReconnect \/ conn2specific_server
           \/ do_turnoff_datatraffic \/ do_reset \/ do_factory_set \/ do_rereg
           \/ update_authcode \/ SmsUnlock \/ SmsUnlockReconnect

Busy == \/ oa_app_main \/ oa_app_plat_link \/ oa_app_timeout \/ Heartbeat
        \/ ReportLocation \/ SendBlind \/ ReleaseOver \/ Notify \/ SilentLoss
        \/ Answer \/ Request

Next == Busy \/ Watchdog

Spec == Init /\ [][Next]_vars

-----------------------------------------------------------------------------
(* While the device takes itself to be ONLINE its socket is connected, and  *)
(* the platform has it logged in unless the connection has died unnoticed.  *)
(* The status is set by an acknowledgement (oa_soc.c:472) that names no     *)
(* message, and reset in five places; a socket that is closed elsewhere, or *)
(* a late answer, would leave the device reporting to nobody.               *)
OnlineIsLoggedIn ==
  plat_status = "ONLINE" =>
    conn.state = "ONLINE" /\ conn.session \in {"authed", "none"}

(* Once the device is ONLINE no login or registration is still scheduled or *)
(* counted: oa_app_plat_link would send it on a connection that has one     *)
(* already.  The answer to a first, blocked login arrives while the second  *)
(* is scheduled, requests come in between.                                  *)
OnlineIsSettled ==
  plat_status = "ONLINE" =>
    /\ doing_what # "authen" /\ authen_err_time = 0
    /\ plat_switch => next_step = "DEV_UNREG"

(* "Wait a period of time and then re-connect" (oa_soc.c:50): a connection  *)
(* that is closed may be opened again, now or when the timer fires.         *)
ReleaseArmed ==
  conn.state = "OFFLINE" => conn.can_connect \/ conn.releasing

(* "Do not re-connect the network immediately after the old one closed"     *)
(* (oa_soc.c:49), whoever closed it and whichever of the timer functions    *)
(* and requests would connect again.                                        *)
WaitsBeforeReconnect ==
  [][conn.state = "OFFLINE" /\ conn'.state # "OFFLINE" => ~ conn.releasing]_vars

InFlight == conn.wire \cup ToSet(conn.tx)

(* The message an acknowledgement is awaited for is the one numbered last,  *)
(* or its acknowledgement would not be known by its number                  *)
(* (oa_jt808.c:3037) and it would be sent again: heartbeats, stored reports *)
(* and new reports keep out of its way.  Answers to requests do not.        *)
AwaitedIsLast ==
  timeout_en => \A f \in InFlight : f.last => f.msg \in {timeout_data, "rsp"}

(* The types of the link's variables, and that an answer can be recognised.  *)
LinkInv == TypeOK /\ AwaitedIsLast
=============================================================================
