--------------------------- MODULE PlatLink_proofs ---------------------------
(***************************************************************************)
(* Proofs about PlatLink, for a ring of any length, any limits, and        *)
(* whatever faults and requests are possible.                              *)
(***************************************************************************)
EXTENDS PlatLink, SequenceTheorems, TLAPS

USE TxMaxAssumption, LinkAssumption

(* What holds of the connection between two handlers, and after each call   *)
(* of Soc: its type, a socket that may connect has no release timer, and    *)
(* unless a connect can fail at once, one that may not connect has one.     *)
Sound(c) ==
  /\ c \in Connection
  /\ Len(c.tx) <= TxMax
  /\ c.can_connect => ~ c.releasing
  /\ c.state = "OFFLINE" /\ "connect" \notin Faults => c.can_connect \/ c.releasing

(* The frames a connection has not lost and the platform has not answered. *)
Frames(c) == c.wire \cup ToSet(c.tx)

(* Nothing is opened in the time of release. *)
NotTooEarly(c, d) == c.state = "OFFLINE" /\ d.state # "OFFLINE" => ~ c.releasing

-----------------------------------------------------------------------------
(* The calls of Soc *)

(* A frame is numbered: it is the only last one. *)
LEMMA CopyNumbers ==
  ASSUME NEW c, Sound(c), NEW m \in Msg
  PROVE  LET d == escape_copy_to_send(c, m)
         IN  /\ Sound(d)
             /\ d.state = c.state /\ d.releasing = c.releasing
             /\ \A f \in Frames(d) : f.last => f.msg = m
<1> DEFINE old == [i \in DOMAIN c.tx |-> Old(c.tx[i])]
           new == [msg |-> m, last |-> TRUE]
           ring == Append(old, new)
           tx == IF Len(ring) > TxMax THEN Tail(ring) ELSE ring
           wire == {Old(f) : f \in c.wire}
           d == escape_copy_to_send(c, m)
<1>1. c.tx \in Seq(Frame) /\ c.wire \in SUBSET Frame /\ Len(c.tx) \in Nat /\ Len(c.tx) <= TxMax
  BY DEF Sound, Connection
<1>2. \A f \in Frame : Old(f) \in Frame /\ ~ Old(f).last
  BY DEF Frame, Old
<1>3. new \in Frame /\ new.msg = m
  BY DEF Frame
<1>4. old \in Seq(Frame) /\ Len(old) = Len(c.tx) /\ \A i \in 1 .. Len(old) : ~ old[i].last
  <2>1. DOMAIN c.tx = 1 .. Len(c.tx) /\ \A i \in 1 .. Len(c.tx) : c.tx[i] \in Frame
    BY <1>1
  <2>2. \A i \in 1 .. Len(c.tx) : old[i] \in Frame /\ ~ old[i].last
    BY <2>1, <1>2
  <2>3. old = [i \in 1 .. Len(c.tx) |-> old[i]]
    BY <2>1
  <2> HIDE DEF old
  <2>4. old \in [1 .. Len(c.tx) -> Frame]
    BY <2>2, <2>3
  <2>5. old \in Seq(Frame)
    BY <2>4, <1>1, SeqDef
  <2>6. Len(old) = Len(c.tx)
    BY <2>4, <2>5, <1>1, LenProperties
  <2> QED
    BY <2>2, <2>5, <2>6
<1> HIDE DEF old, new
<1>5. /\ ring \in Seq(Frame) /\ Len(ring) = Len(c.tx) + 1
      /\ \A i \in 1 .. Len(ring) : ring[i].last => ring[i].msg = m
  BY <1>1, <1>3, <1>4
<1> HIDE DEF ring
<1>6. /\ tx \in Seq(Frame) /\ Len(tx) <= TxMax
      /\ \A i \in 1 .. Len(tx) : tx[i].last => tx[i].msg = m
  <2>1. CASE Len(ring) > TxMax
    <3>1. /\ Tail(ring) \in Seq(Frame) /\ Len(Tail(ring)) = Len(ring) - 1
          /\ \A i \in 1 .. Len(Tail(ring)) : Tail(ring)[i] = ring[i + 1]
      BY <2>1, <1>5, <1>1
    <3> QED
      BY <2>1, <3>1, <1>5, <1>1
  <2>2. CASE ~ (Len(ring) > TxMax)
    BY <2>2, <1>5, <1>1
  <2> QED
    BY <2>1, <2>2
<1>7. wire \in SUBSET Frame /\ \A f \in wire : ~ f.last
  BY <1>1, <1>2
<1>8. d = [c EXCEPT !.tx = tx, !.wire = wire]
  BY DEF escape_copy_to_send, ring, old, new
<1> HIDE DEF tx, wire, d
<1>9. d.tx = tx /\ d.wire = wire /\ d.state = c.state /\ d.releasing = c.releasing /\ Sound(d)
  BY <1>6, <1>7, <1>8 DEF Sound, Connection
<1>10. \A f \in ToSet(tx) : \E i \in 1 .. Len(tx) : f = tx[i]
  BY <1>6 DEF ToSet
<1>11. \A f \in Frames(d) : f.last => f.msg = m
  BY <1>6, <1>7, <1>9, <1>10 DEF Frames
<1> QED
  BY <1>9, <1>11 DEF d

(* What a send leaves: nothing new is in flight. *)
LEMMA HandOverKeeps ==
  ASSUME NEW c, Sound(c), NEW frames \in Seq(Frame), ToSet(frames) \subseteq ToSet(c.tx)
  PROVE  LET d == HandOver(c, frames)
         IN  /\ Sound(d)
             /\ d.state = c.state /\ d.releasing = c.releasing
             /\ Frames(d) \subseteq Frames(c)
<1> DEFINE carried == {f \in ToSet(frames) : c.session # "none" /\ f.msg # "rsp"}
           d == HandOver(c, frames)
<1>1. carried \subseteq ToSet(c.tx) /\ carried \subseteq Frame
  BY DEF ToSet
<1>2. d = [c EXCEPT !.tx = <<>>, !.wire = @ \cup carried]
  BY DEF HandOver
<1> HIDE DEF carried, d
<1>3. d.tx = <<>> /\ d.wire = c.wire \cup carried /\ d.state = c.state /\ d.releasing = c.releasing
  BY <1>2 DEF Sound, Connection
<1>4. Sound(d)
  <2>1. d.wire \in SUBSET Frame /\ d.tx \in Seq(Frame) /\ Len(d.tx) <= TxMax
    BY <1>1, <1>3 DEF Sound, Connection
  <2> QED
    BY <1>2, <1>3, <2>1 DEF Sound, Connection
<1>5. Frames(d) \subseteq Frames(c)
  BY <1>1, <1>3 DEF Frames, ToSet
<1> QED
  BY <1>3, <1>4, <1>5 DEF d

LEMMA SendKeeps ==
  ASSUME NEW c, Sound(c), NEW F, NEW s \in oa_soc_send_req(c, F)
  PROVE  /\ Sound(s.conn) /\ s.ret \in Nat
         /\ s.conn.state = c.state /\ s.conn.releasing = c.releasing
         /\ Frames(s.conn) \subseteq Frames(c)
<1>1. CASE s = [conn |-> c, ret |-> 0]
  BY <1>1
<1>2. CASE s = [conn |-> HandOver(c, c.tx), ret |-> Len(c.tx)]
  <2>1. c.tx \in Seq(Frame) /\ Len(c.tx) \in Nat
    BY DEF Sound, Connection
  <2> QED
    BY <1>2, <2>1, HandOverKeeps
<1>3. CASE s = [conn |-> [c EXCEPT !.is_blocksend = TRUE], ret |-> 0]
  BY <1>3 DEF Sound, Connection, Frames
<1>4. CASE c.tx # <<>> /\ s = [conn |-> HandOver(c, Front(c.tx)), ret |-> 0]
  <2>1. c.tx \in Seq(Frame) /\ Len(c.tx) \in Nat \ {0}
    BY <1>4 DEF Sound, Connection
  <2>2. /\ Front(c.tx) \in Seq(Frame) /\ Len(Front(c.tx)) = Len(c.tx) - 1
        /\ \A i \in 1 .. Len(c.tx) - 1 : Front(c.tx)[i] = c.tx[i]
    BY <2>1 DEF Front
  <2>3. ToSet(Front(c.tx)) \subseteq ToSet(c.tx)
    BY <2>1, <2>2 DEF ToSet
  <2> QED
    BY <1>4, <2>2, <2>3, HandOverKeeps
<1>5. CASE s = [conn |-> HandOver(c, <<>>), ret |-> 0]
  <2>1. <<>> \in Seq(Frame) /\ ToSet(<<>>) \subseteq ToSet(c.tx)
    BY DEF ToSet
  <2> QED
    BY <1>5, <2>1, HandOverKeeps
<1> QED
  BY <1>1, <1>2, <1>3, <1>4, <1>5 DEF oa_soc_send_req, If

LEMMA CloseKeeps ==
  ASSUME NEW c, Sound(c), NEW F, NEW x \in oa_soc_close_req(c, F)
  PROVE  /\ Sound(x.conn) /\ x.ok \in BOOLEAN
         /\ x.conn.state \in {c.state, "OFFLINE"}
         /\ Frames(x.conn) \subseteq Frames(c)
<1>1. CASE x = [conn |-> c, ok |-> TRUE]
  BY <1>1
<1>2. CASE x = [conn |-> c, ok |-> FALSE]
  BY <1>2
<1>3. CASE x = [conn |-> Closed(c), ok |-> TRUE]
  BY <1>3 DEF Closed, Sound, Connection, Frames
<1> QED
  BY <1>1, <1>2, <1>3 DEF oa_soc_close_req, If

LEMMA CheckKeeps ==
  ASSUME NEW c, Sound(c), NEW d \in oa_soc_state_check(c, Now)
  PROVE  Sound(d) /\ Frames(d) \subseteq Frames(c) /\ NotTooEarly(c, d)
<1> DEFINE e == [c EXCEPT !.can_connect = FALSE]
<1>1. e.state = c.state /\ e.can_connect = FALSE /\ e.releasing = c.releasing
      /\ e \in Connection /\ Len(e.tx) <= TxMax /\ Frames(e) = Frames(c)
  BY DEF Sound, Connection, Frames
<1>2. CASE d = c
  BY <1>2 DEF NotTooEarly
<1>3. CASE c.can_connect /\ d = [e EXCEPT !.state = "CONNECT"]
  BY <1>1, <1>3 DEF Sound, Connection, Frames, NotTooEarly
<1>4. CASE c.can_connect /\ d = [e EXCEPT !.state = "ONLINE", !.session = "open"]
  BY <1>1, <1>4 DEF Sound, Connection, Frames, NotTooEarly
<1>5. CASE c.can_connect /\ d = e /\ "connect" \in Faults
  <2>1. Sound(e)
    BY <1>1, <1>5 DEF Sound
  <2> QED
    BY <1>1, <1>5, <2>1 DEF NotTooEarly
<1> QED
  BY <1>2, <1>3, <1>4, <1>5 DEF oa_soc_state_check, oa_soc_connect_req, If, Now

-----------------------------------------------------------------------------
(* The invariant *)

StepTypes ==
  /\ next_step \in {"SOC_INIT", "RECONN", "DEV_REG", "DEV_LOGIN", "DEV_UNREG"}
  /\ plat_status \in {"OFFLINE", "ONLINE"}
  /\ plat_switch \in BOOLEAN
  /\ doing_what \in {"none", "authen", "unreg"}
  /\ authen_err_time \in 0 .. AuthenErrMaxTimes - 1

TimerTypes ==
  /\ timeout_en \in BOOLEAN
  /\ do_timeout \in BOOLEAN
  /\ retrans_times \in 0 .. TcpRetransTimes
  /\ timeout_data \in {"none", "reg", "login", "unreg", "loc"}
  /\ timeout_en => timeout_data # "none"

RestTypes ==
  /\ plat_check_value \in BOOLEAN
  /\ need_reconn \in BOOLEAN
  /\ authcode \in {"none", "good", "bad"}
  /\ lock_file \in {"lock", "unlock", "none", "short"}
  /\ locked \in BOOLEAN
  /\ running \in BOOLEAN
  /\ calm \in BOOLEAN

(* A timer that runs is for some message: that is what makes the            *)
(* retransmission of TimeoutExpires a frame.                                *)
IInv == Sound(conn) /\ StepTypes /\ TimerTypes /\ RestTypes /\ AwaitedIsLast

(* What every step keeps. *)
Kept == IInv' /\ NotTooEarly(conn, conn')

-----------------------------------------------------------------------------
(* What is left alone keeps its type *)

LEMMA StepsStay ==
  ASSUME StepTypes, UNCHANGED steps
  PROVE  StepTypes'
BY DEF StepTypes, steps

LEMMA TimerStays ==
  ASSUME TimerTypes, UNCHANGED timer
  PROVE  TimerTypes'
BY DEF TimerTypes, timer

LEMMA RestStays ==
  ASSUME RestTypes, UNCHANGED rest
  PROVE  RestTypes'
BY DEF RestTypes, rest, files

LEMMA NothingAwaited ==
  ASSUME timeout_en' = FALSE
  PROVE  AwaitedIsLast'
BY DEF AwaitedIsLast

(* A timer that is stopped. *)
LEMMA TimerStops ==
  ASSUME TimerTypes, timeout_en' = FALSE, do_timeout' \in BOOLEAN,
         retrans_times' \in 0 .. TcpRetransTimes, timeout_data' = timeout_data
  PROVE  TimerTypes' /\ AwaitedIsLast'
<1>1. timeout_en' \in BOOLEAN /\ (timeout_en' => timeout_data' # "none")
  OBVIOUS
<1> QED
  BY <1>1, NothingAwaited DEF TimerTypes

-----------------------------------------------------------------------------
(* What several handlers do *)

(* Frames that are gone do not hurt the one that is awaited. *)
LEMMA FewerFrames ==
  ASSUME AwaitedIsLast, Frames(conn') \subseteq Frames(conn),
         timeout_en' => timeout_en, timeout_data' = timeout_data
  PROVE  AwaitedIsLast'
BY DEF AwaitedIsLast, InFlight, Frames

LEMMA SentNumbers ==
  ASSUME Sound(conn), NEW m \in Msg, NEW c \in Sent(m)
  PROVE  /\ Sound(c) /\ c.state = conn.state /\ c.releasing = conn.releasing
         /\ \A f \in Frames(c) : f.last => f.msg = m
<1> DEFINE d == escape_copy_to_send(conn, m)
<1>1. Sound(d) /\ d.state = conn.state /\ d.releasing = conn.releasing
      /\ \A f \in Frames(d) : f.last => f.msg = m
  BY CopyNumbers
<1> HIDE DEF d
<1>2. PICK s \in oa_soc_send_req(d, Now) : c = s.conn
  BY DEF Sent, d
<1> QED
  BY <1>1, <1>2, SendKeeps

LEMMA BuildAndSendKeeps ==
  ASSUME Sound(conn), TimerTypes, NEW m \in {"reg", "login", "unreg", "loc"},
         NEW sent, BuildAndSend(m, sent)
  PROVE  Sound(conn') /\ NotTooEarly(conn, conn') /\ TimerTypes' /\ AwaitedIsLast'
<1>1. m \in Msg
  BY DEF Msg
<1>2. conn' \in Sent(m)
  BY DEF BuildAndSend, Sent
<1>3. Sound(conn') /\ NotTooEarly(conn, conn')
      /\ \A f \in Frames(conn') : f.last => f.msg = m
  BY <1>1, <1>2, SentNumbers DEF NotTooEarly
<1>4. TimerTypes' /\ timeout_data' = m
  BY DEF BuildAndSend, TimerTypes
<1>5. AwaitedIsLast'
  BY <1>3, <1>4 DEF AwaitedIsLast, InFlight, Frames
<1> QED
  BY <1>3, <1>4, <1>5

LEMMA LeaveKeeps ==
  ASSUME NEW c, Sound(c), NEW x \in LeavePlatform(c)
  PROVE  /\ Sound(x.conn) /\ x.plat \in {"OFFLINE", "ONLINE"}
         /\ x.conn.state \in {c.state, "OFFLINE"}
         /\ Frames(x.conn) \subseteq Frames(c)
<1>1. CASE x = [conn |-> c, plat |-> "OFFLINE"]
  BY <1>1
<1>2. CASE \E s \in oa_soc_send_req(c, Now) : \E y \in oa_soc_close_req(s.conn, Now) :
             x = [conn |-> y.conn, plat |-> IF y.ok THEN "OFFLINE" ELSE "ONLINE"]
  <2>0. PICK s \in oa_soc_send_req(c, Now) : \E y \in oa_soc_close_req(s.conn, Now) :
          x = [conn |-> y.conn, plat |-> IF y.ok THEN "OFFLINE" ELSE "ONLINE"]
    BY <1>2
  <2>1. PICK y \in oa_soc_close_req(s.conn, Now) :
          x = [conn |-> y.conn, plat |-> IF y.ok THEN "OFFLINE" ELSE "ONLINE"]
    BY <2>0
  <2>2. Sound(s.conn) /\ s.conn.state = c.state /\ Frames(s.conn) \subseteq Frames(c)
    BY SendKeeps
  <2>3. /\ Sound(y.conn) /\ y.conn.state \in {s.conn.state, "OFFLINE"}
        /\ Frames(y.conn) \subseteq Frames(s.conn)
    BY <2>2, CloseKeeps
  <2> QED
    BY <2>1, <2>2, <2>3
<1> QED
  BY <1>1, <1>2 DEF LeavePlatform

LEMMA ReconnKeeps ==
  ASSUME NEW c, Sound(c), c.state = conn.state, just_reconn(c)
  PROVE  /\ Sound(conn') /\ NotTooEarly(conn, conn')
         /\ Frames(conn') \subseteq Frames(c)
         /\ plat_status' \in {"OFFLINE", "ONLINE"}
         /\ plat_switch' = TRUE /\ next_step' = "RECONN"
<1>1. PICK x \in LeavePlatform(c) : conn' = x.conn /\ plat_status' = x.plat
  BY DEF just_reconn
<1>2. /\ Sound(x.conn) /\ x.plat \in {"OFFLINE", "ONLINE"}
      /\ x.conn.state \in {c.state, "OFFLINE"}
      /\ Frames(x.conn) \subseteq Frames(c)
  BY LeaveKeeps
<1>3. plat_switch' = TRUE /\ next_step' = "RECONN"
  BY DEF just_reconn, Schedule
<1> QED
  BY <1>1, <1>2, <1>3 DEF NotTooEarly

LEMMA AnsweredKeeps ==
  ASSUME Sound(conn), NEW f, NEW session \in {"none", "open", "authed"}
  PROVE  LET d == Answered(f, session)
         IN  /\ Sound(d) /\ d.state = conn.state /\ NotTooEarly(conn, d)
             /\ Frames(d) \subseteq Frames(conn)
BY DEF Answered, Sound, Connection, Frames, NotTooEarly

LEMMA StopTimerKeeps ==
  ASSUME TimerTypes, NEW match, StopTimer(match)
  PROVE  TimerTypes' /\ (timeout_en' => timeout_en) /\ timeout_data' = timeout_data
BY DEF StopTimer, TimerTypes

(* Whatever becomes of the file of the lock, it is one of four. *)
LEMMA ReadLockTypes ==
  ASSUME NEW file \in {"lock", "unlock", "none", "short"}, NEW now \in BOOLEAN, ReadLock(file, now)
  PROVE  /\ lock_file' \in {"lock", "unlock", "none", "short"}
         /\ locked' \in BOOLEAN /\ running' \in BOOLEAN
<1>1. PICK u \in use_lock(file, now) :
        lock_file' = u.file /\ locked' = u.locked /\ running' = ~ u.locked
  BY DEF ReadLock
<1>2. u.file \in {"lock", "unlock", "none", "short"} /\ u.locked \in BOOLEAN
  <2>1. CASE u = [file |-> file, locked |-> file = "lock"]
    BY <2>1
  <2>2. CASE u = [file |-> "lock", locked |-> TRUE]
    BY <2>2
  <2>3. CASE u = [file |-> "none", locked |-> now]
    BY <2>3
  <2>4. CASE \E f \in {file, "short", "none"} : u = [file |-> f, locked |-> now]
    BY <2>4
  <2> QED
    BY <2>1, <2>2, <2>3, <2>4 DEF use_lock, If
<1>3. running' \in BOOLEAN
  BY <1>1, <1>2, Zenon
<1> QED
  BY <1>1, <1>2, <1>3

LEMMA RestartKeeps ==
  ASSUME IInv, NEW file \in {"lock", "unlock", "none", "short"}, Reboot(file),
         authcode' \in {"none", "good", "bad"}
  PROVE  Kept
<1>1. Sound(conn') /\ NotTooEarly(conn, conn')
  BY DEF Reboot, Fresh, Sound, Connection, NotTooEarly
<1>2. StepTypes'
  BY DEF Reboot, StepTypes
<1>3. TimerTypes' /\ AwaitedIsLast'
  <2>1. /\ timeout_en' = FALSE /\ do_timeout' = FALSE
        /\ retrans_times' = 0 /\ timeout_data' = "none"
    BY DEF Reboot
  <2>2. timeout_en' \in BOOLEAN /\ do_timeout' \in BOOLEAN /\ ~ timeout_en'
    BY <2>1, Zenon
  <2>3. retrans_times' \in 0 .. TcpRetransTimes
    BY <2>1
  <2>4. TimerTypes'
    BY <2>1, <2>2, <2>3 DEF TimerTypes
  <2> QED
    BY <2>1, <2>4, NothingAwaited
<1>4. RestTypes'
  <2>1. plat_check_value' = TRUE /\ need_reconn' = FALSE /\ calm' = calm
    BY DEF Reboot
  <2>2. calm \in BOOLEAN
    BY DEF IInv, RestTypes
  <2>3. plat_check_value' \in BOOLEAN /\ need_reconn' \in BOOLEAN /\ calm' \in BOOLEAN
    BY <2>1, <2>2, Zenon
  <2>4. /\ lock_file' \in {"lock", "unlock", "none", "short"}
        /\ locked' \in BOOLEAN /\ running' \in BOOLEAN
    BY ReadLockTypes DEF Reboot
  <2> QED
    BY <2>3, <2>4 DEF RestTypes
<1> QED
  BY <1>1, <1>2, <1>3, <1>4 DEF Kept, IInv

-----------------------------------------------------------------------------
(* The step machine *)

LEMMA SocInitKeeps ==
  ASSUME IInv, PlatSocInit
  PROVE  Kept
<1>1. PICK c \in IF need_reconn THEN oa_soc_close_req(conn, Now)
                 ELSE {[conn |-> conn, ok |-> TRUE]} :
          \/ /\ c.ok
             /\ conn' \in oa_soc_state_check(c.conn, Now)
             /\ plat_switch' = FALSE
             /\ UNCHANGED <<next_step, plat_status, doing_what, authen_err_time, timer, rest>>
          \/ ~ c.ok /\ Restart
  BY DEF PlatSocInit
<1>2. CASE c.ok /\ conn' \in oa_soc_state_check(c.conn, Now)
            /\ plat_switch' = FALSE
            /\ UNCHANGED <<next_step, plat_status, doing_what, authen_err_time, timer, rest>>
  <2>1. /\ Sound(c.conn) /\ Frames(c.conn) \subseteq Frames(conn)
        /\ conn.state = "OFFLINE" => c.conn = conn
    BY CloseKeeps DEF IInv, oa_soc_close_req
  <2>2. Sound(conn') /\ Frames(conn') \subseteq Frames(conn) /\ NotTooEarly(c.conn, conn')
    BY <1>2, <2>1, CheckKeeps
  <2>3. NotTooEarly(conn, conn')
    BY <2>1, <2>2 DEF NotTooEarly
  <2>4. StepTypes' /\ TimerTypes' /\ RestTypes'
    <3>1. StepTypes /\ plat_switch' = FALSE
          /\ UNCHANGED <<next_step, plat_status, doing_what, authen_err_time>>
      BY <1>2 DEF IInv
    <3>2. StepTypes'
      BY <3>1 DEF StepTypes
    <3> QED
      BY <1>2, <3>2, TimerStays, RestStays DEF IInv
  <2>5. AwaitedIsLast'
    BY <1>2, <2>2, FewerFrames DEF IInv, timer
  <2> QED
    BY <2>2, <2>3, <2>4, <2>5 DEF Kept, IInv
<1>3. CASE ~ c.ok /\ Restart
  BY <1>3, RestartKeeps DEF Restart, IInv, RestTypes
<1> QED
  BY <1>1, <1>2, <1>3

LEMMA ReconnStepKeeps ==
  ASSUME IInv, PlatReconn \/ PlatPoll
  PROVE  Kept
<1>1. Sound(conn') /\ Frames(conn') \subseteq Frames(conn) /\ NotTooEarly(conn, conn')
  BY CheckKeeps DEF IInv, PlatReconn, PlatPoll
<1>2. StepTypes' /\ TimerTypes' /\ RestTypes'
  <2>1. /\ UNCHANGED <<next_step, plat_status, doing_what, authen_err_time, timer, rest>>
        /\ plat_switch' = FALSE \/ UNCHANGED plat_switch
    BY DEF PlatReconn, PlatPoll, steps
  <2>2. StepTypes'
    BY <2>1 DEF IInv, StepTypes
  <2> QED
    BY <2>1, <2>2, TimerStays, RestStays DEF IInv
<1>3. AwaitedIsLast'
  BY <1>1, FewerFrames DEF IInv, PlatReconn, PlatPoll, timer
<1> QED
  BY <1>1, <1>2, <1>3 DEF Kept, IInv

LEMMA RegisterOrLoginKeeps ==
  ASSUME IInv, PlatDevReg \/ PlatDevLogin \/ PlatDevUnreg
  PROVE  Kept
<1>1. \E m \in {"reg", "login", "unreg"} : \E sent \in BOOLEAN :
        BuildAndSend(m, sent) /\ plat_switch' = ~ sent
        /\ doing_what' \in {doing_what, "authen", "unreg"}
  BY DEF PlatDevReg, PlatDevLogin, PlatDevUnreg
<1>2. PICK m \in {"reg", "login", "unreg"}, sent \in BOOLEAN :
        BuildAndSend(m, sent) /\ plat_switch' = ~ sent
        /\ doing_what' \in {doing_what, "authen", "unreg"}
  BY <1>1
<1>3. Sound(conn') /\ NotTooEarly(conn, conn') /\ TimerTypes' /\ AwaitedIsLast'
  BY <1>2, BuildAndSendKeeps DEF IInv
<1>4. plat_switch' \in BOOLEAN
  BY <1>2
<1>5. UNCHANGED <<next_step, plat_status, authen_err_time, rest>>
  BY DEF PlatDevReg, PlatDevLogin, PlatDevUnreg
<1>6. StepTypes' /\ RestTypes'
  BY <1>2, <1>4, <1>5 DEF IInv, StepTypes, RestTypes, rest, files
<1> QED
  BY <1>3, <1>6 DEF Kept, IInv

-----------------------------------------------------------------------------
(* The other timers *)

LEMMA TimeoutIdleKeeps ==
  ASSUME IInv, TimeoutIdle
  PROVE  Kept
<1>1. UNCHANGED <<conn, steps, timeout_en, retrans_times, timeout_data, rest>> /\ do_timeout' = FALSE
  BY DEF TimeoutIdle
<1>2. StepTypes' /\ TimerTypes' /\ RestTypes'
  <2>1. TimerTypes'
    BY <1>1 DEF IInv, TimerTypes
  <2> QED
    BY <1>1, <2>1, StepsStay, RestStays DEF IInv
<1>3. Sound(conn') /\ AwaitedIsLast' /\ NotTooEarly(conn, conn')
  BY <1>1 DEF IInv, AwaitedIsLast, InFlight, NotTooEarly
<1> QED
  BY <1>2, <1>3 DEF Kept, IInv

LEMMA TimeoutExpiresKeeps ==
  ASSUME IInv, TimeoutExpires
  PROVE  Kept
<1> DEFINE d == escape_copy_to_send(conn, timeout_data)
<1>1. timeout_en /\ timeout_data \in Msg
  BY DEF IInv, TimerTypes, TimeoutExpires, Msg
<1>2. Sound(d) /\ d.state = conn.state /\ \A f \in Frames(d) : f.last => f.msg = timeout_data
  BY <1>1, CopyNumbers DEF IInv
<1>3. UNCHANGED <<timeout_data, rest>> /\ RestTypes'
  BY DEF TimeoutExpires, IInv, RestTypes, rest, files
<1>4. PICK s \in oa_soc_send_req(d, Now) :
       \/ /\ s.ret # 1
          /\ conn' = s.conn
          /\ do_timeout' = TRUE
          /\ UNCHANGED <<steps, timeout_en, retrans_times>>
       \/ /\ s.ret = 1 /\ retrans_times < TcpRetransTimes
          /\ conn' = s.conn
          /\ do_timeout' = TRUE
          /\ retrans_times' = retrans_times + 1
          /\ UNCHANGED <<steps, timeout_en>>
       \/ /\ s.ret = 1 /\ retrans_times = TcpRetransTimes
          /\ do_timeout' = FALSE /\ timeout_en' = FALSE
          /\ retrans_times' = 0
          /\ just_reconn(s.conn)
          /\ UNCHANGED <<doing_what, authen_err_time>>
  BY DEF TimeoutExpires
<1> HIDE DEF d
<1>5. Sound(s.conn) /\ s.conn.state = conn.state
      /\ \A f \in Frames(s.conn) : f.last => f.msg = timeout_data
  BY <1>2, SendKeeps
<1>6. CASE /\ conn' = s.conn /\ do_timeout' = TRUE
           /\ retrans_times' = retrans_times \/ (retrans_times < TcpRetransTimes /\ retrans_times' = retrans_times + 1)
           /\ UNCHANGED <<steps, timeout_en>>
  <2>1. AwaitedIsLast'
    BY <1>3, <1>5, <1>6 DEF AwaitedIsLast, InFlight, Frames
  <2>2. retrans_times' \in 0 .. TcpRetransTimes
    BY <1>6 DEF IInv, TimerTypes
  <2>3. TimerTypes'
    BY <1>3, <1>6, <2>2 DEF IInv, TimerTypes
  <2>4. StepTypes'
    BY <1>6 DEF IInv, StepTypes, steps
  <2> QED
    BY <1>3, <1>5, <1>6, <2>1, <2>3, <2>4 DEF Kept, IInv, NotTooEarly
<1>7. CASE /\ do_timeout' = FALSE /\ timeout_en' = FALSE
           /\ retrans_times' = 0
           /\ just_reconn(s.conn)
           /\ UNCHANGED <<doing_what, authen_err_time>>
  <2>1. /\ Sound(conn') /\ NotTooEarly(conn, conn')
        /\ plat_status' \in {"OFFLINE", "ONLINE"}
        /\ plat_switch' = TRUE /\ next_step' = "RECONN"
    BY <1>5, <1>7, ReconnKeeps
  <2>2. StepTypes'
    BY <1>7, <2>1 DEF IInv, StepTypes
  <2>3. TimerTypes' /\ AwaitedIsLast'
    <3>1. do_timeout' \in BOOLEAN
      BY <1>7, Zenon
    <3>2. retrans_times' \in 0 .. TcpRetransTimes
      BY <1>7
    <3> QED
      BY <1>3, <1>7, <3>1, <3>2, TimerStops DEF IInv
  <2> QED
    BY <1>3, <2>1, <2>2, <2>3 DEF Kept, IInv
<1> QED
  BY <1>4, <1>6, <1>7

LEMMA SentKeeps ==
  ASSUME IInv, NEW m \in Msg, conn' \in Sent(m), UNCHANGED <<steps, timer, rest>>,
         timeout_en => m = "rsp"
  PROVE  Kept
<1>1. /\ Sound(conn') /\ NotTooEarly(conn, conn')
      /\ \A f \in Frames(conn') : f.last => f.msg = m
  BY SentNumbers DEF IInv, NotTooEarly
<1>2. StepTypes' /\ TimerTypes' /\ RestTypes'
  BY DEF IInv, StepTypes, TimerTypes, RestTypes, steps, timer, rest, files
<1>3. AwaitedIsLast'
  BY <1>1 DEF AwaitedIsLast, InFlight, Frames, timer
<1> QED
  BY <1>1, <1>2, <1>3 DEF Kept, IInv

LEMMA HeartbeatKeeps ==
  ASSUME IInv, Heartbeat \/ PlatQuery
  PROVE  Kept
BY SentKeeps DEF Heartbeat, HeartbeatDue, PlatQuery, Msg

LEMMA ReportKeeps ==
  ASSUME IInv, ReportLocation
  PROVE  Kept
<1>1. PICK sent \in BOOLEAN : BuildAndSend("loc", sent)
  BY DEF ReportLocation
<1>2. Sound(conn') /\ NotTooEarly(conn, conn') /\ TimerTypes' /\ AwaitedIsLast'
  BY <1>1, BuildAndSendKeeps DEF IInv
<1>3. StepTypes' /\ RestTypes'
  BY DEF ReportLocation, IInv, StepTypes, RestTypes, steps, rest, files
<1> QED
  BY <1>2, <1>3 DEF Kept, IInv

LEMMA SendBlindKeeps ==
  ASSUME IInv, SendBlind
  PROVE  Kept
<1>1. Sound(conn') /\ NotTooEarly(conn, conn')
  BY SentNumbers DEF SendBlind, IInv, NotTooEarly, Msg
<1>2. TimerTypes' /\ AwaitedIsLast'
  <2>1. /\ TimerTypes /\ timeout_en' = FALSE /\ timeout_data' = timeout_data
        /\ do_timeout' = do_timeout /\ retrans_times' = retrans_times
    BY DEF SendBlind, IInv
  <2>2. do_timeout' \in BOOLEAN /\ retrans_times' \in 0 .. TcpRetransTimes
    BY <2>1 DEF TimerTypes
  <2> QED
    BY <2>1, <2>2, TimerStops
<1>3. StepTypes' /\ RestTypes'
  BY StepsStay, RestStays DEF SendBlind, IInv
<1> QED
  BY <1>1, <1>2, <1>3 DEF Kept, IInv

(* Steps that touch only the connection, and leave nothing new in flight. *)
LEMMA ConnectionOnlyKeeps ==
  ASSUME IInv, Sound(conn'), NotTooEarly(conn, conn'),
         Frames(conn') \subseteq Frames(conn), UNCHANGED <<steps, timer, rest>>
  PROVE  Kept
<1>1. AwaitedIsLast'
  BY FewerFrames DEF IInv, timer
<1> QED
  BY <1>1, StepsStay, TimerStays, RestStays DEF Kept, IInv

LEMMA ReleaseKeeps ==
  ASSUME IInv, ReleaseOver
  PROVE  Kept
<1>1. /\ Sound(conn') /\ NotTooEarly(conn, conn')
      /\ Frames(conn') \subseteq Frames(conn)
  BY DEF IInv, ReleaseOver, oa_soc_can_reconnect_again, Sound, Connection, NotTooEarly, Frames
<1> QED
  BY <1>1, ConnectionOnlyKeeps DEF ReleaseOver

LEMMA WatchdogKeeps ==
  ASSUME IInv, Watchdog \/ do_reset
  PROVE  Kept
<1>1. Reboot(lock_file) /\ authcode' = authcode
  BY DEF Watchdog, do_reset, Restart
<1>2. /\ lock_file \in {"lock", "unlock", "none", "short"}
      /\ authcode' \in {"none", "good", "bad"}
  BY <1>1 DEF IInv, RestTypes
<1> QED
  BY <1>1, <1>2, RestartKeeps

(* oa_app_main touches the lock only. *)
LEMMA MainKeeps ==
  ASSUME IInv, oa_app_main
  PROVE  Kept
<1>1. UNCHANGED <<conn, steps, timer, plat_check_value, need_reconn, authcode, calm>>
  BY DEF oa_app_main
<1>2. /\ lock_file' \in {"lock", "unlock", "none", "short"}
      /\ locked' \in BOOLEAN /\ running' \in BOOLEAN
  BY ReadLockTypes DEF oa_app_main, IInv, RestTypes
<1>3. RestTypes'
  BY <1>1, <1>2 DEF IInv, RestTypes
<1>4. Sound(conn') /\ NotTooEarly(conn, conn') /\ AwaitedIsLast'
  BY <1>1 DEF IInv, NotTooEarly, AwaitedIsLast, InFlight, timer
<1> QED
  BY <1>1, <1>3, <1>4, StepsStay, TimerStays DEF Kept, IInv

-----------------------------------------------------------------------------
(* Notifications of the socket *)

(* What may be scheduled. *)
LEMMA ScheduleTypes ==
  ASSUME StepTypes, plat_status' \in {"OFFLINE", "ONLINE"},
         plat_switch' \in BOOLEAN,
         next_step' \in {"SOC_INIT", "RECONN", "DEV_REG", "DEV_LOGIN", "DEV_UNREG"},
         UNCHANGED <<doing_what, authen_err_time>>
  PROVE  StepTypes'
BY DEF StepTypes

LEMMA ConnectDoneKeeps ==
  ASSUME IInv, ConnectDone
  PROVE  Kept
<1>1. /\ Sound(conn') /\ NotTooEarly(conn, conn')
      /\ Frames(conn') \subseteq Frames(conn)
  BY DEF IInv, ConnectDone, Sound, Connection, NotTooEarly, Frames
<1>2. plat_switch' \in {TRUE, plat_switch} /\ next_step' \in {"DEV_LOGIN", "DEV_REG", next_step}
  BY DEF ConnectDone, Schedule
<1>3. StepTypes'
  BY <1>2, ScheduleTypes DEF IInv, ConnectDone, StepTypes
<1>4. TimerTypes' /\ RestTypes' /\ AwaitedIsLast'
  BY <1>1, TimerStays, RestStays, FewerFrames DEF IInv, ConnectDone, timer
<1> QED
  BY <1>1, <1>3, <1>4 DEF Kept, IInv

LEMMA ConnectFailsKeeps ==
  ASSUME IInv, ConnectFails
  PROVE  Kept
<1>1. /\ Sound(conn') /\ NotTooEarly(conn, conn')
      /\ Frames(conn') \subseteq Frames(conn)
  BY CloseKeeps DEF IInv, ConnectFails, NotTooEarly
<1>2. StepTypes'
  BY ScheduleTypes DEF IInv, ConnectFails, Schedule, StepTypes
<1>3. TimerTypes' /\ RestTypes' /\ AwaitedIsLast'
  BY <1>1, TimerStays, RestStays, FewerFrames DEF IInv, ConnectFails, timer
<1> QED
  BY <1>1, <1>2, <1>3 DEF Kept, IInv

LEMMA WriteReadyKeeps ==
  ASSUME IInv, WriteReady
  PROVE  Kept
<1> DEFINE c == [conn EXCEPT !.is_blocksend = FALSE]
<1>1. Sound(c) /\ c.state = conn.state /\ Frames(c) = Frames(conn)
  BY DEF IInv, Sound, Connection, Frames
<1> HIDE DEF c
<1>2. PICK s \in oa_soc_send_req(c, Now) : conn' = s.conn
  BY DEF WriteReady, c
<1>3. /\ Sound(conn') /\ conn'.state = conn.state
      /\ Frames(conn') \subseteq Frames(conn)
  BY <1>1, <1>2, SendKeeps
<1> QED
  BY <1>3, ConnectionOnlyKeeps DEF WriteReady, NotTooEarly

LEMMA SocketErrorKeeps ==
  ASSUME IInv, SocketError
  PROVE  Kept
<1>1. /\ Sound(conn') /\ NotTooEarly(conn, conn')
      /\ Frames(conn') \subseteq Frames(conn)
  BY CloseKeeps DEF IInv, SocketError, NotTooEarly
<1> QED
  BY <1>1, ConnectionOnlyKeeps DEF SocketError

LEMMA SilentLossKeeps ==
  ASSUME IInv, SilentLoss
  PROVE  Kept
<1>1. /\ Sound(conn') /\ NotTooEarly(conn, conn')
      /\ Frames(conn') \subseteq Frames(conn)
  BY DEF IInv, SilentLoss, Sound, Connection, NotTooEarly, Frames
<1> QED
  BY <1>1, ConnectionOnlyKeeps DEF SilentLoss

LEMMA RemoteCloseKeeps ==
  ASSUME IInv, RemoteClose
  PROVE  Kept
<1>1. PICK x \in oa_soc_close_req(conn, Now) :
       /\ conn' = x.conn
       /\ IF x.ok /\ ~ locked
          THEN plat_status' = "OFFLINE" /\ Schedule("SOC_INIT")
          ELSE UNCHANGED <<plat_status, plat_switch, next_step>>
       /\ need_reconn' = (need_reconn /\ ~ (x.ok /\ locked))
  BY DEF RemoteClose
<1>2. /\ Sound(conn') /\ NotTooEarly(conn, conn')
      /\ Frames(conn') \subseteq Frames(conn)
  BY <1>1, CloseKeeps DEF IInv, RemoteClose, NotTooEarly
<1>3. /\ plat_status' \in {"OFFLINE", plat_status} /\ plat_switch' \in {TRUE, plat_switch}
      /\ next_step' \in {"SOC_INIT", next_step}
  BY <1>1 DEF Schedule
<1>4. StepTypes'
  BY <1>3, ScheduleTypes DEF IInv, RemoteClose, StepTypes
<1>5. TimerTypes' /\ AwaitedIsLast'
  BY <1>2, TimerStays, FewerFrames DEF IInv, RemoteClose, timer
<1>6. need_reconn' \in BOOLEAN
  BY <1>1, Zenon DEF IInv, RestTypes
<1>7. RestTypes'
  BY <1>6 DEF IInv, RemoteClose, RestTypes, files
<1> QED
  BY <1>2, <1>4, <1>5, <1>7 DEF Kept, IInv

-----------------------------------------------------------------------------
(* Answers of the platform *)

(* A frame that awaits its answer is on the wire of a sound connection. *)
LEMMA SessionTypes ==
  ASSUME Sound(conn), NEW f
  PROVE  conn.session \in {"none", "open", "authed"} /\ SessionAfter(f) \in {"none", "open", "authed"}
BY DEF Sound, Connection, SessionAfter

(* An answer takes its frame off the wire; it may stop the timer. *)
LEMMA AnswerKeeps ==
  ASSUME IInv, NEW f, NEW session \in {"none", "open", "authed"}, NEW match,
         conn' = Answered(f, session), StopTimer(match)
  PROVE  Sound(conn') /\ NotTooEarly(conn, conn') /\ TimerTypes' /\ AwaitedIsLast'
<1>1. /\ Sound(conn') /\ NotTooEarly(conn, conn')
      /\ Frames(conn') \subseteq Frames(conn)
  BY AnsweredKeeps DEF IInv
<1>2. TimerTypes' /\ (timeout_en' => timeout_en) /\ timeout_data' = timeout_data
  BY StopTimerKeeps DEF IInv
<1> QED
  BY <1>1, <1>2, FewerFrames DEF IInv

LEMMA RegisterAckKeeps ==
  ASSUME IInv, NEW f \in Frame, NEW result \in {"ok", "no_code", "refused"},
         RegisterAck(f, result)
  PROVE  Kept
<1>1. Sound(conn') /\ NotTooEarly(conn, conn') /\ TimerTypes' /\ AwaitedIsLast'
  BY AnswerKeeps, SessionTypes DEF RegisterAck, IInv
<1>2. plat_switch' \in {TRUE, plat_switch} /\ next_step' \in {"DEV_LOGIN", "DEV_REG", next_step}
  BY DEF RegisterAck, Schedule
<1>3. StepTypes'
  BY <1>2, ScheduleTypes DEF IInv, RegisterAck, StepTypes
<1>4. authcode' \in {"good", "bad", authcode}
  BY DEF RegisterAck, Saved, If
<1>5. UNCHANGED <<plat_check_value, need_reconn, lock_file, locked, running, calm>>
  BY DEF RegisterAck
<1>6. RestTypes'
  BY <1>4, <1>5 DEF IInv, RestTypes
<1> QED
  BY <1>1, <1>3, <1>6 DEF Kept, IInv

LEMMA CommonAckOkKeeps ==
  ASSUME IInv, NEW f \in Frame, CommonAckOk(f)
  PROVE  Kept
<1> DEFINE c == Answered(f, SessionAfter(f))
<1>1. /\ Sound(c) /\ c.state = conn.state /\ NotTooEarly(conn, c)
      /\ Frames(c) \subseteq Frames(conn)
  BY AnsweredKeeps, SessionTypes DEF IInv
<1>2. TimerTypes' /\ (timeout_en' => timeout_en) /\ timeout_data' = timeout_data
  BY StopTimerKeeps DEF IInv, CommonAckOk, CommonAck
<1>3. \/ LoginAccepted /\ conn' = c
      \/ just_reconn(c) /\ UNCHANGED <<doing_what, authen_err_time>>
      \/ conn' = c /\ UNCHANGED steps
  BY DEF CommonAckOk
<1>4. RestTypes'
  BY RestStays DEF IInv, CommonAckOk
<1> HIDE DEF c
<1>5. CASE LoginAccepted /\ conn' = c
  <2>1. StepTypes'
    <3>1. /\ plat_switch' = FALSE /\ plat_status' = "ONLINE" /\ doing_what' = "none"
          /\ authen_err_time' = 0 /\ next_step' = next_step
      BY <1>5 DEF LoginAccepted
    <3>2. authen_err_time' \in 0 .. AuthenErrMaxTimes - 1
      BY <3>1
    <3> QED
      BY <3>1, <3>2 DEF IInv, StepTypes
  <2> QED
    BY <1>1, <1>2, <1>4, <1>5, <2>1, FewerFrames DEF Kept, IInv
<1>6. CASE just_reconn(c) /\ UNCHANGED <<doing_what, authen_err_time>>
  <2>1. /\ Sound(conn') /\ NotTooEarly(conn, conn')
        /\ Frames(conn') \subseteq Frames(c)
        /\ plat_status' \in {"OFFLINE", "ONLINE"}
        /\ plat_switch' = TRUE /\ next_step' = "RECONN"
    BY <1>1, <1>6, ReconnKeeps
  <2>2. StepTypes'
    BY <1>6, <2>1, ScheduleTypes DEF IInv
  <2>3. Frames(conn') \subseteq Frames(conn)
    BY <1>1, <2>1
  <2> QED
    BY <1>2, <1>4, <2>1, <2>2, <2>3, FewerFrames DEF Kept, IInv
<1>7. CASE conn' = c /\ UNCHANGED steps
  BY <1>1, <1>2, <1>4, <1>7, StepsStay, FewerFrames DEF Kept, IInv
<1> QED
  BY <1>3, <1>5, <1>6, <1>7

LEMMA CommonAckRefusedKeeps ==
  ASSUME IInv, NEW f \in Frame, CommonAckRefused(f)
  PROVE  Kept
<1>1. Sound(conn') /\ NotTooEarly(conn, conn') /\ TimerTypes' /\ AwaitedIsLast'
  BY AnswerKeeps, SessionTypes DEF CommonAckRefused, CommonAck, IInv
<1>2. authen_err_time' \in 0 .. AuthenErrMaxTimes - 1
  <2>1. CASE LoggingIn /\ TooManyRefusals /\ authen_err_time' = 0
    BY <2>1
  <2>2. CASE /\ ~ (LoggingIn /\ TooManyRefusals)
             /\ authen_err_time' = authen_err_time + IF LoggingIn THEN 1 ELSE 0
    BY <2>2 DEF IInv, StepTypes, TooManyRefusals
  <2> QED
    BY <2>1, <2>2 DEF CommonAckRefused
<1>3. /\ plat_switch' = (plat_switch \/ LoggingIn \/ Unregistering)
      /\ next_step' \in {"DEV_REG", next_step}
      /\ authcode' \in {"none", authcode}
      /\ UNCHANGED <<plat_status, doing_what, plat_check_value, need_reconn,
                     lock_file, locked, running, calm>>
  BY DEF CommonAckRefused, Deleted, If
<1>4. plat_switch' \in BOOLEAN
  BY <1>3, Zenon DEF IInv, StepTypes
<1>5. StepTypes'
  BY <1>2, <1>3, <1>4 DEF IInv, StepTypes
<1>6. RestTypes'
  BY <1>3 DEF IInv, RestTypes
<1> QED
  BY <1>1, <1>5, <1>6 DEF Kept, IInv

LEMMA NoAnswerKeeps ==
  ASSUME IInv, NEW f \in Frame, NoAnswer(f)
  PROVE  Kept
<1>1. conn' \in {Answered(f, conn.session), Answered(f, SessionAfter(f))}
  BY DEF NoAnswer
<1>2. /\ Sound(conn') /\ NotTooEarly(conn, conn')
      /\ Frames(conn') \subseteq Frames(conn)
  BY <1>1, AnsweredKeeps, SessionTypes DEF IInv
<1> QED
  BY <1>2, ConnectionOnlyKeeps DEF NoAnswer

-----------------------------------------------------------------------------
(* Requests *)

(* The answer to a request goes out before the request is done. *)
LEMMA AnswerFirst ==
  ASSUME IInv, NEW c \in Sent("rsp")
  PROVE  /\ Sound(c) /\ c.state = conn.state
         /\ \A f \in Frames(c) : f.last => f.msg = "rsp"
BY SentNumbers DEF IInv, Msg

(* A number that was awaited is taken by nothing but an answer. *)
LEMMA OnlyAnswers ==
  ASSUME NEW c, \A f \in Frames(c) : f.last => f.msg = "rsp",
         Frames(conn') \subseteq Frames(c)
  PROVE  AwaitedIsLast'
BY DEF AwaitedIsLast, InFlight, Frames

LEMMA ReconnectRequestKeeps ==
  ASSUME IInv, PlatReconnect \/ conn2specific_server
  PROVE  Kept
<1>1. PICK c \in Sent("rsp") : just_reconn(c)
  BY DEF PlatReconnect, conn2specific_server
<1>2. UNCHANGED <<doing_what, authen_err_time, timer, plat_check_value,
                  need_reconn, lock_file, locked, running, calm>>
  BY DEF PlatReconnect, conn2specific_server, rest, files
<1>3. authcode' \in {"none", "bad", authcode}
  BY DEF PlatReconnect, conn2specific_server, If, rest, files
<1>4. /\ Sound(c) /\ c.state = conn.state
      /\ \A f \in Frames(c) : f.last => f.msg = "rsp"
  BY AnswerFirst
<1>5. /\ Sound(conn') /\ NotTooEarly(conn, conn')
      /\ Frames(conn') \subseteq Frames(c)
      /\ plat_status' \in {"OFFLINE", "ONLINE"}
      /\ plat_switch' = TRUE /\ next_step' = "RECONN"
  BY <1>1, <1>4, ReconnKeeps
<1>6. StepTypes' /\ TimerTypes'
  BY <1>2, <1>5, ScheduleTypes, TimerStays DEF IInv
<1>7. RestTypes'
  BY <1>2, <1>3 DEF IInv, RestTypes
<1> QED
  BY <1>4, <1>5, <1>6, <1>7, OnlyAnswers DEF Kept, IInv

(* The traffic is turned off on a connection c. *)
LEMMA TurnOffKeeps ==
  ASSUME IInv, NEW c, Sound(c), c.state = conn.state, TurnOff(c)
  PROVE  /\ Sound(conn') /\ NotTooEarly(conn, conn')
         /\ Frames(conn') \subseteq Frames(c)
         /\ plat_status' \in {"OFFLINE", "ONLINE"}
         /\ plat_check_value' \in BOOLEAN
<1>1. PICK x \in LeavePlatform(c) : conn' = x.conn /\ plat_status' = x.plat
  BY DEF TurnOff
<1>2. plat_check_value' \in BOOLEAN
  BY Zenon DEF TurnOff, IInv, RestTypes
<1> QED
  BY <1>1, <1>2, LeaveKeeps DEF NotTooEarly

LEMMA TurnOffRequestKeeps ==
  ASSUME IInv, do_turnoff_datatraffic
  PROVE  Kept
<1>1. PICK c \in Sent("rsp") : TurnOff(c)
  BY DEF do_turnoff_datatraffic
<1>2. UNCHANGED <<next_step, plat_switch, doing_what, authen_err_time, timer,
                  need_reconn, files, locked, running, calm>>
  BY DEF do_turnoff_datatraffic
<1>3. /\ Sound(c) /\ c.state = conn.state
      /\ \A f \in Frames(c) : f.last => f.msg = "rsp"
  BY AnswerFirst
<1>4. /\ Sound(conn') /\ NotTooEarly(conn, conn')
      /\ Frames(conn') \subseteq Frames(c)
      /\ plat_status' \in {"OFFLINE", "ONLINE"}
      /\ plat_check_value' \in BOOLEAN
  BY <1>1, <1>3, TurnOffKeeps
<1>5. StepTypes' /\ TimerTypes'
  BY <1>2, <1>4, ScheduleTypes, TimerStays DEF IInv, StepTypes
<1>6. RestTypes'
  BY <1>2, <1>4 DEF IInv, RestTypes, files
<1> QED
  BY <1>3, <1>4, <1>5, <1>6, OnlyAnswers DEF Kept, IInv

LEMMA FactoryKeeps ==
  ASSUME IInv, do_factory_set
  PROVE  Kept
<1>1. CASE authcode' = "none" /\ Reboot("none")
  BY <1>1, RestartKeeps
<1>2. CASE /\ UNCHANGED files \/ (lock_file' = "none" /\ authcode' \in {authcode, "none"})
           /\ TurnOff(conn)
           /\ UNCHANGED <<next_step, plat_switch, doing_what, authen_err_time,
                          timer, need_reconn, locked, running, calm>>
  <2>1. /\ Sound(conn') /\ NotTooEarly(conn, conn')
        /\ Frames(conn') \subseteq Frames(conn)
        /\ plat_status' \in {"OFFLINE", "ONLINE"}
        /\ plat_check_value' \in BOOLEAN
    BY <1>2, TurnOffKeeps DEF IInv
  <2>2. StepTypes' /\ TimerTypes'
    BY <1>2, <2>1, ScheduleTypes, TimerStays DEF IInv, StepTypes
  <2>3. lock_file' \in {"none", lock_file} /\ authcode' \in {authcode, "none"}
    BY <1>2 DEF files
  <2>4. RestTypes'
    BY <1>2, <2>1, <2>3 DEF IInv, RestTypes
  <2>5. AwaitedIsLast'
    BY <1>2, <2>1, FewerFrames DEF IInv, timer
  <2> QED
    BY <2>1, <2>2, <2>4, <2>5 DEF Kept, IInv
<1> QED
  BY <1>1, <1>2 DEF do_factory_set

(* The requests that only schedule a step. *)
LEMMA ScheduleRequestKeeps ==
  ASSUME IInv, do_rereg \/ update_authcode
  PROVE  Kept
<1>1. UNCHANGED <<conn, plat_status, doing_what, authen_err_time, timer,
                  plat_check_value, need_reconn, lock_file, locked, running, calm>>
  BY DEF do_rereg, update_authcode
<1>2. /\ authcode' \in {"none", "good", "bad"} /\ plat_switch' = TRUE
      /\ next_step' \in {"DEV_REG", "DEV_UNREG", "DEV_LOGIN"}
  BY DEF do_rereg, update_authcode, Schedule
<1>3. Sound(conn') /\ NotTooEarly(conn, conn') /\ Frames(conn') \subseteq Frames(conn)
  BY <1>1 DEF IInv, NotTooEarly
<1>4. StepTypes' /\ TimerTypes'
  BY <1>1, <1>2, ScheduleTypes, TimerStays DEF IInv, StepTypes
<1>5. RestTypes'
  BY <1>1, <1>2 DEF IInv, RestTypes
<1>6. AwaitedIsLast'
  BY <1>1, <1>3, FewerFrames DEF IInv, timer
<1> QED
  BY <1>3, <1>4, <1>5, <1>6 DEF Kept, IInv

LEMMA UnlockKeeps ==
  ASSUME IInv, SmsUnlock \/ SmsUnlockReconnect
  PROVE  Kept
<1>1. UNCHANGED <<conn, doing_what, authen_err_time, timer,
                  plat_check_value, authcode, calm>>
  BY DEF SmsUnlock, SmsUnlockReconnect
<1>2. /\ plat_status' \in {"OFFLINE", plat_status}
      /\ next_step' \in {"SOC_INIT", next_step}
      /\ need_reconn' \in {TRUE, need_reconn}
  BY DEF SmsUnlock, SmsUnlockReconnect, Schedule
<1>3. locked' \in {FALSE, locked} /\ lock_file' \in {"unlock", lock_file} /\ running' = running
  BY DEF SmsUnlock, SmsUnlockReconnect, use_unlock, If
<1>4. plat_switch' = (plat_switch \/ plat_status = "OFFLINE") \/ plat_switch' = TRUE
  BY DEF SmsUnlock, SmsUnlockReconnect, Schedule
<1>5. plat_switch' \in BOOLEAN
  BY <1>4, Zenon DEF IInv, StepTypes
<1>6. Sound(conn') /\ NotTooEarly(conn, conn') /\ Frames(conn') \subseteq Frames(conn)
  BY <1>1 DEF IInv, NotTooEarly
<1>7. StepTypes' /\ TimerTypes'
  BY <1>1, <1>2, <1>5, ScheduleTypes, TimerStays DEF IInv, StepTypes
<1>8. RestTypes'
  BY <1>1, <1>2, <1>3 DEF IInv, RestTypes
<1>9. AwaitedIsLast'
  BY <1>1, <1>6, FewerFrames DEF IInv, timer
<1> QED
  BY <1>6, <1>7, <1>8, <1>9 DEF Kept, IInv

-----------------------------------------------------------------------------
(* The theorems *)

LEMMA InitInv == Init => IInv
<1> SUFFICES ASSUME Init PROVE IInv
  OBVIOUS
<1>1. Sound(conn)
  BY DEF Init, Fresh, Sound, Connection
<1>2. StepTypes
  BY DEF Init, StepTypes
<1>3. timeout_en = FALSE /\ do_timeout = FALSE /\ retrans_times = 0 /\ timeout_data = "none"
  BY DEF Init
<1>4. TimerTypes /\ AwaitedIsLast
  <2>1. timeout_en \in BOOLEAN /\ do_timeout \in BOOLEAN /\ ~ timeout_en
    BY <1>3, Zenon
  <2>2. retrans_times \in 0 .. TcpRetransTimes
    BY <1>3
  <2> QED
    BY <1>3, <2>1, <2>2 DEF TimerTypes, AwaitedIsLast
<1>5. RestTypes
  BY DEF Init, RestTypes
<1> QED
  BY <1>1, <1>2, <1>4, <1>5 DEF IInv

LEMMA StepKept == IInv /\ [Next]_vars => Kept
<1> SUFFICES ASSUME IInv, [Next]_vars PROVE Kept
  OBVIOUS
<1>0. CASE oa_app_main
  BY <1>0, MainKeeps
<1>1. CASE oa_app_plat_link
  BY <1>1, SocInitKeeps, ReconnStepKeeps, RegisterOrLoginKeeps DEF oa_app_plat_link
<1>2. CASE oa_app_timeout
  BY <1>2, TimeoutIdleKeeps, TimeoutExpiresKeeps DEF oa_app_timeout
<1>3. CASE Heartbeat \/ ReportLocation \/ SendBlind \/ ReleaseOver \/ SilentLoss \/ Watchdog
  BY <1>3, HeartbeatKeeps, ReportKeeps, SendBlindKeeps, ReleaseKeeps, SilentLossKeeps, WatchdogKeeps
<1>4. CASE Notify
  BY <1>4, ConnectDoneKeeps, ConnectFailsKeeps, WriteReadyKeeps, SocketErrorKeeps,
     RemoteCloseKeeps DEF Notify
<1>5. CASE Answer
  BY <1>5, RegisterAckKeeps, CommonAckOkKeeps, CommonAckRefusedKeeps, NoAnswerKeeps DEF Answer
<1>6. CASE Request
  BY <1>6, HeartbeatKeeps, ReconnectRequestKeeps, TurnOffRequestKeeps, WatchdogKeeps,
     FactoryKeeps, ScheduleRequestKeeps, UnlockKeeps DEF Request
<1>7. CASE UNCHANGED vars
  <2>1. Sound(conn') /\ NotTooEarly(conn, conn') /\ Frames(conn') \subseteq Frames(conn)
    BY <1>7 DEF IInv, NotTooEarly, vars
  <2> QED
    BY <1>7, <2>1, ConnectionOnlyKeeps DEF vars
<1> QED
  BY <1>0, <1>1, <1>2, <1>3, <1>4, <1>5, <1>6, <1>7 DEF Next, Busy

(* The invariant holds in every state. *)
LEMMA Invariance == Spec => []IInv
<1>1. IInv /\ [Next]_vars => IInv'
  BY StepKept DEF Kept
<1> QED
  BY <1>1, InitInv, PTL DEF Spec

(* Whatever the network, the platform and the users do, and in whichever    *)
(* order the timer functions and callbacks run: the counters of refusals    *)
(* and retransmissions stay below their limits, the ring keeps its size,    *)
(* and an answer that is awaited is to the message numbered last, or to     *)
(* one that an answer of the device has overtaken.                          *)
THEOREM AnswersAreKnown == Spec => []LinkInv
<1>1. IInv => LinkInv
  <2> SUFFICES ASSUME IInv PROVE LinkInv
    OBVIOUS
  <2>1. conn \in Connection /\ Len(conn.tx) <= TxMax
    BY DEF IInv, Sound
  <2>2. {plat_switch, plat_check_value, need_reconn, timeout_en, do_timeout,
         locked, running, calm} \subseteq BOOLEAN
    BY Zenon DEF IInv, StepTypes, TimerTypes, RestTypes
  <2>3. TypeOK
    BY <2>1, <2>2 DEF IInv, StepTypes, TimerTypes, RestTypes, TypeOK
  <2> QED
    BY <2>3 DEF IInv, LinkInv
<1> QED
  BY <1>1, Invariance, PTL

(* No timer function, request or notification opens a connection while the  *)
(* old one is being released (oa_soc.c:49).                                 *)
THEOREM NoEarlyReconnection == Spec => WaitsBeforeReconnect
<1>1. IInv /\ [Next]_vars =>
        [conn.state = "OFFLINE" /\ conn'.state # "OFFLINE" => ~ conn.releasing]_vars
  BY StepKept DEF Kept, NotTooEarly
<1> QED
  BY <1>1, Invariance, PTL DEF Spec, WaitsBeforeReconnect

(* If no connect fails at once, a closed connection can be opened again     *)
(* (oa_soc.c:50), whoever closed it: the run PlatLinkConnectFail shows that *)
(* the condition is needed.                                                 *)
THEOREM ClosedMayReopen ==
  ASSUME "connect" \notin Faults
  PROVE  Spec => []ReleaseArmed
<1>1. IInv => ReleaseArmed
  BY DEF IInv, Sound, ReleaseArmed
<1> QED
  BY <1>1, Invariance, PTL

-----------------------------------------------------------------------------
(* What ONLINE means, as long as sockets report no errors and close when    *)
(* asked, the file of the lock can be read and written, and nobody asks the *)
(* device to register again.                                                *)

(* Errors of the socket leave plat_status behind (oa_soc.c:624), a socket   *)
(* that does not close keeps it while a step is scheduled, and an           *)
(* unregistration may be answered after the login that follows it.  A       *)
(* device whose unlocking was not written, or whose file a factory setting  *)
(* has deleted before it failed, is locked again with a socket that may be  *)
(* open, and then keeps its status when that is closed (oa_soc.c:701).      *)
Undisturbed ==
  /\ "error" \notin Faults /\ "close" \notin Faults /\ "lock" \notin Faults
  /\ "file" \notin Faults \/ "factory" \notin Commands
  /\ "rereg" \notin Commands /\ "update_authcode" \notin Commands

(* The platform has a session only with a connected socket, frames on the   *)
(* wire only in a session, and no unregistration is under way.              *)
Carried(c) ==
  /\ c.session = "none" => c.wire = {}
  /\ c.session # "none" => c.state = "ONLINE"
  /\ \A f \in Frames(c) : f.msg # "unreg"

(* ONLINE is connected and logged in, and nothing is scheduled. *)
SettledOn(c) ==
  /\ c.state = "ONLINE" /\ c.session \in {"authed", "none"}
  /\ doing_what # "authen" /\ authen_err_time = 0 /\ plat_switch = FALSE

NoUnreg == doing_what # "unreg" /\ timeout_data # "unreg" /\ next_step # "DEV_UNREG"

Logged == plat_status = "ONLINE" => SettledOn(conn)

(* A locked device has no socket, and one that is not yet known to be       *)
(* unlocked has a file that says so.                                        *)
Activated ==
  /\ locked = TRUE => conn.state = "OFFLINE"
  /\ locked = TRUE \/ running = TRUE \/ lock_file = "unlock"

OnlineInv == IInv /\ Carried(conn) /\ Logged /\ NoUnreg /\ Activated

-----------------------------------------------------------------------------
(* The calls of Soc *)

LEMMA CopyCarries ==
  ASSUME NEW c, Sound(c), Carried(c), NEW m \in Msg, m # "unreg"
  PROVE  LET d == escape_copy_to_send(c, m)
         IN  /\ Sound(d) /\ Carried(d)
             /\ d.state = c.state /\ d.session = c.session
<1> DEFINE old == [i \in DOMAIN c.tx |-> Old(c.tx[i])]
           new == [msg |-> m, last |-> TRUE]
           ring == Append(old, new)
           tx == IF Len(ring) > TxMax THEN Tail(ring) ELSE ring
           wire == {Old(f) : f \in c.wire}
           d == escape_copy_to_send(c, m)
           Other == {f \in Frame : f.msg # "unreg"}
<1>1. c.tx \in Seq(Frame) /\ c.wire \in SUBSET Frame /\ Len(c.tx) \in Nat
  BY DEF Sound, Connection
<1>2. \A f \in Other : Old(f) \in Other
  BY DEF Frame, Old
<1>3. new \in Other
  BY DEF Frame
<1>4. c.wire \in SUBSET Other
  BY <1>1 DEF Carried, Frames
<1>5. \A i \in 1 .. Len(c.tx) : c.tx[i] \in Other
  <2>1. \A i \in 1 .. Len(c.tx) : c.tx[i] \in Frame /\ c.tx[i] \in ToSet(c.tx)
    BY <1>1 DEF ToSet
  <2> QED
    BY <2>1 DEF Carried, Frames
<1> HIDE DEF Other
<1>6. old \in [1 .. Len(c.tx) -> Other]
  <2>1. DOMAIN c.tx = 1 .. Len(c.tx)
    BY <1>1
  <2> QED
    BY <2>1, <1>2, <1>5
<1> HIDE DEF old, new
<1>7. old \in Seq(Other)
  BY <1>1, <1>6, SeqDef
<1>8. ring \in Seq(Other) /\ ring # <<>>
  BY <1>3, <1>7
<1> HIDE DEF ring
<1>9. tx \in Seq(Other)
  BY <1>8
<1>10. wire \in SUBSET Other
  BY <1>2, <1>4
<1>11. d = [c EXCEPT !.tx = tx, !.wire = wire]
  BY DEF escape_copy_to_send, ring, old, new
<1>12. Sound(d)
  BY CopyNumbers
<1> HIDE DEF tx, d
<1>13. d.tx = tx /\ d.wire = wire /\ d.state = c.state /\ d.session = c.session
  BY <1>11 DEF Sound, Connection
<1>14. \A f \in ToSet(tx) : f \in Other
  BY <1>9 DEF ToSet
<1>15. Frames(d) \subseteq Other
  BY <1>10, <1>13, <1>14 DEF Frames
<1>16. c.wire = {} => wire = {}
  OBVIOUS
<1>17. Carried(d)
  BY <1>13, <1>15, <1>16 DEF Carried, Other
<1> QED
  BY <1>12, <1>13, <1>17 DEF d

LEMMA SendCarries ==
  ASSUME NEW c, Sound(c), Carried(c), NEW F, NEW s \in oa_soc_send_req(c, F)
  PROVE  /\ Sound(s.conn) /\ Carried(s.conn)
         /\ s.conn.state = c.state /\ s.conn.session = c.session
<1>1. /\ Sound(s.conn) /\ s.conn.state = c.state
      /\ Frames(s.conn) \subseteq Frames(c)
  BY SendKeeps
<1>2. ASSUME NEW frames
      PROVE  LET d == HandOver(c, frames)
             IN  d.session = c.session /\ (c.session = "none" => d.wire = c.wire)
  BY DEF HandOver, Sound, Connection
<1>3. s.conn.session = c.session /\ (c.session = "none" => s.conn.wire = c.wire)
  <2>1. CASE s.conn = c
    BY <2>1
  <2>2. CASE \/ s.conn = HandOver(c, c.tx)
             \/ s.conn = HandOver(c, Front(c.tx))
             \/ s.conn = HandOver(c, <<>>)
    BY <1>2, <2>2
  <2>3. CASE s.conn = [c EXCEPT !.is_blocksend = TRUE]
    BY <2>3 DEF Sound, Connection
  <2>4. CASE s = [conn |-> c, ret |-> 0]
    BY <2>1, <2>4
  <2>5. CASE s = [conn |-> HandOver(c, c.tx), ret |-> Len(c.tx)]
    BY <2>2, <2>5
  <2>6. CASE s = [conn |-> [c EXCEPT !.is_blocksend = TRUE], ret |-> 0]
    BY <2>3, <2>6
  <2>7. CASE s = [conn |-> HandOver(c, Front(c.tx)), ret |-> 0]
    BY <2>2, <2>7
  <2>8. CASE s = [conn |-> HandOver(c, <<>>), ret |-> 0]
    BY <2>2, <2>8
  <2> QED
    BY <2>4, <2>5, <2>6, <2>7, <2>8 DEF oa_soc_send_req, If
<1> QED
  BY <1>1, <1>3 DEF Carried

LEMMA CloseCarries ==
  ASSUME "close" \notin Faults, NEW c, Sound(c), Carried(c), NEW x \in oa_soc_close_req(c, Now)
  PROVE  /\ x.ok = TRUE /\ Sound(x.conn) /\ Carried(x.conn)
         /\ x.conn.state = "OFFLINE"
<1>1. Sound(x.conn) /\ Frames(x.conn) \subseteq Frames(c)
  BY CloseKeeps
<1>2. CASE c.state = "OFFLINE" /\ x = [conn |-> c, ok |-> TRUE]
  BY <1>2
<1>3. CASE x = [conn |-> Closed(c), ok |-> TRUE]
  <2>1. /\ x.conn.state = "OFFLINE" /\ x.conn.session = "none" /\ x.conn.wire = {}
    BY <1>3 DEF Closed, Sound, Connection
  <2> QED
    BY <1>1, <1>3, <2>1 DEF Carried
<1> QED
  BY <1>2, <1>3 DEF oa_soc_close_req, If, Now

LEMMA CheckCarries ==
  ASSUME NEW c, Sound(c), Carried(c), NEW d \in oa_soc_state_check(c, Now)
  PROVE  /\ Carried(d)
         /\ c.state = "ONLINE" => d = c
<1>1. CASE d = c
  BY <1>1
<1>2. CASE c.state = "OFFLINE" /\ d \in oa_soc_connect_req([c EXCEPT !.can_connect = FALSE], Now)
  <2>1. c.session = "none" /\ c.wire = {}
    BY <1>2 DEF Carried
  <2>2. Frames(d) \subseteq Frames(c)
    BY CheckKeeps
  <2>3. d.wire = {} /\ (d.session = "none" \/ d.state = "ONLINE")
    BY <1>2, <2>1 DEF oa_soc_connect_req, If, Sound, Connection
  <2> QED
    BY <1>2, <2>2, <2>3 DEF Carried
<1> QED
  BY <1>1, <1>2 DEF oa_soc_state_check

LEMMA SentCarries ==
  ASSUME Sound(conn), Carried(conn), NEW m \in Msg, m # "unreg", NEW c \in Sent(m)
  PROVE  Sound(c) /\ Carried(c) /\ c.state = conn.state /\ c.session = conn.session
<1> DEFINE d == escape_copy_to_send(conn, m)
<1>1. Sound(d) /\ Carried(d) /\ d.state = conn.state /\ d.session = conn.session
  BY CopyCarries
<1> HIDE DEF d
<1>2. PICK s \in oa_soc_send_req(d, Now) : c = s.conn
  BY DEF Sent, d
<1> QED
  BY <1>1, <1>2, SendCarries

LEMMA LeaveCarries ==
  ASSUME Undisturbed, StepTypes, NEW c, Sound(c), Carried(c), NEW x \in LeavePlatform(c)
  PROVE  Carried(x.conn) /\ x.plat = "OFFLINE"
<1>1. CASE x = [conn |-> c, plat |-> "OFFLINE"]
  BY <1>1
<1>2. CASE \E s \in oa_soc_send_req(c, Now) : \E y \in oa_soc_close_req(s.conn, Now) :
             x = [conn |-> y.conn, plat |-> IF y.ok THEN "OFFLINE" ELSE "ONLINE"]
  <2>1. PICK s \in oa_soc_send_req(c, Now) : \E y \in oa_soc_close_req(s.conn, Now) :
          x = [conn |-> y.conn, plat |-> IF y.ok THEN "OFFLINE" ELSE "ONLINE"]
    BY <1>2
  <2>2. PICK y \in oa_soc_close_req(s.conn, Now) :
          x = [conn |-> y.conn, plat |-> IF y.ok THEN "OFFLINE" ELSE "ONLINE"]
    BY <2>1
  <2>3. Sound(s.conn) /\ Carried(s.conn)
    BY SendCarries
  <2>4. y.ok = TRUE /\ Carried(y.conn)
    BY <2>3, CloseCarries DEF Undisturbed
  <2> QED
    BY <2>2, <2>4
<1> QED
  BY <1>1, <1>2 DEF LeavePlatform

(* A session that ends, or stays, or is opened for a login. *)
LEMMA AnsweredCarries ==
  ASSUME Sound(conn), Carried(conn), NEW f \in conn.wire,
         NEW session \in {"none", "open", "authed"},
         session # "none"
  PROVE  LET d == Answered(f, session)
         IN  Carried(d) /\ d.state = "ONLINE" /\ d.session = session
<1> DEFINE d == Answered(f, session)
<1>1. conn.state = "ONLINE"
  BY DEF Carried
<1>2. d.state = conn.state /\ d.session = session /\ Frames(d) \subseteq Frames(conn)
  BY DEF Answered, Sound, Connection, Frames
<1> QED
  BY <1>1, <1>2 DEF Carried

-----------------------------------------------------------------------------
(* The steps *)

OnlineKept == Carried(conn') /\ Logged' /\ NoUnreg'

(* What is scheduled is scheduled OFFLINE. *)
LEMMA ScheduledOffline ==
  ASSUME OnlineInv, plat_switch = TRUE
  PROVE  plat_status = "OFFLINE"
BY DEF OnlineInv, IInv, StepTypes, Logged, SettledOn

LEMMA OfflineLogged ==
  ASSUME plat_status' = "OFFLINE"
  PROVE  Logged'
BY DEF Logged

(* The device stays ONLINE as long as the connection does. *)
LEMMA LoggedStays ==
  ASSUME Logged, plat_status' \in {plat_status, "OFFLINE"},
         conn.state = "ONLINE" => conn'.state = "ONLINE",
         plat_status = "ONLINE" =>
           /\ conn'.session \in {conn.session, "none", "authed"}
           /\ UNCHANGED <<doing_what, authen_err_time, plat_switch>>
  PROVE  Logged'
BY DEF Logged, SettledOn

LEMMA RestartOnline ==
  ASSUME NEW file, Reboot(file)
  PROVE  OnlineKept
<1>1. Carried(conn')
  BY DEF Reboot, Fresh, Carried, Frames, ToSet
<1>2. NoUnreg' /\ Logged'
  BY OfflineLogged DEF Reboot, NoUnreg
<1> QED
  BY <1>1, <1>2 DEF OnlineKept

LEMMA SocInitOnline ==
  ASSUME Undisturbed, OnlineInv, PlatSocInit
  PROVE  OnlineKept
<1>1. PICK c \in IF need_reconn THEN oa_soc_close_req(conn, Now)
                 ELSE {[conn |-> conn, ok |-> TRUE]} :
          \/ /\ c.ok
             /\ conn' \in oa_soc_state_check(c.conn, Now)
             /\ plat_switch' = FALSE
             /\ UNCHANGED <<next_step, plat_status, doing_what, authen_err_time, timer, rest>>
          \/ ~ c.ok /\ Restart
  BY DEF PlatSocInit
<1>2. Sound(c.conn) /\ Carried(c.conn)
  <2>1. "close" \notin Faults /\ Sound(conn) /\ Carried(conn)
    BY DEF Undisturbed, OnlineInv, IInv
  <2>2. CASE need_reconn
    <3>1. c \in oa_soc_close_req(conn, Now)
      BY <2>2
    <3> QED
      BY <2>1, <3>1, CloseCarries
  <2>3. CASE ~ need_reconn
    <3>1. c = [conn |-> conn, ok |-> TRUE]
      BY <2>3
    <3> QED
      BY <2>1, <3>1
  <2> QED
    BY <2>2, <2>3
<1>3. CASE conn' \in oa_soc_state_check(c.conn, Now)
           /\ UNCHANGED <<next_step, plat_status, doing_what, timer>>
  <2>1. Carried(conn')
    BY <1>2, <1>3, CheckCarries
  <2>2. plat_switch = TRUE
    BY DEF PlatSocInit, DoStep, OnlineInv, IInv, StepTypes
  <2>3. Logged'
    BY <1>3, <2>2, ScheduledOffline, OfflineLogged
  <2>4. NoUnreg'
    BY <1>3 DEF OnlineInv, NoUnreg, timer
  <2> QED
    BY <2>1, <2>3, <2>4 DEF OnlineKept
<1>4. CASE Restart
  BY <1>4, RestartOnline DEF Restart
<1> QED
  BY <1>1, <1>3, <1>4

LEMMA ReconnOnline ==
  ASSUME OnlineInv, PlatReconn
  PROVE  OnlineKept
<1>1. Carried(conn')
  BY CheckCarries DEF OnlineInv, IInv, PlatReconn
<1>2. plat_switch = TRUE
  BY DEF PlatReconn, DoStep, OnlineInv, IInv, StepTypes
<1>3. Logged'
  BY <1>2, ScheduledOffline, OfflineLogged DEF PlatReconn
<1>4. NoUnreg'
  BY DEF PlatReconn, OnlineInv, NoUnreg, timer
<1> QED
  BY <1>1, <1>3, <1>4 DEF OnlineKept

LEMMA PollOnline ==
  ASSUME OnlineInv, PlatPoll
  PROVE  OnlineKept
<1>1. Carried(conn') /\ (conn.state = "ONLINE" => conn' = conn)
  BY CheckCarries DEF OnlineInv, IInv, PlatPoll
<1>2. UNCHANGED <<steps, timer>>
  BY DEF PlatPoll
<1>3. Logged'
  BY <1>1, <1>2, LoggedStays DEF OnlineInv, Logged, SettledOn, steps
<1>4. NoUnreg'
  BY <1>2 DEF OnlineInv, NoUnreg, steps, timer
<1> QED
  BY <1>1, <1>3, <1>4 DEF OnlineKept

LEMMA RegisterOrLoginOnline ==
  ASSUME OnlineInv, PlatDevReg \/ PlatDevLogin \/ PlatDevUnreg
  PROVE  OnlineKept
<1>1. plat_switch = TRUE /\ next_step # "DEV_UNREG"
  BY DEF PlatDevReg, PlatDevLogin, PlatDevUnreg, DoStep, OnlineInv, IInv, StepTypes, NoUnreg
<1>2. \E m \in {"reg", "login"} : \E sent \in BOOLEAN :
        BuildAndSend(m, sent) /\ doing_what' \in {doing_what, "authen"}
  BY <1>1 DEF PlatDevReg, PlatDevLogin, PlatDevUnreg, DoStep
<1>3. PICK m \in {"reg", "login"}, sent \in BOOLEAN :
        BuildAndSend(m, sent) /\ doing_what' \in {doing_what, "authen"}
  BY <1>2
<1>4. conn' \in Sent(m) /\ m \in Msg /\ m # "unreg" /\ timeout_data' = m
  BY <1>3 DEF BuildAndSend, Sent, Msg
<1>5. Carried(conn')
  BY <1>4, SentCarries DEF OnlineInv, IInv
<1>6. UNCHANGED <<next_step, plat_status>>
  BY DEF PlatDevReg, PlatDevLogin, PlatDevUnreg
<1>7. Logged'
  BY <1>1, <1>6, ScheduledOffline, OfflineLogged
<1>8. NoUnreg'
  BY <1>3, <1>4, <1>6 DEF OnlineInv, NoUnreg
<1> QED
  BY <1>5, <1>7, <1>8 DEF OnlineKept

(* A frame is sent, or not, and the step machine is left alone. *)
LEMMA SendingOnline ==
  ASSUME OnlineInv, NEW m \in Msg, m # "unreg", conn' \in Sent(m),
         UNCHANGED steps, timeout_data' \in {timeout_data, "loc"}
  PROVE  OnlineKept
<1>1. Carried(conn') /\ conn'.state = conn.state /\ conn'.session = conn.session
  BY SentCarries DEF OnlineInv, IInv
<1>2. Logged'
  BY <1>1, LoggedStays DEF OnlineInv, steps
<1>3. NoUnreg'
  BY DEF OnlineInv, NoUnreg, steps
<1> QED
  BY <1>1, <1>2, <1>3 DEF OnlineKept

LEMMA ReportsOnline ==
  ASSUME OnlineInv, Heartbeat \/ ReportLocation \/ SendBlind \/ PlatQuery
  PROVE  OnlineKept
<1>1. \E m \in {"heartbeat", "loc", "rsp"} : conn' \in Sent(m)
  BY DEF Heartbeat, ReportLocation, SendBlind, PlatQuery, BuildAndSend, Sent
<1>2. UNCHANGED steps /\ timeout_data' \in {timeout_data, "loc"}
  BY DEF Heartbeat, ReportLocation, SendBlind, PlatQuery, BuildAndSend, timer
<1> QED
  BY <1>1, <1>2, SendingOnline DEF Msg

(* The connection is left: OFFLINE, whatever is scheduled next. *)
LEMMA LeavingOnline ==
  ASSUME Undisturbed, OnlineInv, NEW c, Sound(c), Carried(c),
         NEW x \in LeavePlatform(c), conn' = x.conn, plat_status' = x.plat,
         doing_what' = doing_what, timeout_data' = timeout_data,
         next_step' \in {next_step, "RECONN"}
  PROVE  OnlineKept
<1>1. Carried(x.conn) /\ x.plat = "OFFLINE"
  BY LeaveCarries DEF OnlineInv, IInv
<1>2. NoUnreg'
  BY DEF OnlineInv, NoUnreg
<1> QED
  BY <1>1, <1>2, OfflineLogged DEF OnlineKept

LEMMA ReconnectingOnline ==
  ASSUME Undisturbed, OnlineInv, NEW c, Sound(c), Carried(c), just_reconn(c),
         doing_what' = doing_what, timeout_data' = timeout_data
  PROVE  OnlineKept
BY LeavingOnline DEF just_reconn, Schedule

LEMMA TimeoutOnline ==
  ASSUME Undisturbed, OnlineInv, oa_app_timeout
  PROVE  OnlineKept
<1>1. CASE TimeoutIdle
  <2>1. UNCHANGED <<conn, steps, timeout_data>>
    BY <1>1 DEF TimeoutIdle
  <2>2. Logged'
    BY <2>1, LoggedStays DEF OnlineInv, steps
  <2>3. Carried(conn') /\ NoUnreg'
    BY <2>1 DEF OnlineInv, NoUnreg, steps
  <2> QED
    BY <2>2, <2>3 DEF OnlineKept
<1>2. CASE TimeoutExpires
  <2> DEFINE d == escape_copy_to_send(conn, timeout_data)
  <2>1. timeout_data \in Msg /\ timeout_data # "unreg" /\ timeout_data' = timeout_data
    BY <1>2 DEF OnlineInv, IInv, TimerTypes, NoUnreg, TimeoutExpires, Msg
  <2>2. Sound(d) /\ Carried(d) /\ d.state = conn.state /\ d.session = conn.session
    BY <2>1, CopyCarries DEF OnlineInv, IInv
  <2>3. PICK s \in oa_soc_send_req(d, Now) :
           \/ conn' = s.conn /\ UNCHANGED steps
           \/ just_reconn(s.conn) /\ UNCHANGED <<doing_what, authen_err_time>>
    BY <1>2 DEF TimeoutExpires
  <2> HIDE DEF d
  <2>4. /\ Sound(s.conn) /\ Carried(s.conn)
        /\ s.conn.state = conn.state /\ s.conn.session = conn.session
    BY <2>2, SendCarries
  <2>5. CASE conn' = s.conn /\ UNCHANGED steps
    <3>1. Logged'
      BY <2>4, <2>5, LoggedStays DEF OnlineInv, steps
    <3>2. NoUnreg'
      BY <2>1, <2>5 DEF OnlineInv, NoUnreg, steps
    <3> QED
      BY <2>4, <2>5, <3>1, <3>2 DEF OnlineKept
  <2>6. CASE just_reconn(s.conn) /\ UNCHANGED <<doing_what, authen_err_time>>
    BY <2>1, <2>4, <2>6, ReconnectingOnline
  <2> QED
    BY <2>3, <2>5, <2>6
<1> QED
  BY <1>1, <1>2 DEF oa_app_timeout

(* Steps that touch only the connection. *)
LEMMA ConnectionOnlyOnline ==
  ASSUME OnlineInv, Carried(conn'), conn.state = "ONLINE" => conn'.state = "ONLINE",
         conn'.session \in {conn.session, "none", "authed"}, UNCHANGED <<steps, timer>>
  PROVE  OnlineKept
<1>1. Logged'
  BY LoggedStays DEF OnlineInv, steps
<1>2. NoUnreg'
  BY DEF OnlineInv, NoUnreg, steps, timer
<1> QED
  BY <1>1, <1>2 DEF OnlineKept

LEMMA ReleaseOnline ==
  ASSUME OnlineInv, ReleaseOver
  PROVE  OnlineKept
<1>1. Carried(conn') /\ conn'.state = conn.state /\ conn'.session = conn.session
  BY DEF OnlineInv, IInv, ReleaseOver, oa_soc_can_reconnect_again, Sound, Connection, Carried, Frames
<1> QED
  BY <1>1, ConnectionOnlyOnline DEF ReleaseOver

LEMMA WriteReadyOnline ==
  ASSUME OnlineInv, WriteReady
  PROVE  OnlineKept
<1> DEFINE c == [conn EXCEPT !.is_blocksend = FALSE]
<1>1. /\ Sound(c) /\ Carried(c) /\ c.state = conn.state /\ c.session = conn.session
  BY DEF OnlineInv, IInv, Sound, Connection, Carried, Frames
<1> HIDE DEF c
<1>2. PICK s \in oa_soc_send_req(c, Now) : conn' = s.conn
  BY DEF WriteReady, c
<1>3. Carried(conn') /\ conn'.state = conn.state /\ conn'.session = conn.session
  BY <1>1, <1>2, SendCarries
<1> QED
  BY <1>3, ConnectionOnlyOnline DEF WriteReady

LEMMA SilentLossOnline ==
  ASSUME OnlineInv, SilentLoss
  PROVE  OnlineKept
<1>1. Carried(conn') /\ conn'.state = conn.state /\ conn'.session = "none"
  BY DEF OnlineInv, IInv, SilentLoss, Sound, Connection, Carried, Frames
<1> QED
  BY <1>1, ConnectionOnlyOnline DEF SilentLoss

(* A socket that is still connecting belongs to a device that is OFFLINE. *)
LEMMA ConnectOnline ==
  ASSUME Undisturbed, OnlineInv, ConnectDone \/ ConnectFails
  PROVE  OnlineKept
<1>1. conn.state = "CONNECT" /\ plat_status = "OFFLINE"
  BY DEF ConnectDone, ConnectFails, OnlineInv, IInv, StepTypes, Logged, SettledOn
<1>2. Carried(conn')
  <2>1. CASE ConnectDone
    <3>1. conn'.state = "ONLINE" /\ conn'.session = "open" /\ Frames(conn') = Frames(conn)
      BY <2>1 DEF ConnectDone, OnlineInv, IInv, Sound, Connection, Frames
    <3> QED
      BY <3>1 DEF OnlineInv, Carried
  <2>2. CASE ConnectFails
    BY <2>2, CloseCarries DEF ConnectFails, Undisturbed, OnlineInv, IInv
  <2> QED
    BY <2>1, <2>2
<1>3. /\ UNCHANGED <<plat_status, doing_what, timer>>
      /\ next_step' \in {"DEV_LOGIN", "DEV_REG", "SOC_INIT", next_step}
  BY DEF ConnectDone, ConnectFails, Schedule
<1>4. Logged' /\ NoUnreg'
  BY <1>1, <1>3, OfflineLogged DEF OnlineInv, NoUnreg, timer
<1> QED
  BY <1>2, <1>4 DEF OnlineKept

LEMMA RemoteCloseOnline ==
  ASSUME Undisturbed, OnlineInv, RemoteClose
  PROVE  OnlineKept
<1>1. PICK x \in oa_soc_close_req(conn, Now) :
       /\ conn' = x.conn
       /\ IF x.ok /\ ~ locked
          THEN plat_status' = "OFFLINE" /\ Schedule("SOC_INIT")
          ELSE UNCHANGED <<plat_status, plat_switch, next_step>>
       /\ need_reconn' = (need_reconn /\ ~ (x.ok /\ locked))
  BY DEF RemoteClose
<1>2. x.ok = TRUE /\ Carried(conn')
  BY <1>1, CloseCarries DEF Undisturbed, OnlineInv, IInv
<1>3. plat_status' = "OFFLINE" /\ next_step' = "SOC_INIT"
  <2>1. locked # TRUE /\ locked \in BOOLEAN
    BY DEF RemoteClose, OnlineInv, Activated, IInv, RestTypes
  <2> QED
    BY <1>1, <1>2, <2>1 DEF Schedule
<1>4. UNCHANGED <<doing_what, timer>>
  BY DEF RemoteClose
<1>5. Logged' /\ NoUnreg'
  BY <1>3, <1>4, OfflineLogged DEF OnlineInv, NoUnreg, timer
<1> QED
  BY <1>2, <1>5 DEF OnlineKept

-----------------------------------------------------------------------------
(* Answers of the platform *)

(* Only in a session is there a frame to be answered. *)
LEMMA AnsweredInSession ==
  ASSUME OnlineInv, NEW f \in conn.wire
  PROVE  /\ conn.state = "ONLINE" /\ conn.session \in {"open", "authed"}
         /\ f.msg # "unreg"
         /\ SessionAfter(f) = IF f.msg = "login" THEN "authed" ELSE conn.session
BY DEF OnlineInv, IInv, Sound, Connection, Carried, Frames, SessionAfter

LEMMA RegisterAckOnline ==
  ASSUME OnlineInv, NEW f \in Frame, NEW result \in {"ok", "no_code", "refused"},
         RegisterAck(f, result)
  PROVE  OnlineKept
<1>1. f \in conn.wire /\ conn' = Answered(f, conn.session)
  BY DEF RegisterAck, Waiting
<1>2. Carried(conn') /\ conn'.state = "ONLINE" /\ conn'.session = conn.session
  BY <1>1, AnsweredInSession, AnsweredCarries DEF OnlineInv, IInv
<1>3. /\ UNCHANGED <<plat_status, doing_what, authen_err_time, timeout_data>>
      /\ next_step' \in {"DEV_LOGIN", "DEV_REG", next_step}
      /\ plat_status = "ONLINE" => plat_switch' = plat_switch
  BY DEF RegisterAck, Schedule, StopTimer
<1>4. Logged'
  BY <1>2, <1>3, LoggedStays DEF OnlineInv
<1>5. NoUnreg'
  BY <1>3 DEF OnlineInv, NoUnreg
<1> QED
  BY <1>2, <1>4, <1>5 DEF OnlineKept

LEMMA CommonAckOkOnline ==
  ASSUME Undisturbed, OnlineInv, NEW f \in Frame, CommonAckOk(f)
  PROVE  OnlineKept
<1> DEFINE c == Answered(f, SessionAfter(f))
<1>1. f \in conn.wire /\ timeout_data' = timeout_data
      /\ (f.msg = "login" \/ conn.session = "authed")
  BY DEF CommonAckOk, CommonAck, Waiting, StopTimer
<1>2. SessionAfter(f) = "authed"
  BY <1>1, AnsweredInSession
<1>3. Carried(c) /\ c.state = "ONLINE" /\ c.session = "authed"
  BY <1>1, <1>2, AnsweredCarries DEF OnlineInv, IInv
<1>4. doing_what # "unreg"
  BY DEF OnlineInv, NoUnreg
<1>5. \/ LoginAccepted /\ conn' = c
      \/ conn' = c /\ UNCHANGED steps
  BY <1>4 DEF CommonAckOk, Unregistering
<1> HIDE DEF c
<1>6. CASE LoginAccepted /\ conn' = c
  <2>1. Logged'
    BY <1>3, <1>6 DEF LoginAccepted, Logged, SettledOn
  <2>2. NoUnreg'
    BY <1>1, <1>6 DEF LoginAccepted, OnlineInv, NoUnreg
  <2> QED
    BY <1>3, <1>6, <2>1, <2>2 DEF OnlineKept
<1>7. CASE conn' = c /\ UNCHANGED steps
  <2>1. Logged'
    BY <1>3, <1>7, LoggedStays DEF OnlineInv, steps
  <2>2. NoUnreg'
    BY <1>1, <1>7 DEF OnlineInv, NoUnreg, steps
  <2> QED
    BY <1>3, <1>7, <2>1, <2>2 DEF OnlineKept
<1> QED
  BY <1>5, <1>6, <1>7

LEMMA CommonAckRefusedOnline ==
  ASSUME OnlineInv, NEW f \in Frame, CommonAckRefused(f)
  PROVE  OnlineKept
<1>1. f \in conn.wire /\ conn' = Answered(f, conn.session) /\ timeout_data' = timeout_data
  BY DEF CommonAckRefused, CommonAck, Waiting, StopTimer
<1>2. Carried(conn') /\ conn'.state = "ONLINE" /\ conn'.session = conn.session
  BY <1>1, AnsweredInSession, AnsweredCarries DEF OnlineInv, IInv
<1>3. UNCHANGED <<plat_status, doing_what>> /\ next_step' \in {"DEV_REG", next_step}
  BY DEF CommonAckRefused
<1>4. NoUnreg'
  BY <1>1, <1>3 DEF OnlineInv, NoUnreg
<1>5. CASE plat_status = "ONLINE"
  <2>1. ~ LoggingIn /\ ~ Unregistering
    BY <1>5 DEF LoggingIn, Unregistering, OnlineInv, NoUnreg
  <2>2. authen_err_time' = authen_err_time + 0
    BY <2>1 DEF CommonAckRefused
  <2>3. plat_switch' = (plat_switch \/ LoggingIn \/ Unregistering) /\ plat_switch = FALSE
    BY <1>5 DEF CommonAckRefused, OnlineInv, Logged, SettledOn
  <2>4. plat_switch' = FALSE
    BY <2>1, <2>3, Zenon
  <2>5. authen_err_time' = 0
    BY <1>5, <2>2 DEF OnlineInv, Logged, SettledOn
  <2> QED
    BY <1>2, <1>3, <1>4, <1>5, <2>4, <2>5 DEF OnlineInv, OnlineKept, Logged, SettledOn
<1>6. CASE plat_status # "ONLINE"
  BY <1>2, <1>3, <1>4, <1>6 DEF OnlineKept, Logged
<1> QED
  BY <1>5, <1>6

LEMMA NoAnswerOnline ==
  ASSUME OnlineInv, NEW f \in Frame, NoAnswer(f)
  PROVE  OnlineKept
<1>1. f \in conn.wire /\ conn' \in {Answered(f, conn.session), Answered(f, SessionAfter(f))}
  BY DEF NoAnswer, Waiting
<1>2. Carried(conn') /\ conn'.state = "ONLINE" /\ conn'.session \in {conn.session, "authed"}
  BY <1>1, AnsweredInSession, AnsweredCarries DEF OnlineInv, IInv
<1> QED
  BY <1>2, ConnectionOnlyOnline DEF NoAnswer

-----------------------------------------------------------------------------
(* Requests *)

LEMMA ReconnectRequestOnline ==
  ASSUME Undisturbed, OnlineInv, PlatReconnect \/ conn2specific_server
  PROVE  OnlineKept
<1>1. PICK c \in Sent("rsp") : just_reconn(c)
  BY DEF PlatReconnect, conn2specific_server
<1>2. Sound(c) /\ Carried(c)
  BY SentCarries DEF OnlineInv, IInv, Msg
<1>3. UNCHANGED <<doing_what, timeout_data>>
  BY DEF PlatReconnect, conn2specific_server, timer
<1> QED
  BY <1>1, <1>2, <1>3, ReconnectingOnline

LEMMA TurnOffOnline ==
  ASSUME Undisturbed, OnlineInv, do_turnoff_datatraffic
  PROVE  OnlineKept
<1>1. PICK c \in Sent("rsp") : TurnOff(c)
  BY DEF do_turnoff_datatraffic
<1>2. Sound(c) /\ Carried(c)
  BY SentCarries DEF OnlineInv, IInv, Msg
<1>3. UNCHANGED <<doing_what, timeout_data, next_step>>
  BY DEF do_turnoff_datatraffic, timer
<1> QED
  BY <1>1, <1>2, <1>3, LeavingOnline DEF TurnOff

LEMMA FactoryOnline ==
  ASSUME Undisturbed, OnlineInv, do_factory_set
  PROVE  OnlineKept
<1>1. CASE Reboot("none")
  BY <1>1, RestartOnline
<1>2. CASE TurnOff(conn) /\ UNCHANGED <<next_step, doing_what, timer>>
  BY <1>2, LeavingOnline DEF TurnOff, OnlineInv, IInv, timer
<1> QED
  BY <1>1, <1>2 DEF do_factory_set

LEMMA UnlockOnline ==
  ASSUME OnlineInv, SmsUnlock \/ SmsUnlockReconnect
  PROVE  OnlineKept
<1>1. UNCHANGED <<conn, doing_what, authen_err_time, timer>>
  BY DEF SmsUnlock, SmsUnlockReconnect
<1>2. Carried(conn') /\ NoUnreg'
  BY <1>1 DEF SmsUnlock, SmsUnlockReconnect, Schedule, OnlineInv, NoUnreg, timer
<1>3. CASE SmsUnlock
  <2>1. plat_status' = plat_status /\ plat_switch' = (plat_switch \/ plat_status = "OFFLINE")
    BY <1>3 DEF SmsUnlock
  <2>2. plat_status = "ONLINE" => plat_switch' = plat_switch
    <3>1. ASSUME plat_status = "ONLINE" PROVE plat_switch' = FALSE /\ plat_switch = FALSE
      <4>1. plat_switch = FALSE /\ plat_status # "OFFLINE"
        BY <3>1 DEF OnlineInv, Logged, SettledOn
      <4> QED
        BY <2>1, <4>1, Zenon
    <3> QED
      BY <3>1
  <2>3. Logged'
    BY <1>1, <2>1, <2>2, LoggedStays DEF OnlineInv
  <2> QED
    BY <1>2, <2>3 DEF OnlineKept
<1>4. CASE SmsUnlockReconnect
  BY <1>2, <1>4, OfflineLogged DEF SmsUnlockReconnect, OnlineKept
<1> QED
  BY <1>3, <1>4

-----------------------------------------------------------------------------
(* The theorems *)

(* Whatever a locked device does, it opens no socket. *)
LEMMA LockStays ==
  ASSUME Activated, UNCHANGED <<locked, running, lock_file>>,
         locked = TRUE => conn'.state = "OFFLINE"
  PROVE  Activated'
BY DEF Activated

LEMMA RestartActivates ==
  ASSUME NEW file, Reboot(file)
  PROVE  Activated'
<1>1. conn'.state = "OFFLINE"
  BY DEF Reboot, Fresh
<1>2. PICK u \in use_lock(file, FALSE) : locked' = u.locked /\ running' = ~ u.locked
  BY DEF Reboot, ReadLock
<1>3. u.locked \in BOOLEAN
  <2>1. CASE u = [file |-> file, locked |-> file = "lock"]
    BY <2>1
  <2>2. CASE u = [file |-> "lock", locked |-> TRUE]
    BY <2>2
  <2>3. CASE u = [file |-> "none", locked |-> FALSE]
    BY <2>3
  <2>4. CASE \E f \in {file, "short", "none"} : u = [file |-> f, locked |-> FALSE]
    BY <2>4
  <2> QED
    BY <1>2, <2>1, <2>2, <2>3, <2>4 DEF use_lock, If
<1>4. locked' = TRUE \/ running' = TRUE
  BY <1>2, <1>3, Zenon
<1> QED
  BY <1>1, <1>4 DEF Activated

LEMMA MainActivates ==
  ASSUME Undisturbed, OnlineInv, oa_app_main
  PROVE  Activated'
<1>1. "lock" \notin Now /\ conn' = conn
  BY DEF Undisturbed, Now, oa_app_main
<1>2. PICK u \in use_lock(lock_file, locked) :
        lock_file' = u.file /\ locked' = u.locked /\ running' = ~ u.locked
  BY DEF oa_app_main, ReadLock
<1>3. /\ lock_file \in {"lock", "unlock", "none", "short"} /\ locked \in BOOLEAN
      /\ running = FALSE
  BY DEF OnlineInv, IInv, RestTypes, oa_app_main
<1>4. CASE locked = TRUE
  <2>1. conn'.state = "OFFLINE"
    BY <1>1, <1>4 DEF OnlineInv, Activated
  <2>2. u.locked \in BOOLEAN
    <3>1. CASE u = [file |-> lock_file, locked |-> lock_file = "lock"]
      BY <3>1
    <3>2. CASE u = [file |-> "lock", locked |-> TRUE]
      BY <3>2
    <3>3. CASE u = [file |-> "none", locked |-> locked]
      BY <1>3, <3>3
    <3> QED
      BY <1>1, <1>2, <3>1, <3>2, <3>3 DEF use_lock, If
  <2>3. locked' = TRUE \/ running' = TRUE
    BY <1>2, <2>2, Zenon
  <2> QED
    BY <2>1, <2>3 DEF Activated
<1>5. CASE locked = FALSE
  <2>1. lock_file = "unlock"
    BY <1>3, <1>5 DEF OnlineInv, Activated
  <2>2. u = [file |-> "unlock", locked |-> FALSE]
    BY <1>1, <1>2, <2>1 DEF use_lock, If
  <2>3. lock_file' = "unlock" /\ locked' = FALSE
    BY <1>2, <2>2
  <2> QED
    BY <2>3 DEF Activated
<1> QED
  BY <1>3, <1>4, <1>5

LEMMA UnlockActivates ==
  ASSUME Undisturbed, OnlineInv, SmsUnlock \/ SmsUnlockReconnect
  PROVE  Activated'
<1>1. use_unlock /\ conn' = conn
  BY DEF SmsUnlock, SmsUnlockReconnect
<1>2. CASE UNCHANGED <<locked, lock_file, running>>
  BY <1>1, <1>2, LockStays DEF OnlineInv, Activated
<1>3. CASE locked' = FALSE /\ lock_file' = "unlock"
  BY <1>3 DEF Activated
<1> QED
  BY <1>1, <1>2, <1>3 DEF use_unlock, If, Undisturbed, Now

(* Every other step of a locked device needs a socket. *)
LEMMA LockedWaits ==
  ASSUME Undisturbed, OnlineInv, locked = TRUE,
         \/ oa_app_plat_link \/ oa_app_timeout \/ Heartbeat \/ ReportLocation \/ SendBlind
         \/ ReleaseOver \/ Notify \/ SilentLoss \/ Answer \/ PlatQuery \/ PlatReconnect
         \/ conn2specific_server \/ do_turnoff_datatraffic
  PROVE  conn'.state = "OFFLINE"
<1>1. conn.state = "OFFLINE" /\ conn.session = "none" /\ conn.wire = {}
  BY DEF OnlineInv, Activated, Carried
<1>2. plat_status # "ONLINE"
  BY <1>1 DEF OnlineInv, Logged, SettledOn
<1>3. ~ oa_app_plat_link
  BY DEF oa_app_plat_link, PlatSocInit, PlatReconn, PlatDevReg, PlatDevLogin, PlatDevUnreg,
         PlatPoll, DoStep
<1>4. ~ oa_app_timeout /\ ~ Notify
  BY <1>1 DEF oa_app_timeout, TimeoutIdle, TimeoutExpires, Notify, ConnectDone, ConnectFails,
              WriteReady, SocketError, RemoteClose
<1>5. ~ Heartbeat /\ ~ ReportLocation /\ ~ SendBlind
  BY <1>2 DEF Heartbeat, HeartbeatDue, ReportLocation, SendBlind, MayReport
<1>6. ~ SilentLoss /\ ~ Answer
  BY <1>1 DEF SilentLoss, Answer, RegisterAck, CommonAckOk, CommonAckRefused, CommonAck,
              NoAnswer, Waiting
<1>7. ~ PlatQuery /\ ~ PlatReconnect /\ ~ conn2specific_server /\ ~ do_turnoff_datatraffic
  BY <1>1 DEF PlatQuery, PlatReconnect, conn2specific_server, do_turnoff_datatraffic, FromPlatform
<1>8. ReleaseOver => conn'.state = "OFFLINE"
  BY <1>1 DEF ReleaseOver, oa_soc_can_reconnect_again, OnlineInv, IInv, Sound, Connection
<1> QED
  BY <1>3, <1>4, <1>5, <1>6, <1>7, <1>8

LEMMA ActivatedStep ==
  ASSUME Undisturbed, OnlineInv, [Next]_vars
  PROVE  Activated'
<1>1. CASE oa_app_main
  BY <1>1, MainActivates
<1>2. CASE SmsUnlock \/ SmsUnlockReconnect
  BY <1>2, UnlockActivates
<1>3. CASE \E file \in {"lock", "unlock", "none", "short"} : Reboot(file)
  BY <1>3, RestartActivates
<1>4. CASE UNCHANGED vars
  BY <1>4, LockStays DEF vars, rest, files, OnlineInv, Activated
<1>5. CASE /\ \/ oa_app_plat_link \/ oa_app_timeout \/ Heartbeat \/ ReportLocation \/ SendBlind
              \/ ReleaseOver \/ Notify \/ SilentLoss \/ Answer \/ PlatQuery \/ PlatReconnect
              \/ conn2specific_server \/ do_turnoff_datatraffic
           /\ UNCHANGED <<locked, running, lock_file>>
  BY <1>5, LockedWaits, LockStays DEF OnlineInv
<1>6. lock_file \in {"lock", "unlock", "none", "short"}
  BY DEF OnlineInv, IInv, RestTypes
<1>7. CASE oa_app_plat_link
  <2>1. Restart \/ UNCHANGED rest
    BY <1>7 DEF oa_app_plat_link, PlatSocInit, PlatReconn, PlatDevReg, PlatDevLogin,
                PlatDevUnreg, PlatPoll
  <2> QED
    BY <1>3, <1>5, <1>6, <1>7, <2>1 DEF Restart, rest, files
<1>8. CASE oa_app_timeout \/ Heartbeat \/ ReportLocation \/ SendBlind \/ ReleaseOver \/ SilentLoss
  <2>1. UNCHANGED rest
    BY <1>8 DEF oa_app_timeout, TimeoutIdle, TimeoutExpires, Heartbeat, ReportLocation, SendBlind,
                ReleaseOver, SilentLoss
  <2> QED
    BY <1>5, <1>8, <2>1 DEF rest, files
<1>9. CASE Notify
  <2>1. UNCHANGED <<locked, running, lock_file>>
    BY <1>9 DEF Notify, ConnectDone, ConnectFails, WriteReady, SocketError, RemoteClose, rest, files
  <2> QED
    BY <1>5, <1>9, <2>1
<1>10. CASE Answer
  <2>1. UNCHANGED <<locked, running, lock_file>>
    BY <1>10 DEF Answer, RegisterAck, CommonAckOk, CommonAckRefused, NoAnswer, rest, files
  <2> QED
    BY <1>5, <1>10, <2>1
<1>11. CASE PlatQuery \/ PlatReconnect \/ conn2specific_server \/ do_turnoff_datatraffic
  <2>1. UNCHANGED <<locked, running, lock_file>>
    BY <1>11 DEF PlatQuery, PlatReconnect, conn2specific_server, do_turnoff_datatraffic, rest, files
  <2> QED
    BY <1>5, <1>11, <2>1
<1>12. CASE Watchdog \/ do_reset
  BY <1>3, <1>6, <1>12 DEF Watchdog, do_reset, Restart
<1>13. CASE do_factory_set
  <2>1. Reboot("none")
    BY <1>13 DEF do_factory_set, Undisturbed, Asked, Now
  <2> QED
    BY <1>3, <2>1
<1>14. ~ do_rereg /\ ~ update_authcode
  BY DEF Undisturbed, do_rereg, update_authcode, Asked
<1> QED
  BY <1>1, <1>2, <1>4, <1>7, <1>8, <1>9, <1>10, <1>11, <1>12, <1>13, <1>14 DEF Next, Busy, Request

LEMMA InitOnline == Init => OnlineInv
<1> SUFFICES ASSUME Init PROVE OnlineInv
  OBVIOUS
<1>1. Carried(conn)
  BY DEF Init, Fresh, Carried, Frames, ToSet
<1>2. Logged /\ NoUnreg
  BY DEF Init, Logged, NoUnreg
<1>3. Activated
  BY DEF Init, Fresh, Activated
<1> QED
  BY <1>1, <1>2, <1>3, InitInv DEF OnlineInv

LEMMA OnlineStep ==
  ASSUME Undisturbed, OnlineInv, [Next]_vars
  PROVE  OnlineKept
<1>0. CASE oa_app_main
  <2>1. UNCHANGED <<conn, steps, timer>>
    BY <1>0 DEF oa_app_main
  <2>2. Carried(conn')
    BY <2>1 DEF OnlineInv
  <2> QED
    BY <2>1, <2>2, ConnectionOnlyOnline
<1>1. CASE oa_app_plat_link
  BY <1>1, SocInitOnline, ReconnOnline, PollOnline, RegisterOrLoginOnline DEF oa_app_plat_link
<1>2. CASE oa_app_timeout
  BY <1>2, TimeoutOnline
<1>3. CASE Heartbeat \/ ReportLocation \/ SendBlind \/ ReleaseOver \/ SilentLoss
  BY <1>3, ReportsOnline, ReleaseOnline, SilentLossOnline
<1>4. CASE Watchdog
  BY <1>4, RestartOnline DEF Watchdog, Restart
<1>5. CASE Notify
  <2>1. ~ SocketError
    BY DEF Undisturbed, SocketError, Now
  <2> QED
    BY <1>5, <2>1, ConnectOnline, WriteReadyOnline, RemoteCloseOnline DEF Notify
<1>6. CASE Answer
  BY <1>6, RegisterAckOnline, CommonAckOkOnline, CommonAckRefusedOnline, NoAnswerOnline DEF Answer
<1>7. CASE Request
  <2>1. ~ do_rereg /\ ~ update_authcode
    BY DEF Undisturbed, do_rereg, update_authcode, Asked
  <2>2. do_reset => OnlineKept
    BY RestartOnline DEF do_reset, Restart
  <2> QED
    BY <1>7, <2>1, <2>2, ReportsOnline, ReconnectRequestOnline, TurnOffOnline,
       FactoryOnline, UnlockOnline DEF Request
<1>8. CASE UNCHANGED vars
  <2>1. UNCHANGED <<conn, steps, timer>>
    BY <1>8 DEF vars
  <2>2. Carried(conn')
    BY <2>1 DEF OnlineInv
  <2> QED
    BY <2>1, <2>2, ConnectionOnlyOnline
<1> QED
  BY <1>0, <1>1, <1>2, <1>3, <1>4, <1>5, <1>6, <1>7, <1>8 DEF Next, Busy

LEMMA OnlineInvariance ==
  ASSUME Undisturbed
  PROVE  Spec => []OnlineInv
<1>1. OnlineInv /\ [Next]_vars => OnlineInv'
  BY OnlineStep, ActivatedStep, StepKept DEF OnlineInv, OnlineKept, Kept
<1> QED
  BY <1>1, InitOnline, PTL DEF Spec

(* Whatever is lost, refused or cut short, and in whichever order answers   *)
(* arrive: a device that takes itself to be ONLINE (oa_soc.c:472) is        *)
(* connected, and logged in unless the connection has died unnoticed.       *)
THEOREM OnlineMeansLoggedIn ==
  ASSUME Undisturbed
  PROVE  Spec => []OnlineIsLoggedIn
<1>1. OnlineInv => OnlineIsLoggedIn
  BY DEF OnlineInv, Logged, SettledOn, OnlineIsLoggedIn
<1> QED
  BY <1>1, OnlineInvariance, PTL

(* Under the same conditions, a device that is ONLINE has no login or       *)
(* registration scheduled (oa_app.c:95) and no refusals counted.            *)
THEOREM OnlineMeansSettled ==
  ASSUME Undisturbed
  PROVE  Spec => []OnlineIsSettled
<1>1. OnlineInv => OnlineIsSettled
  BY DEF OnlineInv, Logged, SettledOn, OnlineIsSettled
<1> QED
  BY <1>1, OnlineInvariance, PTL
=============================================================================
