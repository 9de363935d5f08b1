------------------------------ MODULE DevParams ------------------------------
(***************************************************************************)
(* The parameters of the device: in memory, in their file and in the backup *)
(* of the device number; set and read by the platform (oa_jt808.c) and by   *)
(* SMS (oa_sms.c, and the dispatch screen in the same words), read at the   *)
(* start, deleted by the factory setting; and what a changed parameter asks *)
(* of the link: another server, a new registration.                         *)
(***************************************************************************)
EXTENDS ParamTables, Naturals

CONSTANTS
    Byte,       \* bound: how many values a byte has
    Offered,    \* bound: the values that the platform and the SMS sender set
    Ids,        \* bound: the identifiers that the platform uses
    Keys,       \* bound: the keywords that the SMS sender uses
    MaxItems,   \* bound: parameters set in one message
    MaxSets,    \* bound: messages
    Faults      \* which operations on files may fail: "create", "write", "read", "delete"

ASSUME ParamsAssumption ==
    /\ Byte \in Nat \ {0, 1}
    /\ Offered \subseteq 0 .. Byte * Byte - 1
    /\ Keys \subseteq DOMAIN Keywords
    /\ MaxItems \in Nat /\ MaxSets \in Nat
    /\ Faults \subseteq {"create", "write", "read", "delete"}

VARIABLES
    params,       \* dev_now_params
    file,         \* DEV_PARAMS_FILE
    devid,        \* DEVID_FILE
    addr,         \* g_soc_context.soc_addr: the server of the connection
    step,         \* what oa_app_plat_link has to do
    need_reconn,  \* try_unlock has NEED_RECONN_BIT
    authcode,     \* the platform has registered the device
    unsaved,      \* a write of the file has failed, and none has succeeded since
    sets,         \* the messages so far
    calm          \* starts in a row, up to two, with no operation on the file failing since

link == <<addr, step, need_reconn, authcode>>
vars == <<params, file, devid, link, unsaved, sets, calm>>

Value == 0 .. Byte * Byte - 1
Params == [Field -> Value]

\* A file that is not there, and one with less than a parameter block in it.
Missing == <<>>
Short == [term_id |-> 0]

\* The same for the backup of the device number, which otherwise is a Value.
NoDevid == Byte * Byte
ShortDevid == Byte * Byte + 1

\* The parameters that no start has filled, and the factory's: 0 stands for what no start has filled,
\* and only the values that are compared with those of another parameter need to differ.
Zero == [f \in Field |-> 0]
dev_def_params == [f \in Field |-> IF f \in {"vehicle_city_id", "server_udp_port"} THEN 2 ELSE 1]
DEVID_INI == dev_def_params.term_id

\* A value of two bytes in the order of the other end.
Swap(v) == (v % Byte) * Byte + v \div Byte

\* params_to_soc_set and oa_soc_fill_addr_struct: the server of a TCP connection.
Server(p) == [ip |-> p.m_server_ip, port |-> p.server_tcp_port]

Identity(p) == [f \in {IdentityWrites[id] : id \in DOMAIN IdentityWrites} |-> p[f]]

Fails(operation) == operation \in Faults

----------------------------------------------------------------------------
\* Files

\* Variant: a file that is too short is not deleted.
ShortFileStays(f) ==
    IF f = Short THEN {[params |-> Zero, file |-> Short, ok |-> TRUE]}
    ELSE {[params |-> dev_def_params, file |-> dev_def_params, ok |-> TRUE]}
         \cup {[params |-> Zero, file |-> Short, ok |-> FALSE] : o \in Faults \cap {"write"}}

\* What a start that finds f leaves in memory and on the file, and whether all went well. A write that fails
\* stands also for a power failure after the file was created.
dev_params_init(f) ==
    CASE f = Missing ->
            {[params |-> dev_def_params, file |-> dev_def_params, ok |-> TRUE]}
            \cup {[params |-> Zero, file |-> Missing, ok |-> FALSE] : o \in Faults \cap {"create", "read"}}
            \cup {[params |-> Zero, file |-> Short, ok |-> FALSE] : o \in Faults \cap {"write"}}
      [] f = Short ->
            {[params |-> Zero, file |-> Missing, ok |-> TRUE]}
            \cup {[params |-> Zero, file |-> Short, ok |-> FALSE] : o \in Faults \cap {"delete"}}
      [] OTHER ->
            {[params |-> f, file |-> f, ok |-> TRUE]}
            \cup {[params |-> Zero, file |-> Missing, ok |-> FALSE] : o \in Faults \cap {"read"}}

restore_devid(p) ==
    IF devid \in Value THEN [p EXCEPT !.term_id = devid] ELSE p

\* A save of v: it writes over the file that is there, a short one too, and never creates one.
dev_params_save(v) ==
    {[v EXCEPT !.unsaved = TRUE] : o \in IF v.file = Missing THEN {v.file} ELSE Faults \cap {"write"}}
    \cup {[v EXCEPT !.file = v.params, !.unsaved = FALSE] : o \in {v.file} \ {Missing}}

\* The file is created with DEVID_INI in it, then the number is written over that: each of the writes
\* may fail.
backup_devid(v, id) ==
    {[v EXCEPT !.devid = id]}
    \cup {v : o \in Faults \cap {"create", "write"}}
    \cup (IF v.devid = NoDevid /\ Fails("write")
          THEN {[v EXCEPT !.devid = ShortDevid], [v EXCEPT !.devid = DEVID_INI]}
          ELSE {})

----------------------------------------------------------------------------
\* What a handler works on. By the platform: paraset is plat_paraset, sta the answer, done an early end
\* of the loop. By SMS: act is act_kind, acts what the commands so far have asked for.

Memory == [params |-> params, file |-> file, devid |-> devid, unsaved |-> unsaved,
           paraset |-> "none", sta |-> 1, done |-> FALSE, act |-> "no_act", acts |-> {}]

Set(v, field, x) == [v EXCEPT !.params[field] = x]

\* Variant: what the vehicle is registered as is taken for any other parameter.
IdentityIsPlain(v, id, x) ==
    IF id = "eIP" THEN [Set(v, "m_server_ip", x) EXCEPT !.paraset = "reconn"]
    ELSE Set(v, Writes[id], x)

\* Ports and address are compared with those of the connection, province and city both with the
\* province, in the other order of the bytes. The length of an address tells only whether there is one.
WriteLbsCfgPara(v, id, x) ==
    CASE id \in DOMAIN PlainWrites -> Set(v, PlainWrites[id], x)
      [] id \in DOMAIN PortWrites ->
            IF x \in {v.params[PortWrites[id]], addr.port} THEN v
            ELSE [Set(v, PortWrites[id], x) EXCEPT !.paraset = "reconn"]
      [] id = "eIP" ->
            IF v.params.m_server_ip = x /\ (addr.ip = 0 <=> x = 0) THEN v
            ELSE [Set(v, "m_server_ip", x) EXCEPT !.paraset = "reconn"]
      [] id \in {"ePrivic", "eCity"} ->
            IF v.params.vehicle_province_id = Swap(x) THEN v
            ELSE [Set(v, IdentityWrites[id], x) EXCEPT !.paraset = "rereg"]
      [] id \in {"eCarid", "eCarclor"} ->
            IF v.params[IdentityWrites[id]] = x THEN v
            ELSE [Set(v, IdentityWrites[id], x) EXCEPT !.paraset = "rereg"]
      [] OTHER -> v

\* An item is an identifier with a value, a value that is refused, or no value at all: then nothing of
\* the message is read any more.
ParaConvertandSet(v, item) ==
    CASE v.done \/ item.form = "empty" -> [v EXCEPT !.done = TRUE]
      [] ~v.done /\ item.form # "empty" /\ (item.form = "refused" \/ item.id \notin DOMAIN Writes \cup NeverWritten) ->
            [v EXCEPT !.done = TRUE, !.sta = 1]
      [] OTHER -> [WriteLbsCfgPara(v, item.id, item.val) EXCEPT !.sta = 0]

Item(id, x) == [id |-> id, form |-> "value", val |-> x]

Items ==
    {Item(id, x) : id \in Ids, x \in Offered}
    \cup {[id |-> id, form |-> "refused", val |-> 0] : id \in Ids \cap ValueChecked}
    \cup {[id |-> id, form |-> "empty", val |-> 0] : id \in Ids}

Messages == SeqOf(Items, MaxItems) \ {<<>>}

Taken(items) ==
    LET after[i \in 0 .. Len(items)] ==
            IF i = 0 THEN Memory ELSE ParaConvertandSet(after[i - 1], items[i])
    IN  after[Len(items)]

\* The parameters before one that is refused stay set, and all is saved; that the file could not be
\* written changes nothing in the answer.
ServReq_SetParam(items) == dev_params_save(Taken(items))

Keep(v) ==
    /\ params' = v.params
    /\ file' = v.file
    /\ devid' = v.devid
    /\ unsaved' = v.unsaved
    /\ sets < MaxSets /\ sets' = sets + 1
    /\ calm' = IF v.unsaved THEN 0 ELSE calm

\* do_rereg: the code is deleted, and with no code there is nothing but to register.
do_rereg == step' = "rereg" /\ authcode' = FALSE

\* After the answer: a connection to the new server, or a new registration. There is one request.
PlatformSets(items) ==
    /\ step # "reconn"
    /\ \E v \in ServReq_SetParam(items) :
        /\ Keep(v)
        /\ \/ v.paraset = "none" /\ UNCHANGED <<addr, step, authcode>>
           \/ v.paraset = "reconn" /\ addr' = Server(v.params) /\ step' = "reconn" /\ UNCHANGED authcode
           \/ v.paraset = "rereg" /\ do_rereg /\ UNCHANGED addr
    /\ UNCHANGED need_reconn

\* Variant: the case of a city reads the province.
ReadProvinceForCity(p, id) == p[Reads[IF id = "eCity" THEN "ePrivic" ELSE id]]

ReadLbsCfgPara(p, id) == p[Reads[id]]

\* The parameter that was read last when the answer comes to its i-th identifier.
LastRead == [i \in DOMAIN Answers |-> Answers[Max({j \in 1 .. i : Answers[j] \in DOMAIN Reads})]]

\* The values of the answer to a query of the platform: a parameter that cannot be read is answered
\* with what was read last.
get_dev_param_rsp_buildbody(p) ==
    [i \in DOMAIN Answers |-> IF Answers[i] = "eImagClor" THEN 0 ELSE ReadLbsCfgPara(p, LastRead[i])]

----------------------------------------------------------------------------
\* Parameters by SMS: each one is saved before the next is read.

\* The amounts of oil are set without a comparison, the others if they differ.
PlainChanges(v, key, x) ==
    /\ key \in DOMAIN PlainKeywords
    /\ key \in {"e_OIL_AMOUNT", "e_MAX_OIL_CHANGE"} \/ v.params[Keywords[key]] # x

IdentityChanges(v, key, x) ==
    key \in DOMAIN IdentityKeywords /\ v.params[Keywords[key]] # x

\* Variant: a new address is saved and asks for no connection.
AddressIsPlain(v, key, x) ==
    IF v.params[Keywords[key]] = x THEN [v EXCEPT !.act = "no_act"]
    ELSE [Set(v, Keywords[key], x) EXCEPT !.act = "para_save"]

\* Ports and address are compared with those of the connection, which is a TCP connection.
handle_keyword4ms(v, key, x) ==
    LET changed == Set(v, Keywords[key], x) IN
    CASE key = "e_TCPPORT" /\ addr.port # x -> [changed EXCEPT !.act = "reconn"]
      [] key = "e_UDPPORT" /\ addr.port # x -> [changed EXCEPT !.act = "para_save"]
      [] key = "e_IP" /\ addr.ip # x   -> [changed EXCEPT !.act = "reconn"]
      [] PlainChanges(v, key, x)       -> [changed EXCEPT !.act = "para_save"]
      [] IdentityChanges(v, key, x)    -> [changed EXCEPT !.act = IF authcode THEN "rereg" ELSE "para_save"]
      [] OTHER                         -> [v EXCEPT !.act = "no_act"]

\* Variant: only a parameter that asks nothing of the link is saved.
SavesPlainOnly(v) ==
    IF v.act = "para_save"
    THEN {[u EXCEPT !.acts = @ \cup {v.act}] : u \in dev_params_save(v)}
    ELSE {[v EXCEPT !.acts = @ \cup {v.act}]}

dev_action_handle(v) ==
    IF v.act = "no_act" THEN {v}
    ELSE {[u EXCEPT !.acts = @ \cup {v.act}] : u \in dev_params_save(v)}

\* A command that set_enquiry_check refuses is passed over: a value that is not one of the keyword's.
\* A colour that is no number is taken for the colour 0.
set_enquiry_check(command) ==
    CASE command.form = "value"     -> {command.val}
      [] command.form = "refused" /\ command.key = "e_carcolor" -> {0}
      [] OTHER                      -> {}

Commanded(v, command) ==
    LET taken == set_enquiry_check(command)
        set == {handle_keyword4ms(v, command.key, x) : x \in taken}
        backed == IF command.key = "e_DEVID"
                  THEN UNION {IF u.act = "no_act" THEN {u} ELSE backup_devid(u, u.params.term_id) : u \in set}
                  ELSE set
    IN  IF taken = {} THEN {v} ELSE UNION {dev_action_handle(u) : u \in backed}

Commands ==
    SeqOf({[key |-> key, form |-> "value", val |-> x] : key \in Keys, x \in Offered}
          \cup {[key |-> key, form |-> "refused", val |-> 0] : key \in Keys}, MaxItems) \ {<<>>}

\* All the ways in which the commands of a message, one after the other, may go.
Obeyed(commands) ==
    LET after[i \in 0 .. Len(commands)] ==
            IF i = 0 THEN {Memory} ELSE UNION {Commanded(v, commands[i]) : v \in after[i - 1]}
    IN  after[Len(commands)]

\* At the end of the message: a new connection goes before a new registration.
oa_app_sms(commands) ==
    /\ \E v \in Obeyed(commands) :
        /\ Keep(v)
        /\ \/ /\ "reconn" \in v.acts
              /\ step' = "soc_init" /\ need_reconn' = TRUE
              /\ UNCHANGED authcode
           \/ "reconn" \notin v.acts /\ "rereg" \in v.acts /\ do_rereg /\ UNCHANGED need_reconn
           \/ v.acts \cap {"reconn", "rereg"} = {} /\ UNCHANGED <<step, need_reconn, authcode>>
    /\ UNCHANGED addr

\* The keyword AUTHEN with nothing behind it.
DeleteAuthcode ==
    /\ do_rereg
    /\ UNCHANGED <<params, file, devid, addr, need_reconn, unsaved, sets, calm>>

----------------------------------------------------------------------------
\* The device

\* dev_params_init, restore_devid, and a connection to the server of the parameters.
oa_app_main(f) ==
    /\ \E r \in dev_params_init(f) :
        /\ params' = restore_devid(r.params)
        /\ file' = r.file
        /\ calm' = IF ~r.ok THEN 0 ELSE IF calm < 2 THEN calm + 1 ELSE 2
    /\ unsaved' = FALSE
    /\ addr' = Server(params')
    /\ step' = "none"
    /\ need_reconn' = FALSE
    /\ UNCHANGED <<devid, sets>>

\* The power, or a restart by command.
Restart == oa_app_main(file) /\ UNCHANGED authcode

\* factory_set deletes file after file, the number's excepted, and starts anew. Where a file cannot be
\* deleted it stops, and the device goes on.
factory_set ==
    \/ oa_app_main(Missing) /\ authcode' = FALSE
    \/ /\ Fails("delete")
       /\ file' \in {file, Missing} /\ calm' = 0
       /\ authcode' \in {authcode, FALSE}
       /\ UNCHANGED <<params, devid, addr, step, need_reconn, unsaved, sets>>

\* The steps of oa_app_plat_link. After an SMS that changed the server every PLAT_SOC_INIT takes it
\* from the parameters.
PlatSocInit ==
    /\ step = "soc_init"
    /\ addr' = IF need_reconn THEN Server(params) ELSE addr
    /\ step' = "none"
    /\ UNCHANGED <<params, file, devid, need_reconn, authcode, unsaved, sets, calm>>

PlatReconn ==
    /\ step = "reconn"
    /\ step' = "none"
    /\ UNCHANGED <<params, file, devid, addr, need_reconn, authcode, unsaved, sets, calm>>

Registered ==
    /\ step = "rereg" \/ ~authcode
    /\ step' = IF step = "rereg" THEN "none" ELSE step
    /\ authcode' = TRUE
    /\ UNCHANGED <<params, file, devid, addr, need_reconn, unsaved, sets, calm>>

ConnectionLost ==
    /\ step' = "soc_init"
    /\ UNCHANGED <<params, file, devid, addr, need_reconn, authcode, unsaved, sets, calm>>

Init ==
    /\ params = dev_def_params /\ file = dev_def_params
    /\ devid = NoDevid
    /\ addr = Server(dev_def_params)
    /\ step = "none"
    /\ need_reconn = FALSE
    /\ authcode \in BOOLEAN
    /\ unsaved = FALSE /\ sets = 0
    /\ calm = 1

Next ==
    \/ \E items \in Messages : PlatformSets(items)
    \/ \E commands \in Commands : oa_app_sms(commands)
    \/ DeleteAuthcode
    \/ Restart
    \/ factory_set
    \/ PlatSocInit
    \/ PlatReconn
    \/ Registered
    \/ ConnectionLost

Spec == Init /\ [][Next]_vars

----------------------------------------------------------------------------

TypeOK ==
    /\ params \in Params
    /\ file \in Params \cup {Missing, Short}
    /\ devid \in Value \cup {NoDevid, ShortDevid}
    /\ addr \in [ip : Value, port : Value]
    /\ step \in {"none", "soc_init", "reconn", "rereg"}
    /\ {need_reconn, authcode, unsaved} \subseteq BOOLEAN
    /\ sets \in 0..MaxSets /\ calm \in 0..2

\* The file holds what the device works with, whatever was set, refused or changed twice, unless a
\* write has failed since or there is no file. The device number has a file of its own.
Persisted ==
    file \in Params /\ ~unsaved => \A f \in Field \ {"term_id"} : file[f] = params[f]

\* However the file was damaged, and whatever failed at the starts before, the second start with
\* nothing failing has a whole file to save to.
StartsRecover == calm = 2 => file \in Params

\* The types, that memory and file agree, and that a damaged file is got rid of.
ParamsInv == TypeOK /\ Persisted /\ StartsRecover

\* A parameter that the platform has set with the answer 0 is what a query then answers. The
\* exceptions are the code's: identifiers that are checked and never set, or set and not read;
\* a port that is the one of the connection; a province or a city that is the province with its bytes
\* swapped; the time of an overspeed, answered with the time of driving.
SetThenRead ==
    \A id \in DOMAIN Reads \ (NeverWritten \cup {"eOverspeedtime"}), x \in Offered :
        LET v == ParaConvertandSet(Memory, Item(id, x))
            body == get_dev_param_rsp_buildbody(v.params)
        IN  \/ id \in DOMAIN PortWrites /\ x = addr.port
            \/ id \in {"ePrivic", "eCity"} /\ Swap(x) = params.vehicle_province_id
            \/ v.sta = 0 /\ \A i \in DOMAIN Answers : Answers[i] = id => body[i] = x

\* The same for the keywords of an SMS and its answer, a port and an address of the connection
\* excepted.
SetThenShown ==
    \A key \in DOMAIN Keywords, x \in Offered :
        LET v == handle_keyword4ms(Memory, key, x)
        IN  \/ key \in {"e_TCPPORT", "e_UDPPORT"} /\ x = addr.port
            \/ key = "e_IP" /\ x = addr.ip
            \/ v.params[Shown[key]] = x

\* What either side sets, it can ask for.
SetThenAnswered == SetThenRead /\ SetThenShown

\* A new server is never forgotten: the connection goes to it, or the next one will; unless the same
\* message goes on to ask for a new registration.
ServerReached ==
    [][\/ Server(params') = Server(params)
       \/ addr' = Server(params')
       \/ step' = "soc_init" /\ need_reconn'
       \/ step' = "rereg"]_vars

\* A message that changes what a registered vehicle is registered as has it register anew, unless the
\* message asks for another server.
IdentityRegistered ==
    [][authcode /\ sets' # sets /\ Identity(params') # Identity(params)
       => step' = "rereg" \/ step' \in {"reconn", "soc_init"}]_vars
=============================================================================
