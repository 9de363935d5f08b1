----------------------------- MODULE BlindFiles -----------------------------
(***************************************************************************)
(* The files behind the store of blind reports: a file that says whether    *)
(* the directory exists (BLINDDATA_DIR_CONF, outside of it), the directory, *)
(* and in it the manage file and the data file.  Every use of the store     *)
(* opens them in this order and creates what is missing                     *)
(* (src/src/oa_blinddata.c); del_blinddata removes them in another order    *)
(* and stops at the first failure (src/src/oa_dev_params.c).  BlindData     *)
(* models what the files hold while all of them are there.                  *)
(*                                                                         *)
(* pc names the file operation that comes next.  Each one may fail, and a   *)
(* restart may come before it.                                              *)
(***************************************************************************)
EXTENDS Integers

VARIABLES
  conf,      \* BLINDDATA_DIR_CONF: "none", "short" (created, not written), "FALSE" or "TRUE"
  dir,       \* the directory exists
  manage,    \* the manage file: "none", "short", "zero" (no report waits) or "waiting"
  data,      \* the data file: "none", "whole" (it has every report that waits) or "partial"
  op,        \* the operation at work: "tick", "write", "read", "delete" or "none"
  pc,
  dirAgain,  \* oa_fcreateDir takes a directory that exists for created
  calm,      \* reads and writes of the store since something failed or was deleted, up to two
  cut        \* a deletion has removed the data file and not yet the manage file, where reports wait

files == <<conf, dir, manage, data, cut>>
vars == <<files, op, pc, dirAgain, calm>>

Init ==
  /\ conf = "none" /\ dir = FALSE /\ manage = "none" /\ data = "none"
  /\ op = "none" /\ pc = "idle"
  /\ dirAgain \in BOOLEAN
  /\ calm = 0 /\ cut = FALSE

(* From one file operation to the next. *)
Go(from, to) == pc = from /\ pc' = to /\ UNCHANGED <<op, dirAgain, calm>>

(* The operation is over and nothing has failed but what the files made fail. *)
Return ==
  /\ pc' = "idle" /\ op' = "none"
  /\ calm' = IF op \in {"read", "write"} /\ calm < 2 THEN calm + 1 ELSE calm
  /\ UNCHANGED dirAgain

(* A file operation fails, or a restart comes before it. *)
Interrupted ==
  /\ pc # "idle" /\ pc' = "idle" /\ op' = "none"
  /\ calm' = 0
  /\ UNCHANGED dirAgain

-----------------------------------------------------------------------------
(* has_blinddata_dir *)

(* The 250 ms task, and the write and the read of a report. *)
Use(o) ==
  /\ pc = "idle" /\ pc' = "conf" /\ op' = o
  /\ UNCHANGED <<files, dirAgain, calm>>

CreateConf ==
  /\ conf = "none" /\ Go("conf", "conf_write")
  /\ conf' = "short"
  /\ UNCHANGED <<dir, manage, data, cut>>

OpenConf == conf # "none" /\ Go("conf", "conf_read") /\ UNCHANGED files

WriteConfFalse ==
  /\ Go("conf_write", "conf_read")
  /\ conf' = "FALSE"
  /\ UNCHANGED <<dir, manage, data, cut>>

(* Mutant: the way out only closes the file. *)
CloseConf == UNCHANGED conf

(* The way out of has_blinddata_dir: whatever is wrong, the file goes. *)
DeleteConf == conf' = "none"

(* What has_blinddata_dir finds or makes: the 250 ms task is content with it. *)
AfterDir == IF op = "tick" THEN Return ELSE Go(pc, "manage")

ReadConf ==
  /\ pc = "conf_read"
  /\ \/ conf = "short" /\ DeleteConf /\ Return
     \/ conf = "FALSE" /\ Go("conf_read", "mkdir") /\ UNCHANGED conf
     \/ conf = "TRUE" /\ AfterDir /\ UNCHANGED conf
  /\ UNCHANGED <<dir, manage, data, cut>>

CreateDir ==
  /\ pc = "mkdir"
  /\ IF dir /\ ~dirAgain
     THEN DeleteConf /\ Return
     ELSE Go("mkdir", "conf_true") /\ UNCHANGED conf
  /\ dir' = TRUE
  /\ UNCHANGED <<manage, data, cut>>

WriteConfTrue ==
  /\ pc = "conf_true" /\ AfterDir
  /\ conf' = "TRUE"
  /\ UNCHANGED <<dir, manage, data, cut>>

ConfFails ==
  /\ pc \in {"conf", "conf_write", "conf_read", "mkdir", "conf_true"}
  /\ DeleteConf /\ Interrupted
  /\ UNCHANGED <<dir, manage, data, cut>>

has_blinddata_dir ==
  CreateConf \/ OpenConf \/ WriteConfFalse \/ ReadConf \/ CreateDir \/ WriteConfTrue \/ ConfFails

-----------------------------------------------------------------------------
(* has_blinddata_manage_1file, and what follows it in                       *)
(* write_blinddata_to_1file and read_blinddata_from_1file                   *)

(* A file in a directory that is not there is neither opened nor created. *)
CreateManage ==
  /\ manage = "none" /\ dir /\ Go("manage", "manage_write")
  /\ manage' = "short"
  /\ UNCHANGED <<conf, dir, data, cut>>

WriteManage ==
  /\ Go("manage_write", "data")
  /\ manage' = "zero"
  /\ UNCHANGED <<conf, dir, data, cut>>

(* A manage file that is too short is refused, and stays. *)
ReadManage ==
  /\ pc = "manage"
  /\ \/ (manage = "short" \/ ~dir) /\ Return
     \/ manage \in {"zero", "waiting"} /\ Go("manage", "data")
  /\ UNCHANGED files

(* The data file is created where it is missing, and has the slot of this   *)
(* report alone.                                                            *)
WriteData ==
  /\ op = "write" /\ Go("data", "save")
  /\ data' = IF data # "none" THEN data ELSE IF manage = "waiting" THEN "partial" ELSE "whole"
  /\ UNCHANGED <<conf, dir, manage, cut>>

SaveWritten ==
  /\ pc = "save" /\ Return
  /\ manage' = "waiting"
  /\ UNCHANGED <<conf, dir, data, cut>>

(* A slot that was never written may be read or refused.  With the last     *)
(* report that waits the file has every report that waits.                  *)
ReadData ==
  /\ op = "read" /\ pc = "data" /\ Return
  /\ \/ UNCHANGED <<manage, data, cut>>
     \/ manage = "waiting" /\ data # "none" /\ manage' = "zero" /\ data' = "whole" /\ cut' = FALSE
  /\ UNCHANGED <<conf, dir>>

has_blinddata_manage_1file == CreateManage \/ WriteManage \/ ReadManage

-----------------------------------------------------------------------------
(* del_blinddata, by SMS, and del_some_files of factory_set, which removes  *)
(* these files in the same order.                                           *)

BeginDelete ==
  /\ pc = "idle" /\ pc' = "del_conf" /\ op' = "delete"
  /\ calm' = 0
  /\ UNCHANGED <<files, dirAgain>>

DelConf == Go("del_conf", "del_data") /\ conf' = "none" /\ UNCHANGED <<dir, manage, data, cut>>

DelData ==
  /\ Go("del_data", "del_manage")
  /\ data' = "none" /\ cut' = (manage = "waiting")
  /\ UNCHANGED <<conf, dir, manage>>

DelManage ==
  /\ Go("del_manage", "rmdir")
  /\ manage' = "none" /\ cut' = FALSE
  /\ UNCHANGED <<conf, dir, data>>

RemoveDir == pc = "rmdir" /\ Return /\ dir' = FALSE /\ UNCHANGED <<conf, manage, data, cut>>

del_blinddata == BeginDelete \/ DelConf \/ DelData \/ DelManage \/ RemoveDir

-----------------------------------------------------------------------------
Next ==
  \/ \E o \in {"tick", "write", "read"} : Use(o)
  \/ has_blinddata_dir
  \/ has_blinddata_manage_1file
  \/ WriteData \/ SaveWritten \/ ReadData
  \/ del_blinddata
  \/ Interrupted /\ UNCHANGED files

Spec == Init /\ [][Next]_vars

-----------------------------------------------------------------------------
TypeOK ==
  /\ conf \in {"none", "short", "FALSE", "TRUE"} /\ dir \in BOOLEAN
  /\ manage \in {"none", "short", "zero", "waiting"}
  /\ data \in {"none", "whole", "partial"}
  /\ op \in {"none", "tick", "write", "read", "delete"}
  /\ dirAgain \in BOOLEAN /\ calm \in 0 .. 2 /\ cut \in BOOLEAN

(* A directory that is said to exist does exist: a store that believed in   *)
(* a missing one would not create it, nor any file in it.                   *)
ConfIsTrue == conf = "TRUE" => dir

(* The reports the manage file says are waiting are in the data file,       *)
(* whatever was created, given up and created again in between; except      *)
(* after a deletion that ended between the two.                             *)
WaitingIsThere == manage = "waiting" => data = "whole" \/ cut

Ready == conf = "TRUE" /\ dir /\ manage \in {"zero", "waiting"}

(* The two states no use of the store gets out of: the first write of the   *)
(* manage file was cut, or the directory outlived what says that it exists, *)
(* where a directory is not created again.                                  *)
Stuck == manage = "short" \/ (dir /\ conf # "TRUE" /\ ~dirAgain)

(* Wherever a failure, a restart or a deletion has left the files, the      *)
(* second use of the store after it finds all it needs, unless Stuck.       *)
StoreOpens == calm = 2 => Ready \/ Stuck

(* The files of the store, across creation, failure, restart and deletion.  *)
FilesInv == TypeOK /\ ConfIsTrue /\ WaitingIsThere /\ StoreOpens
=============================================================================
