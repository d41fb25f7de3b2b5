-------------------------------- MODULE Dfu --------------------------------
(***************************************************************************)
(* Device firmware upgrade over the control interface: the state-machine   *)
(* task (dfu_state_machine.c), the servicer task that calls its dfu_int_*  *)
(* functions (dfu_servicer.c) and the flash they write (DfuFlash).  The    *)
(* two tasks run on different cores and share the structure dfu_data, a    *)
(* notification word, a request counter and the upload semaphore, with no  *)
(* lock: each step below is one access, or one run of accesses the other   *)
(* task cannot tell apart.                                                 *)
(***************************************************************************)
EXTENDS DfuFlash, Sequences, FiniteSets

CONSTANTS
  Window,           (* Where the state machine may be when a request comes.  *)
  Backlog,          (* Where it may be when an earlier request is unread.    *)
  RespectsTimeout,  (* Does the host wait out the poll timeout it is given?  *)
  Commands,         (* The commands the host uses,                           *)
  Alternates,       (*   the alternate settings it selects                   *)
  TransferBlocks,   (*   and the transfer blocks it asks for.                *)
  MaxPending,       (* Bound on the request counter.                         *)
  MaxImage          (* Bound on the transfers of one download.               *)

DfuState == {"IDLE", "DNLOAD_SYNC", "DNBUSY", "DNLOAD_IDLE", "MANIFEST_SYNC",
             "MANIFEST", "UPLOAD_IDLE", "ERROR"}
Status == {"OK", "ERR_WRITE", "ERR_ADDRESS", "ERR_STALLEDPKT"}
Request == {"DNLOAD", "UPLOAD", "GETSTATUS", "CLRSTATUS", "ABORT", "SETALTERNATE"}

Command == Request \cup {"TRANSFERBLOCK", "DETACH"}

\* Where each task is: sm in its loop, srv in a dfu_int_* function.
SmPoint  == {"wait", "count", "dispatch", "read", "give_back", "getstatus",
             "busy", "program", "finish", "reset", "wipe", "error"}
SrvPoint == {"ready", "predict", "give", "notify", "take", "eat"}

ASSUME DfuAssumption ==
  /\ Window \subseteq SmPoint /\ Backlog \subseteq Window
  /\ RespectsTimeout \in BOOLEAN
  /\ Commands \subseteq Command
  /\ Alternates \subseteq Alternate /\ TransferBlocks \subseteq Nat
  /\ MaxPending \in Nat \ {0} /\ MaxImage \in Nat \ {0}

VARIABLES
  dfu,        (* dfu_data, a record with the fields of the C structure.       *)
  waiting,    (* Is the poll timeout given to the host still running?        *)
  bits,       (* Notification word of the state-machine task.                *)
  counter,    (* REQUEST_COUNTER_INDEX: requests given and not taken.        *)
  semaphore,  (* upload_semaphore.                                           *)
  sm,         (* State-machine task: where it is,                            *)
  event,      (*   the notification word it took,                            *)
  retval,     (*   and the status it is about to enter.                      *)
  srv,        (* Servicer task: where it is,                                 *)
  req,        (*   the request it serves,                                    *)
  seen,       (*   and the current_state its switch saw.                     *)
  rebooting,  (* The watchdog is running (reboot()).                         *)
  last,       (* History: the host's latest request and the reply to it.     *)
  image       (* History: the transfers the host sent in this download.      *)

smVars  == <<sm, event, retval>>
srvVars == <<srv, req, seen>>
shared  == <<bits, counter, semaphore, waiting, rebooting>>
history == <<last, image>>
vars == <<dfu, smVars, srvVars, shared, history, flashVars>>

-----------------------------------------------------------------------------
(***************************************************************************)
(* dfu_int_reset_state, in its three parts, and dfu_int_error.             *)
(***************************************************************************)
ResetFlags(d) ==
  [d EXCEPT !.current_state = "IDLE", !.current_status = "OK",
            !.in_progress = FALSE, !.move_to_error = FALSE]

ResetCountsKeepingFragment(d) ==
  [d EXCEPT !.data_xfer_length = 0, !.download_block_number = 0]

ResetCounts(d) ==
  [d EXCEPT !.data_xfer_length = 0, !.frag_number = 0,
            !.download_block_number = 0]

ClearBuffer(d) == [d EXCEPT !.dfu_data_buffer = BlankSector]

PowerOn ==
  [alt_setting |-> 0, current_state |-> "IDLE", current_status |-> "OK",
   in_progress |-> FALSE, move_to_error |-> FALSE, transfer_block |-> 0,
   data_xfer_length |-> 0, download_block_number |-> 0, frag_number |-> 0,
   dfu_data_buffer |-> BlankSector, previous_timeout |-> FALSE]

Nothing == [op |-> "none", told |-> "IDLE"]

TasksInit ==
  /\ dfu = PowerOn
  /\ waiting = FALSE /\ rebooting = FALSE
  /\ bits = {} /\ counter = 0 /\ semaphore = 0
  /\ sm = "wait" /\ event = {} /\ retval = "OK"
  /\ srv = "ready" /\ req = "none" /\ seen = "IDLE"
  /\ last = Nothing /\ image = <<>>

Init == TasksInit /\ FlashInit

-----------------------------------------------------------------------------
(***************************************************************************)
(* The host sends one request at a time and the servicer answers it before *)
(* the next.  The servicer's answer does not wait for the state machine    *)
(* (except for UPLOAD), so a request may find an earlier one unread.       *)
(***************************************************************************)
HostSends(op) ==
  /\ op \in Commands
  /\ srv = "ready"
  /\ sm \in Window
  /\ bits # {} => sm \in Backlog
  /\ RespectsTimeout => ~waiting
  /\ counter < MaxPending

\* The history keeps a GETSTATUS, and the state it announced.
Record(op) == last' = IF op = "GETSTATUS" THEN [Nothing EXCEPT !.op = op] ELSE Nothing

\* The common tail of the dfu_int_* functions: go on to notify.
Ask(r) == srv' = "give" /\ req' = r /\ Record(r) /\ UNCHANGED seen

\* dfu_int_download, up to the notification.  The data go straight into the
\* buffer of the state machine, at the fragment it is filling.  The read of
\* frag_number, the length and the copy are one step: no property here depends on
\* what the state machine does between them.
Download(data) ==
  /\ HostSends("DNLOAD")
  /\ Len(image) < MaxImage
  /\ Ask("DNLOAD")
  /\ dfu' = [dfu EXCEPT !.data_xfer_length = 1,
                        !.dfu_data_buffer[dfu.frag_number] = data]
  /\ image' = Append(image, data)
  /\ UNCHANGED <<smVars, shared, flashVars>>

\* The zero-length packet that ends a download.
DownloadEnd ==
  /\ HostSends("DNLOAD")
  /\ Ask("DNLOAD")
  /\ dfu' = [dfu EXCEPT !.data_xfer_length = 0]
  /\ UNCHANGED <<image, smVars, shared, flashVars>>

\* dfu_int_upload, dfu_int_clear_status, dfu_int_abort
Simple(r) ==
  /\ HostSends(r)
  /\ Ask(r)
  /\ UNCHANGED <<dfu, image, smVars, shared, flashVars>>

\* dfu_int_set_alternate
SetAlternate(alt) ==
  /\ HostSends("SETALTERNATE")
  /\ Ask("SETALTERNATE")
  /\ dfu' = [dfu EXCEPT !.alt_setting = alt]
  /\ UNCHANGED <<image, smVars, shared, flashVars>>

\* dfu_int_set_transfer_block: no notification.
SetTransferBlock(block) ==
  /\ HostSends("TRANSFERBLOCK")
  /\ Record("TRANSFERBLOCK")
  /\ dfu' = [dfu EXCEPT !.transfer_block = block]
  /\ UNCHANGED <<image, smVars, srvVars, shared, flashVars>>

\* dfu_int_get_status: the switch reads current_state ...
GetStatus ==
  /\ HostSends("GETSTATUS")
  /\ srv' = "predict" /\ req' = "GETSTATUS" /\ seen' = dfu.current_state
  /\ Record("GETSTATUS")
  /\ UNCHANGED <<dfu, image, smVars, shared, flashVars>>

\* ... and each case fills the reply.  A poll timeout is a Boolean, whether there
\* is one.  It is kept in previous_timeout, timeout_start is written, and the
\* state machine is notified unless it is busy.
Reply(next_state, timeout, notify) ==
  /\ last' = [last EXCEPT !.told = next_state]
  /\ waiting' = timeout
  /\ IF notify THEN srv' = "give" /\ UNCHANGED req
               ELSE srv' = "ready" /\ req' = "none"
  /\ seen' = "IDLE"
  /\ UNCHANGED <<image, smVars, bits, counter, semaphore, rebooting,
                 flashVars>>

PredictSame ==
  /\ srv = "predict" /\ seen \in {"UPLOAD_IDLE", "IDLE", "ERROR", "DNLOAD_IDLE"}
  /\ Reply(dfu.current_state, FALSE, TRUE)
  /\ dfu' = [dfu EXCEPT !.previous_timeout = FALSE]

\* (timeout_end - current_time) < timeout_tks: the host came too early.
PredictTooEarly ==
  /\ srv = "predict" /\ seen \in {"DNBUSY", "MANIFEST"} /\ waiting
  /\ Reply("ERROR", FALSE, FALSE)
  /\ dfu' = [dfu EXCEPT !.previous_timeout = FALSE, !.move_to_error = TRUE]

PredictStillBusy ==
  /\ srv = "predict" /\ seen \in {"DNBUSY", "MANIFEST"} /\ ~waiting
  /\ Reply(dfu.current_state, dfu.previous_timeout, FALSE)
  /\ UNCHANGED dfu

PredictDownload ==
  /\ srv = "predict" /\ seen = "DNLOAD_SYNC" /\ dfu.in_progress
  /\ Reply("DNBUSY", TRUE, TRUE)
  /\ dfu' = [dfu EXCEPT !.previous_timeout = TRUE]

PredictManifest ==
  /\ srv = "predict" /\ seen = "MANIFEST_SYNC" /\ dfu.in_progress
  /\ Reply("MANIFEST", FALSE, TRUE)
  /\ dfu' = [dfu EXCEPT !.previous_timeout = FALSE]

PredictDone ==
  /\ srv = "predict" /\ ~dfu.in_progress
  /\ \/ seen = "DNLOAD_SYNC" /\ Reply("DNLOAD_IDLE", FALSE, TRUE)
     \/ seen = "MANIFEST_SYNC" /\ Reply("IDLE", FALSE, TRUE)
  /\ dfu' = [dfu EXCEPT !.previous_timeout = FALSE]

\* xTaskNotifyGiveIndexed, then xTaskNotify(eSetBits): two calls.
Give ==
  /\ srv = "give"
  /\ counter' = counter + 1
  /\ srv' = "notify"
  /\ UNCHANGED <<dfu, req, seen, smVars, bits, semaphore, waiting, rebooting,
                 history, flashVars>>

Notify ==
  /\ srv = "notify"
  /\ bits' = bits \cup {req}
  /\ srv' = IF req = "UPLOAD" THEN "take" ELSE "ready"
  /\ req' = "none"
  /\ UNCHANGED <<dfu, seen, smVars, counter, semaphore, waiting, rebooting,
                 history, flashVars>>

\* dfu_int_upload waits for the state machine, then copies the first fragment.
Take ==
  /\ srv = "take" /\ semaphore = 1
  /\ semaphore' = 0
  /\ srv' = "eat"
  /\ UNCHANGED <<dfu, req, seen, smVars, bits, counter, waiting, rebooting,
                 history, flashVars>>

\* What the host is answered: the fragment, or nothing (length 0).
Eat ==
  /\ srv = "eat"
  /\ srv' = "ready"
  /\ UNCHANGED <<dfu, req, seen, smVars, shared, history, flashVars>>

\* DFU_DETACH and DFU_REBOOT: reboot() starts the watchdog and, over I2C,
\* returns; both tasks go on until it fires.
Detach ==
  /\ HostSends("DETACH")
  /\ ~rebooting
  /\ rebooting' = TRUE
  /\ Record("DETACH")
  /\ UNCHANGED <<dfu, image, smVars, srvVars, bits, counter, semaphore, waiting,
                 flashVars>>

WatchdogFires ==
  /\ rebooting
  /\ dfu' = PowerOn
  /\ waiting' = FALSE /\ rebooting' = FALSE
  /\ bits' = {} /\ counter' = 0 /\ semaphore' = 0
  /\ sm' = "wait" /\ event' = {} /\ retval' = "OK"
  /\ srv' = "ready" /\ req' = "none" /\ seen' = "IDLE"
  /\ last' = Nothing /\ image' = <<>>
  /\ FlashReset

TimeoutExpires ==
  /\ waiting
  /\ waiting' = FALSE
  /\ UNCHANGED <<dfu, smVars, srvVars, bits, counter, semaphore, rebooting,
                 history, flashVars>>

-----------------------------------------------------------------------------
(***************************************************************************)
(* The state-machine task.                                                 *)
(***************************************************************************)
\* A step of the task that touches nothing but dfu_data and its own locals;
\* notification_value is dead once the task is back at the top of its loop.
Local(d, point, status) ==
  /\ dfu' = d /\ sm' = point /\ retval' = status
  /\ event' = IF point = "wait" THEN {} ELSE event
  /\ UNCHANGED <<srvVars, shared, last>>

Move(state, point) ==
  /\ Local([dfu EXCEPT !.current_state = state], point, retval)
  /\ UNCHANGED <<image, flashVars>>

\* dfu_int_reset_state (status OK) or dfu_int_error(status).
Reset(status) ==
  /\ Local(ResetFlags(dfu), "reset", status)
  /\ image' = <<>>
  /\ UNCHANGED flashVars

WakeWithoutClearing ==
  /\ sm = "wait" /\ bits # {}
  /\ event' = bits
  /\ sm' = "count"
  /\ UNCHANGED <<dfu, retval, srvVars, bits, counter, semaphore, waiting, rebooting,
                 history, flashVars>>

\* xTaskNotifyWait: take the word and clear it.
Wake ==
  /\ sm = "wait" /\ bits # {}
  /\ event' = bits /\ bits' = {}
  /\ sm' = "count"
  /\ UNCHANGED <<dfu, retval, srvVars, counter, semaphore, waiting, rebooting,
                 history, flashVars>>

\* ulTaskNotifyTakeIndexed: one decrement, and the value before it.
Took == counter' = IF counter > 0 THEN counter - 1 ELSE 0

CountSome ==
  /\ sm = "count" /\ counter > 0
  /\ Took
  /\ sm' = "dispatch"
  /\ UNCHANGED <<dfu, event, retval, srvVars, bits, semaphore, waiting, rebooting,
                 history, flashVars>>

CountOne ==
  /\ sm = "count" /\ counter = 1
  /\ Took
  /\ sm' = "dispatch"
  /\ UNCHANGED <<dfu, event, retval, srvVars, bits, semaphore, waiting, rebooting,
                 history, flashVars>>

\* Not one request: error, and back to the top of the loop.
CountOther ==
  /\ sm = "count" /\ counter # 1
  /\ Took
  /\ dfu' = ResetFlags(dfu) /\ image' = <<>>
  /\ sm' = "reset" /\ event' = {} /\ retval' = "ERR_STALLEDPKT"
  /\ UNCHANGED <<srvVars, bits, semaphore, waiting, rebooting, last, flashVars>>

ResetDownload ==
  /\ sm = "reset"
  /\ Local(ResetCounts(dfu), "wipe", retval)
  /\ UNCHANGED <<image, flashVars>>

WipeBuffer ==
  /\ sm = "wipe"
  /\ Local(ClearBuffer(dfu), IF retval = "OK" THEN "wait" ELSE "error", retval)
  /\ UNCHANGED <<image, flashVars>>

EnterErrorAnd(give) ==
  /\ sm = "error"
  /\ Local([dfu EXCEPT !.current_state = "ERROR", !.current_status = retval],
           IF give THEN "give_back" ELSE "wait", "OK")
  /\ UNCHANGED <<image, flashVars>>

EnterErrorGiving == EnterErrorAnd(TRUE)
EnterErrorSilently == EnterErrorAnd(FALSE)

EnterError == EnterErrorAnd(event = {"UPLOAD"})

Dispatch(r) == sm = "dispatch" /\ event = {r}

\* case DFU_INT_TASK_BIT_DNLOAD
HandleDownload ==
  /\ Dispatch("DNLOAD")
  /\ dfu.data_xfer_length # 0 /\ dfu.current_state \in {"IDLE", "DNLOAD_IDLE"}
  /\ Local([dfu EXCEPT !.in_progress = TRUE, !.current_state = "DNLOAD_SYNC"],
           "wait", retval)
  /\ UNCHANGED <<image, flashVars>>

HandleDownloadEnd ==
  /\ Dispatch("DNLOAD")
  /\ dfu.data_xfer_length = 0 /\ dfu.current_state = "DNLOAD_IDLE"
  /\ Local([ClearBuffer(ResetCounts(dfu)) EXCEPT !.in_progress = TRUE,
                                                 !.current_state = "MANIFEST_SYNC"],
           "wait", retval)
  /\ UNCHANGED <<image, flashVars>>

RejectDownload ==
  /\ Dispatch("DNLOAD")
  /\ IF dfu.data_xfer_length = 0 THEN dfu.current_state # "DNLOAD_IDLE"
     ELSE dfu.current_state \notin {"IDLE", "DNLOAD_IDLE"}
  /\ Reset("ERR_STALLEDPKT")

\* case DFU_INT_TASK_BIT_UPLOAD: the buffer is cleared, then filled.
HandleUpload ==
  /\ Dispatch("UPLOAD")
  /\ dfu.current_state \in {"IDLE", "UPLOAD_IDLE"}
  /\ Local(ClearBuffer([dfu EXCEPT !.data_xfer_length = 0]), "read", retval)
  /\ UNCHANGED <<image, flashVars>>

RejectUpload ==
  /\ Dispatch("UPLOAD")
  /\ dfu.current_state \notin {"IDLE", "UPLOAD_IDLE"}
  /\ Reset("ERR_STALLEDPKT")

ReadBlock(block) ==
  /\ sm = "read"
  /\ Readable(dfu.alt_setting, block)
  /\ Local([dfu EXCEPT
              !.dfu_data_buffer[0] = BlockOf(dfu.alt_setting, block),
              !.data_xfer_length = 1,
              !.transfer_block = dfu.transfer_block + 1,
              !.current_state = "UPLOAD_IDLE"], "give_back", retval)
  /\ UNCHANGED <<image, flashVars>>

ReadFollowingFragment == ReadBlock(dfu.transfer_block + 1)
ReadFragment == ReadBlock(dfu.transfer_block)

ReadPastEnd ==
  /\ sm = "read"
  /\ ~Readable(dfu.alt_setting, dfu.transfer_block)
  /\ Local([dfu EXCEPT !.data_xfer_length = 0, !.transfer_block = 0,
                       !.current_state = "IDLE"], "give_back", retval)
  /\ UNCHANGED <<image, flashVars>>

\* xSemaphoreGive; the case then falls through to GETSTATUS.
GiveBack ==
  /\ sm = "give_back"
  /\ semaphore' = 1
  /\ sm' = "getstatus"
  /\ UNCHANGED <<dfu, event, retval, srvVars, bits, counter, waiting, rebooting,
                 history, flashVars>>

(***************************************************************************)
(* case DFU_INT_TASK_BIT_GETSTATUS.  The default branch, for a task that   *)
(* finds itself in DNBUSY or MANIFEST here, has no action: NeverBusyHere   *)
(* says it is dead code.                                                   *)
(***************************************************************************)
InGetStatus == sm = "getstatus" \/ Dispatch("GETSTATUS")

StayPut ==
  /\ InGetStatus
  /\ dfu.current_state \in {"UPLOAD_IDLE", "IDLE", "ERROR", "DNLOAD_IDLE"}
  /\ Move(dfu.current_state, "wait")

StartBusy ==
  /\ InGetStatus /\ dfu.in_progress
  /\ \/ dfu.current_state = "DNLOAD_SYNC" /\ Move("DNBUSY", "busy")
     \/ dfu.current_state = "MANIFEST_SYNC" /\ Move("MANIFEST", "busy")

SyncStays ==
  /\ InGetStatus /\ ~dfu.in_progress
  /\ dfu.current_state = "DNLOAD_SYNC" /\ Move("DNLOAD_SYNC", "wait")

SyncDone ==
  /\ InGetStatus /\ ~dfu.in_progress
  /\ dfu.current_state = "DNLOAD_SYNC" /\ Move("DNLOAD_IDLE", "wait")

ManifestDone ==
  /\ InGetStatus /\ ~dfu.in_progress
  /\ dfu.current_state = "MANIFEST_SYNC"
  /\ Local([dfu EXCEPT !.current_state = "IDLE"], "wait", retval)
  /\ image' = <<>>
  /\ UNCHANGED flashVars

BufferAnyFragment ==
  /\ sm = "busy" /\ dfu.current_state = "DNBUSY"
  /\ Local([dfu EXCEPT !.frag_number = @ + 1], "finish", "OK")
  /\ UNCHANGED <<image, flashVars>>

\* The fragment stays in the buffer until the sector is full.
BufferFragment ==
  /\ sm = "busy" /\ dfu.current_state = "DNBUSY"
  /\ dfu.frag_number # NumFragments - 1
  /\ Local([dfu EXCEPT !.frag_number = @ + 1], "finish", "OK")
  /\ UNCHANGED <<image, flashVars>>

FlushedInPlace(d) == ClearBuffer([d EXCEPT !.frag_number = 0])

Flushed(d) ==
  ClearBuffer([d EXCEPT !.frag_number = 0,
                        !.download_block_number = d.download_block_number + 1])

SectorFull ==
  /\ sm = "busy" /\ dfu.current_state = "DNBUSY"
  /\ dfu.frag_number = NumFragments - 1

WriteRefused ==
  /\ SectorFull
  /\ \/ RefuseAlternate(dfu.alt_setting) /\ Local(Flushed(dfu), "finish", "ERR_WRITE")
     \/ RefuseAddress(dfu.alt_setting) /\ Local(Flushed(dfu), "finish", "ERR_ADDRESS")
  /\ UNCHANGED image

StartWrite ==
  /\ SectorFull
  /\ EraseSector(dfu.alt_setting, dfu.download_block_number, dfu.dfu_data_buffer)
  /\ Local(dfu, "program", retval)
  /\ UNCHANGED image

EndWrite ==
  /\ sm = "program"
  /\ ProgramSector
  /\ Local(Flushed(dfu), "finish", "OK")
  /\ UNCHANGED image

Manifest ==
  /\ sm = "busy" /\ dfu.current_state = "MANIFEST"
  /\ MakeManifest
  /\ Local(dfu, "finish", "OK")
  /\ UNCHANGED image

FinishStillBusy ==
  /\ sm = "finish" /\ ~dfu.move_to_error /\ retval = "OK"
  /\ Local([dfu EXCEPT !.in_progress = FALSE], "wait", "OK")
  /\ UNCHANGED <<image, flashVars>>

\* The end of being busy: an error the servicer asked for, an error of the
\* flash, or back to the SYNC state.
FinishBusy ==
  /\ sm = "finish" /\ ~dfu.move_to_error /\ retval = "OK"
  /\ Local([dfu EXCEPT !.in_progress = FALSE,
                       !.current_state = IF @ = "DNBUSY" THEN "DNLOAD_SYNC"
                                         ELSE "MANIFEST_SYNC"], "wait", "OK")
  /\ UNCHANGED <<image, flashVars>>

FinishError ==
  /\ sm = "finish" /\ (dfu.move_to_error \/ retval # "OK")
  /\ Reset(IF dfu.move_to_error THEN "ERR_STALLEDPKT" ELSE retval)

ClearedEarly(r) ==
  CASE r = "CLRSTATUS"    -> {"ERROR"}
    [] r = "ABORT"        -> {"UPLOAD_IDLE", "DNLOAD_IDLE", "DNLOAD_SYNC"}
    [] r = "SETALTERNATE" -> DfuState

\* case DFU_INT_TASK_BIT_CLRSTATUS, _ABORT, _SETALTERNATE
ClearedBy(r) ==
  CASE r = "CLRSTATUS"    -> {"ERROR"}
    [] r = "ABORT"        -> {"UPLOAD_IDLE", "DNLOAD_IDLE"}
    [] r = "SETALTERNATE" -> DfuState

HandleReset(r) ==
  /\ Dispatch(r)
  /\ Reset(IF dfu.current_state \in ClearedBy(r) THEN "OK" ELSE "ERR_STALLEDPKT")

-----------------------------------------------------------------------------
HostRequest ==
  \/ \E data \in Payload : Download(data)
  \/ DownloadEnd
  \/ \E r \in {"UPLOAD", "CLRSTATUS", "ABORT"} : Simple(r)
  \/ \E alt \in Alternates : SetAlternate(alt)
  \/ \E block \in TransferBlocks : SetTransferBlock(block)
  \/ GetStatus
  \/ Detach

Servicer ==
  \/ PredictSame \/ PredictTooEarly \/ PredictStillBusy
  \/ PredictDownload \/ PredictManifest \/ PredictDone
  \/ Give \/ Notify \/ Take \/ Eat

StateMachine ==
  \/ Wake \/ CountOne \/ CountOther
  \/ ResetDownload \/ WipeBuffer \/ EnterError
  \/ HandleDownload \/ HandleDownloadEnd \/ RejectDownload
  \/ HandleUpload \/ RejectUpload \/ ReadFragment \/ ReadPastEnd \/ GiveBack
  \/ StayPut \/ StartBusy \/ SyncDone \/ ManifestDone
  \/ BufferFragment \/ WriteRefused \/ StartWrite \/ EndWrite
  \/ Manifest \/ FinishBusy \/ FinishError
  \/ \E r \in {"CLRSTATUS", "ABORT", "SETALTERNATE"} : HandleReset(r)

Next == HostRequest \/ Servicer \/ StateMachine \/ WatchdogFires \/ TimeoutExpires

Spec == Init /\ [][Next]_vars

\* Both tasks have a core to run on and are never starved, and time passes.
\* The host may stop at any moment.
Fairness == WF_vars(Servicer) /\ WF_vars(StateMachine) /\ WF_vars(TimeoutExpires)
FairSpec == Spec /\ Fairness

-----------------------------------------------------------------------------
DfuData ==
  [alt_setting : Alternate, current_state : DfuState, current_status : Status,
   in_progress : BOOLEAN, move_to_error : BOOLEAN, transfer_block : Nat,
   data_xfer_length : {0, 1}, download_block_number : Nat,
   frag_number : FragmentIndex, dfu_data_buffer : Sector,
   previous_timeout : BOOLEAN]

TypeOK ==
  /\ dfu \in DfuData
  /\ waiting \in BOOLEAN /\ rebooting \in BOOLEAN
  /\ bits \in SUBSET Request /\ counter \in Nat /\ semaphore \in {0, 1}
  /\ sm \in SmPoint /\ event \in SUBSET Request /\ retval \in Status
  /\ srv \in SrvPoint /\ req \in Request \cup {"none"} /\ seen \in DfuState
  /\ srv \in {"predict", "give", "notify"} => req # "none"
  /\ image \in Seq(Payload)
  /\ FlashTypeOK

\* dfu_state_machine.c: "notification_value should have exactly 1 bit set".
\* The counter is what makes this so: whatever the host does and however the
\* tasks interleave, a notification word that passes the count holds one request.
EventIsSingle == sm = "dispatch" => \E r \in Request : event = {r}

\* "I don't think we can actually ever get here in these states": the state
\* machine never starts on a request in DNBUSY or MANIFEST.
NeverBusyHere ==
  sm \in {"wait", "count", "dispatch", "getstatus"} =>
    dfu.current_state \notin {"DNBUSY", "MANIFEST"}

\* Every sector the device programs lies inside the partition the download was
\* given, and never in the factory image, although download_block_number,
\* total_len and dn_base_addr are reset at different times.
WriteInBounds == sm = "program" => InFlash(cur_addr) /\ cur_addr[1] # "factory"

\* The upload semaphore is given only to a servicer that waits for it.  One that
\* were left over would let the next UPLOAD read a buffer not yet filled.
SemaphoreForWaiter == semaphore = 1 => srv = "take"

\* An UPLOAD answers with the fragment before the transfer block that a
\* DFU_TRANSFERBLOCK read after it gives ("one greater than the previous block").
UploadReplyIsTheBlock ==
  srv = "eat" /\ dfu.data_xfer_length = 1 =>
    /\ PartitionOf[dfu.alt_setting] # NoBase
    /\ dfu.dfu_data_buffer[0] = BlockOf(dfu.alt_setting, dfu.transfer_block - 1)

\* Nothing is under way and nothing is waiting to be read.
Quiet == sm = "wait" /\ bits = {} /\ srv = "ready"

Sent(k, f) == image[k * NumFragments + f + 1]

\* Between two transfers of a download the device holds exactly what the host
\* sent, in order: full sectors on the flash, the rest in the buffer.
ImageAssembled ==
  Quiet /\ dfu.current_state = "DNLOAD_IDLE" =>
    /\ Len(image) = dfu.download_block_number * NumFragments + dfu.frag_number
    /\ \A f \in 0 .. dfu.frag_number - 1 :
         dfu.dfu_data_buffer[f] = Sent(dfu.download_block_number, f)
    /\ \A k \in 0 .. dfu.download_block_number - 1 : \A f \in FragmentIndex :
         flash[dn_base_addr][k][f] = Sent(k, f)

\* The state GETSTATUS announced is the state the device goes to (DNBUSY ends in
\* DNLOAD_SYNC, MANIFEST in MANIFEST_SYNC, or in an error of the flash).
Reached(told) ==
  CASE told = "DNBUSY"   -> {"DNLOAD_SYNC", "ERROR"}
    [] told = "MANIFEST" -> {"MANIFEST_SYNC", "ERROR"}
    [] OTHER             -> {told}

\* dfuIDLE is left out: a GETSTATUS that runs while dfu_int_error is under way
\* announces the dfuIDLE that error passes through.
PredictionHonoured ==
  Quiet /\ last.op = "GETSTATUS" /\ last.told # "IDLE" =>
    dfu.current_state \in Reached(last.told)

\* When the download ends, what it sent is on the flash.
HeldFrom(n) ==
  dn_base_addr # NoBase =>
    \A i \in 0 .. n - 1 :
      LET sector == i \div NumFragments
      IN  /\ sector < Capacity[dn_base_addr]
          /\ flash[dn_base_addr][sector][i % NumFragments] = image[i + 1]

AtManifest == Quiet /\ dfu.current_state = "MANIFEST_SYNC" /\ dfu.in_progress
ManifestHoldsImage == AtManifest => HeldFrom(Len(image))
ManifestHoldsSectors ==
  AtManifest => HeldFrom(NumFragments * (Len(image) \div NumFragments))

\* Every request is taken up, and every UPLOAD answered.
UploadAnswered == srv = "take" ~> srv # "take"
RequestsTaken == bits # {} ~> Quiet

(***************************************************************************)
(* The detailed tasks implement the diagram: a request is taken up when    *)
(* the switch is reached and answered when its case sets the state, and    *)
(* while the state machine is on its way into dfuERROR, the diagram is     *)
(* there already.                                                          *)
(***************************************************************************)
Failing == sm \in {"reset", "wipe", "error"} /\ retval # "OK"
DiagramState == IF Failing THEN "ERROR" ELSE dfu.current_state
DiagramRequest == IF sm \in {"dispatch", "read"} THEN event ELSE {}
Diagram == INSTANCE DfuDiagram
             WITH state <- DiagramState, request <- DiagramRequest, work <- dfu.in_progress

\* Whatever the host sends and whenever it sends it, every request is answered by an
\* edge that the DFU state diagrams label with it, the device leaves a state by such
\* an edge only (or by an error or a restart), and never stays busy for ever.
ImplementsDiagram == Diagram!Spec

-----------------------------------------------------------------------------
(***************************************************************************)
(* Why the safety properties hold: what is true between the steps.         *)
(***************************************************************************)
\* Every bit set, or taken and not counted, was given to the counter first, and
\* so was the request whose notification is still to come.
CountInv ==
  /\ Cardinality(bits) + (IF sm = "count" THEN Cardinality(event) ELSE 0)
       + (IF srv = "notify" THEN 1 ELSE 0) <= counter
  /\ sm = "count" => event # {}
  /\ EventIsSingle

\* The busy states belong to the program points of the flash operations.
BusyPoint == {"busy", "program", "finish"}
PhaseInv ==
  /\ sm \in BusyPoint <=> dfu.current_state \in {"DNBUSY", "MANIFEST"}
  /\ sm = "program" => dfu.current_state = "DNBUSY"
  /\ sm \in BusyPoint => "UPLOAD" \notin event
  /\ sm \in {"read", "give_back", "getstatus"} =>
       /\ event = {"UPLOAD"}
       /\ dfu.current_state \in {"IDLE", "UPLOAD_IDLE", "ERROR"}

\* An UPLOAD that is notified or taken has the servicer waiting for it, and the
\* semaphore has not been given yet.
UploadUnderWay ==
  \/ "UPLOAD" \in bits
  \/ "UPLOAD" \in event /\ sm \notin {"wait", "getstatus"}
UploadInv ==
  /\ UploadUnderWay => srv = "take" /\ semaphore = 0
  /\ ~("UPLOAD" \in bits /\ "UPLOAD" \in event /\ sm \notin {"wait", "getstatus"})
  /\ SemaphoreForWaiter

\* The next block to write is at most what this download has written, unless the
\* write that made it so was refused and the reset that follows is under way.
Refused == sm = "reset" \/ (sm = "finish" /\ retval # "OK")
BoundsInv ==
  /\ dn_base_addr # NoBase =>
       /\ dn_base_addr \in {"upgrade", "data"}
       /\ bytes_avail = Capacity[dn_base_addr]
       /\ total_len <= bytes_avail
  /\ Refused \/ dfu.download_block_number <= Written
  /\ dfu.current_state \in {"MANIFEST_SYNC", "MANIFEST"} => dfu.download_block_number = 0
  /\ sm = "program" =>
       /\ dn_base_addr # NoBase /\ total_len < bytes_avail
       /\ cur_addr = <<dn_base_addr, dfu.download_block_number>>

SafetyInv == TypeOK /\ CountInv /\ PhaseInv /\ UploadInv /\ BoundsInv
=============================================================================
