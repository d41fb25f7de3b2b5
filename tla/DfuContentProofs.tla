-------------------------- MODULE DfuContentProofs --------------------------
(***************************************************************************)
(* More theorems about Dfu: what an UPLOAD is answered with, the edges of  *)
(* the state diagram, and where the transfers of a download are.           *)
(***************************************************************************)
EXTENDS DfuProofs

-----------------------------------------------------------------------------
(***************************************************************************)
(* The answer to an UPLOAD                                                 *)
(***************************************************************************)
BlockReady ==
  dfu.data_xfer_length = 1 =>
    /\ PartitionOf[dfu.alt_setting] # NoBase
    /\ dfu.dfu_data_buffer[0] = BlockOf(dfu.alt_setting, dfu.transfer_block - 1)

\* While an UPLOAD is served the host is silent, so nothing else is notified; the
\* fragment is in the buffer, or the length is zero, from the moment it was read
\* until the servicer has copied it.
ReplyInv ==
  /\ "UPLOAD" \in event /\ sm \notin {"wait", "getstatus"} => bits = {}
  /\ semaphore = 1 \/ srv = "eat" => bits = {} /\ sm \in {"wait", "getstatus"}
  /\ sm \in {"wipe", "error"} /\ "UPLOAD" \in event => dfu.data_xfer_length = 0
  /\ sm = "give_back" \/ semaphore = 1 \/ srv = "eat" => BlockReady

LEMMA ReplyStep ==
  ASSUME SafetyInv, ReplyInv, [Next]_vars
  PROVE  ReplyInv'
<1>0. /\ dfu \in DfuData /\ dfu.transfer_block \in Nat /\ dfu.frag_number \in FragmentIndex
      /\ semaphore \in {0, 1} /\ 0 \in FragmentIndex
      /\ dfu.dfu_data_buffer \in Sector
  BY ZeroIsFragment DEF SafetyInv, TypeOK, DfuData
<1>1. /\ "UPLOAD" \in event /\ sm \notin {"wait", "getstatus"} => srv = "take" /\ semaphore = 0
      /\ "UPLOAD" \in bits => srv = "take" /\ semaphore = 0
      /\ semaphore = 1 => srv = "take"
      /\ sm \in {"read", "give_back", "getstatus"} =>
           event = {"UPLOAD"} /\ dfu.current_state \in {"IDLE", "UPLOAD_IDLE", "ERROR"}
      /\ sm \in BusyPoint => "UPLOAD" \notin event
  BY DEF SafetyInv, UploadInv, UploadUnderWay, SemaphoreForWaiter, PhaseInv
\* A step that leaves alone what the answer is made of.
<1>2. ASSUME UNCHANGED <<smVars, bits, semaphore, srv, flash>>,
             UNCHANGED <<dfu.data_xfer_length, dfu.alt_setting, dfu.dfu_data_buffer,
                         dfu.transfer_block>>
      PROVE  ReplyInv'
  BY <1>2 DEF ReplyInv, BlockReady, BlockOf, smVars
<1>3. CASE Outside
  <2>1. UNCHANGED <<smVars, flash>>
    BY <1>3, OutsideFrame DEF SafetyInv, flashVars
  <2>2. CASE HostRequest
    <3>1. srv = "ready" /\ srv' # "eat" /\ UNCHANGED <<bits, semaphore>>
      BY <2>2 DEF HostRequest, Download, DownloadEnd, Simple, SetAlternate, SetTransferBlock,
                  GetStatus, Detach, HostSends, Ask, shared, srvVars
    <3>2. semaphore = 0 /\ ~("UPLOAD" \in event /\ sm \notin {"wait", "getstatus"})
          /\ sm # "give_back"
      BY <1>0, <1>1, <3>1
    <3>. QED  BY <2>1, <3>1, <3>2 DEF ReplyInv, smVars
  <2>3. CASE Servicer
    <3>1. CASE Take \/ Eat
      BY <1>1, <2>1, <3>1 DEF Take, Eat, shared, ReplyInv, BlockReady, BlockOf, smVars
    <3>2. CASE Servicer /\ ~Take /\ ~Eat
      <4>1. srv \in {"predict", "give", "notify"} /\ srv' # "eat" /\ UNCHANGED semaphore
        BY <3>2 DEF Servicer, PredictSame, PredictTooEarly, PredictStillBusy, PredictDownload,
                    PredictManifest, PredictDone, Reply, Give, Notify
      <4>2. semaphore = 0 /\ ~("UPLOAD" \in event /\ sm \notin {"wait", "getstatus"})
            /\ sm # "give_back"
        BY <1>0, <1>1, <4>1
      <4>. QED  BY <2>1, <4>1, <4>2 DEF ReplyInv, smVars
    <3>. QED  BY <2>3, <3>1, <3>2
  <2>4. CASE TimeoutExpires
    BY <1>2, <2>1, <2>4 DEF TimeoutExpires, srvVars
  <2>. QED  BY <1>3, <2>2, <2>3, <2>4 DEF Outside
<1>4. CASE WatchdogFires
  BY <1>4 DEF WatchdogFires, ReplyInv
<1>5. CASE UNCHANGED vars
  BY <1>2, <1>5 DEF vars, srvVars, shared, flashVars
<1>6. CASE Wake
  BY <1>1, <1>6 DEF Wake, ReplyInv, srvVars
<1>7. CASE CountOne
  BY <1>1, <1>7 DEF CountOne, ReplyInv, srvVars
<1>8. CASE CountOther
  BY <1>1, <1>8 DEF CountOther, ReplyInv, srvVars
<1>9. CASE GiveBack
  BY <1>1, <1>9 DEF GiveBack, ReplyInv, BlockReady, BlockOf, srvVars, flashVars
<1>10. CASE Internal
  <2>. USE DEF ReplyInv, Local, srvVars, shared
  <2>0. UNCHANGED <<bits, semaphore, srv>>
    BY <1>10, InternalFrame
  \* A step with a request taken, or the end of one that gave nothing.
  <2>1. ASSUME sm \notin {"wait", "getstatus"}, sm' \notin {"give_back"},
               "UPLOAD" \in event' => "UPLOAD" \in event,
               sm' \in {"wipe", "error"} /\ "UPLOAD" \in event => dfu'.data_xfer_length = 0
        PROVE  ReplyInv'
    BY <2>0, <2>1
  <2>2. CASE ResetDownload
    <3>1. dfu'.data_xfer_length = 0 /\ sm = "reset" /\ sm' = "wipe" /\ event' = event
      BY <1>0, <2>2 DEF ResetDownload, ResetCounts, DfuData
    <3>. QED  BY <2>1, <3>1
  <2>3. CASE WipeBuffer
    <3>1. dfu'.data_xfer_length = dfu.data_xfer_length /\ sm = "wipe" /\ sm' \in {"wait", "error"}
          /\ ("UPLOAD" \in event' => "UPLOAD" \in event)
      BY <1>0, <2>3 DEF WipeBuffer, ClearBuffer, DfuData
    <3>. QED  BY <2>1, <3>1
  <2>4. CASE EnterError
    <3>1. /\ dfu'.data_xfer_length = dfu.data_xfer_length /\ sm = "error"
          /\ IF event = {"UPLOAD"} THEN sm' = "give_back" /\ event' = event
             ELSE sm' = "wait" /\ event' = {}
      BY <1>0, <2>4 DEF EnterError, EnterErrorAnd, DfuData
    <3>2. CASE event = {"UPLOAD"}
      BY <1>1, <2>0, <3>1, <3>2 DEF BlockReady
    <3>3. CASE event # {"UPLOAD"}
      BY <2>1, <3>1, <3>3
    <3>. QED  BY <3>2, <3>3
  <2>5. CASE HandleDownload \/ HandleDownloadEnd \/ RejectDownload \/ RejectUpload
    BY <2>1, <2>5 DEF HandleDownload, HandleDownloadEnd, RejectDownload, RejectUpload, Reset,
                      Dispatch
  <2>6. CASE HandleUpload
    BY <2>1, <2>6 DEF HandleUpload, Dispatch
  <2>7. CASE ReadFragment
    <3>1. /\ sm = "read" /\ sm' = "give_back" /\ event' = event
          /\ Readable(dfu.alt_setting, dfu.transfer_block)
          /\ dfu'.dfu_data_buffer[0] = BlockOf(dfu.alt_setting, dfu.transfer_block)
          /\ dfu'.transfer_block = dfu.transfer_block + 1
          /\ dfu'.alt_setting = dfu.alt_setting /\ flash' = flash
      BY <1>0, <2>7 DEF ReadFragment, ReadBlock, DfuData, flashVars, Sector
    <3>2. dfu'.transfer_block - 1 = dfu.transfer_block
      BY <1>0, <3>1
    <3>3. BlockReady'
      BY <3>1, <3>2 DEF BlockReady, BlockOf, Readable
    <3>. QED  BY <1>1, <2>0, <3>1, <3>3
  <2>8. CASE ReadPastEnd
    <3>1. sm = "read" /\ sm' = "give_back" /\ event' = event /\ dfu'.data_xfer_length = 0
      BY <1>0, <2>8 DEF ReadPastEnd, DfuData
    <3>. QED  BY <1>1, <2>0, <3>1 DEF BlockReady
  <2>9. CASE StayPut
    <3>1. /\ dfu'.data_xfer_length = dfu.data_xfer_length /\ dfu'.alt_setting = dfu.alt_setting
          /\ dfu'.dfu_data_buffer = dfu.dfu_data_buffer
          /\ dfu'.transfer_block = dfu.transfer_block
          /\ sm' = "wait" /\ event' = {} /\ UNCHANGED flash
      BY <1>0, <2>9 DEF StayPut, Move, DfuData, flashVars
    <3>. QED  BY <2>0, <3>1 DEF BlockReady, BlockOf
  <2>10. CASE StartBusy \/ SyncDone \/ ManifestDone
    <3>1. sm = "dispatch" /\ event = {"GETSTATUS"} /\ sm' \in {"busy", "wait"}
          /\ ("UPLOAD" \in event' => "UPLOAD" \in event)
      BY <1>1, <2>10 DEF StartBusy, SyncDone, ManifestDone, InGetStatus, Dispatch, Move
    <3>. QED  BY <2>1, <3>1
  <2>11. CASE BufferFragment \/ WriteRefused \/ StartWrite \/ EndWrite \/ Manifest
              \/ FinishBusy \/ FinishError
    <3>1. sm \in BusyPoint /\ sm' \notin {"give_back", "wipe", "error"}
          /\ ("UPLOAD" \in event' => "UPLOAD" \in event)
      BY <2>11 DEF BufferFragment, WriteRefused, SectorFull, StartWrite, EndWrite, Manifest,
                   FinishBusy, FinishError, Reset, BusyPoint
    <3>. QED  BY <2>1, <3>1 DEF BusyPoint
  <2>12. CASE \E r \in {"CLRSTATUS", "ABORT", "SETALTERNATE"} : HandleReset(r)
    BY <2>1, <2>12 DEF HandleReset, Reset, Dispatch
  <2>. QED
    BY <1>10, <2>2, <2>3, <2>4, <2>5, <2>6, <2>7, <2>8, <2>9, <2>10, <2>11, <2>12 DEF Internal
<1>. QED  BY <1>3, <1>4, <1>5, <1>6, <1>7, <1>8, <1>9, <1>10, StepKinds

LEMMA ReplyHolds == Spec => []ReplyInv
<1>1. Init => ReplyInv
  BY DEF Init, TasksInit, ReplyInv
<1>. QED  BY <1>1, ReplyStep, Safety, PTL DEF Spec

\* Whatever the host sent before and however the tasks interleave, the answer to an
\* UPLOAD is the fragment before the block that DFU_TRANSFERBLOCK then reads.
THEOREM UploadsAnswerTheirBlock == Spec => []UploadReplyIsTheBlock
<1>1. ReplyInv => UploadReplyIsTheBlock
  BY DEF ReplyInv, BlockReady, UploadReplyIsTheBlock
<1>. QED  BY <1>1, ReplyHolds, PTL

-----------------------------------------------------------------------------
(***************************************************************************)
(* The state diagram                                                       *)
(***************************************************************************)
\* Only an error is entered as one, and only a block that the state allows is read.
EdgeInv ==
  /\ sm = "error" => retval # "OK"
  /\ sm = "read" => dfu.current_state \in {"IDLE", "UPLOAD_IDLE"}

LEMMA EdgeStep ==
  ASSUME SafetyInv, EdgeInv, [Next]_vars
  PROVE  EdgeInv'
<1>0. dfu \in DfuData
  BY DEF SafetyInv, TypeOK
<1>1. CASE Outside
  BY <1>1, OutsideFrame DEF SafetyInv, EdgeInv, smVars
<1>2. CASE WatchdogFires \/ Wake \/ CountOne \/ CountOther \/ GiveBack
  BY <1>2 DEF WatchdogFires, Wake, CountOne, CountOther, GiveBack, EdgeInv
<1>3. CASE UNCHANGED vars
  BY <1>3 DEF vars, smVars, EdgeInv
<1>4. CASE Internal
  <2>1. CASE WipeBuffer
    BY <2>1 DEF WipeBuffer, Local, EdgeInv
  <2>2. CASE HandleUpload
    BY <1>0, <2>2 DEF HandleUpload, ClearBuffer, Local, DfuData, EdgeInv
  <2>3. CASE Internal /\ ~WipeBuffer /\ ~HandleUpload
    <3>1. sm' \notin {"read", "error"}
      BY <2>3 DEF Internal, ResetDownload, EnterError, EnterErrorAnd, HandleDownload,
                  HandleDownloadEnd, RejectDownload, RejectUpload, ReadFragment, ReadBlock,
                  ReadPastEnd, StayPut, StartBusy, SyncDone, ManifestDone, BufferFragment,
                  WriteRefused, StartWrite, EndWrite, Manifest, FinishBusy, FinishError,
                  HandleReset, Move, Reset, Local
    <3>. QED  BY <3>1 DEF EdgeInv
  <2>. QED  BY <1>4, <2>1, <2>2, <2>3
<1>. QED  BY <1>1, <1>2, <1>3, <1>4, StepKinds

\* A step that the diagram does not see.
DiagramStutter == UNCHANGED <<DiagramState, DiagramRequest, dfu.in_progress, rebooting>>

LEMMA DiagramStep ==
  ASSUME SafetyInv, SafetyInv', EdgeInv, [Next]_vars
  PROVE  Diagram!Next \/ DiagramStutter
<1>0. dfu \in DfuData /\ dfu.current_state \in DfuState /\ sm \in SmPoint
  BY DEF SafetyInv, TypeOK, DfuData
\* The diagram's state and request, from the point of the task.
<1>1. /\ sm \notin {"reset", "wipe", "error"} => DiagramState = dfu.current_state
      /\ sm' \notin {"reset", "wipe", "error"} => DiagramState' = dfu'.current_state
      /\ sm \in {"dispatch", "read"} => DiagramRequest = event
      /\ sm' \in {"dispatch", "read"} => DiagramRequest' = event'
      /\ sm \notin {"dispatch", "read"} => DiagramRequest = {}
      /\ sm' \notin {"dispatch", "read"} => DiagramRequest' = {}
  BY DEF DiagramState, DiagramRequest, Failing
\* Outside the flash operations the device is not busy.
<1>2. /\ sm \in {"count", "dispatch", "read", "getstatus"} =>
           dfu.current_state \in Diagram!Settled
      /\ sm \in BusyPoint => dfu.current_state \in {"DNBUSY", "MANIFEST"}
      /\ sm \in {"read", "give_back", "getstatus"} => event = {"UPLOAD"}
  BY <1>0 DEF SafetyInv, PhaseInv, BusyPoint, Diagram!Settled, DfuState
<1>3. ASSUME NEW status, Reset(status), status \in Status
      PROVE  /\ dfu'.in_progress = FALSE /\ DiagramRequest' = {} /\ UNCHANGED rebooting
             /\ DiagramState' = IF status = "OK" THEN "IDLE" ELSE "ERROR"
  BY <1>0, <1>1, <1>3 DEF Reset, Local, ResetFlags, DfuData, shared, DiagramState, Failing
\* A request that the dispatch refuses, or that clears the state.
<1>4. ASSUME NEW r, NEW status \in Status, Dispatch(r), Reset(status)
      PROVE  /\ DiagramRequest = {r} /\ DiagramRequest' = {} /\ UNCHANGED rebooting
             /\ DiagramState = dfu.current_state /\ DiagramState \in Diagram!Settled
             /\ DiagramState' = IF status = "OK" THEN "IDLE" ELSE "ERROR"
             /\ dfu'.in_progress = FALSE
  BY <1>1, <1>2, <1>3, <1>4 DEF Dispatch
<1>5. CASE Outside
  <2>1. dfu'.in_progress = dfu.in_progress
    <3>0. dfu \in DfuData
      BY <1>0
    <3>1. CASE HostRequest
      <4>1. CASE (\E data \in Payload : Download(data)) \/ DownloadEnd
        BY <3>0, <4>1 DEF Download, DownloadEnd, DfuData
      <4>2. CASE \/ \E r \in {"UPLOAD", "CLRSTATUS", "ABORT"} : Simple(r)
                 \/ \E alt \in Alternates : SetAlternate(alt)
                 \/ \E block \in TransferBlocks : SetTransferBlock(block)
        BY <3>0, <4>2 DEF Simple, SetAlternate, SetTransferBlock, DfuData
      <4>3. CASE GetStatus \/ Detach
        BY <4>3 DEF GetStatus, Detach
      <4>. QED  BY <3>1, <4>1, <4>2, <4>3 DEF HostRequest
    <3>2. CASE Servicer
      BY <3>0, <3>2 DEF Servicer, PredictSame, PredictTooEarly, PredictStillBusy,
                        PredictDownload, PredictManifest, PredictDone, Give, Notify, Take,
                        Eat, DfuData
    <3>. QED  BY <1>5, <3>1, <3>2 DEF Outside, TimeoutExpires
  <2>2. UNCHANGED rebooting \/ Detach
    <3>1. CASE HostRequest
      BY <3>1, Zenon DEF HostRequest, Download, DownloadEnd, Simple, SetAlternate,
                  SetTransferBlock, GetStatus, shared
    <3>2. CASE Servicer
      BY <3>2 DEF Servicer, PredictSame, PredictTooEarly, PredictStillBusy, PredictDownload,
                  PredictManifest, PredictDone, Reply, Give, Notify, Take, Eat, shared
    <3>. QED  BY <1>5, <3>1, <3>2 DEF Outside, TimeoutExpires
  <2>3. UNCHANGED <<smVars, dfu.current_state>>
    BY <1>5, OutsideFrame DEF SafetyInv
  <2>4. UNCHANGED <<DiagramState, DiagramRequest>>
    BY <2>3 DEF DiagramState, DiagramRequest, Failing, smVars
  <2>5. CASE UNCHANGED rebooting
    BY <2>1, <2>4, <2>5 DEF DiagramStutter
  <2>6. CASE Detach
    BY <2>1, <2>4, <2>6 DEF Detach, Diagram!Detach, Diagram!Next
  <2>. QED  BY <2>2, <2>5, <2>6
<1>6. CASE WatchdogFires
  <2>1. /\ rebooting /\ rebooting' = FALSE
        /\ dfu'.in_progress = FALSE /\ DiagramState' = "IDLE" /\ DiagramRequest' = {}
    BY <1>1, <1>6 DEF WatchdogFires, PowerOn
  <2>. QED  BY <2>1 DEF Diagram!Next, Diagram!Restart
<1>7. CASE UNCHANGED vars
  BY <1>7 DEF vars, smVars, shared, DiagramStutter, DiagramState, DiagramRequest, Failing
<1>8. CASE Wake \/ GiveBack
  BY <1>1, <1>8 DEF Wake, GiveBack, DiagramStutter
<1>9. CASE CountOne
  <2>1. \E r \in Diagram!Requests : event' = {r}
    BY <1>9 DEF CountOne, SafetyInv, CountInv, EventIsSingle, Request, Diagram!Requests
  <2>2. /\ DiagramState = dfu.current_state /\ DiagramState \in Diagram!Settled
        /\ DiagramRequest = {} /\ DiagramRequest' = event'
        /\ UNCHANGED <<DiagramState, dfu.in_progress, rebooting>>
    BY <1>1, <1>2, <1>9 DEF CountOne
  <2>. QED  BY <2>1, <2>2 DEF Diagram!Next, Diagram!TakeUp
<1>10. CASE CountOther
  <2>1. /\ DiagramState \in Diagram!Settled /\ DiagramRequest = {} /\ DiagramRequest' = {}
        /\ UNCHANGED rebooting
    BY <1>1, <1>2, <1>10 DEF CountOther
  <2>2. dfu'.in_progress = FALSE /\ DiagramState' = "ERROR"
    BY <1>0, <1>10 DEF CountOther, ResetFlags, DfuData, DiagramState, Failing
  <2>. QED  BY <2>1, <2>2 DEF Diagram!Next, Diagram!Merge
<1>11. CASE Internal
  <2>. USE DEF Local, Move, ResetFlags, ResetCounts, ClearBuffer, Flushed, DfuData, Dispatch
  <2>0. UNCHANGED rebooting
    BY <1>11, InternalFrame DEF shared
  <2>1. CASE ResetDownload \/ WipeBuffer
    BY <1>0, <1>1, <2>0, <2>1 DEF ResetDownload, WipeBuffer, DiagramStutter, DiagramState, Failing
  <2>2. CASE EnterError
    <3>1. /\ dfu'.current_state = "ERROR" /\ dfu'.in_progress = dfu.in_progress
          /\ Failing /\ sm = "error" /\ sm' \in {"give_back", "wait"}
      BY <1>0, <2>2 DEF EnterError, EnterErrorAnd, Failing, EdgeInv
    <3>. QED  BY <1>1, <2>0, <3>1 DEF DiagramStutter, DiagramState
  <2>3. CASE HandleDownload
    <3>1. /\ dfu.current_state \in {"IDLE", "DNLOAD_IDLE"} /\ sm = "dispatch" /\ sm' = "wait"
          /\ event = {"DNLOAD"} /\ dfu'.current_state = "DNLOAD_SYNC" /\ dfu'.in_progress = TRUE
      BY <1>0, <2>3 DEF HandleDownload
    <3>. QED
      BY <1>1, <2>0, <3>1 DEF Diagram!Next, Diagram!Answer, Diagram!Download, Diagram!Edge
  <2>4. CASE HandleDownloadEnd
    <3>1. /\ dfu.current_state = "DNLOAD_IDLE" /\ sm = "dispatch" /\ sm' = "wait"
          /\ event = {"DNLOAD"} /\ dfu'.current_state = "MANIFEST_SYNC"
          /\ dfu'.in_progress = TRUE
      BY <1>0, <2>4 DEF HandleDownloadEnd
    <3>. QED
      BY <1>1, <2>0, <3>1 DEF Diagram!Next, Diagram!Answer, Diagram!Download, Diagram!Edge
  <2>5. CASE RejectDownload
    <3>1. dfu.current_state # "DNLOAD_IDLE" /\ Dispatch("DNLOAD") /\ Reset("ERR_STALLEDPKT")
      BY <2>5 DEF RejectDownload
    <3>2. "ERR_STALLEDPKT" \in Status
      BY DEF Status
    <3>. QED
      BY <1>4, <3>1, <3>2 DEF Diagram!Next, Diagram!Answer, Diagram!Download, Diagram!Refuse,
                              Diagram!Edge
  <2>6. CASE RejectUpload
    <3>1. /\ dfu.current_state \notin {"IDLE", "UPLOAD_IDLE"}
          /\ Dispatch("UPLOAD") /\ Reset("ERR_STALLEDPKT")
      BY <2>6 DEF RejectUpload
    <3>2. "ERR_STALLEDPKT" \in Status
      BY DEF Status
    <3>. QED
      BY <1>4, <3>1, <3>2 DEF Diagram!Next, Diagram!Answer, Diagram!Upload, Diagram!Refuse,
                              Diagram!Edge
  <2>7. CASE HandleUpload
    <3>1. /\ sm = "dispatch" /\ sm' = "read" /\ event' = event
          /\ dfu'.current_state = dfu.current_state /\ dfu'.in_progress = dfu.in_progress
      BY <1>0, <2>7 DEF HandleUpload
    <3>. QED  BY <1>1, <2>0, <3>1 DEF DiagramStutter
  <2>8. CASE ReadFragment \/ ReadPastEnd
    <3>1. /\ dfu.current_state \in {"IDLE", "UPLOAD_IDLE"} /\ sm = "read" /\ sm' = "give_back"
          /\ dfu'.in_progress = dfu.in_progress
          /\ dfu'.current_state \in {"IDLE", "UPLOAD_IDLE"}
      BY <1>0, <2>8 DEF ReadFragment, ReadBlock, ReadPastEnd, EdgeInv
    <3>. QED
      BY <1>1, <1>2, <2>0, <3>1 DEF Diagram!Next, Diagram!Answer, Diagram!Upload, Diagram!Edge
  <2>9. CASE StayPut
    <3>1. /\ dfu'.current_state = dfu.current_state /\ dfu'.in_progress = dfu.in_progress
          /\ sm' = "wait"
          /\ dfu.current_state \in Diagram!Settled \ {"DNLOAD_SYNC", "MANIFEST_SYNC"}
      BY <1>0, <2>9 DEF StayPut, Diagram!Settled
    <3>2. CASE sm = "getstatus"
      BY <1>1, <2>0, <3>1, <3>2 DEF DiagramStutter
    <3>3. CASE sm = "dispatch" /\ event = {"GETSTATUS"}
      BY <1>1, <2>0, <3>1, <3>3 DEF Diagram!Next, Diagram!Answer, Diagram!GetStatus, Diagram!Edge
    <3>. QED  BY <2>9, <3>2, <3>3 DEF StayPut, InGetStatus
  \* In dfuDNLOAD-SYNC and dfuMANIFEST-SYNC, GETSTATUS was asked for, by no UPLOAD.
  <2>10. CASE StartBusy \/ SyncDone \/ ManifestDone
    <3>1. /\ sm = "dispatch" /\ event = {"GETSTATUS"} /\ sm' \in {"busy", "wait"}
          /\ dfu'.in_progress = dfu.in_progress
      BY <1>0, <2>10 DEF StartBusy, SyncDone, ManifestDone, InGetStatus, SafetyInv, PhaseInv
    <3>2. \/ /\ dfu.in_progress
             /\ \/ dfu.current_state = "DNLOAD_SYNC" /\ dfu'.current_state = "DNBUSY"
                \/ dfu.current_state = "MANIFEST_SYNC" /\ dfu'.current_state = "MANIFEST"
          \/ /\ ~dfu.in_progress
             /\ \/ dfu.current_state = "DNLOAD_SYNC" /\ dfu'.current_state = "DNLOAD_IDLE"
                \/ dfu.current_state = "MANIFEST_SYNC" /\ dfu'.current_state = "IDLE"
      BY <1>0, <2>10 DEF StartBusy, SyncDone, ManifestDone
    <3>. QED
      BY <1>1, <2>0, <3>1, <3>2 DEF Diagram!Next, Diagram!Answer, Diagram!GetStatus, Diagram!Edge
  <2>11. CASE BufferFragment \/ WriteRefused \/ StartWrite \/ EndWrite \/ Manifest
    <3>1. /\ sm \in BusyPoint /\ sm' \in BusyPoint /\ dfu'.current_state = dfu.current_state
          /\ dfu'.in_progress = dfu.in_progress
      BY <1>0, <2>11 DEF BufferFragment, WriteRefused, SectorFull, StartWrite, EndWrite,
                         Manifest, BusyPoint
    <3>. QED  BY <1>1, <2>0, <3>1 DEF DiagramStutter, BusyPoint
  <2>12. CASE FinishBusy
    <3>1. /\ dfu'.in_progress = FALSE /\ sm = "finish" /\ sm' = "wait"
          /\ \/ dfu.current_state = "DNBUSY" /\ dfu'.current_state = "DNLOAD_SYNC"
             \/ dfu.current_state = "MANIFEST" /\ dfu'.current_state = "MANIFEST_SYNC"
      BY <1>0, <1>2, <2>12 DEF FinishBusy, BusyPoint
    <3>. QED  BY <1>1, <2>0, <3>1 DEF Diagram!Next, Diagram!EndWork
  <2>13. CASE FinishError
    <3>1. PICK status \in Status \ {"OK"} : Reset(status)
      BY <2>13 DEF FinishError, SafetyInv, TypeOK, Status
    <3>2. sm = "finish" /\ dfu.current_state \in {"DNBUSY", "MANIFEST"}
      BY <1>2, <2>13 DEF FinishError, BusyPoint
    <3>. QED  BY <1>1, <1>3, <3>1, <3>2 DEF Diagram!Next, Diagram!EndWork
  <2>14. CASE \E r \in {"CLRSTATUS", "ABORT", "SETALTERNATE"} : HandleReset(r)
    <3>1. PICK r \in {"CLRSTATUS", "ABORT", "SETALTERNATE"} : HandleReset(r)
      BY <2>14
    <3>2. /\ Dispatch(r)
          /\ IF dfu.current_state \in ClearedBy(r) THEN Reset("OK") ELSE Reset("ERR_STALLEDPKT")
          /\ "OK" \in Status /\ "ERR_STALLEDPKT" \in Status
      BY <3>1 DEF HandleReset, Status
    <3>. USE DEF Diagram!Next, Diagram!Answer, Diagram!Clear, Diagram!Refuse, Diagram!Edge
    <3>3. CASE r = "CLRSTATUS"
      <4>1. ClearedBy(r) = {"ERROR"}
        BY <3>3 DEF ClearedBy
      <4>. QED  BY <1>4, <3>2, <3>3, <4>1 DEF Diagram!ClearStatus
    <3>4. CASE r = "ABORT"
      <4>1. ClearedBy(r) = {"UPLOAD_IDLE", "DNLOAD_IDLE"}
        BY <3>4 DEF ClearedBy
      <4>. QED
        BY <1>4, <3>2, <3>4, <4>1 DEF Diagram!Abort, Diagram!AbortRefused, Diagram!Aborted
    <3>5. CASE r = "SETALTERNATE"
      <4>1. ClearedBy(r) = DfuState
        BY <3>5 DEF ClearedBy
      <4>. QED  BY <1>0, <1>4, <3>2, <3>5, <4>1 DEF Diagram!SetAlternate
    <3>. QED  BY <3>1, <3>3, <3>4, <3>5
  <2>. QED
    BY <1>11, <2>1, <2>2, <2>3, <2>4, <2>5, <2>6, <2>7, <2>8, <2>9, <2>10, <2>11, <2>12,
       <2>13, <2>14 DEF Internal
<1>. QED  BY <1>5, <1>6, <1>7, <1>8, <1>9, <1>10, <1>11, StepKinds

\* Whatever the host sends and whenever, the two tasks answer each request they take
\* up by an edge that the DFU state diagrams label with it, and move along no other:
\* the safety part of ImplementsDiagram, for every instance.
THEOREM FollowsTheDiagram == Spec => Diagram!Init /\ [][Diagram!Next]_(Diagram!vars)
<1>1. Init => Diagram!Init
  BY DEF Init, TasksInit, PowerOn, Diagram!Init, DiagramState, DiagramRequest, Failing
<1>2. Init => EdgeInv
  BY DEF Init, TasksInit, EdgeInv
<1>3. SafetyInv /\ SafetyInv' /\ EdgeInv /\ [Next]_vars => [Diagram!Next]_(Diagram!vars)
  BY DiagramStep DEF DiagramStutter, Diagram!vars
<1>. QED  BY <1>1, <1>2, <1>3, EdgeStep, Safety, PTL DEF Spec
=============================================================================
