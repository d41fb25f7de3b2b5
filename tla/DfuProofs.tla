----------------------------- MODULE DfuProofs -----------------------------
(***************************************************************************)
(* Theorems about Dfu, for every host: any pacing, any repertoire, any     *)
(* size of flash and of sector.                                            *)
(***************************************************************************)
EXTENDS Dfu, FiniteSetTheorems, TLAPS

-----------------------------------------------------------------------------
(***************************************************************************)
(* Typing.                                                                 *)
(***************************************************************************)
LEMMA ZeroIsFragment == 0 \in FragmentIndex
  BY FlashAssumption DEF FragmentIndex

LEMMA BlankSectorType == BlankSector \in Sector
  BY DEF BlankSector, Sector

\* The parts of dfu_int_reset_state keep the structure well formed.
LEMMA ResetType ==
  ASSUME NEW d \in DfuData
  PROVE  /\ ResetFlags(d) \in DfuData
         /\ ResetCounts(d) \in DfuData
         /\ ClearBuffer(d) \in DfuData
         /\ Flushed(d) \in DfuData
<1>1. ResetFlags(d) \in DfuData
  BY DEF ResetFlags, DfuData, DfuState, Status
<1>2. ResetCounts(d) \in DfuData
  BY ZeroIsFragment DEF ResetCounts, DfuData
<1>3. ASSUME NEW e \in DfuData PROVE ClearBuffer(e) \in DfuData
  BY <1>3, BlankSectorType DEF ClearBuffer, DfuData
<1>4. ASSUME NEW n \in Nat
      PROVE  [d EXCEPT !.frag_number = 0, !.download_block_number = n] \in DfuData
  BY ZeroIsFragment DEF DfuData
<1>5. d.download_block_number + 1 \in Nat
  BY DEF DfuData
<1>. QED  BY <1>1, <1>2, <1>3, <1>4, <1>5 DEF Flushed

LEMMA InitTyped == Init => TypeOK
<1>. SUFFICES ASSUME Init PROVE TypeOK
  OBVIOUS
<1>1. dfu \in DfuData
  BY ZeroIsFragment, BlankSectorType
     DEF Init, TasksInit, PowerOn, DfuData, DfuState, Status, Alternate
<1>2. FlashTypeOK
  <2>1. \A p \in Partition : flash[p] \in [0 .. Capacity[p] - 1 -> Sector]
    BY FlashAssumption, Zenon DEF Init, FlashInit
  <2>2. DOMAIN flash = Partition
    BY FlashAssumption, Zenon DEF Init, FlashInit
  <2>. QED
    BY <2>1, <2>2, BlankSectorType DEF Init, FlashInit, FlashTypeOK, NoWrite, Address
<1>3. image \in Seq(Payload)
  BY DEF Init, TasksInit
<1>. QED
  BY <1>1, <1>2, <1>3 DEF Init, TasksInit, TypeOK, SmPoint, SrvPoint, Status, DfuState

\* A step of the state machine that goes through Local is typed when its target is.
LEMMA LocalTyped ==
  ASSUME TypeOK, NEW d \in DfuData, NEW point \in SmPoint, NEW status \in Status,
         Local(d, point, status), image' \in Seq(Payload), FlashTypeOK'
  PROVE  TypeOK'
  BY DEF TypeOK, Local, srvVars, shared

LEMMA FlashUnchanged == ASSUME TypeOK, UNCHANGED flashVars PROVE FlashTypeOK'
  BY DEF TypeOK, FlashTypeOK, flashVars

\* dfu_common_write_to_flash selects a partition, and its size with it.
LEMMA BaseTyped ==
  ASSUME FlashTypeOK, NEW alt \in Alternate, Writable(alt)
  PROVE  Base(alt) \in Partition /\ Written \in Nat /\ Room(alt) \in Nat
  BY FlashAssumption, SMTT(20)
     DEF FlashTypeOK, Writable, Base, Written, Room, PartitionOf, Partition, Alternate, NoBase

\* Writing one sector keeps the flash a function from partitions to sectors.
LEMMA SectorWritten ==
  ASSUME FlashTypeOK, NEW p, NEW s, NEW c \in Sector,
         flash' = [flash EXCEPT ![p][s] = c]
  PROVE  /\ DOMAIN flash' = Partition
         /\ \A q \in Partition : flash'[q] \in [0 .. Capacity[q] - 1 -> Sector]
  BY DEF FlashTypeOK

LEMMA HostTyped == ASSUME TypeOK, HostRequest PROVE TypeOK'
<1>1. CASE \E data \in Payload : Download(data)
  <2>1. PICK data \in Payload : Download(data)
    BY <1>1
  <2>2. dfu' \in DfuData
    <3>1. dfu \in DfuData /\ dfu.dfu_data_buffer \in Sector /\ dfu.frag_number \in FragmentIndex
      BY DEF TypeOK, DfuData
    <3>2. [dfu.dfu_data_buffer EXCEPT ![dfu.frag_number] = data] \in Sector
      BY <3>1 DEF Sector
    <3>. QED  BY <2>1, <3>1, <3>2 DEF Download, DfuData
  <2>3. FlashTypeOK'
    BY <2>1, FlashUnchanged DEF Download
  <2>. QED
    BY <2>1, <2>2, <2>3 DEF Download, TypeOK, Ask, smVars, shared, Request, SrvPoint
<1>2. CASE DownloadEnd
  BY <1>2, FlashUnchanged
     DEF DownloadEnd, TypeOK, DfuData, Ask, smVars, shared, Request, SrvPoint
<1>3. CASE \E r \in {"UPLOAD", "CLRSTATUS", "ABORT"} : Simple(r)
  BY <1>3, FlashUnchanged DEF Simple, TypeOK, Ask, smVars, shared, Request, SrvPoint
<1>4. CASE \E alt \in Alternates : SetAlternate(alt)
  BY <1>4, FlashUnchanged, DfuAssumption
     DEF SetAlternate, TypeOK, DfuData, Ask, smVars, shared, Request, SrvPoint
<1>5. CASE \E block \in TransferBlocks : SetTransferBlock(block)
  BY <1>5, FlashUnchanged, DfuAssumption
     DEF SetTransferBlock, TypeOK, DfuData, smVars, srvVars, shared
<1>6. CASE GetStatus
  BY <1>6, FlashUnchanged
     DEF GetStatus, TypeOK, DfuData, smVars, shared, Request, SrvPoint
<1>7. CASE Detach
  BY <1>7, FlashUnchanged DEF Detach, TypeOK, smVars, srvVars
<1>. QED  BY <1>1, <1>2, <1>3, <1>4, <1>5, <1>6, <1>7 DEF HostRequest

LEMMA ServicerTyped == ASSUME TypeOK, Servicer PROVE TypeOK'
<1>1. ASSUME NEW state \in DfuState, NEW timeout \in BOOLEAN, NEW notify \in BOOLEAN,
             srv = "predict", Reply(state, timeout, notify), dfu' \in DfuData
      PROVE  TypeOK'
  BY <1>1, FlashUnchanged DEF Reply, TypeOK, smVars, SrvPoint, DfuState
<1>2. dfu \in DfuData /\ dfu.current_state \in DfuState /\ dfu.previous_timeout \in BOOLEAN
  BY DEF TypeOK, DfuData
<1>4. \A t \in BOOLEAN : [dfu EXCEPT !.previous_timeout = t] \in DfuData
  BY <1>2 DEF DfuData
<1>5. CASE PredictSame
  BY <1>1, <1>2, <1>4, <1>5 DEF PredictSame
<1>6. CASE PredictTooEarly
  <2>1. dfu' \in DfuData
    BY <1>2, <1>6 DEF PredictTooEarly, DfuData
  <2>. QED  BY <1>1, <1>6, <2>1 DEF PredictTooEarly, DfuState
<1>7. CASE PredictStillBusy
  BY <1>1, <1>2, <1>7 DEF PredictStillBusy
<1>8. CASE PredictDownload
  BY <1>1, <1>4, <1>8 DEF PredictDownload, DfuState
<1>9. CASE PredictManifest
  BY <1>1, <1>4, <1>9 DEF PredictManifest, DfuState
<1>10. CASE PredictDone
  BY <1>1, <1>4, <1>10 DEF PredictDone, DfuState
<1>11. CASE Give
  BY <1>11, FlashUnchanged DEF Give, TypeOK, smVars, history, SrvPoint
<1>12. CASE Notify
  <2>1. bits' \in SUBSET Request
    BY <1>12 DEF Notify, TypeOK
  <2>. QED
    BY <1>12, <2>1, FlashUnchanged DEF Notify, TypeOK, smVars, history, SrvPoint
<1>13. CASE Take
  BY <1>13, FlashUnchanged DEF Take, TypeOK, smVars, history, SrvPoint
<1>14. CASE Eat
  BY <1>14, FlashUnchanged DEF Eat, TypeOK, smVars, shared, history, SrvPoint
<1>. QED
  BY <1>5, <1>6, <1>7, <1>8, <1>9, <1>10, <1>11, <1>12, <1>13, <1>14 DEF Servicer

\* A step that only moves to another state, and one that resets the structure.
LEMMA MoveTyped ==
  ASSUME TypeOK, NEW state \in DfuState, NEW point \in SmPoint, Move(state, point)
  PROVE  TypeOK'
<1>1. [dfu EXCEPT !.current_state = state] \in DfuData /\ retval \in Status
  BY DEF TypeOK, DfuData
<1>2. image' \in Seq(Payload) /\ FlashTypeOK'
  BY FlashUnchanged DEF Move, TypeOK
<1>. QED  BY <1>1, <1>2, LocalTyped DEF Move

LEMMA ResetTyped ==
  ASSUME TypeOK, NEW status \in Status, Reset(status)
  PROVE  TypeOK'
<1>1. ResetFlags(dfu) \in DfuData
  BY ResetType DEF TypeOK
<1>2. image' \in Seq(Payload) /\ FlashTypeOK' /\ "reset" \in SmPoint
  BY FlashUnchanged DEF Reset, TypeOK, SmPoint
<1>. QED  BY <1>1, <1>2, LocalTyped DEF Reset

\* A step that leaves the flash and the history alone.
LEMMA StepTyped ==
  ASSUME TypeOK, NEW d \in DfuData, NEW point \in SmPoint, NEW status \in Status,
         Local(d, point, status), UNCHANGED <<image, flashVars>>
  PROVE  TypeOK'
<1>1. image' \in Seq(Payload) /\ FlashTypeOK'
  BY FlashUnchanged DEF TypeOK
<1>. QED  BY <1>1, LocalTyped

LEMMA DivisionBound ==
  ASSUME NEW n \in Nat \ {0}, NEW b \in Nat, NEW c \in Nat, b < c * n
  PROVE  b \div n \in 0 .. c - 1 /\ b % n \in 0 .. n - 1
<1>1. b = n * (b \div n) + (b % n) /\ b % n \in 0 .. n - 1 /\ b \div n \in Nat
  OBVIOUS
<1>2. ASSUME b \div n >= c PROVE FALSE
  <2>1. n * (b \div n) >= n * c
    BY <1>1, <1>2
  <2>. QED  BY <1>1, <2>1
<1>. QED  BY <1>1, <1>2

\* An UPLOAD inside the image reads what the flash holds.
LEMMA FragmentRead ==
  ASSUME FlashTypeOK, NEW alt \in Alternate, NEW block \in Nat, Readable(alt, block)
  PROVE  BlockOf(alt, block) \in Payload \cup {Blank}
<1>. DEFINE p == PartitionOf[alt]
<1>1. p \in Partition
  BY DEF Readable, PartitionOf, Alternate, Partition, NoBase
<1>2. ImageBlocks[p] \in Nat /\ Capacity[p] \in Nat /\ ImageBlocks[p] <= Capacity[p] * NumFragments
  BY <1>1, FlashAssumption
<1>3. block < Capacity[p] * NumFragments
  BY <1>1, <1>2, FlashAssumption DEF Readable
<1>4. block \div NumFragments \in 0 .. Capacity[p] - 1 /\ block % NumFragments \in FragmentIndex
  BY <1>2, <1>3, FlashAssumption, DivisionBound DEF FragmentIndex
<1>5. flash[p][block \div NumFragments] \in Sector
  BY <1>1, <1>4 DEF FlashTypeOK
<1>. QED  BY <1>4, <1>5 DEF BlockOf, Sector

LEMMA StateMachineTyped == ASSUME TypeOK, StateMachine PROVE TypeOK'
<1>. DEFINE Fields == /\ dfu \in DfuData /\ dfu.current_state \in DfuState
                      /\ retval \in Status
<1>0. Fields
  BY DEF TypeOK, DfuData
<1>1. CASE Wake
  BY <1>1, FlashUnchanged DEF Wake, TypeOK, srvVars, history, SmPoint
<1>2. CASE CountOne
  <2>1. counter' \in Nat
    BY <1>2 DEF CountOne, Took, TypeOK
  <2>. QED
    BY <1>2, <2>1, FlashUnchanged DEF CountOne, TypeOK, srvVars, history, SmPoint
<1>3. CASE CountOther
  <2>1. counter' \in Nat
    BY <1>3 DEF CountOther, Took, TypeOK
  <2>2. dfu' \in DfuData
    BY <1>0, <1>3, ResetType DEF CountOther
  <2>. QED
    BY <1>3, <2>1, <2>2, FlashUnchanged DEF CountOther, TypeOK, srvVars, SmPoint, Status
<1>4. CASE ResetDownload
  BY <1>0, <1>4, ResetType, StepTyped DEF ResetDownload, SmPoint
<1>5. CASE WipeBuffer
  BY <1>0, <1>5, ResetType, StepTyped DEF WipeBuffer, SmPoint
<1>6. CASE EnterError
  <2>1. [dfu EXCEPT !.current_state = "ERROR", !.current_status = retval] \in DfuData
    BY <1>0 DEF DfuData, DfuState
  <2>. QED  BY <1>6, <2>1, StepTyped DEF EnterError, EnterErrorAnd, SmPoint, Status
<1>7. CASE HandleDownload
  <2>1. [dfu EXCEPT !.in_progress = TRUE, !.current_state = "DNLOAD_SYNC"] \in DfuData
    BY <1>0 DEF DfuData, DfuState
  <2>. QED  BY <1>0, <1>7, <2>1, StepTyped DEF HandleDownload, SmPoint
<1>8. CASE HandleDownloadEnd
  <2>1. ClearBuffer(ResetCounts(dfu)) \in DfuData
    BY <1>0, ResetType
  <2>2. [ClearBuffer(ResetCounts(dfu)) EXCEPT !.in_progress = TRUE,
                                              !.current_state = "MANIFEST_SYNC"] \in DfuData
    BY <2>1 DEF DfuData, DfuState
  <2>. QED  BY <1>0, <1>8, <2>2, StepTyped DEF HandleDownloadEnd, SmPoint
<1>9. CASE RejectDownload
  BY <1>9, ResetTyped DEF RejectDownload, Status
<1>10. CASE HandleUpload
  <2>1. [dfu EXCEPT !.data_xfer_length = 0] \in DfuData
    BY <1>0 DEF DfuData
  <2>. QED  BY <1>0, <1>10, <2>1, ResetType, StepTyped DEF HandleUpload, SmPoint
<1>11. CASE RejectUpload
  BY <1>11, ResetTyped DEF RejectUpload, Status
<1>12. CASE ReadFragment
  <2>. DEFINE b == BlockOf(dfu.alt_setting, dfu.transfer_block)
  <2>1. b \in Payload \cup {Blank}
    BY <1>0, <1>12, FragmentRead DEF ReadFragment, ReadBlock, TypeOK, DfuData
  <2>2. /\ [dfu.dfu_data_buffer EXCEPT ![0] = b] \in Sector
        /\ dfu.transfer_block + 1 \in Nat
    <3>. HIDE DEF b
    <3>1. dfu.dfu_data_buffer \in Sector /\ dfu.transfer_block \in Nat
      BY <1>0 DEF DfuData
    <3>2. [dfu.dfu_data_buffer EXCEPT ![0] = b] \in Sector
      BY <2>1, <3>1 DEF Sector
    <3>. QED  BY <3>1, <3>2
  <2>3. ASSUME NEW n \in Nat
        PROVE  [dfu EXCEPT !.dfu_data_buffer[0] = b, !.data_xfer_length = 1,
                           !.transfer_block = n, !.current_state = "UPLOAD_IDLE"] \in DfuData
    <3>. HIDE DEF b
    <3>. QED  BY <1>0, <2>2 DEF DfuData, DfuState
  <2>. QED  BY <1>0, <1>12, <2>2, <2>3, StepTyped DEF ReadFragment, ReadBlock, SmPoint
<1>13. CASE ReadPastEnd
  <2>1. [dfu EXCEPT !.data_xfer_length = 0, !.transfer_block = 0,
                    !.current_state = "IDLE"] \in DfuData
    BY <1>0 DEF DfuData, DfuState
  <2>. QED  BY <1>0, <1>13, <2>1, StepTyped DEF ReadPastEnd, SmPoint
<1>14. CASE GiveBack
  BY <1>14, FlashUnchanged DEF GiveBack, TypeOK, srvVars, history, SmPoint
<1>15. CASE StayPut
  BY <1>0, <1>15, MoveTyped DEF StayPut, SmPoint
<1>16. CASE StartBusy
  BY <1>16, MoveTyped DEF StartBusy, SmPoint, DfuState
<1>17. CASE SyncDone
  BY <1>17, MoveTyped DEF SyncDone, SmPoint, DfuState
<1>18. CASE ManifestDone
  <2>1. [dfu EXCEPT !.current_state = "IDLE"] \in DfuData
    BY <1>0 DEF DfuData, DfuState
  <2>2. image' \in Seq(Payload) /\ FlashTypeOK' /\ "wait" \in SmPoint
    BY <1>18, FlashUnchanged DEF ManifestDone, SmPoint
  <2>. QED  BY <1>0, <1>18, <2>1, <2>2, LocalTyped DEF ManifestDone
<1>19. CASE BufferFragment
  <2>1. dfu.frag_number + 1 \in FragmentIndex
    BY <1>0, <1>19, FlashAssumption DEF BufferFragment, DfuData, FragmentIndex
  <2>2. [dfu EXCEPT !.frag_number = dfu.frag_number + 1] \in DfuData
    BY <1>0, <2>1 DEF DfuData
  <2>. QED  BY <1>19, <2>2, StepTyped DEF BufferFragment, SmPoint, Status
<1>20. CASE WriteRefused
  <2>1. FlashTypeOK'
    BY <1>0, <1>20, FlashUnchanged, BaseTyped
       DEF WriteRefused, RefuseAlternate, RefuseAddress, SelectBase, TypeOK, FlashTypeOK, DfuData
  <2>2. image' \in Seq(Payload)
    BY <1>20 DEF WriteRefused, TypeOK
  <2>. QED
    BY <1>0, <1>20, <2>1, <2>2, ResetType, LocalTyped DEF WriteRefused, SmPoint, Status
<1>21. CASE StartWrite
  <2>1. dfu.alt_setting \in Alternate /\ dfu.download_block_number \in Nat
          /\ dfu.dfu_data_buffer \in Sector
    BY <1>0 DEF DfuData
  <2>2. /\ DOMAIN flash' = Partition
        /\ \A q \in Partition : flash'[q] \in [0 .. Capacity[q] - 1 -> Sector]
    BY <1>21, BlankSectorType, SectorWritten DEF StartWrite, EraseSector, TypeOK
  <2>3. FlashTypeOK'
    BY <1>21, <2>1, <2>2, BaseTyped
       DEF StartWrite, EraseSector, SelectBase, TypeOK, FlashTypeOK, Address
  <2>4. image' \in Seq(Payload) /\ "program" \in SmPoint
    BY <1>21 DEF StartWrite, TypeOK, SmPoint
  <2>. QED  BY <1>0, <1>21, <2>3, <2>4, LocalTyped DEF StartWrite
<1>22. CASE EndWrite
  <2>1. /\ DOMAIN flash' = Partition
        /\ \A q \in Partition : flash'[q] \in [0 .. Capacity[q] - 1 -> Sector]
    BY <1>22, SectorWritten DEF EndWrite, ProgramSector, TypeOK, FlashTypeOK
  <2>2. FlashTypeOK'
    BY <1>22, <2>1, BlankSectorType
       DEF EndWrite, ProgramSector, TypeOK, FlashTypeOK, Address, NoWrite
  <2>3. image' \in Seq(Payload) /\ "finish" \in SmPoint /\ "OK" \in Status
    BY <1>22 DEF EndWrite, TypeOK, SmPoint, Status
  <2>. QED  BY <1>0, <1>22, <2>2, <2>3, ResetType, LocalTyped DEF EndWrite
<1>23. CASE Manifest
  <2>1. FlashTypeOK'
    BY <1>23 DEF Manifest, MakeManifest, TypeOK, FlashTypeOK
  <2>2. image' \in Seq(Payload) /\ "finish" \in SmPoint /\ "OK" \in Status
    BY <1>23 DEF Manifest, TypeOK, SmPoint, Status
  <2>. QED  BY <1>0, <1>23, <2>1, <2>2, LocalTyped DEF Manifest
<1>24. CASE FinishBusy
  <2>. DEFINE state == IF dfu.current_state = "DNBUSY" THEN "DNLOAD_SYNC" ELSE "MANIFEST_SYNC"
  <2>1. [dfu EXCEPT !.in_progress = FALSE, !.current_state = state] \in DfuData
    BY <1>0 DEF DfuData, DfuState
  <2>. QED  BY <1>24, <2>1, StepTyped DEF FinishBusy, SmPoint, Status
<1>25. CASE FinishError
  BY <1>0, <1>25, ResetTyped DEF FinishError, Status
<1>26. CASE \E r \in {"CLRSTATUS", "ABORT", "SETALTERNATE"} : HandleReset(r)
  BY <1>26, ResetTyped DEF HandleReset, Status
<1>. QED
  BY <1>1, <1>2, <1>3, <1>4, <1>5, <1>6, <1>7, <1>8, <1>9, <1>10, <1>11, <1>12, <1>13,
     <1>14, <1>15, <1>16, <1>17, <1>18, <1>19, <1>20, <1>21, <1>22, <1>23, <1>24, <1>25,
     <1>26 DEF StateMachine

LEMMA RestTyped == ASSUME TypeOK, WatchdogFires \/ TimeoutExpires PROVE TypeOK'
<1>1. CASE WatchdogFires
  <2>1. dfu' \in DfuData
    BY <1>1, ZeroIsFragment, BlankSectorType
       DEF WatchdogFires, PowerOn, DfuData, DfuState, Status, Alternate
  <2>2. FlashTypeOK'
    BY <1>1, BlankSectorType
       DEF WatchdogFires, FlashReset, TypeOK, FlashTypeOK, NoWrite, Address
  <2>3. image' \in Seq(Payload)
    BY <1>1 DEF WatchdogFires
  <2>. QED
    BY <1>1, <2>1, <2>2, <2>3 DEF WatchdogFires, TypeOK, SmPoint, SrvPoint, Status, DfuState
<1>2. CASE TimeoutExpires
  BY <1>2, FlashUnchanged DEF TimeoutExpires, TypeOK, smVars, srvVars, history
<1>. QED  BY <1>1, <1>2

LEMMA StutterTyped == ASSUME TypeOK, UNCHANGED vars PROVE TypeOK'
  BY FlashUnchanged DEF vars, TypeOK, smVars, srvVars, shared, history

LEMMA StepPreservesType == TypeOK /\ [Next]_vars => TypeOK'
  BY HostTyped, ServicerTyped, StateMachineTyped, RestTyped, StutterTyped DEF Next

\* Every access of the two tasks, and every write to the flash, keeps dfu_data,
\* the notifications and the flash well formed: fragments stay inside the buffer
\* and sectors inside their partitions.
THEOREM Typing == Spec => []TypeOK
<1>. QED  BY InitTyped, StepPreservesType, PTL DEF Spec

-----------------------------------------------------------------------------
(***************************************************************************)
(* What the servicer leaves alone: its steps, and the timer's, touch       *)
(* neither the state-machine task nor the flash, nor the state and the     *)
(* block number that task works with.                                      *)
(***************************************************************************)
Outside == HostRequest \/ Servicer \/ TimeoutExpires

LEMMA OutsideFrame ==
  ASSUME TypeOK, Outside
  PROVE  /\ UNCHANGED <<smVars, flashVars>>
         /\ dfu'.current_state = dfu.current_state
         /\ dfu'.download_block_number = dfu.download_block_number
<1>. USE DEF TypeOK, DfuData
<1>1. CASE HostRequest
  BY <1>1 DEF HostRequest, Download, DownloadEnd, Simple, SetAlternate, SetTransferBlock,
              GetStatus, Detach
<1>2. CASE Servicer
  BY <1>2 DEF Servicer, PredictSame, PredictTooEarly, PredictStillBusy, PredictDownload,
              PredictManifest, PredictDone, Reply, Give, Notify, Take, Eat
<1>3. CASE TimeoutExpires
  BY <1>3 DEF TimeoutExpires
<1>. QED  BY <1>1, <1>2, <1>3 DEF Outside

-----------------------------------------------------------------------------
(***************************************************************************)
(* The request counter.                                                    *)
(***************************************************************************)
LEMMA WordSize ==
  ASSUME NEW w \in SUBSET Request, NEW r \in Request
  PROVE  /\ Cardinality(w) \in Nat
         /\ Cardinality(w \cup {r}) <= Cardinality(w) + 1
         /\ Cardinality({}) = 0
         /\ w # {} => Cardinality(w) >= 1
         /\ Cardinality(w) <= 1 /\ w # {} => \E x \in Request : w = {x}
<1>1. IsFiniteSet(Request)
  <2>1. \A S, x : IsFiniteSet(S) => IsFiniteSet(S \cup {x})
    BY FS_AddElement
  <2>2. Request = ((((({} \cup {"DNLOAD"}) \cup {"UPLOAD"}) \cup {"GETSTATUS"})
                     \cup {"CLRSTATUS"}) \cup {"ABORT"}) \cup {"SETALTERNATE"}
    BY DEF Request
  <2>. HIDE DEF Request
  <2>. QED  BY <2>1, <2>2, FS_EmptySet, ZenonT(40)
<1>2. IsFiniteSet(w)
  BY <1>1, FS_Subset
<1>3. Cardinality(w) \in Nat
  BY <1>2, FS_CardinalityType
<1>4. Cardinality(w \cup {r}) <= Cardinality(w) + 1
  <2>1. Cardinality(w \cup {r}) = IF r \in w THEN Cardinality(w) ELSE Cardinality(w) + 1
    BY <1>2, FS_AddElement
  <2>. QED  BY <1>3, <2>1
<1>5. Cardinality({}) = 0
  BY FS_EmptySet
<1>6. w # {} => Cardinality(w) >= 1
  BY <1>2, <1>3, FS_EmptySet
<1>7. ASSUME Cardinality(w) <= 1, w # {} PROVE \E x \in Request : w = {x}
  <2>1. Cardinality(w) = 1
    BY <1>3, <1>6, <1>7
  <2>2. PICK x : w = {x}
    BY <1>2, <2>1, FS_Singleton
  <2>. QED  BY <2>2
<1>. QED  BY <1>3, <1>4, <1>5, <1>6, <1>7

(***************************************************************************)
(* The steps of the state-machine task between two waits that neither take *)
(* a notification nor give the semaphore.                                  *)
(***************************************************************************)
Internal ==
  \/ ResetDownload \/ WipeBuffer \/ EnterError
  \/ HandleDownload \/ HandleDownloadEnd \/ RejectDownload
  \/ HandleUpload \/ RejectUpload \/ ReadFragment \/ ReadPastEnd
  \/ StayPut \/ StartBusy \/ SyncDone \/ ManifestDone
  \/ BufferFragment \/ WriteRefused \/ StartWrite \/ EndWrite
  \/ Manifest \/ FinishBusy \/ FinishError
  \/ \E r \in {"CLRSTATUS", "ABORT", "SETALTERNATE"} : HandleReset(r)

LEMMA InternalFrame ==
  ASSUME Internal
  PROVE  /\ UNCHANGED <<srvVars, shared>>
         /\ sm \notin {"wait", "count"} /\ sm' \notin {"count", "dispatch"}
         /\ event' = IF sm' = "wait" THEN {} ELSE event
<1>1. CASE ResetDownload \/ WipeBuffer \/ EnterError
  BY <1>1 DEF ResetDownload, WipeBuffer, EnterError, EnterErrorAnd, Local
<1>2. CASE HandleDownload \/ HandleDownloadEnd \/ RejectDownload
  BY <1>2 DEF HandleDownload, HandleDownloadEnd, RejectDownload, Reset, Local, Dispatch
<1>3. CASE HandleUpload \/ RejectUpload \/ ReadFragment \/ ReadPastEnd
  BY <1>3 DEF HandleUpload, RejectUpload, ReadFragment, ReadBlock, ReadPastEnd, Reset, Local, Dispatch
<1>4. CASE StayPut \/ StartBusy \/ SyncDone \/ ManifestDone
  BY <1>4 DEF StayPut, StartBusy, SyncDone, ManifestDone, InGetStatus, Move, Local, Dispatch
<1>5. CASE BufferFragment \/ WriteRefused \/ StartWrite
  BY <1>5 DEF BufferFragment, WriteRefused, StartWrite, SectorFull, Local
<1>6. CASE EndWrite \/ Manifest \/ FinishBusy \/ FinishError
  BY <1>6 DEF EndWrite, Manifest, FinishBusy, FinishError, Reset, Local
<1>7. CASE \E r \in {"CLRSTATUS", "ABORT", "SETALTERNATE"} : HandleReset(r)
  BY <1>7 DEF HandleReset, Reset, Local, Dispatch
<1>. QED  BY <1>1, <1>2, <1>3, <1>4, <1>5, <1>6, <1>7 DEF Internal

\* The kinds of step an invariant has to survive.
LEMMA StepKinds ==
  [Next]_vars => \/ Outside \/ Internal \/ WatchdogFires \/ UNCHANGED vars
                 \/ Wake \/ CountOne \/ CountOther \/ GiveBack
  BY DEF Next, Outside, Internal, StateMachine

LEMMA CountStep ==
  ASSUME TypeOK, TypeOK', CountInv, [Next]_vars
  PROVE  CountInv'
<1>. DEFINE Counting  == IF sm = "count" THEN Cardinality(event) ELSE 0
            Notifying == IF srv = "notify" THEN 1 ELSE 0
            Given     == Cardinality(bits) + Counting + Notifying
<1>0. /\ bits \in SUBSET Request /\ event \in SUBSET Request /\ counter \in Nat
      /\ "DNLOAD" \in Request
  BY DEF TypeOK, Request
<1>1. /\ Cardinality(bits) \in Nat /\ Cardinality(event) \in Nat /\ Cardinality({}) = 0
      /\ event # {} => Cardinality(event) >= 1
      /\ Cardinality(event) <= 1 /\ event # {} => \E x \in Request : event = {x}
  BY <1>0, WordSize
<1>2. Given <= counter /\ (sm = "count" => event # {}) /\ EventIsSingle
  BY DEF CountInv
\* A step that gives, notifies and counts nothing.
<1>3. ASSUME UNCHANGED <<bits, counter>>, srv' = "notify" => srv = "notify",
             sm' = "count" => sm = "count" /\ event' = event,
             sm' = "dispatch" => sm = "dispatch" /\ event' = event
      PROVE  CountInv'
  <2>1. Cardinality(bits') = Cardinality(bits) /\ counter' = counter
    BY <1>3
  <2>2. Counting \in Nat /\ Counting' \in Nat /\ Counting' <= Counting
    BY <1>1, <1>3
  <2>3. Notifying \in Nat /\ Notifying' \in Nat /\ Notifying' <= Notifying
    BY <1>3
  <2>4. Given' <= counter'
    <3>. HIDE DEF Counting, Notifying
    <3>. QED  BY <1>0, <1>1, <1>2, <2>1, <2>2, <2>3
  <2>5. (sm' = "count" => event' # {}) /\ EventIsSingle'
    BY <1>2, <1>3 DEF EventIsSingle
  <2>. QED  BY <2>4, <2>5 DEF CountInv
<1>4. CASE Outside
  <2>1. UNCHANGED smVars
    BY <1>4, OutsideFrame
  <2>2. CASE Give
    BY <1>0, <1>1, <1>2, <2>1, <2>2 DEF Give, CountInv, EventIsSingle, smVars
  <2>3. CASE Notify
    <3>1. req \in Request
      BY <2>3 DEF Notify, TypeOK
    <3>2. Cardinality(bits') \in Nat /\ Cardinality(bits') <= Cardinality(bits) + 1
      BY <1>0, <2>3, <3>1, WordSize DEF Notify
    <3>. QED
      BY <1>0, <1>1, <1>2, <2>1, <2>3, <3>2 DEF Notify, CountInv, EventIsSingle, smVars
  <2>4. CASE HostRequest
    <3>1. UNCHANGED <<bits, counter>> /\ srv' # "notify"
      BY <2>4 DEF HostRequest, Download, DownloadEnd, Simple, SetAlternate, SetTransferBlock,
                  GetStatus, Detach, Ask, HostSends, shared, srvVars
    <3>. QED  BY <1>3, <2>1, <3>1 DEF smVars
  <2>5. CASE Servicer /\ ~Give /\ ~Notify
    <3>1. UNCHANGED <<bits, counter>> /\ srv' # "notify"
      BY <2>5 DEF Servicer, PredictSame, PredictTooEarly, PredictStillBusy, PredictDownload,
                  PredictManifest, PredictDone, Reply, Take, Eat, shared
    <3>. QED  BY <1>3, <2>1, <3>1 DEF smVars
  <2>6. CASE TimeoutExpires
    BY <1>3, <2>1, <2>6 DEF TimeoutExpires, smVars, srvVars
  <2>. QED  BY <1>4, <2>2, <2>3, <2>4, <2>5, <2>6 DEF Outside
<1>5. CASE Internal
  BY <1>3, <1>5, InternalFrame DEF shared, srvVars
<1>6. CASE WatchdogFires
  BY <1>1, <1>6 DEF WatchdogFires, CountInv, EventIsSingle
<1>7. CASE UNCHANGED vars
  BY <1>3, <1>7 DEF vars, smVars, srvVars, shared
<1>8. CASE Wake
  BY <1>0, <1>1, <1>2, <1>8 DEF Wake, CountInv, EventIsSingle, srvVars
<1>9. CASE CountOne
  <2>1. Cardinality(event) <= 1 /\ event # {} /\ Cardinality(bits) = 0 /\ srv # "notify"
    BY <1>0, <1>1, <1>2, <1>9 DEF CountOne
  <2>. QED
    BY <1>0, <1>1, <1>9, <2>1 DEF CountOne, Took, CountInv, EventIsSingle, srvVars
<1>10. CASE CountOther
  BY <1>0, <1>1, <1>2, <1>10 DEF CountOther, Took, CountInv, EventIsSingle, srvVars
<1>11. CASE GiveBack
  BY <1>3, <1>11 DEF GiveBack, srvVars
<1>. QED
  BY <1>4, <1>5, <1>6, <1>7, <1>8, <1>9, <1>10, <1>11, StepKinds

-----------------------------------------------------------------------------
(***************************************************************************)
(* The busy states.  PhaseInv speaks of the state-machine task alone.      *)
(***************************************************************************)
LEMMA PhaseStep ==
  ASSUME TypeOK, EventIsSingle, PhaseInv, [Next]_vars
  PROVE  PhaseInv'
<1>0. dfu \in DfuData
  BY DEF TypeOK
<1>1. CASE Outside
  BY <1>1, OutsideFrame DEF PhaseInv, smVars, BusyPoint
<1>2. CASE WatchdogFires
  BY <1>2 DEF WatchdogFires, PowerOn, PhaseInv, BusyPoint
<1>3. CASE UNCHANGED vars
  BY <1>3 DEF vars, smVars, PhaseInv, BusyPoint
<1>4. CASE Wake \/ CountOne \/ GiveBack
  BY <1>4 DEF Wake, CountOne, GiveBack, PhaseInv, BusyPoint
<1>5. CASE CountOther
  BY <1>0, <1>5 DEF CountOther, ResetFlags, DfuData, PhaseInv, BusyPoint
<1>6. CASE Internal
  <2>. USE DEF Local, Reset, Move, ResetFlags, ResetCounts, ClearBuffer, Flushed, DfuData,
               Dispatch, PhaseInv, BusyPoint
  <2>1. CASE ResetDownload \/ WipeBuffer
    BY <1>0, <2>1 DEF ResetDownload, WipeBuffer
  <2>2. CASE EnterError
    BY <1>0, <2>2 DEF EnterError, EnterErrorAnd
  <2>3. CASE HandleDownload
    BY <1>0, <2>3 DEF HandleDownload
  <2>4. CASE HandleDownloadEnd
    BY <1>0, <2>4 DEF HandleDownloadEnd
  <2>5. CASE RejectDownload
    BY <1>0, <2>5 DEF RejectDownload
  <2>6. CASE HandleUpload
    BY <1>0, <2>6 DEF HandleUpload
  <2>7. CASE RejectUpload
    BY <1>0, <2>7 DEF RejectUpload
  <2>8. CASE ReadFragment \/ ReadPastEnd
    BY <1>0, <2>8 DEF ReadFragment, ReadBlock, ReadPastEnd
  <2>9. CASE StayPut
    BY <1>0, <2>9 DEF StayPut, InGetStatus
  <2>10. CASE StartBusy
    BY <1>0, <2>10 DEF StartBusy, InGetStatus
  <2>11. CASE SyncDone \/ ManifestDone
    BY <1>0, <2>11 DEF SyncDone, ManifestDone, InGetStatus
  <2>12. CASE BufferFragment
    BY <1>0, <2>12 DEF BufferFragment
  <2>13. CASE WriteRefused
    BY <1>0, <2>13 DEF WriteRefused, SectorFull
  <2>14. CASE StartWrite
    BY <1>0, <2>14 DEF StartWrite, SectorFull
  <2>15. CASE EndWrite
    BY <1>0, <2>15 DEF EndWrite
  <2>16. CASE Manifest
    BY <1>0, <2>16 DEF Manifest
  <2>17. CASE FinishBusy
    BY <1>0, <2>17 DEF FinishBusy
  <2>18. CASE FinishError
    BY <1>0, <2>18 DEF FinishError
  <2>19. CASE \E r \in {"CLRSTATUS", "ABORT", "SETALTERNATE"} : HandleReset(r)
    BY <1>0, <2>19 DEF HandleReset
  <2>. QED
    BY <1>6, <2>1, <2>2, <2>3, <2>4, <2>5, <2>6, <2>7, <2>8, <2>9, <2>10, <2>11, <2>12,
       <2>13, <2>14, <2>15, <2>16, <2>17, <2>18, <2>19 DEF Internal
<1>. QED  BY <1>1, <1>2, <1>3, <1>4, <1>5, <1>6, StepKinds

-----------------------------------------------------------------------------
(***************************************************************************)
(* The upload semaphore.                                                   *)
(***************************************************************************)
LEMMA UploadStep ==
  ASSUME TypeOK, PhaseInv, UploadInv, [Next]_vars
  PROVE  UploadInv'
\* A step that notifies and gives nothing, and takes up no request.
<1>1. ASSUME UNCHANGED <<bits, semaphore>>, srv = "take" => srv' = "take",
             "UPLOAD" \in event' /\ sm' \notin {"wait", "getstatus"} =>
               "UPLOAD" \in event /\ sm \notin {"wait", "getstatus"}
      PROVE  UploadInv'
  BY <1>1 DEF UploadInv, UploadUnderWay, SemaphoreForWaiter
<1>2. CASE Outside
  <2>1. UNCHANGED smVars
    BY <1>2, OutsideFrame
  <2>2. CASE Notify
    BY <2>1, <2>2 DEF Notify, TypeOK, smVars, UploadInv, UploadUnderWay, SemaphoreForWaiter
  <2>3. CASE Take
    BY <2>1, <2>3 DEF Take, TypeOK, smVars, UploadInv, UploadUnderWay, SemaphoreForWaiter
  <2>4. CASE HostRequest
    <3>1. UNCHANGED <<bits, semaphore>> /\ srv = "ready"
      BY <2>4 DEF HostRequest, Download, DownloadEnd, Simple, SetAlternate, SetTransferBlock,
                  GetStatus, Detach, HostSends, shared
    <3>. QED  BY <1>1, <2>1, <3>1 DEF smVars
  <2>5. CASE Servicer /\ ~Notify /\ ~Take
    <3>1. UNCHANGED <<bits, semaphore>> /\ srv # "take"
      BY <2>5 DEF Servicer, PredictSame, PredictTooEarly, PredictStillBusy, PredictDownload,
                  PredictManifest, PredictDone, Reply, Give, Eat, shared
    <3>. QED  BY <1>1, <2>1, <3>1 DEF smVars
  <2>6. CASE TimeoutExpires
    BY <1>1, <2>1, <2>6 DEF TimeoutExpires, smVars, srvVars
  <2>. QED  BY <1>2, <2>2, <2>3, <2>4, <2>5, <2>6 DEF Outside
<1>3. CASE WatchdogFires
  BY <1>3 DEF WatchdogFires, UploadInv, UploadUnderWay, SemaphoreForWaiter
<1>4. CASE UNCHANGED vars
  BY <1>1, <1>4 DEF vars, smVars, srvVars, shared
<1>5. CASE Wake
  BY <1>5 DEF Wake, srvVars, UploadInv, UploadUnderWay, SemaphoreForWaiter
<1>6. CASE CountOne \/ CountOther
  BY <1>1, <1>6 DEF CountOne, CountOther, srvVars
<1>7. CASE GiveBack
  BY <1>7 DEF GiveBack, srvVars, PhaseInv, UploadInv, UploadUnderWay, SemaphoreForWaiter
<1>8. CASE Internal
  <2>1. UNCHANGED <<bits, semaphore, srv>>
    BY <1>8, InternalFrame DEF srvVars, shared
  <2>2. sm' # "wait" /\ "UPLOAD" \in event => sm # "getstatus"
    BY <1>8 DEF Internal, ResetDownload, WipeBuffer, EnterError, EnterErrorAnd, HandleDownload,
                HandleDownloadEnd, RejectDownload, HandleUpload, RejectUpload, ReadFragment, ReadBlock,
                ReadPastEnd, StayPut, StartBusy, SyncDone, ManifestDone, BufferFragment,
                WriteRefused, SectorFull, StartWrite, EndWrite, Manifest, FinishBusy,
                FinishError, HandleReset, Dispatch, InGetStatus, Move, Local, PhaseInv
  <2>. QED  BY <1>1, <1>8, <2>1, <2>2, InternalFrame
<1>. QED  BY <1>2, <1>3, <1>4, <1>5, <1>6, <1>7, <1>8, StepKinds

-----------------------------------------------------------------------------
(***************************************************************************)
(* The block number, the length written and the partition.                 *)
(***************************************************************************)
\* A step that leaves the flash variables alone, and either leaves the block
\* number too or clears it or is a reset under way.
LEMMA BoundsFrame ==
  ASSUME TypeOK, BoundsInv, UNCHANGED flashVars, sm' # "program",
         \/ Refused'
         \/ dfu'.download_block_number = 0
         \/ ~Refused /\ dfu'.download_block_number = dfu.download_block_number,
         dfu'.current_state \in {"MANIFEST_SYNC", "MANIFEST"} =>
           \/ dfu'.download_block_number = 0
           \/ /\ dfu.current_state \in {"MANIFEST_SYNC", "MANIFEST"}
              /\ dfu'.download_block_number = dfu.download_block_number
  PROVE  BoundsInv'
<1>1. Written' = Written /\ Written \in Nat
  BY DEF flashVars, Written, TypeOK, FlashTypeOK
<1>2. Refused' \/ dfu'.download_block_number <= Written'
  BY <1>1 DEF BoundsInv
<1>. QED  BY <1>1, <1>2 DEF BoundsInv, flashVars

\* What dfu_common_write_to_flash selects, for a download that is within bounds.
LEMMA SelectedBase ==
  ASSUME TypeOK, BoundsInv, NEW alt \in Alternate, Writable(alt), SelectBase(alt)
  PROVE  /\ dn_base_addr' = Base(alt) /\ dn_base_addr' \in {"upgrade", "data"}
         /\ bytes_avail' = Capacity[dn_base_addr']
         /\ total_len' = Written /\ total_len' <= bytes_avail'
         /\ HasRoom(alt) => total_len' < bytes_avail'
<1>1. /\ PartitionOf[alt] \in {"upgrade", "data"}
      /\ \A p \in Partition : Capacity[p] \in Nat
  BY FlashAssumption DEF Writable, PartitionOf, Alternate
<1>2. total_len \in Nat /\ bytes_avail \in Nat
  BY DEF TypeOK, FlashTypeOK
<1>3. CASE dn_base_addr = NoBase
  BY <1>1, <1>3 DEF SelectBase, Base, Written, Room, HasRoom, Partition
<1>4. CASE dn_base_addr # NoBase
  BY <1>2, <1>4 DEF SelectBase, Base, Written, Room, HasRoom, BoundsInv
<1>. QED  BY <1>3, <1>4

LEMMA BoundsStep ==
  ASSUME TypeOK, TypeOK', PhaseInv, BoundsInv, [Next]_vars
  PROVE  BoundsInv'
<1>0. /\ dfu \in DfuData /\ dfu.download_block_number \in Nat
      /\ total_len \in Nat /\ bytes_avail \in Nat /\ dfu.alt_setting \in Alternate
  BY DEF TypeOK, DfuData, FlashTypeOK
<1>1. CASE Outside
  BY <1>1, OutsideFrame DEF BoundsInv, Refused, Written, smVars, flashVars
<1>2. CASE WatchdogFires
  BY <1>2 DEF WatchdogFires, FlashReset, PowerOn, BoundsInv, Refused, Written
<1>3. CASE UNCHANGED vars
  BY <1>3 DEF vars, smVars, flashVars, BoundsInv, Refused, Written
<1>4. CASE Wake \/ CountOne \/ GiveBack
  BY <1>4, BoundsFrame DEF Wake, CountOne, GiveBack, Refused
<1>5. CASE CountOther
  BY <1>0, <1>5, BoundsFrame DEF CountOther, Refused, ResetFlags, DfuData
<1>6. CASE Internal
  <2>. USE DEF Local, Move, ResetFlags, ResetCounts, ClearBuffer, Flushed, DfuData, Dispatch
  <2>1. ASSUME NEW status \in Status, Reset(status) PROVE BoundsInv'
    BY <1>0, <2>1, BoundsFrame DEF Reset, Refused
  <2>2. CASE ResetDownload
    <3>1. dfu'.download_block_number = 0 /\ sm' # "program" /\ UNCHANGED flashVars
      BY <1>0, <2>2 DEF ResetDownload
    <3>. QED  BY <3>1, BoundsFrame
  <2>3. CASE WipeBuffer
    BY <1>0, <2>3, BoundsFrame DEF WipeBuffer, Refused
  <2>4. CASE EnterError
    BY <1>0, <2>4, BoundsFrame DEF EnterError, EnterErrorAnd, Refused
  <2>5. CASE HandleDownload
    BY <1>0, <2>5, BoundsFrame DEF HandleDownload, Refused
  <2>6. CASE HandleDownloadEnd
    <3>1. dfu'.download_block_number = 0 /\ sm' # "program" /\ UNCHANGED flashVars
      BY <1>0, <2>6 DEF HandleDownloadEnd
    <3>. QED  BY <3>1, BoundsFrame
  <2>7. CASE RejectDownload \/ RejectUpload
    BY <2>1, <2>7 DEF RejectDownload, RejectUpload, Status
  <2>8. CASE HandleUpload
    BY <1>0, <2>8, BoundsFrame DEF HandleUpload, Refused
  <2>9. CASE ReadFragment
    BY <1>0, <2>9, BoundsFrame DEF ReadFragment, ReadBlock, Refused
  <2>10. CASE ReadPastEnd
    BY <1>0, <2>10, BoundsFrame DEF ReadPastEnd, Refused
  <2>11. CASE StayPut \/ SyncDone
    BY <1>0, <2>11, BoundsFrame DEF StayPut, SyncDone, InGetStatus, Refused
  <2>12. CASE StartBusy
    BY <1>0, <2>12, BoundsFrame DEF StartBusy, InGetStatus, Refused
  <2>13. CASE ManifestDone
    BY <1>0, <2>13, BoundsFrame DEF ManifestDone, InGetStatus, Refused
  <2>14. CASE BufferFragment
    BY <1>0, <2>14, BoundsFrame DEF BufferFragment, Refused
  <2>15. CASE WriteRefused
    <3>1. sm' = "finish" /\ Refused' /\ dfu'.current_state = "DNBUSY"
      BY <1>0, <2>15 DEF WriteRefused, SectorFull, Refused
    <3>2. dn_base_addr' # NoBase =>
            /\ dn_base_addr' \in {"upgrade", "data"}
            /\ bytes_avail' = Capacity[dn_base_addr'] /\ total_len' <= bytes_avail'
      BY <1>0, <2>15, SelectedBase DEF WriteRefused, RefuseAlternate, RefuseAddress, flashVars, BoundsInv
    <3>. QED  BY <3>1, <3>2 DEF BoundsInv
  <2>16. CASE StartWrite
    <3>1. /\ dn_base_addr' \in {"upgrade", "data"}
          /\ bytes_avail' = Capacity[dn_base_addr'] /\ total_len' < bytes_avail'
          /\ cur_addr' = <<dn_base_addr', dfu.download_block_number>>
          /\ total_len' = Written
      BY <1>0, <2>16, SelectedBase DEF StartWrite, EraseSector
    <3>2. sm' = "program" /\ dfu' = dfu /\ dfu.current_state = "DNBUSY" /\ ~Refused
      BY <2>16 DEF StartWrite, SectorFull, Refused
    <3>3. dn_base_addr' # NoBase /\ total_len' \in Nat /\ bytes_avail' \in Nat
      BY <3>1 DEF NoBase, TypeOK, FlashTypeOK
    <3>. QED  BY <3>1, <3>2, <3>3 DEF BoundsInv, Written
  <2>17. CASE EndWrite
    <3>1. /\ dn_base_addr # NoBase /\ total_len < bytes_avail
          /\ dn_base_addr \in {"upgrade", "data"} /\ bytes_avail = Capacity[dn_base_addr]
          /\ dfu.download_block_number <= total_len /\ dfu.current_state = "DNBUSY"
      BY <2>17 DEF EndWrite, BoundsInv, PhaseInv, Refused, Written
    <3>2. /\ dfu'.download_block_number = dfu.download_block_number + 1
          /\ dfu'.current_state = "DNBUSY" /\ sm' = "finish" /\ retval' = "OK"
      BY <1>0, <2>17, <3>1 DEF EndWrite
    <3>3. total_len' = total_len + 1 /\ UNCHANGED <<dn_base_addr, bytes_avail>>
      BY <2>17 DEF EndWrite, ProgramSector
    <3>. QED  BY <1>0, <3>1, <3>2, <3>3 DEF BoundsInv, Written
  <2>18. CASE Manifest
    <3>1. /\ dfu.current_state = "MANIFEST" /\ dfu' = dfu /\ sm' = "finish"
          /\ dn_base_addr' = NoBase
      BY <2>18 DEF Manifest, MakeManifest
    <3>2. dfu.download_block_number = 0
      BY <3>1 DEF BoundsInv
    <3>. QED  BY <3>1, <3>2 DEF BoundsInv, Written
  <2>19. CASE FinishBusy
    BY <1>0, <2>19, BoundsFrame DEF FinishBusy, PhaseInv, BusyPoint, Refused
  <2>20. CASE FinishError
    BY <2>1, <2>20 DEF FinishError, TypeOK, Status
  <2>21. CASE \E r \in {"CLRSTATUS", "ABORT", "SETALTERNATE"} : HandleReset(r)
    BY <2>1, <2>21 DEF HandleReset, Status
  <2>. QED
    BY <1>6, <2>2, <2>3, <2>4, <2>5, <2>6, <2>7, <2>8, <2>9, <2>10, <2>11, <2>12, <2>13,
       <2>14, <2>15, <2>16, <2>17, <2>18, <2>19, <2>20, <2>21 DEF Internal
<1>. QED  BY <1>1, <1>2, <1>3, <1>4, <1>5, <1>6, StepKinds

-----------------------------------------------------------------------------
\* The invariant the properties rest on holds at first and survives every step.
LEMMA InitSafe == Init => SafetyInv
<1>. SUFFICES ASSUME Init PROVE SafetyInv
  OBVIOUS
<1>1. Cardinality({}) = 0
  BY FS_EmptySet
<1>2. CountInv
  BY <1>1 DEF Init, TasksInit, CountInv, EventIsSingle
<1>3. PhaseInv
  BY DEF Init, TasksInit, PowerOn, PhaseInv, BusyPoint
<1>4. UploadInv
  BY DEF Init, TasksInit, UploadInv, UploadUnderWay, SemaphoreForWaiter
<1>5. BoundsInv
  BY DEF Init, TasksInit, FlashInit, PowerOn, BoundsInv, Written
<1>. QED  BY <1>2, <1>3, <1>4, <1>5, InitTyped DEF SafetyInv

LEMMA StepSafe == SafetyInv /\ [Next]_vars => SafetyInv'
<1>. SUFFICES ASSUME SafetyInv, [Next]_vars PROVE SafetyInv'
  OBVIOUS
<1>1. TypeOK'
  BY StepPreservesType DEF SafetyInv
<1>2. CountInv'
  BY <1>1, CountStep DEF SafetyInv
<1>3. PhaseInv'
  BY PhaseStep DEF SafetyInv, CountInv
<1>4. UploadInv'
  BY UploadStep DEF SafetyInv
<1>5. BoundsInv'
  BY <1>1, BoundsStep DEF SafetyInv
<1>. QED  BY <1>1, <1>2, <1>3, <1>4, <1>5 DEF SafetyInv

THEOREM Safety == Spec => []SafetyInv
<1>. QED  BY InitSafe, StepSafe, PTL DEF Spec

\* However many requests pile up unread, a notification word that passes the
\* request counter holds exactly one of them, so that the switch on it has a case.
THEOREM OneRequestAtATime == Spec => []EventIsSingle
<1>1. SafetyInv => EventIsSingle
  BY DEF SafetyInv, CountInv
<1>. QED  BY <1>1, Safety, PTL

\* The default branch of GETSTATUS is dead code: the task is never at the top of
\* its loop, or in the GETSTATUS case, in DNBUSY or MANIFEST.
THEOREM BusyIsNeverLeftOver == Spec => []NeverBusyHere
<1>1. SafetyInv => NeverBusyHere
  BY DEF SafetyInv, PhaseInv, BusyPoint, NeverBusyHere
<1>. QED  BY <1>1, Safety, PTL

\* No UPLOAD finds the semaphore given already.
THEOREM SemaphoreIsNeverLeftOver == Spec => []SemaphoreForWaiter
<1>1. SafetyInv => SemaphoreForWaiter
  BY DEF SafetyInv, UploadInv
<1>. QED  BY <1>1, Safety, PTL

\* Whatever the partitions' sizes, and in whatever order a host downloads,
\* aborts, clears and selects, no write leaves the partition of the download or
\* touches the factory image.
THEOREM WritesStayInBounds == Spec => []WriteInBounds
<1>1. ASSUME SafetyInv, sm = "program" PROVE InFlash(cur_addr) /\ cur_addr[1] # "factory"
  <2>1. /\ dn_base_addr \in {"upgrade", "data"} /\ bytes_avail = Capacity[dn_base_addr]
        /\ total_len < bytes_avail /\ dfu.download_block_number <= total_len
        /\ cur_addr = <<dn_base_addr, dfu.download_block_number>>
    BY <1>1 DEF SafetyInv, BoundsInv, Refused, Written
  <2>2. /\ dfu.download_block_number \in Nat /\ total_len \in Nat /\ bytes_avail \in Nat
    BY <1>1 DEF SafetyInv, TypeOK, DfuData, FlashTypeOK
  <2>. QED  BY <2>1, <2>2 DEF InFlash, Partition
<1>2. SafetyInv => WriteInBounds
  BY <1>1 DEF WriteInBounds
<1>. QED  BY <1>2, Safety, PTL

-----------------------------------------------------------------------------
(***************************************************************************)
(* The running image is never what a download changes.                     *)
(***************************************************************************)
\* A step changes the flash of one partition at most, the one the download under way
\* was given, and never the factory image.
OnlyDownloadPartition ==
  \A p \in Partition : flash'[p] # flash[p] => p = dn_base_addr' /\ p # "factory"

LEMMA FlashStep ==
  ASSUME SafetyInv, SafetyInv', [Next]_vars
  PROVE  OnlyDownloadPartition
<1>1. CASE StartWrite
  <2>1. /\ flash' = [flash EXCEPT ![Base(dfu.alt_setting)][dfu.download_block_number]
                       = BlankSector]
        /\ dn_base_addr' = Base(dfu.alt_setting) /\ sm' = "program"
    BY <1>1 DEF StartWrite, EraseSector, SelectBase, Local
  <2>2. dn_base_addr' \in {"upgrade", "data"}
    BY <2>1 DEF SafetyInv, BoundsInv
  <2>3. DOMAIN flash = Partition
    BY DEF SafetyInv, TypeOK, FlashTypeOK
  <2>. QED  BY <2>1, <2>2, <2>3 DEF OnlyDownloadPartition
<1>2. CASE EndWrite
  <2>1. /\ flash' = [flash EXCEPT ![cur_addr[1]][cur_addr[2]] = tmp_buf]
        /\ dn_base_addr' = dn_base_addr /\ sm = "program"
    BY <1>2 DEF EndWrite, ProgramSector
  <2>2. cur_addr[1] = dn_base_addr /\ dn_base_addr \in {"upgrade", "data"}
    BY <2>1 DEF SafetyInv, BoundsInv
  <2>3. DOMAIN flash = Partition
    BY DEF SafetyInv, TypeOK, FlashTypeOK
  <2>. QED  BY <2>1, <2>2, <2>3 DEF OnlyDownloadPartition
<1>3. CASE UNCHANGED flash
  BY <1>3 DEF OnlyDownloadPartition
<1>4. CASE Outside
  BY <1>3, <1>4, OutsideFrame DEF SafetyInv, flashVars
<1>5. CASE WatchdogFires
  BY <1>3, <1>5 DEF WatchdogFires, FlashReset
<1>6. CASE Wake \/ CountOne \/ CountOther \/ GiveBack \/ UNCHANGED vars
  BY <1>3, <1>6 DEF Wake, CountOne, CountOther, GiveBack, flashVars, vars
<1>7. CASE Internal /\ ~StartWrite /\ ~EndWrite
  <2>1. CASE \/ ResetDownload \/ WipeBuffer \/ EnterError
             \/ HandleDownload \/ HandleDownloadEnd \/ RejectDownload
    BY <1>3, <2>1 DEF ResetDownload, WipeBuffer, EnterError, EnterErrorAnd, HandleDownload,
         HandleDownloadEnd, RejectDownload, Reset, flashVars
  <2>2. CASE HandleUpload \/ RejectUpload \/ ReadFragment \/ ReadPastEnd
    BY <1>3, <2>2 DEF HandleUpload, RejectUpload, ReadFragment, ReadBlock, ReadPastEnd,
         Reset, flashVars
  <2>3. CASE StayPut \/ StartBusy \/ SyncDone \/ ManifestDone
    BY <1>3, <2>3 DEF StayPut, StartBusy, SyncDone, ManifestDone, Move, flashVars
  <2>4. CASE BufferFragment \/ WriteRefused \/ Manifest \/ FinishBusy \/ FinishError
    BY <1>3, <2>4 DEF BufferFragment, WriteRefused, RefuseAlternate, RefuseAddress, Manifest,
         MakeManifest, FinishBusy, FinishError, Reset, flashVars
  <2>5. CASE \E r \in {"CLRSTATUS", "ABORT", "SETALTERNATE"} : HandleReset(r)
    BY <1>3, <2>5 DEF HandleReset, Reset, flashVars
  <2>. QED  BY <1>7, <2>1, <2>2, <2>3, <2>4, <2>5 DEF Internal
<1>. QED  BY <1>1, <1>2, <1>4, <1>5, <1>6, <1>7, StepKinds

\* Erasing and programming stay in the partition of the download, whatever the host
\* selects meanwhile.
THEOREM WritesStayInTheirPartition == Spec => [][OnlyDownloadPartition]_vars
<1>1. SafetyInv /\ SafetyInv' /\ [Next]_vars => OnlyDownloadPartition
  BY FlashStep
<1>. QED  BY <1>1, Safety, PTL DEF Spec

\* The factory image is the one that was shipped, whatever the host sends and
\* wherever a reset of the chip interrupts a download.
FactoryImage == flash["factory"] = Shipped["factory"]
THEOREM FactoryImageSurvives == Spec => []FactoryImage
<1>1. Init => FactoryImage
  BY DEF Init, FlashInit, FactoryImage
<1>2. FactoryImage /\ SafetyInv /\ SafetyInv' /\ [Next]_vars => FactoryImage'
  BY FlashStep DEF OnlyDownloadPartition, FactoryImage, Partition
<1>. QED  BY <1>1, <1>2, Safety, PTL DEF Spec

-----------------------------------------------------------------------------
(***************************************************************************)
(* What RequestsTaken and UploadAnswered rest on: a round of the           *)
(* state-machine task ends.                                                *)
(***************************************************************************)
StepsFrom ==
  [count |-> 10, dispatch |-> 9, busy |-> 8, program |-> 7, finish |-> 6, reset |-> 5,
   wipe |-> 4, error |-> 3, read |-> 3, give_back |-> 2, getstatus |-> 1, wait |-> 0]
StepsToWait == StepsFrom[sm]
RoundCountsDown ==
  sm # "wait" =>
    StepsToWait' <= StepsToWait /\ (StateMachine => StepsToWait' < StepsToWait)

LEMMA RoundStep ==
  ASSUME SafetyInv, StateMachine, sm # "wait"
  PROVE  StepsToWait' < StepsToWait
<1>0. TypeOK /\ PhaseInv /\ SmPoint = DOMAIN StepsFrom
  BY DEF SafetyInv, SmPoint, StepsFrom
<1>. USE DEF Local, Reset, Move, Dispatch, StepsToWait, StepsFrom
<1>1. CASE Wake \/ CountOne \/ CountOther \/ GiveBack
  BY <1>1 DEF Wake, CountOne, CountOther, GiveBack
<1>2. CASE ResetDownload \/ WipeBuffer \/ EnterError
  BY <1>2 DEF ResetDownload, WipeBuffer, EnterError, EnterErrorAnd
<1>3. CASE HandleDownload \/ HandleDownloadEnd \/ RejectDownload
  BY <1>3 DEF HandleDownload, HandleDownloadEnd, RejectDownload
<1>4. CASE HandleUpload \/ RejectUpload \/ ReadFragment \/ ReadPastEnd
  BY <1>4 DEF HandleUpload, RejectUpload, ReadFragment, ReadBlock, ReadPastEnd
<1>5. CASE StayPut \/ SyncDone \/ ManifestDone
  BY <1>5 DEF StayPut, SyncDone, ManifestDone, InGetStatus
<1>6. CASE StartBusy
  <2>1. sm = "dispatch" /\ sm' = "busy"
    BY <1>0, <1>6 DEF StartBusy, InGetStatus, PhaseInv
  <2>. QED  BY <2>1
<1>7. CASE BufferFragment \/ WriteRefused \/ StartWrite \/ EndWrite
  BY <1>7 DEF BufferFragment, WriteRefused, SectorFull, StartWrite, EndWrite
<1>8. CASE Manifest \/ FinishBusy \/ FinishError
  BY <1>8 DEF Manifest, FinishBusy, FinishError
<1>9. CASE \E r \in {"CLRSTATUS", "ABORT", "SETALTERNATE"} : HandleReset(r)
  BY <1>9 DEF HandleReset
<1>. QED
  BY <1>1, <1>2, <1>3, <1>4, <1>5, <1>6, <1>7, <1>8, <1>9 DEF StateMachine

\* Whatever the host sends, the state-machine task is back at its wait at most ten of
\* its own steps after it has taken up a notification word, for the servicer, the
\* timer and the host never lengthen a round.  EventIsSingle and NeverBusyHere say that one
\* of its branches always applies.
THEOREM EveryRoundEnds == Spec => [](StepsToWait \in 0 .. 10) /\ [][RoundCountsDown]_vars
<1>1. TypeOK => StepsToWait \in 0 .. 10
  BY DEF TypeOK, SmPoint, StepsToWait, StepsFrom
<1>2. SafetyInv /\ [Next]_vars => [RoundCountsDown]_vars
  <2>. SUFFICES ASSUME SafetyInv, [Next]_vars, sm # "wait"
                PROVE  StepsToWait' <= StepsToWait /\ (StateMachine => StepsToWait' < StepsToWait)
    BY DEF RoundCountsDown
  <2>1. StepsToWait \in 0 .. 10
    BY <1>1 DEF SafetyInv
  <2>2. CASE StateMachine
    <3>1. StepsToWait' \in 0 .. 10
      BY StepSafe DEF SafetyInv, TypeOK, SmPoint, StepsToWait, StepsFrom
    <3>2. StepsToWait' < StepsToWait
      BY <2>2, RoundStep
    <3>. QED  BY <2>1, <3>1, <3>2
  <2>3. CASE Outside \/ UNCHANGED vars
    <3>1. sm' = sm
      BY <2>3, OutsideFrame DEF SafetyInv, smVars, vars
    <3>2. StepsToWait' = StepsToWait
      BY <3>1 DEF StepsToWait, StepsFrom
    <3>3. StateMachine => StepsToWait' < StepsToWait
      BY RoundStep
    <3>. QED  BY <2>1, <3>2, <3>3
  <2>4. CASE WatchdogFires
    <3>1. StepsToWait' = 0
      BY <2>4 DEF WatchdogFires, StepsToWait, StepsFrom
    <3>2. StateMachine => StepsToWait' < StepsToWait
      BY RoundStep
    <3>. QED  BY <2>1, <3>1, <3>2
  <2>. QED  BY <2>2, <2>3, <2>4 DEF Next, Outside
<1>3. Spec => [](StepsToWait \in 0 .. 10)
  BY <1>1, Safety, PTL DEF SafetyInv
<1>4. Spec => [][RoundCountsDown]_vars
  BY <1>2, Safety, PTL DEF Spec
<1>. QED  BY <1>3, <1>4
=============================================================================
