--------------------------- MODULE DfuPacedProofs ---------------------------
(***************************************************************************)
(* Theorems about Dfu for a host that is slower than the dispatch of a     *)
(* request: the flash and the buffer hold what a download sent, and the    *)
(* state that a GETSTATUS announces is the one the device goes to.         *)
(***************************************************************************)
EXTENDS DfuContentProofs

\* Such a host meets the state machine at rest or in an operation of the flash, and
\* sends a second request only while the first is kept waiting by the flash.  It may
\* ignore the poll timeouts, and send any command.
SlowHost ==
  /\ Window \subseteq {"wait", "busy", "program", "finish"}
  /\ Backlog \subseteq {"busy", "program"}

\* A DNLOAD that the state machine has not acted on, and one with data.
DownloadPending ==
  \/ srv \in {"give", "notify"} /\ req = "DNLOAD"
  \/ "DNLOAD" \in bits
  \/ sm \in {"count", "dispatch"} /\ "DNLOAD" \in event
Transfer == DownloadPending /\ dfu.data_xfer_length = 1

\* A GETSTATUS is notified, and taken up, with nothing else pending.
StatusInv ==
  /\ srv = "predict" => req = "GETSTATUS"
  /\ \/ srv = "predict" /\ seen \notin {"DNBUSY", "MANIFEST"}
     \/ srv \in {"give", "notify"} /\ req = "GETSTATUS"
     => sm = "wait" /\ bits = {}
  /\ "GETSTATUS" \in bits => sm = "wait" /\ bits = {"GETSTATUS"} /\ srv = "ready"
  /\ sm \in {"count", "dispatch"} /\ "GETSTATUS" \in event => bits = {} /\ srv = "ready"

-----------------------------------------------------------------------------
LEMMA HostMeets ==
  ASSUME SlowHost, TypeOK, PhaseInv, NEW op, HostSends(op)
  PROVE  /\ srv = "ready" /\ sm \in {"wait", "busy", "program", "finish"}
         /\ sm = "wait" \/ dfu.current_state \in {"DNBUSY", "MANIFEST"}
         /\ dfu.current_state \notin {"DNBUSY", "MANIFEST"} => sm = "wait"
         /\ sm = "wait" => bits = {}
  BY DEF SlowHost, HostSends, PhaseInv, BusyPoint

LEMMA StatusStep ==
  ASSUME SlowHost, SafetyInv, StatusInv, [Next]_vars
  PROVE  StatusInv'
<1>0. /\ TypeOK /\ PhaseInv
      /\ sm \in {"wait", "count", "dispatch"} => dfu.current_state \notin {"DNBUSY", "MANIFEST"}
  BY DEF SafetyInv, PhaseInv, BusyPoint
<1>1. CASE Outside
  <2>0. UNCHANGED smVars
    BY <1>1, OutsideFrame DEF SafetyInv
  <2>1. CASE HostRequest
    <3>1. PICK op : HostSends(op)
      BY <2>1 DEF HostRequest, Download, DownloadEnd, Simple, SetAlternate, SetTransferBlock,
                  GetStatus, Detach
    <3>2. /\ srv = "ready" /\ sm \in {"wait", "busy", "program", "finish"}
          /\ dfu.current_state \notin {"DNBUSY", "MANIFEST"} => sm = "wait"
          /\ sm = "wait" => bits = {}
      BY <1>0, <3>1, HostMeets
    <3>3. /\ UNCHANGED bits
          /\ \/ srv' = "predict" /\ seen' = dfu.current_state /\ req' = "GETSTATUS"
             \/ srv' = "give" /\ req' # "GETSTATUS"
             \/ srv' = "ready"
      BY <2>1, <3>2 DEF HostRequest, Download, DownloadEnd, Simple, SetAlternate,
                 SetTransferBlock, GetStatus, Detach, Ask, shared, srvVars
    <3>4. "GETSTATUS" \notin bits
      BY <3>1 DEF StatusInv, SlowHost, HostSends
    <3>. QED  BY <2>0, <3>2, <3>3 DEF StatusInv, smVars
  <2>2. CASE Servicer
    <3>1. CASE Notify
      BY <2>0, <3>1 DEF Notify, StatusInv, smVars
    <3>2. CASE Servicer /\ ~Notify
      <4>1. /\ UNCHANGED bits /\ srv # "ready"
            /\ \/ srv = "predict" /\ seen \notin {"DNBUSY", "MANIFEST"}
                  /\ srv' = "give" /\ req' = req
               \/ srv' = "ready"
               \/ srv = "give" /\ srv' = "notify" /\ req' = req
               \/ srv = "take" /\ srv' = "eat"
        BY <3>2 DEF Servicer, PredictSame, PredictTooEarly, PredictStillBusy,
                    PredictDownload, PredictManifest, PredictDone, Reply, Give, Take, Eat, shared
      <4>. QED  BY <2>0, <4>1 DEF StatusInv, smVars
    <3>. QED  BY <2>2, <3>1, <3>2
  <2>3. CASE TimeoutExpires
    BY <2>0, <2>3 DEF TimeoutExpires, StatusInv, srvVars, smVars
  <2>. QED  BY <1>1, <2>1, <2>2, <2>3 DEF Outside
<1>2. CASE WatchdogFires
  BY <1>2 DEF WatchdogFires, StatusInv
<1>3. CASE UNCHANGED vars
  BY <1>3 DEF vars, StatusInv, smVars, srvVars, shared
<1>4. CASE Wake \/ CountOne \/ CountOther \/ GiveBack
  BY <1>4 DEF Wake, CountOne, CountOther, GiveBack, StatusInv, srvVars
<1>5. CASE Internal
  <2>1. UNCHANGED <<srv, req, seen, bits>> /\ sm \notin {"wait", "count"}
        /\ sm' \notin {"count", "dispatch"}
    BY <1>5, InternalFrame DEF srvVars, shared
  <2>. QED  BY <2>1 DEF StatusInv
<1>. QED  BY <1>1, <1>2, <1>3, <1>4, <1>5, StepKinds

-----------------------------------------------------------------------------
(***************************************************************************)
(* Where the transfers of a download are.                                  *)
(***************************************************************************)
OnFlash(n) ==
  \A k \in 0 .. n - 1 : \A f \in FragmentIndex : flash[dn_base_addr][k][f] = Sent(k, f)

\* The flash holds the full sectors, and the buffer the fragments up to frag_number
\* and n more.
Holds(n) ==
  /\ Len(image) = dfu.download_block_number * NumFragments + dfu.frag_number + n
  /\ \A f \in 0 .. dfu.frag_number + n - 1 :
       dfu.dfu_data_buffer[f] = Sent(dfu.download_block_number, f)
  /\ OnFlash(dfu.download_block_number)

\* No download has started.
Fresh == image = <<>> /\ dfu.download_block_number = 0 /\ dfu.frag_number = 0

\* The download has ended: its full sectors are on the flash.
FullSectors == Len(image) \div NumFragments
Kept ==
  dn_base_addr # NoBase => FullSectors <= Capacity[dn_base_addr] /\ OnFlash(FullSectors)

LEMMA SectorIndex ==
  ASSUME NEW n \in Nat \ {0}, NEW k \in Nat, NEW d \in Nat, k < d, NEW f \in 0 .. n - 1
  PROVE  k * n + f + 1 \in 1 .. d * n
<1>1. k + 1 <= d /\ k * n \in Nat /\ d * n \in Nat
  OBVIOUS
<1>2. (k + 1) * n <= d * n
  BY <1>1
<1>3. (k + 1) * n = k * n + n
  OBVIOUS
<1>. QED  BY <1>1, <1>2, <1>3

LEMMA ContentFrame ==
  ASSUME UNCHANGED <<image, flash, dn_base_addr>>,
         UNCHANGED <<dfu.download_block_number, dfu.frag_number, dfu.dfu_data_buffer>>
  PROVE  /\ \A n \in {0, 1} : Holds(n) => Holds(n)'
         /\ Fresh => Fresh'
         /\ Kept => Kept'
<1>1. \A n : OnFlash(n) => OnFlash(n)'
  BY DEF OnFlash, Sent
<1>2. \A n : Holds(n) => Holds(n)'
  BY <1>1 DEF Holds, Sent
<1>. QED  BY <1>1, <1>2 DEF Fresh, Kept, FullSectors

LEMMA FreshHolds == ASSUME Fresh PROVE Holds(0)
<1>1. 0 * NumFragments = 0
  BY FlashAssumption
<1>. QED  BY <1>1 DEF Fresh, Holds, OnFlash

\* dfu_int_download puts the transfer where the buffer goes on.
LEMMA Received ==
  ASSUME TypeOK, Holds(0), NEW data \in Payload,
         image' = Append(image, data),
         dfu' = [dfu EXCEPT !.data_xfer_length = 1,
                            !.dfu_data_buffer[dfu.frag_number] = data],
         UNCHANGED <<flash, dn_base_addr>>
  PROVE  Holds(1)'
<1>. DEFINE d == dfu.download_block_number
            g == dfu.frag_number
            start == d * NumFragments
<1>1. /\ d \in Nat /\ g \in 0 .. NumFragments - 1 /\ NumFragments \in Nat \ {0}
      /\ image \in Seq(Payload) /\ dfu.dfu_data_buffer \in [FragmentIndex -> Payload \cup {Blank}]
      /\ start \in Nat /\ FragmentIndex = 0 .. NumFragments - 1
  BY FlashAssumption DEF TypeOK, DfuData, FragmentIndex, Sector
<1>2. /\ dfu'.download_block_number = d /\ dfu'.frag_number = g
      /\ dfu'.dfu_data_buffer = [dfu.dfu_data_buffer EXCEPT ![g] = data]
  BY DEF TypeOK, DfuData
<1>3. /\ Len(image) = start + g
      /\ \A f \in 0 .. g - 1 : dfu.dfu_data_buffer[f] = image[start + f + 1]
      /\ \A k \in 0 .. d - 1 : \A f \in FragmentIndex :
           flash[dn_base_addr][k][f] = image[k * NumFragments + f + 1]
  BY <1>1 DEF Holds, OnFlash, Sent
<1>4. \A k \in 0 .. d - 1 : \A f \in FragmentIndex : k * NumFragments + f + 1 \in 1 .. start
  <2>1. ASSUME NEW k \in 0 .. d - 1, NEW f \in FragmentIndex
        PROVE  k * NumFragments + f + 1 \in 1 .. start
    <3>1. k \in Nat /\ k < d
      BY <1>1
    <3>. QED  BY <1>1, <3>1, SectorIndex
  <2>. QED  BY <2>1
<1>. HIDE DEF start
<1>5. /\ Len(image') = start + g + 1
      /\ \A i \in 1 .. Len(image) : image'[i] = image[i]
      /\ image'[start + g + 1] = data
  BY <1>1, <1>3
<1>6. ASSUME NEW f \in 0 .. g
      PROVE  dfu'.dfu_data_buffer[f] = image'[start + f + 1]
  <2>1. CASE f = g
    BY <1>1, <1>2, <1>5, <2>1
  <2>2. CASE f # g
    <3>0. f \in 0 .. g - 1 /\ f \in FragmentIndex
      BY <1>1, <2>2
    <3>1. f \in 0 .. g - 1 /\ f \in FragmentIndex /\ start + f + 1 \in 1 .. Len(image)
      <4>1. Len(image) = start + g /\ start \in Nat /\ g \in Nat
        BY <1>1, <1>3
      <4>. QED  BY <3>0, <4>1
    <3>2. dfu'.dfu_data_buffer[f] = dfu.dfu_data_buffer[f]
      BY <1>1, <1>2, <2>2, <3>1
    <3>3. image'[start + f + 1] = image[start + f + 1]
      BY <1>5, <3>1
    <3>. QED  BY <1>3, <3>1, <3>2, <3>3
  <2>. QED  BY <2>1, <2>2
<1>7. \A k \in 0 .. d - 1 : \A f \in FragmentIndex :
        flash'[dn_base_addr'][k][f] = image'[k * NumFragments + f + 1]
  <2>1. \A i \in 1 .. start : image'[i] = image[i]
    BY <1>1, <1>3, <1>5
  <2>2. ASSUME NEW k \in 0 .. d - 1, NEW f \in FragmentIndex
        PROVE  flash'[dn_base_addr'][k][f] = image'[k * NumFragments + f + 1]
    <3>1. image'[k * NumFragments + f + 1] = image[k * NumFragments + f + 1]
      BY <1>4, <2>1
    <3>2. flash[dn_base_addr][k][f] = image[k * NumFragments + f + 1]
      BY <1>3
    <3>. QED  BY <3>1, <3>2
  <2>. QED  BY <2>2
<1>8. OnFlash(dfu.download_block_number)'
  BY <1>2, <1>7 DEF OnFlash, Sent
<1>9. /\ Len(image') = dfu'.download_block_number * NumFragments + dfu'.frag_number + 1
      /\ \A f \in 0 .. dfu'.frag_number + 1 - 1 :
           dfu'.dfu_data_buffer[f] = image'[dfu'.download_block_number * NumFragments + f + 1]
  <2>1. dfu'.download_block_number * NumFragments = start /\ dfu'.frag_number + 1 - 1 = g
    BY <1>1, <1>2 DEF start
  <2>. QED  BY <1>2, <1>5, <1>6, <2>1
<1>. QED  BY <1>8, <1>9 DEF Holds, Sent

\* A fragment more in the buffer.
LEMMA Buffered ==
  ASSUME TypeOK, Holds(1), dfu.frag_number # NumFragments - 1,
         dfu' = [dfu EXCEPT !.frag_number = @ + 1],
         UNCHANGED <<image, flash, dn_base_addr>>
  PROVE  Holds(0)'
<1>1. /\ dfu.download_block_number \in Nat /\ dfu.frag_number \in Nat
      /\ dfu.download_block_number * NumFragments \in Nat
  BY FlashAssumption DEF TypeOK, DfuData, FragmentIndex
<1>2. /\ dfu'.download_block_number = dfu.download_block_number
      /\ dfu'.frag_number = dfu.frag_number + 1
      /\ dfu'.dfu_data_buffer = dfu.dfu_data_buffer
  BY DEF TypeOK, DfuData
<1>3. OnFlash(dfu.download_block_number)'
  BY <1>2 DEF Holds, OnFlash, Sent
<1>4. Len(image') = dfu'.download_block_number * NumFragments + dfu'.frag_number + 0
  BY <1>1, <1>2 DEF Holds
<1>5. \A f \in 0 .. dfu'.frag_number + 0 - 1 :
         dfu'.dfu_data_buffer[f] = image'[dfu'.download_block_number * NumFragments + f + 1]
  <2>1. 0 .. dfu'.frag_number + 0 - 1 = 0 .. dfu.frag_number + 1 - 1
    BY <1>1, <1>2
  <2>. QED  BY <1>2, <2>1 DEF Holds, Sent
<1>. QED  BY <1>2, <1>3, <1>4, <1>5 DEF Holds, Sent

\* The buffer is full and goes to be programmed; the sectors before it stay.
LEMMA Erased ==
  ASSUME TypeOK, BoundsInv, ~Refused, Holds(1), NEW alt \in Alternate,
         dfu.frag_number = NumFragments - 1,
         EraseSector(alt, dfu.download_block_number, dfu.dfu_data_buffer),
         UNCHANGED <<dfu, image>>
  PROVE  /\ Holds(1)'
         /\ \A f \in FragmentIndex : tmp_buf'[f] = Sent(dfu.download_block_number, f)'
<1>. DEFINE d == dfu.download_block_number
<1>1. /\ d \in Nat /\ dfu.frag_number \in Nat /\ NumFragments \in Nat \ {0}
      /\ FragmentIndex = 0 .. NumFragments - 1
  BY FlashAssumption DEF TypeOK, DfuData, FragmentIndex
<1>2. dn_base_addr = NoBase => d = 0
  BY <1>1 DEF BoundsInv, Written
<1>3. OnFlash(d)'
  <2>1. CASE dn_base_addr = NoBase
    BY <1>2, <2>1 DEF OnFlash
  <2>2. CASE dn_base_addr # NoBase
    <3>1. /\ dn_base_addr' = dn_base_addr
          /\ flash' = [flash EXCEPT ![dn_base_addr][d] = BlankSector]
      BY <2>2 DEF EraseSector, SelectBase, Base
    <3>2. /\ dn_base_addr \in Partition /\ DOMAIN flash = Partition
          /\ flash[dn_base_addr] \in [0 .. Capacity[dn_base_addr] - 1 -> Sector]
      BY <2>2 DEF TypeOK, FlashTypeOK
    <3>3. flash'[dn_base_addr] = [flash[dn_base_addr] EXCEPT ![d] = BlankSector]
      BY <3>1, <3>2
    <3>4. \A k \in 0 .. d - 1 : flash'[dn_base_addr][k] = flash[dn_base_addr][k]
      <4>1. ASSUME NEW k \in 0 .. d - 1
            PROVE  flash'[dn_base_addr][k] = flash[dn_base_addr][k]
        <5>1. k # d
          BY <1>1
        <5>. QED  BY <3>2, <3>3, <5>1
      <4>. QED  BY <4>1
    <3>. QED  BY <3>1, <3>4 DEF Holds, OnFlash, Sent
  <2>. QED  BY <2>1, <2>2
<1>4. \A f \in FragmentIndex : dfu.dfu_data_buffer[f] = Sent(d, f)
  BY <1>1 DEF Holds
<1>5. tmp_buf' = dfu.dfu_data_buffer
  BY DEF EraseSector
<1>. QED  BY <1>3, <1>4, <1>5 DEF Holds, Sent

\* The sector is on the flash and the buffer is empty.
LEMMA Programmed ==
  ASSUME TypeOK, BoundsInv, sm = "program", Holds(1),
         dfu.frag_number = NumFragments - 1,
         \A f \in FragmentIndex : tmp_buf[f] = Sent(dfu.download_block_number, f),
         ProgramSector, dfu' = Flushed(dfu), UNCHANGED image
  PROVE  Holds(0)'
<1>. DEFINE d == dfu.download_block_number
<1>1. /\ d \in Nat /\ NumFragments \in Nat \ {0} /\ total_len \in Nat /\ bytes_avail \in Nat
      /\ d * NumFragments \in Nat
  BY FlashAssumption DEF TypeOK, FlashTypeOK, DfuData, FragmentIndex
<1>2. dfu'.download_block_number = d + 1 /\ dfu'.frag_number = 0
  BY DEF Flushed, ClearBuffer, TypeOK, DfuData
<1>3. /\ dn_base_addr \in Partition /\ d < Capacity[dn_base_addr]
      /\ cur_addr = <<dn_base_addr, d>> /\ dn_base_addr' = dn_base_addr
  BY <1>1 DEF BoundsInv, Refused, Written, ProgramSector, Partition
<1>4. /\ DOMAIN flash = Partition
      /\ flash[dn_base_addr] \in [0 .. Capacity[dn_base_addr] - 1 -> Sector]
      /\ Capacity[dn_base_addr] \in Nat
  BY <1>3, FlashAssumption DEF TypeOK, FlashTypeOK
<1>5. /\ flash'[dn_base_addr][d] = tmp_buf
      /\ \A k \in 0 .. d - 1 : flash'[dn_base_addr][k] = flash[dn_base_addr][k]
  BY <1>1, <1>3, <1>4 DEF ProgramSector
<1>6. ASSUME NEW k \in 0 .. d, NEW f \in FragmentIndex
      PROVE  flash'[dn_base_addr'][k][f] = Sent(k, f)
  <2>1. CASE k = d
    BY <1>3, <1>5, <2>1
  <2>2. CASE k # d
    <3>1. k \in 0 .. d - 1
      BY <1>1, <2>2
    <3>. QED  BY <1>3, <1>5, <3>1 DEF Holds, OnFlash
  <2>. QED  BY <2>1, <2>2
<1>7. OnFlash(dfu.download_block_number)'
  <2>1. 0 .. dfu'.download_block_number - 1 = 0 .. d
    BY <1>1, <1>2
  <2>. QED  BY <1>6, <2>1 DEF OnFlash, Sent
<1>8. Len(image') = dfu'.download_block_number * NumFragments + dfu'.frag_number + 0
  <2>1. (d + 1) * NumFragments = d * NumFragments + NumFragments
    BY <1>1
  <2>2. Len(image) = d * NumFragments + NumFragments
    BY <1>1 DEF Holds
  <2>. QED  BY <1>1, <1>2, <2>1, <2>2
<1>. QED  BY <1>2, <1>7, <1>8 DEF Holds

LEMMA Quotient ==
  ASSUME NEW n \in Nat \ {0}, NEW d \in Nat, NEW g \in 0 .. n - 1
  PROVE  (d * n + g) \div n = d
<1>. DEFINE b == d * n + g
            q == b \div n
<1>1. b \in Nat /\ d * n \in Nat
  OBVIOUS
<1>. HIDE DEF b
<1>2. b = n * q + (b % n) /\ b % n \in 0 .. n - 1 /\ q \in Nat
  BY <1>1
<1>. HIDE DEF q
<1>3. ASSUME q < d PROVE FALSE
  <2>1. (q + 1) * n <= d * n
    BY <1>2, <1>3
  <2>2. (q + 1) * n = n * q + n
    BY <1>2
  <2>. QED  BY <1>1, <1>2, <2>1, <2>2 DEF b
<1>4. ASSUME q > d PROVE FALSE
  <2>1. (d + 1) * n <= n * q
    BY <1>2, <1>4
  <2>2. (d + 1) * n = d * n + n
    OBVIOUS
  <2>. QED  BY <1>1, <1>2, <2>1, <2>2 DEF b
<1>5. q = d
  BY <1>2, <1>3, <1>4
<1>. QED  BY <1>5 DEF q, b

\* The end of a download keeps what it wrote, and drops what is in the buffer.
LEMMA Ended ==
  ASSUME TypeOK, BoundsInv, ~Refused, Holds(0)
  PROVE  Kept
<1>1. /\ dfu.download_block_number \in Nat /\ dfu.frag_number \in 0 .. NumFragments - 1
      /\ NumFragments \in Nat \ {0} /\ total_len \in Nat
      /\ Len(image) = dfu.download_block_number * NumFragments + dfu.frag_number
  BY FlashAssumption DEF TypeOK, FlashTypeOK, DfuData, FragmentIndex, Holds
<1>2. FullSectors = dfu.download_block_number
  BY <1>1, Quotient DEF FullSectors
<1>3. ASSUME dn_base_addr # NoBase
      PROVE  dfu.download_block_number <= Capacity[dn_base_addr]
  <2>1. Capacity[dn_base_addr] \in Nat
    BY <1>3, FlashAssumption DEF TypeOK, FlashTypeOK
  <2>. QED  BY <1>1, <1>3, <2>1 DEF BoundsInv, Written
<1>. QED  BY <1>2, <1>3 DEF Kept, Holds

-----------------------------------------------------------------------------
(***************************************************************************)
(* The content of a download in each state.  A pending DNLOAD that the     *)
(* state will refuse may have spoilt it: the download is on its way to an  *)
(* error.                                                                  *)
(***************************************************************************)
Resetting == sm \in {"reset", "wipe", "error"}
ResetInv ==
  /\ Resetting => image = <<>> /\ dfu.current_state = "IDLE"
  /\ sm \in {"wipe", "error"} => Fresh /\ dfu.data_xfer_length = 0

IdleInv ==
  /\ dfu.current_state = "IDLE" =>
       IF Transfer THEN Holds(1) /\ dfu.download_block_number = 0 /\ dfu.frag_number = 0
       ELSE Fresh
  /\ dfu.current_state = "UPLOAD_IDLE" => DownloadPending \/ Fresh
DownloadInv ==
  /\ dfu.current_state = "DNLOAD_IDLE" => IF Transfer THEN Holds(1) ELSE Holds(0)
  /\ dfu.current_state = "DNLOAD_SYNC" =>
       DownloadPending \/ IF dfu.in_progress THEN Holds(1) ELSE Holds(0)
  /\ dfu.current_state = "DNBUSY" =>
       \/ DownloadPending
       \/ sm # "finish" /\ Holds(1)
       \/ sm = "finish" /\ (retval # "OK" \/ Holds(0))
ManifestInv ==
  /\ dfu.current_state \in {"MANIFEST_SYNC", "MANIFEST"} => dfu.frag_number = 0
  /\ dfu.current_state = "MANIFEST_SYNC" /\ dfu.in_progress => DownloadPending \/ Kept

ImageInv ==
  /\ ResetInv
  /\ ~Resetting => IdleInv /\ DownloadInv /\ ManifestInv
  /\ sm = "program" =>
       /\ dfu.frag_number = NumFragments - 1
       /\ \/ DownloadPending
          \/ \A f \in FragmentIndex : tmp_buf[f] = Sent(dfu.download_block_number, f)

\* A step that leaves alone what ImageInv is about.
AtRest == {"wait", "count", "dispatch", "read", "give_back", "getstatus"}
LEMMA ImageFrame ==
  ASSUME ImageInv, UNCHANGED <<image, flash, dn_base_addr, tmp_buf, retval>>,
         UNCHANGED <<dfu.download_block_number, dfu.frag_number, dfu.dfu_data_buffer,
                     dfu.current_state, dfu.in_progress, dfu.data_xfer_length>>,
         sm' = sm \/ {sm, sm'} \subseteq AtRest,
         DownloadPending' <=> DownloadPending
  PROVE  ImageInv'
<1>1. /\ \A n \in {0, 1} : Holds(n) => Holds(n)'
      /\ Fresh => Fresh'
      /\ Kept => Kept'
  BY ContentFrame
<1>2. Transfer' <=> Transfer
  BY DEF Transfer
<1>3. /\ Resetting' <=> Resetting
      /\ sm = "finish" <=> sm' = "finish"
      /\ sm' = "program" <=> sm = "program"
      /\ Resetting => sm' = sm
  BY DEF Resetting, AtRest
<1>4. ResetInv'
  BY <1>1, <1>3 DEF ImageInv, ResetInv, Resetting
<1>5. ASSUME ~Resetting PROVE IdleInv' /\ DownloadInv' /\ ManifestInv'
  <2>1. IdleInv'
    BY <1>1, <1>2, <1>5 DEF ImageInv, IdleInv
  <2>2. DownloadInv'
    <3>1. DownloadInv
      BY <1>5 DEF ImageInv
    <3>2. /\ Holds(0) => Holds(0)'
          /\ Holds(1) => Holds(1)'
      BY <1>1
    <3>. QED  BY <1>2, <1>3, <3>1, <3>2 DEF DownloadInv
  <2>3. ManifestInv'
    BY <1>1, <1>5 DEF ImageInv, ManifestInv
  <2>. QED  BY <2>1, <2>2, <2>3
<1>. QED  BY <1>3, <1>4, <1>5 DEF ImageInv, Sent

LEMMA HostImage ==
  ASSUME SlowHost, SafetyInv, ImageInv, HostRequest
  PROVE  ImageInv'
<1>0. /\ TypeOK /\ PhaseInv /\ dfu \in DfuData
      /\ dfu.frag_number \in FragmentIndex /\ dfu.dfu_data_buffer \in Sector
  BY DEF SafetyInv, TypeOK, DfuData
<1>1. PICK op : HostSends(op)
  BY DEF HostRequest, Download, DownloadEnd, Simple, SetAlternate, SetTransferBlock,
         GetStatus, Detach
<1>2. /\ srv = "ready" /\ sm \in {"wait", "busy", "program", "finish"}
      /\ sm = "wait" \/ dfu.current_state \in {"DNBUSY", "MANIFEST"}
      /\ dfu.current_state \notin {"DNBUSY", "MANIFEST"} => sm = "wait"
      /\ sm = "wait" => bits = {}
  BY <1>0, <1>1, HostMeets
<1>3. ~Resetting /\ IdleInv /\ DownloadInv /\ ManifestInv
  BY <1>2 DEF ImageInv, Resetting
\* A DNLOAD is met by a state that has none pending, or that will refuse it.
<1>4. sm = "wait" => ~DownloadPending /\ ~Transfer
  BY <1>2 DEF DownloadPending, Transfer
<1>5. CASE \E data \in Payload : Download(data)
  <2>1. PICK data \in Payload : Download(data)
    BY <1>5
  <2>2. /\ srv' = "give" /\ req' = "DNLOAD" /\ UNCHANGED <<sm, retval, tmp_buf, flash, dn_base_addr>>
        /\ image' = Append(image, data)
        /\ dfu' = [dfu EXCEPT !.data_xfer_length = 1,
                              !.dfu_data_buffer[dfu.frag_number] = data]
    BY <2>1 DEF Download, Ask, smVars, flashVars
  <2>3. /\ dfu'.current_state = dfu.current_state /\ dfu'.frag_number = dfu.frag_number
        /\ dfu'.download_block_number = dfu.download_block_number
        /\ dfu'.data_xfer_length = 1
    BY <1>0, <2>2 DEF DfuData
  <2>4. DownloadPending' /\ Transfer'
    BY <2>2, <2>3 DEF DownloadPending, Transfer
  <2>5. Holds(0) => Holds(1)'
    BY <1>0, <2>2, Received
  <2>6. CASE dfu.current_state = "IDLE"
    <3>1. Fresh
      BY <1>2, <1>3, <1>4, <2>6 DEF IdleInv
    <3>2. Holds(1)' /\ dfu'.download_block_number = 0 /\ dfu'.frag_number = 0
      BY <2>3, <2>5, <3>1, FreshHolds DEF Fresh
    <3>. QED
      BY <1>2, <2>2, <2>3, <2>4, <2>6, <3>2
         DEF ImageInv, ResetInv, Resetting, IdleInv, DownloadInv, ManifestInv
  <2>7. CASE dfu.current_state = "DNLOAD_IDLE"
    <3>1. Holds(1)'
      BY <1>2, <1>3, <1>4, <2>5, <2>7 DEF DownloadInv
    <3>. QED
      BY <1>2, <2>2, <2>3, <2>4, <2>7, <3>1
         DEF ImageInv, ResetInv, Resetting, IdleInv, DownloadInv, ManifestInv
  <2>8. CASE dfu.current_state \notin {"IDLE", "DNLOAD_IDLE"}
    <3>1. IdleInv' /\ DownloadInv'
      BY <2>3, <2>4, <2>8 DEF IdleInv, DownloadInv
    <3>2. ManifestInv'
      BY <1>3, <2>3, <2>4 DEF ManifestInv
    <3>. QED
      BY <1>2, <2>2, <2>3, <2>4, <3>1, <3>2 DEF ImageInv, ResetInv, Resetting
  <2>. QED  BY <2>6, <2>7, <2>8
<1>6. CASE DownloadEnd
  <2>2. /\ srv' = "give" /\ req' = "DNLOAD"
        /\ UNCHANGED <<sm, retval, tmp_buf, flash, dn_base_addr, image>>
        /\ dfu' = [dfu EXCEPT !.data_xfer_length = 0]
    BY <1>6 DEF DownloadEnd, Ask, smVars, flashVars
  <2>3. /\ dfu'.data_xfer_length = 0
        /\ UNCHANGED <<dfu.current_state, dfu.frag_number, dfu.download_block_number,
                       dfu.dfu_data_buffer, dfu.in_progress>>
    BY <1>0, <2>2 DEF DfuData
  <2>4. DownloadPending' /\ ~Transfer'
    BY <2>2, <2>3 DEF DownloadPending, Transfer
  <2>5. (Holds(0) => Holds(0)') /\ (Fresh => Fresh')
    BY <2>2, <2>3, ContentFrame
  <2>6. IdleInv'
    BY <1>2, <1>3, <1>4, <2>3, <2>4, <2>5 DEF IdleInv
  <2>7. DownloadInv'
    BY <1>2, <1>3, <1>4, <2>3, <2>4, <2>5 DEF DownloadInv
  <2>8. ManifestInv'
    BY <1>3, <2>3, <2>4 DEF ManifestInv
  <2>. QED  BY <1>2, <2>2, <2>3, <2>4, <2>6, <2>7, <2>8 DEF ImageInv, ResetInv, Resetting
<1>7. CASE HostRequest /\ ~DownloadEnd /\ ~\E data \in Payload : Download(data)
  <2>1. /\ UNCHANGED <<image, flash, dn_base_addr, tmp_buf, retval, sm, event, bits>>
        /\ req' # "DNLOAD" \/ srv' = "ready"
    BY <1>2, <1>7 DEF HostRequest, Simple, SetAlternate, SetTransferBlock, GetStatus, Detach,
                      Ask, Record, smVars, srvVars, shared, flashVars
  <2>2. UNCHANGED <<dfu.download_block_number, dfu.frag_number, dfu.dfu_data_buffer,
                    dfu.current_state, dfu.in_progress, dfu.data_xfer_length>>
    BY <1>0, <1>7 DEF HostRequest, Simple, SetAlternate, SetTransferBlock, GetStatus, Detach,
                      DfuData
  <2>3. DownloadPending' <=> DownloadPending
    BY <1>2, <2>1 DEF DownloadPending
  <2>. QED  BY <2>1, <2>2, <2>3, ImageFrame
<1>. QED  BY <1>5, <1>6, <1>7

LEMMA ServicerImage ==
  ASSUME SafetyInv, StatusInv, ImageInv, Servicer \/ TimeoutExpires
  PROVE  ImageInv'
<1>0. dfu \in DfuData
  BY DEF SafetyInv, TypeOK
<1>1. UNCHANGED <<image, flash, dn_base_addr, tmp_buf, retval, sm, event>>
  BY DEF Servicer, PredictSame, PredictTooEarly, PredictStillBusy, PredictDownload,
         PredictManifest, PredictDone, Reply, Give, Notify, Take, Eat, TimeoutExpires,
         history, smVars, flashVars
<1>2. UNCHANGED <<dfu.download_block_number, dfu.frag_number, dfu.dfu_data_buffer,
                  dfu.current_state, dfu.in_progress, dfu.data_xfer_length>>
  BY <1>0 DEF Servicer, PredictSame, PredictTooEarly, PredictStillBusy, PredictDownload,
         PredictManifest, PredictDone, Give, Notify, Take, Eat, TimeoutExpires, DfuData
<1>3. DownloadPending' <=> DownloadPending
  <2>1. CASE Notify
    BY <1>1, <2>1 DEF Notify, DownloadPending
  <2>2. CASE TimeoutExpires
    BY <1>1, <2>2 DEF TimeoutExpires, DownloadPending, srvVars
  <2>3. CASE Servicer /\ ~Notify
    <3>1. /\ UNCHANGED bits
          /\ \/ srv = "predict" /\ ((srv' = "give" /\ req' = req) \/ srv' = "ready")
             \/ srv = "give" /\ srv' = "notify" /\ req' = req
             \/ srv \in {"take", "eat"} /\ srv' \in {"eat", "ready"}
      BY <2>3 DEF Servicer, PredictSame, PredictTooEarly, PredictStillBusy, PredictDownload,
                  PredictManifest, PredictDone, Reply, Give, Take, Eat, shared
    <3>. QED  BY <1>1, <3>1 DEF StatusInv, DownloadPending
  <2>. QED  BY <2>1, <2>2, <2>3
<1>. QED  BY <1>1, <1>2, <1>3, ImageFrame

\* An error or a reset forgets the download.
LEMMA ResetImage ==
  ASSUME SafetyInv, dfu' = ResetFlags(dfu), image' = <<>>, sm' = "reset"
  PROVE  ImageInv'
<1>1. dfu'.current_state = "IDLE"
  BY DEF SafetyInv, TypeOK, DfuData, ResetFlags
<1>. QED  BY <1>1 DEF ImageInv, ResetInv, Resetting

\* The steps of the state machine in a request that is not a DNLOAD.
LEMMA NotPending ==
  ASSUME SafetyInv, ReplyInv, StatusInv,
         \/ sm = "dispatch" /\ event \in {{"GETSTATUS"}, {"UPLOAD"}}
         \/ sm = "read"
  PROVE  ~DownloadPending
<1>1. CASE sm = "dispatch" /\ event = {"GETSTATUS"}
  BY <1>1 DEF StatusInv, DownloadPending
<1>2. CASE (sm = "dispatch" /\ event = {"UPLOAD"}) \/ sm = "read"
  <2>1. event = {"UPLOAD"}
    BY <1>2 DEF SafetyInv, PhaseInv
  <2>2. srv = "take" /\ bits = {}
    BY <1>2, <2>1 DEF SafetyInv, UploadInv, UploadUnderWay, ReplyInv
  <2>. QED  BY <2>1, <2>2 DEF DownloadPending
<1>. QED  BY <1>1, <1>2

LEMMA InternalImage ==
  ASSUME SafetyInv, ReplyInv, EdgeInv, StatusInv, ImageInv, Internal
  PROVE  ImageInv'
<1>0. /\ TypeOK /\ BoundsInv /\ dfu \in DfuData
      /\ dfu.data_xfer_length \in {0, 1} /\ dfu.alt_setting \in Alternate
  BY DEF SafetyInv, TypeOK, DfuData
<1>1. /\ UNCHANGED <<srv, req, bits>>
      /\ sm' \notin {"count", "dispatch"}
      /\ event' = IF sm' = "wait" THEN {} ELSE event
  BY InternalFrame DEF srvVars, shared
\* Once the request is dispatched, one that is pending comes after it.
<1>2. sm \notin {"count", "dispatch"} => (DownloadPending' <=> DownloadPending)
  BY <1>1 DEF DownloadPending
<1>3. ~DownloadPending => ~DownloadPending' /\ ~Transfer'
  BY <1>1 DEF DownloadPending, Transfer
<1>4. ~Resetting => IdleInv /\ DownloadInv /\ ManifestInv
  BY DEF ImageInv
<1>. USE DEF Local, Move, ResetFlags, ResetCounts, ClearBuffer, Flushed, DfuData, Dispatch
<1>5. ASSUME NEW status \in Status, Reset(status) PROVE ImageInv'
  BY <1>5, ResetImage DEF Reset
<1>6. CASE ResetDownload
  <2>1. /\ Fresh' /\ dfu'.data_xfer_length = 0 /\ sm' = "wipe"
        /\ dfu'.current_state = "IDLE"
    BY <1>0, <1>6 DEF ResetDownload, ImageInv, ResetInv, Resetting, Fresh
  <2>. QED  BY <2>1 DEF ImageInv, ResetInv, Resetting, Fresh
<1>7. CASE WipeBuffer
  <2>1. /\ Fresh' /\ dfu'.data_xfer_length = 0 /\ sm' \in {"wait", "error"}
        /\ dfu'.current_state = "IDLE"
    BY <1>0, <1>7 DEF WipeBuffer, ImageInv, ResetInv, Resetting, Fresh
  <2>2. ~Transfer'
    BY <2>1 DEF Transfer
  <2>. QED
    BY <2>1, <2>2 DEF ImageInv, ResetInv, Resetting, Fresh, IdleInv, DownloadInv, ManifestInv
<1>8. CASE EnterError
  <2>1. dfu'.current_state = "ERROR" /\ sm' \in {"give_back", "wait"}
    BY <1>0, <1>8 DEF EnterError, EnterErrorAnd
  <2>. QED
    BY <2>1 DEF ImageInv, ResetInv, Resetting, IdleInv, DownloadInv, ManifestInv
<1>9. CASE HandleDownload
  <2>1. Transfer /\ ~Resetting
    BY <1>0, <1>9 DEF HandleDownload, Transfer, DownloadPending, Resetting
  <2>2. Holds(1)
    BY <1>4, <1>9, <2>1 DEF HandleDownload, IdleInv, DownloadInv
  <2>3. /\ dfu'.current_state = "DNLOAD_SYNC" /\ dfu'.in_progress = TRUE /\ sm' = "wait"
        /\ UNCHANGED <<dfu.download_block_number, dfu.frag_number, dfu.dfu_data_buffer>>
        /\ UNCHANGED <<image, flash, dn_base_addr>>
    BY <1>0, <1>9 DEF HandleDownload, flashVars
  <2>4. Holds(1)'
    BY <2>2, <2>3, ContentFrame
  <2>. QED
    BY <2>3, <2>4 DEF ImageInv, ResetInv, Resetting, IdleInv, DownloadInv, ManifestInv
<1>10. CASE HandleDownloadEnd
  <2>1. ~Transfer /\ ~Resetting /\ ~Refused
    BY <1>10 DEF HandleDownloadEnd, Transfer, Resetting, Refused
  <2>2. Holds(0)
    BY <1>4, <1>10, <2>1 DEF HandleDownloadEnd, DownloadInv
  <2>3. /\ dfu'.current_state = "MANIFEST_SYNC" /\ dfu'.frag_number = 0 /\ sm' = "wait"
        /\ UNCHANGED <<image, flash, dn_base_addr>>
    BY <1>0, <1>10 DEF HandleDownloadEnd, flashVars
  <2>4. Kept'
    <3>1. Kept
      BY <1>0, <2>1, <2>2, Ended
    <3>. QED  BY <2>3, <3>1 DEF Kept, FullSectors, OnFlash, Sent
  <2>. QED
    BY <2>3, <2>4 DEF ImageInv, ResetInv, Resetting, IdleInv, DownloadInv, ManifestInv
<1>11. CASE RejectDownload \/ RejectUpload
  BY <1>5, <1>11 DEF RejectDownload, RejectUpload, Status
<1>12. CASE HandleUpload \/ ReadFragment \/ ReadPastEnd
  <2>1. ~DownloadPending /\ ~Resetting /\ dfu.current_state \in {"IDLE", "UPLOAD_IDLE"}
    <3>1. \/ sm = "dispatch" /\ event = {"UPLOAD"}
          \/ sm = "read"
      BY <1>12 DEF HandleUpload, ReadFragment, ReadBlock, ReadPastEnd
    <3>2. dfu.current_state \in {"IDLE", "UPLOAD_IDLE"}
      BY <1>12 DEF HandleUpload, ReadFragment, ReadBlock, ReadPastEnd, EdgeInv
    <3>. QED  BY <3>1, <3>2, NotPending DEF Resetting
  <2>2. Fresh
    BY <1>4, <2>1 DEF IdleInv, Transfer
  <2>3. /\ Fresh' /\ dfu'.current_state \in {"IDLE", "UPLOAD_IDLE"}
        /\ sm' \in {"read", "give_back"}
    <3>1. CASE HandleUpload
      BY <1>0, <2>2, <3>1 DEF HandleUpload, Fresh
    <3>2. CASE ReadFragment
      BY <1>0, <2>2, <3>2 DEF ReadFragment, ReadBlock, Fresh
    <3>3. CASE ReadPastEnd
      BY <1>0, <2>2, <3>3 DEF ReadPastEnd, Fresh
    <3>. QED  BY <1>12, <3>1, <3>2, <3>3
  <2>. QED
    BY <1>3, <2>1, <2>3 DEF ImageInv, ResetInv, Resetting, IdleInv, DownloadInv, ManifestInv
<1>13. CASE StayPut
  <2>1. /\ UNCHANGED <<image, flash, dn_base_addr, tmp_buf, retval>>
        /\ UNCHANGED <<dfu.download_block_number, dfu.frag_number, dfu.dfu_data_buffer,
                       dfu.current_state, dfu.in_progress, dfu.data_xfer_length>>
        /\ sm' = "wait" /\ sm \in AtRest
    BY <1>0, <1>13 DEF StayPut, InGetStatus, flashVars, AtRest
  <2>2. DownloadPending' <=> DownloadPending
    BY <1>1, <1>2, <1>3, <1>13, NotPending DEF StayPut, InGetStatus
  <2>. QED  BY <2>1, <2>2, ImageFrame DEF AtRest
<1>14. CASE StartBusy \/ SyncDone \/ ManifestDone
  <2>1. ~DownloadPending /\ ~Resetting
    <3>1. sm = "dispatch" /\ event = {"GETSTATUS"}
      BY <1>14 DEF StartBusy, SyncDone, ManifestDone, InGetStatus, SafetyInv, PhaseInv
    <3>. QED  BY <3>1, NotPending DEF Resetting
  <2>2. CASE StartBusy
    <3>1. /\ sm' = "busy" /\ UNCHANGED <<image, flash, dn_base_addr>>
          /\ UNCHANGED <<dfu.download_block_number, dfu.frag_number, dfu.dfu_data_buffer>>
          /\ dfu.in_progress
          /\ \/ dfu.current_state = "DNLOAD_SYNC" /\ dfu'.current_state = "DNBUSY"
             \/ dfu.current_state = "MANIFEST_SYNC" /\ dfu'.current_state = "MANIFEST"
      BY <1>0, <2>2 DEF StartBusy, flashVars
    <3>2. dfu'.current_state = "DNBUSY" => Holds(1)'
      BY <1>4, <2>1, <3>1, ContentFrame DEF DownloadInv
    <3>3. dfu'.current_state = "MANIFEST" => dfu'.frag_number = 0
      BY <1>4, <2>1, <3>1 DEF ManifestInv
    <3>. QED
      BY <3>1, <3>2, <3>3
         DEF ImageInv, ResetInv, Resetting, IdleInv, DownloadInv, ManifestInv
  <2>3. CASE SyncDone
    <3>1. /\ sm' = "wait" /\ UNCHANGED <<image, flash, dn_base_addr>>
          /\ UNCHANGED <<dfu.download_block_number, dfu.frag_number, dfu.dfu_data_buffer>>
          /\ ~dfu.in_progress /\ dfu.current_state = "DNLOAD_SYNC"
          /\ dfu'.current_state = "DNLOAD_IDLE"
      BY <1>0, <2>3 DEF SyncDone, flashVars
    <3>2. Holds(0)'
      BY <1>4, <2>1, <3>1, ContentFrame DEF DownloadInv
    <3>. QED
      BY <1>3, <2>1, <3>1, <3>2
         DEF ImageInv, ResetInv, Resetting, IdleInv, DownloadInv, ManifestInv
  <2>4. CASE ManifestDone
    <3>1. /\ sm' = "wait" /\ image' = <<>> /\ dfu'.current_state = "IDLE"
          /\ UNCHANGED <<dfu.download_block_number, dfu.frag_number>>
          /\ dfu.current_state = "MANIFEST_SYNC"
      BY <1>0, <2>4 DEF ManifestDone
    <3>2. dfu.download_block_number = 0 /\ dfu.frag_number = 0
      BY <1>0, <1>4, <2>1, <3>1 DEF BoundsInv, ManifestInv
    <3>. QED
      BY <1>3, <2>1, <3>1, <3>2
         DEF ImageInv, ResetInv, Resetting, Fresh, IdleInv, DownloadInv, ManifestInv
  <2>. QED  BY <1>14, <2>2, <2>3, <2>4
<1>15. CASE BufferFragment \/ WriteRefused \/ StartWrite \/ EndWrite
  <2>1. /\ sm \in {"busy", "program"} /\ ~Resetting /\ ~Refused
        /\ dfu.current_state = "DNBUSY"
    BY <1>15 DEF BufferFragment, WriteRefused, SectorFull, StartWrite, EndWrite, Resetting,
                 Refused, SafetyInv, PhaseInv
  <2>2. DownloadPending' <=> DownloadPending
    BY <1>2, <2>1
  <2>3. DownloadPending \/ Holds(1)
    BY <1>4, <2>1 DEF DownloadInv
  <2>4. CASE BufferFragment
    <3>1. sm' = "finish" /\ dfu'.current_state = "DNBUSY"
      BY <1>0, <2>1, <2>4 DEF BufferFragment
    <3>2. Holds(1) => Holds(0)'
      BY <1>0, <2>4, Buffered DEF BufferFragment, flashVars
    <3>. QED
      BY <2>2, <2>3, <3>1, <3>2
         DEF ImageInv, ResetInv, Resetting, IdleInv, DownloadInv, ManifestInv
  <2>5. CASE WriteRefused
    <3>1. sm' = "finish" /\ dfu'.current_state = "DNBUSY" /\ retval' # "OK"
      BY <1>0, <2>1, <2>5 DEF WriteRefused
    <3>. QED
      BY <3>1 DEF ImageInv, ResetInv, Resetting, IdleInv, DownloadInv, ManifestInv
  <2>6. CASE StartWrite
    <3>1. /\ sm' = "program" /\ dfu' = dfu /\ image' = image
          /\ dfu.frag_number = NumFragments - 1
          /\ EraseSector(dfu.alt_setting, dfu.download_block_number, dfu.dfu_data_buffer)
      BY <2>6 DEF StartWrite, SectorFull
    <3>2. Holds(1) =>
            /\ Holds(1)'
            /\ \A f \in FragmentIndex : tmp_buf'[f] = Sent(dfu.download_block_number, f)'
      BY <1>0, <2>1, <3>1, Erased
    <3>. QED
      BY <2>1, <2>2, <2>3, <3>1, <3>2
         DEF ImageInv, ResetInv, Resetting, IdleInv, DownloadInv, ManifestInv
  <2>7. CASE EndWrite
    <3>1. /\ sm = "program" /\ sm' = "finish" /\ dfu'.current_state = "DNBUSY"
          /\ dfu' = Flushed(dfu) /\ image' = image /\ ProgramSector
      BY <1>0, <2>1, <2>7 DEF EndWrite
    <3>2. /\ dfu.frag_number = NumFragments - 1
          /\ \/ DownloadPending
             \/ \A f \in FragmentIndex : tmp_buf[f] = Sent(dfu.download_block_number, f)
      BY <3>1 DEF ImageInv
    <3>3. DownloadPending \/ Holds(0)'
      BY <1>0, <2>3, <3>1, <3>2, Programmed
    <3>. QED
      BY <2>2, <3>1, <3>3 DEF ImageInv, ResetInv, Resetting, IdleInv, DownloadInv, ManifestInv
  <2>. QED  BY <1>15, <2>4, <2>5, <2>6, <2>7
<1>16. CASE Manifest
  <2>1. /\ sm' = "finish" /\ dfu.current_state = "MANIFEST" /\ dfu' = dfu /\ ~Resetting
    BY <1>16 DEF Manifest, Resetting
  <2>2. dfu'.frag_number = 0
    BY <1>4, <2>1 DEF ManifestInv
  <2>. QED
    BY <2>1, <2>2 DEF ImageInv, ResetInv, Resetting, IdleInv, DownloadInv, ManifestInv
<1>17. CASE FinishBusy
  <2>1. /\ sm = "finish" /\ retval = "OK" /\ sm' = "wait" /\ ~Resetting
        /\ UNCHANGED <<image, flash, dn_base_addr>>
        /\ UNCHANGED <<dfu.download_block_number, dfu.frag_number, dfu.dfu_data_buffer>>
        /\ dfu'.in_progress = FALSE
        /\ \/ dfu.current_state = "DNBUSY" /\ dfu'.current_state = "DNLOAD_SYNC"
           \/ dfu.current_state = "MANIFEST" /\ dfu'.current_state = "MANIFEST_SYNC"
    BY <1>0, <1>17 DEF FinishBusy, flashVars, Resetting, SafetyInv, PhaseInv, BusyPoint
  <2>2. dfu'.current_state = "DNLOAD_SYNC" => DownloadPending' \/ Holds(0)'
    BY <1>2, <1>4, <2>1, ContentFrame DEF DownloadInv
  <2>3. dfu'.current_state = "MANIFEST_SYNC" => dfu'.frag_number = 0
    BY <1>4, <2>1 DEF ManifestInv
  <2>. QED
    BY <2>1, <2>2, <2>3 DEF ImageInv, ResetInv, Resetting, IdleInv, DownloadInv, ManifestInv
<1>18. CASE FinishError
  BY <1>5, <1>18 DEF FinishError, SafetyInv, TypeOK, Status
<1>19. CASE \E r \in {"CLRSTATUS", "ABORT", "SETALTERNATE"} : HandleReset(r)
  BY <1>5, <1>19 DEF HandleReset, Status
<1>. QED
  BY <1>6, <1>7, <1>8, <1>9, <1>10, <1>11, <1>12, <1>13, <1>14, <1>15, <1>16, <1>17, <1>18,
     <1>19 DEF Internal

LEMMA ImageStep ==
  ASSUME SlowHost, SafetyInv, ReplyInv, EdgeInv, StatusInv, ImageInv, [Next]_vars
  PROVE  ImageInv'
<1>1. CASE Outside
  BY <1>1, HostImage, ServicerImage DEF Outside
<1>2. CASE Internal
  BY <1>2, InternalImage
<1>3. CASE WatchdogFires
  <2>1. /\ dfu' = PowerOn /\ image' = <<>> /\ sm' = "wait" /\ bits' = {} /\ srv' = "ready"
    BY <1>3 DEF WatchdogFires
  <2>2. ~Transfer' /\ Fresh' /\ dfu'.current_state = "IDLE"
    BY <2>1 DEF Transfer, DownloadPending, Fresh, PowerOn
  <2>. QED
    BY <2>1, <2>2 DEF ImageInv, ResetInv, Resetting, IdleInv, DownloadInv, ManifestInv
<1>4. CASE UNCHANGED vars
  <2>1. DownloadPending' <=> DownloadPending
    BY <1>4 DEF vars, smVars, srvVars, shared, DownloadPending
  <2>. QED  BY <1>4, <2>1, ImageFrame DEF vars, smVars, flashVars, history
<1>5. CASE Wake \/ CountOne \/ GiveBack
  <2>1. DownloadPending' <=> DownloadPending
    BY <1>5 DEF Wake, CountOne, GiveBack, srvVars, DownloadPending
  <2>2. {sm, sm'} \subseteq AtRest
    BY <1>5 DEF Wake, CountOne, GiveBack, AtRest
  <2>. QED
    BY <1>5, <2>1, <2>2, ImageFrame DEF Wake, CountOne, GiveBack, flashVars, history
<1>6. CASE CountOther
  BY <1>6, ResetImage DEF CountOther
<1>. QED  BY <1>1, <1>2, <1>3, <1>4, <1>5, <1>6, StepKinds

LEMMA ImageHolds ==
  ASSUME SlowHost
  PROVE  Spec => [](SafetyInv /\ ImageInv)
<1>1. Init => ReplyInv /\ EdgeInv
  BY DEF Init, TasksInit, ReplyInv, EdgeInv
<1>2. Init => StatusInv
  BY DEF Init, TasksInit, StatusInv
<1>3. Init => ImageInv
  <2>1. ASSUME Init PROVE ImageInv
    <3>1. ~Transfer /\ Fresh /\ dfu.current_state = "IDLE" /\ sm = "wait"
      BY <2>1 DEF Init, TasksInit, Transfer, DownloadPending, Fresh, PowerOn
    <3>. QED
      BY <3>1 DEF ImageInv, ResetInv, Resetting, IdleInv, DownloadInv, ManifestInv
  <2>. QED  BY <2>1
<1>4. SafetyInv /\ ReplyInv /\ EdgeInv /\ StatusInv /\ ImageInv /\ [Next]_vars =>
        ReplyInv' /\ EdgeInv' /\ StatusInv' /\ ImageInv'
  BY ReplyStep, EdgeStep, StatusStep, ImageStep
<1>. QED  BY <1>1, <1>2, <1>3, <1>4, Safety, PTL DEF Spec

\* For every host that is slower than the dispatch of a request, whatever it sends and
\* whether or not it waits its timeouts, and for partitions and sectors of every size:
\* between two transfers of a download the buffer and the flash hold what it sent.
THEOREM DownloadsAreAssembled ==
  ASSUME SlowHost
  PROVE  Spec => []ImageAssembled
<1>1. SafetyInv /\ ImageInv => ImageAssembled
  <2>1. ASSUME SafetyInv, ImageInv, Quiet, dfu.current_state = "DNLOAD_IDLE" PROVE Holds(0)
    BY <2>1 DEF Quiet, ImageInv, Resetting, DownloadInv, Transfer, DownloadPending
  <2>2. ASSUME SafetyInv, Holds(0)
        PROVE  /\ Len(image) = dfu.download_block_number * NumFragments + dfu.frag_number
               /\ \A f \in 0 .. dfu.frag_number - 1 :
                    dfu.dfu_data_buffer[f] = Sent(dfu.download_block_number, f)
    <3>1. dfu.download_block_number \in Nat /\ dfu.frag_number \in Nat
          /\ dfu.download_block_number * NumFragments \in Nat
      BY <2>2, FlashAssumption DEF SafetyInv, TypeOK, DfuData, FragmentIndex
    <3>. QED  BY <2>2, <3>1 DEF Holds
  <2>. QED  BY <2>1, <2>2 DEF ImageAssembled, Holds, OnFlash
<1>. QED  BY <1>1, ImageHolds, PTL

\* For the same hosts: at the manifestation of a download, every sector that its
\* transfers filled is on the flash, in order, and inside the partition.
THEOREM ManifestsHoldTheirSectors ==
  ASSUME SlowHost
  PROVE  Spec => []ManifestHoldsSectors
<1>1. ASSUME SafetyInv, ImageInv, AtManifest, dn_base_addr # NoBase,
             NEW i \in 0 .. NumFragments * FullSectors - 1
      PROVE  /\ i \div NumFragments < Capacity[dn_base_addr]
             /\ flash[dn_base_addr][i \div NumFragments][i % NumFragments] = image[i + 1]
  <2>1. FullSectors <= Capacity[dn_base_addr] /\ OnFlash(FullSectors)
    BY <1>1 DEF AtManifest, Quiet, ImageInv, Resetting, ManifestInv, DownloadPending, Kept
  <2>2. /\ NumFragments \in Nat \ {0} /\ Len(image) \in Nat
        /\ Capacity[dn_base_addr] \in Nat
    BY <1>1, FlashAssumption DEF SafetyInv, TypeOK, FlashTypeOK
  <2>3. FullSectors \in Nat
    BY <2>2 DEF FullSectors
  <2>4. i \in Nat /\ i < FullSectors * NumFragments
    <3>1. NumFragments * FullSectors = FullSectors * NumFragments
      BY <2>2, <2>3
    <3>. QED  BY <2>2, <2>3, <3>1
  <2>5. i \div NumFragments \in 0 .. FullSectors - 1 /\ i % NumFragments \in FragmentIndex
    BY <2>2, <2>3, <2>4, DivisionBound DEF FragmentIndex
  <2>6. (i \div NumFragments) * NumFragments + (i % NumFragments) + 1 = i + 1
    <3>1. /\ i = NumFragments * (i \div NumFragments) + (i % NumFragments)
          /\ i \div NumFragments \in Nat /\ i % NumFragments \in Nat
      BY <2>2, <2>4
    <3>2. \A q \in Nat : q * NumFragments = NumFragments * q
      BY <2>2
    <3>. QED  BY <3>1, <3>2
  <2>7. i \div NumFragments < Capacity[dn_base_addr]
    BY <2>1, <2>2, <2>3, <2>5
  <2>8. flash[dn_base_addr][i \div NumFragments][i % NumFragments]
          = image[(i \div NumFragments) * NumFragments + (i % NumFragments) + 1]
    BY <2>1, <2>5 DEF OnFlash, Sent
  <2>. QED  BY <2>6, <2>7, <2>8
<1>2. SafetyInv /\ ImageInv => ManifestHoldsSectors
  BY <1>1 DEF ManifestHoldsSectors, HeldFrom, FullSectors
<1>. QED  BY <1>2, ImageHolds, PTL

\* For the same hosts: an image that is a whole number of sectors is on the flash when
\* it is manifested.  Only the fragments behind the last full sector are ever missing.
WholeSectors == Len(image) % NumFragments = 0
THEOREM PaddedImagesAreHeld ==
  ASSUME SlowHost
  PROVE  Spec => [](WholeSectors => ManifestHoldsImage)
<1>1. ASSUME SafetyInv, ManifestHoldsSectors, WholeSectors
      PROVE  ManifestHoldsImage
  <2>1. NumFragments \in Nat \ {0} /\ Len(image) \in Nat
    BY <1>1, FlashAssumption DEF SafetyInv, TypeOK
  <2>2. NumFragments * (Len(image) \div NumFragments) = Len(image)
    BY <1>1, <2>1 DEF WholeSectors
  <2>. QED  BY <1>1, <2>2 DEF ManifestHoldsSectors, ManifestHoldsImage
<1>2. SafetyInv /\ ManifestHoldsSectors => (WholeSectors => ManifestHoldsImage)
  BY <1>1
<1>. QED  BY <1>2, ManifestsHoldTheirSectors, Safety, PTL

-----------------------------------------------------------------------------
(***************************************************************************)
(* What a GETSTATUS announces, for a host that also keeps to one request   *)
(* at a time and to the poll timeouts.                                     *)
(***************************************************************************)
OneAtATime == SlowHost /\ Backlog = {}
PacedHost == OneAtATime /\ RespectsTimeout = TRUE

\* One request is under way at most, and the counter says whether it is notified.
OneInv ==
  /\ srv \in {"predict", "give", "notify"} => bits = {} /\ sm # "count"
  /\ sm = "count" => bits = {}
  /\ counter = IF bits # {} \/ srv = "notify" \/ sm = "count" THEN 1 ELSE 0

\* Between the two reads of a forecast the state machine is where it was, or is on
\* its way out of a flash operation.
ReadInv ==
  srv = "predict" =>
    /\ ~waiting /\ last = [op |-> "GETSTATUS", told |-> "IDLE"]
    /\ IF seen \in {"DNBUSY", "MANIFEST"}
       THEN sm \in BusyPoint \cup {"wait", "reset", "wipe", "error"}
       ELSE dfu.current_state = seen

Announced == last.op = "GETSTATUS" /\ last.told # "IDLE"
StatusPending ==
  \/ srv \in {"give", "notify"} /\ req = "GETSTATUS"
  \/ "GETSTATUS" \in bits
  \/ sm \in {"count", "dispatch"} /\ "GETSTATUS" \in event

\* The state that the handler of GETSTATUS will start from.
Starts ==
  \/ last.told \in {"UPLOAD_IDLE", "ERROR", "DNLOAD_IDLE"} /\ dfu.current_state = last.told
  \/ last.told = "DNBUSY" /\ dfu.current_state = "DNLOAD_SYNC" /\ dfu.in_progress
  \/ last.told = "MANIFEST" /\ dfu.current_state = "MANIFEST_SYNC" /\ dfu.in_progress
  \/ last.told = "DNLOAD_IDLE" /\ dfu.current_state = "DNLOAD_SYNC" /\ ~dfu.in_progress

\* Where it is once the handler has run.
Follows ==
  /\ srv = "ready" /\ bits = {}
  /\ \/ sm = "wait" /\ dfu.current_state \in Reached(last.told)
     \/ sm \in BusyPoint /\ dfu.current_state = last.told
     \/ Resetting /\ retval # "OK" /\ last.told \in {"DNBUSY", "MANIFEST"}

ForecastInv == Announced => IF StatusPending THEN Starts ELSE Follows

LEMMA OneStep ==
  ASSUME OneAtATime, SafetyInv, OneInv, [Next]_vars
  PROVE  OneInv'
<1>1. CASE Outside
  <2>0. UNCHANGED sm
    BY <1>1, OutsideFrame DEF SafetyInv, smVars
  <2>1. CASE HostRequest
    <3>1. PICK op : HostSends(op)
      BY <2>1 DEF HostRequest, Download, DownloadEnd, Simple, SetAlternate, SetTransferBlock,
                  GetStatus, Detach
    <3>2. srv = "ready" /\ bits = {} /\ sm # "count"
      BY <3>1 DEF HostSends, OneAtATime, SlowHost
    <3>3. UNCHANGED <<bits, counter>> /\ srv' \in {"predict", "give", "ready"}
      BY <2>1, <3>2 DEF HostRequest, Download, DownloadEnd, Simple, SetAlternate,
                        SetTransferBlock, GetStatus, Detach, Ask, shared, srvVars
    <3>. QED  BY <2>0, <3>2, <3>3 DEF OneInv
  <2>2. CASE Give
    BY <2>0, <2>2 DEF Give, OneInv
  <2>3. CASE Notify
    BY <2>0, <2>3 DEF Notify, OneInv
  <2>4. CASE Servicer /\ ~Give /\ ~Notify
    <3>1. /\ UNCHANGED <<bits, counter>>
          /\ \/ srv = "predict" /\ srv' \in {"give", "ready"}
             \/ srv \in {"take", "eat"} /\ srv' \in {"eat", "ready"}
      BY <2>4 DEF Servicer, PredictSame, PredictTooEarly, PredictStillBusy, PredictDownload,
                  PredictManifest, PredictDone, Reply, Take, Eat, shared
    <3>. QED  BY <2>0, <3>1 DEF OneInv
  <2>5. CASE TimeoutExpires
    BY <2>0, <2>5 DEF TimeoutExpires, srvVars, OneInv
  <2>. QED  BY <1>1, <2>1, <2>2, <2>3, <2>4, <2>5 DEF Outside
<1>2. CASE WatchdogFires
  BY <1>2 DEF WatchdogFires, OneInv
<1>3. CASE UNCHANGED vars
  BY <1>3 DEF vars, smVars, srvVars, shared, OneInv
<1>4. CASE Wake \/ CountOne \/ CountOther \/ GiveBack
  BY <1>4 DEF Wake, CountOne, CountOther, GiveBack, Took, srvVars, OneInv
<1>5. CASE Internal
  <2>1. UNCHANGED <<bits, counter, srv>> /\ sm # "count" /\ sm' # "count"
    BY <1>5, InternalFrame DEF srvVars, shared
  <2>. QED  BY <2>1 DEF OneInv
<1>. QED  BY <1>1, <1>2, <1>3, <1>4, <1>5, StepKinds

\* The steps that a flash operation and the error it may end in are made of.
LEMMA BusyPath ==
  ASSUME SafetyInv, EdgeInv, Internal, srv # "take",
         sm \in BusyPoint \cup {"reset", "wipe", "error"}
  PROVE  \/ sm \in BusyPoint /\ sm' \in BusyPoint /\ dfu'.current_state = dfu.current_state
         \/ /\ sm = "finish" /\ sm' = "wait"
            /\ \/ dfu.current_state = "DNBUSY" /\ dfu'.current_state = "DNLOAD_SYNC"
               \/ dfu.current_state = "MANIFEST" /\ dfu'.current_state = "MANIFEST_SYNC"
         \/ /\ sm = "finish" /\ sm' = "reset" /\ retval' # "OK"
            /\ dfu.current_state \in {"DNBUSY", "MANIFEST"}
         \/ sm = "reset" /\ sm' = "wipe" /\ retval' = retval
         \/ sm = "wipe" /\ sm' = (IF retval = "OK" THEN "wait" ELSE "error") /\ retval' = retval
         \/ sm = "error" /\ sm' = "wait" /\ dfu'.current_state = "ERROR"
<1>0. dfu \in DfuData /\ (sm \in BusyPoint => dfu.current_state \in {"DNBUSY", "MANIFEST"})
  BY DEF SafetyInv, TypeOK, PhaseInv
<1>. USE DEF Local, BusyPoint, DfuData, Flushed, ClearBuffer
<1>1. CASE ResetDownload \/ WipeBuffer
  BY <1>1 DEF ResetDownload, WipeBuffer
<1>2. CASE EnterError
  <2>1. sm = "error" /\ event # {"UPLOAD"}
    BY <1>2 DEF EnterError, EnterErrorAnd, SafetyInv, UploadInv, UploadUnderWay
  <2>. QED  BY <1>0, <1>2, <2>1 DEF EnterError, EnterErrorAnd
<1>3. CASE BufferFragment \/ WriteRefused \/ StartWrite \/ EndWrite \/ Manifest
  <2>1. sm \in BusyPoint /\ sm' \in BusyPoint
    BY <1>3 DEF BufferFragment, WriteRefused, SectorFull, StartWrite, EndWrite, Manifest
  <2>2. dfu'.current_state = dfu.current_state
    BY <1>0, <1>3 DEF BufferFragment, WriteRefused, SectorFull, StartWrite, EndWrite, Manifest
  <2>. QED  BY <2>1, <2>2
<1>4. CASE FinishBusy
  BY <1>0, <1>4 DEF FinishBusy
<1>5. CASE FinishError
  BY <1>0, <1>5 DEF FinishError, Reset
<1>6. sm \notin {"dispatch", "read", "getstatus"}
  OBVIOUS
<1>. QED
  BY <1>1, <1>2, <1>3, <1>4, <1>5, <1>6
     DEF Internal, HandleDownload, HandleDownloadEnd, RejectDownload, HandleUpload,
         RejectUpload, ReadFragment, ReadBlock, ReadPastEnd, StayPut, StartBusy, SyncDone,
         ManifestDone, InGetStatus, HandleReset, Dispatch

LEMMA ReadStep ==
  ASSUME PacedHost, SafetyInv, EdgeInv, StatusInv, OneInv, ReadInv, [Next]_vars
  PROVE  ReadInv'
<1>0. /\ srv = "predict" => sm # "count" /\ bits = {}
      /\ srv = "predict" /\ seen \notin {"DNBUSY", "MANIFEST"} => sm = "wait"
  BY DEF OneInv, StatusInv
<1>1. CASE Outside
  <2>0. UNCHANGED smVars /\ dfu'.current_state = dfu.current_state
    BY <1>1, OutsideFrame DEF SafetyInv
  <2>1. CASE GetStatus
    <3>1. ~waiting' /\ last' = [op |-> "GETSTATUS", told |-> "IDLE"] /\ seen' = dfu.current_state
      BY <2>1 DEF GetStatus, HostSends, PacedHost, Record, Nothing, shared
    <3>2. dfu.current_state \in {"DNBUSY", "MANIFEST"} => sm \in BusyPoint
      BY DEF SafetyInv, PhaseInv
    <3>. QED  BY <2>0, <3>1, <3>2 DEF ReadInv, smVars
  <2>2. CASE (HostRequest /\ ~GetStatus) \/ Servicer
    <3>1. srv' # "predict"
      BY <2>2 DEF HostRequest, Download, DownloadEnd, Simple, SetAlternate, SetTransferBlock,
                  Detach, HostSends, Ask, srvVars, Servicer, PredictSame, PredictTooEarly,
                  PredictStillBusy, PredictDownload, PredictManifest, PredictDone, Reply, Give,
                  Notify, Take, Eat
    <3>. QED  BY <3>1 DEF ReadInv
  <2>3. CASE TimeoutExpires
    BY <2>0, <2>3 DEF TimeoutExpires, ReadInv, srvVars, smVars, history
  <2>. QED  BY <1>1, <2>1, <2>2, <2>3 DEF Outside
<1>2. CASE WatchdogFires
  BY <1>2 DEF WatchdogFires, ReadInv
<1>3. CASE UNCHANGED vars
  BY <1>3 DEF vars, smVars, srvVars, shared, history, ReadInv
<1>4. CASE Wake \/ CountOne \/ CountOther \/ GiveBack
  <2>1. srv # "predict"
    BY <1>0, <1>4 DEF Wake, CountOne, CountOther, GiveBack, ReadInv, BusyPoint
  <2>2. srv' # "predict"
    BY <1>4, <2>1 DEF Wake, CountOne, CountOther, GiveBack, srvVars
  <2>. QED  BY <2>2 DEF ReadInv
<1>5. CASE Internal
  <2>1. UNCHANGED <<srv, seen, waiting, last>> /\ sm # "wait"
    <3>1. UNCHANGED last
      BY <1>5 DEF Internal, ResetDownload, WipeBuffer, EnterError, EnterErrorAnd,
                  HandleDownload, HandleDownloadEnd, RejectDownload, HandleUpload,
                  RejectUpload, ReadFragment, ReadBlock, ReadPastEnd, StayPut, StartBusy,
                  SyncDone, ManifestDone, BufferFragment, WriteRefused, StartWrite, EndWrite,
                  Manifest, FinishBusy, FinishError, HandleReset, Move, Reset, Local
    <3>. QED  BY <1>5, <3>1, InternalFrame DEF srvVars, shared
  <2>2. ASSUME srv = "predict"
        PROVE  seen \in {"DNBUSY", "MANIFEST"} /\ sm' \in BusyPoint \cup {"wait", "reset", "wipe", "error"}
    <3>1. seen \in {"DNBUSY", "MANIFEST"} /\ sm \in BusyPoint \cup {"reset", "wipe", "error"}
      BY <1>0, <2>1, <2>2 DEF ReadInv
    <3>. QED  BY <1>5, <2>2, <3>1, BusyPath DEF BusyPoint
  <2>. QED  BY <2>1, <2>2 DEF ReadInv
<1>. QED  BY <1>1, <1>2, <1>3, <1>4, <1>5, StepKinds

LEMMA ForecastStep ==
  ASSUME PacedHost, SafetyInv, EdgeInv, StatusInv, OneInv, ReadInv, ImageInv, ForecastInv,
         [Next]_vars
  PROVE  ForecastInv'
<1>0. /\ dfu \in DfuData /\ dfu.current_state \in DfuState
      /\ sm \in BusyPoint <=> dfu.current_state \in {"DNBUSY", "MANIFEST"}
  BY DEF SafetyInv, TypeOK, PhaseInv, DfuData
\* Who may be where while an announcement stands.
<1>1. Announced /\ StatusPending => \/ srv \in {"give", "notify"} /\ req = "GETSTATUS"
                                       /\ sm = "wait" /\ bits = {}
                                    \/ srv = "ready" /\ bits = {"GETSTATUS"} /\ sm = "wait"
                                    \/ srv = "ready" /\ bits = {} /\ sm \in {"count", "dispatch"}
                                       /\ "GETSTATUS" \in event
  BY DEF StatusPending, StatusInv
<1>2. Announced /\ ~StatusPending => Follows
  BY DEF ForecastInv
<1>3. Announced /\ StatusPending => Starts
  BY DEF ForecastInv
<1>4. CASE Outside
  <2>0. UNCHANGED smVars /\ dfu'.current_state = dfu.current_state
    BY <1>4, OutsideFrame DEF SafetyInv
  <2>1. CASE HostRequest
    <3>0. PICK op : Record(op)
      BY <2>1 DEF HostRequest, Download, DownloadEnd, Simple, SetAlternate, SetTransferBlock,
                  GetStatus, Detach, Ask
    <3>1. last'.told = "IDLE"
      <4>1. CASE op = "GETSTATUS"
        BY <3>0, <4>1 DEF Record, Nothing
      <4>2. CASE op # "GETSTATUS"
        BY <3>0, <4>2 DEF Record, Nothing
      <4>. QED  BY <4>1, <4>2
    <3>. QED  BY <3>1 DEF ForecastInv, Announced
  <2>2. CASE PredictSame \/ PredictDownload \/ PredictManifest \/ PredictDone
    <3>1. /\ srv = "predict" /\ req = "GETSTATUS" /\ seen \notin {"DNBUSY", "MANIFEST"}
          /\ dfu.current_state = seen /\ last = [op |-> "GETSTATUS", told |-> "IDLE"]
      BY <2>2 DEF PredictSame, PredictDownload, PredictManifest, PredictDone, ReadInv, StatusInv
    <3>2. srv' = "give" /\ req' = "GETSTATUS" /\ dfu'.in_progress = dfu.in_progress
      BY <1>0, <2>2, <3>1 DEF PredictSame, PredictDownload, PredictManifest, PredictDone, Reply,
                              DfuData
    <3>3. \/ seen \in {"UPLOAD_IDLE", "IDLE", "ERROR", "DNLOAD_IDLE"} /\ last'.told = seen
          \/ seen = "DNLOAD_SYNC" /\ dfu.in_progress /\ last'.told = "DNBUSY"
          \/ seen = "MANIFEST_SYNC" /\ dfu.in_progress /\ last'.told = "MANIFEST"
          \/ seen = "DNLOAD_SYNC" /\ ~dfu.in_progress /\ last'.told = "DNLOAD_IDLE"
          \/ last'.told = "IDLE"
      BY <2>2, <3>1 DEF PredictSame, PredictDownload, PredictManifest, PredictDone, Reply
    <3>4. StatusPending'
      BY <3>2 DEF StatusPending
    <3>5. last'.told # "IDLE" => Starts'
      BY <2>0, <3>1, <3>2, <3>3 DEF Starts
    <3>. QED  BY <3>4, <3>5 DEF ForecastInv, Announced
  <2>3. CASE PredictTooEarly
    BY <2>3 DEF PredictTooEarly, ReadInv
  <2>4. CASE PredictStillBusy
    <3>1. /\ srv' = "ready" /\ last'.told = dfu.current_state /\ UNCHANGED bits /\ bits = {}
          /\ sm \in BusyPoint \cup {"wait", "reset", "wipe", "error"}
      BY <2>4 DEF PredictStillBusy, Reply, ReadInv, OneInv
    <3>2. ~StatusPending'
      BY <2>0, <3>1 DEF StatusPending, smVars, BusyPoint
    <3>3. CASE Resetting
      BY <3>1, <3>3 DEF ImageInv, ResetInv, ForecastInv, Announced
    <3>4. CASE sm = "wait"
      <4>1. dfu.current_state \in Reached(dfu.current_state)
        BY <1>0, <3>4 DEF Reached, BusyPoint
      <4>. QED  BY <2>0, <3>1, <3>2, <3>4, <4>1 DEF ForecastInv, Follows, smVars, Reached
    <3>5. CASE sm \in BusyPoint
      BY <2>0, <3>1, <3>2, <3>5 DEF ForecastInv, Follows, smVars
    <3>. QED  BY <3>1, <3>3, <3>4, <3>5 DEF Resetting
  <2>5. CASE Give \/ Notify
    <3>1. /\ UNCHANGED <<last, dfu>> /\ srv \in {"give", "notify"}
          /\ \/ srv' = "notify" /\ req' = req
             \/ req \in bits'
      BY <2>5 DEF Give, Notify, history
    <3>2. ASSUME Announced PROVE StatusPending' /\ Starts'
      <4>1. StatusPending
        BY <1>2, <3>1, <3>2 DEF Follows
      <4>2. req = "GETSTATUS"
        BY <1>1, <3>1, <3>2, <4>1
      <4>3. StatusPending'
        BY <3>1, <4>2 DEF StatusPending
      <4>. QED  BY <1>3, <3>1, <3>2, <4>1, <4>3 DEF Starts
    <3>. QED  BY <3>1, <3>2 DEF ForecastInv, Announced
  <2>6. CASE Take \/ Eat
    <3>1. UNCHANGED last /\ srv \in {"take", "eat"}
      BY <2>6 DEF Take, Eat, history
    <3>2. ~Announced
      BY <1>1, <1>2, <3>1 DEF Follows
    <3>. QED  BY <3>1, <3>2 DEF ForecastInv, Announced
  <2>7. CASE TimeoutExpires
    <3>1. UNCHANGED <<dfu, last, srv, req, bits, sm, event, retval>>
      BY <2>7 DEF TimeoutExpires, srvVars, smVars, history
    <3>. QED
      BY <3>1 DEF ForecastInv, Announced, StatusPending, Starts, Follows, Resetting, Reached
  <2>. QED  BY <1>4, <2>1, <2>2, <2>3, <2>4, <2>5, <2>6, <2>7 DEF Outside, Servicer
<1>5. CASE WatchdogFires
  BY <1>5 DEF WatchdogFires, ForecastInv, Announced, Nothing
<1>6. CASE UNCHANGED vars
  BY <1>6 DEF vars, smVars, srvVars, shared, history,
              ForecastInv, Announced, StatusPending, Starts, Follows, Resetting, Reached
<1>7. CASE Wake \/ CountOne
  <2>1. /\ UNCHANGED <<last, dfu>>
        /\ \/ sm = "wait" /\ bits # {} /\ sm' = "count" /\ event' = bits
           \/ sm = "count" /\ sm' = "dispatch" /\ event' = event
    BY <1>7 DEF Wake, CountOne, history
  <2>2. ASSUME Announced PROVE StatusPending' /\ Starts'
    <3>1. StatusPending
      BY <1>2, <2>1, <2>2 DEF Follows, BusyPoint, Resetting
    <3>2. StatusPending'
      BY <1>1, <2>1, <2>2, <3>1 DEF StatusPending
    <3>. QED  BY <1>3, <2>1, <2>2, <3>1, <3>2 DEF Starts
  <2>. QED  BY <2>1, <2>2 DEF ForecastInv, Announced
<1>8. CASE CountOther
  BY <1>8 DEF CountOther, OneInv
<1>9. CASE GiveBack
  <2>1. UNCHANGED last /\ sm = "give_back"
    BY <1>9 DEF GiveBack, history
  <2>2. ~Announced
    BY <1>1, <1>2, <2>1 DEF Follows, BusyPoint, Resetting
  <2>. QED  BY <2>1, <2>2 DEF ForecastInv, Announced
<1>10. CASE Internal
  <2>1. UNCHANGED <<last, srv, req, bits>> /\ sm \notin {"wait", "count"}
        /\ sm' \notin {"count", "dispatch"}
    <3>1. UNCHANGED last
      BY <1>10 DEF Internal, ResetDownload, WipeBuffer, EnterError, EnterErrorAnd,
                  HandleDownload, HandleDownloadEnd, RejectDownload, HandleUpload,
                  RejectUpload, ReadFragment, ReadBlock, ReadPastEnd, StayPut, StartBusy,
                  SyncDone, ManifestDone, BufferFragment, WriteRefused, StartWrite, EndWrite,
                  Manifest, FinishBusy, FinishError, HandleReset, Move, Reset, Local
    <3>. QED  BY <1>10, <3>1, InternalFrame DEF srvVars, shared
  <2>2. ASSUME Announced, StatusPending PROVE ~StatusPending' /\ Follows'
    <3>1. srv = "ready" /\ bits = {} /\ sm = "dispatch" /\ event = {"GETSTATUS"}
      BY <1>1, <2>1, <2>2 DEF SafetyInv, CountInv, EventIsSingle
    <3>2. ~StatusPending'
      BY <2>1, <3>1 DEF StatusPending
    <3>3. StayPut \/ StartBusy \/ SyncDone \/ ManifestDone
      BY <1>10, <3>1 DEF Internal, ResetDownload, WipeBuffer, EnterError, EnterErrorAnd,
                  HandleDownload, HandleDownloadEnd, RejectDownload, HandleUpload,
                  RejectUpload, ReadFragment, ReadBlock, ReadPastEnd, BufferFragment,
                  WriteRefused, SectorFull, StartWrite, EndWrite, Manifest, FinishBusy,
                  FinishError, HandleReset, Dispatch
    <3>4. Starts
      BY <1>3, <2>2
    <3>5. \/ sm' = "wait" /\ dfu'.current_state = last.told
                /\ last.told \in {"UPLOAD_IDLE", "ERROR", "DNLOAD_IDLE"}
          \/ sm' = "busy" /\ dfu'.current_state = last.told
      BY <1>0, <3>3, <3>4 DEF StayPut, StartBusy, SyncDone, ManifestDone, Move, Local, Starts,
                              DfuData
    <3>. QED  BY <2>1, <3>1, <3>2, <3>5 DEF Follows, Reached, BusyPoint
  <2>3. ASSUME Announced, ~StatusPending PROVE ~StatusPending' /\ Follows'
    <3>1. Follows
      BY <1>2, <2>3
    <3>2. ~StatusPending'
      BY <2>1, <3>1 DEF StatusPending, Follows
    <3>3. srv # "take" /\ sm \in BusyPoint \cup {"reset", "wipe", "error"}
      BY <2>1, <3>1 DEF Follows, Resetting
    <3>4. CASE sm \in BusyPoint
      <4>1. dfu.current_state = last.told /\ last.told \in {"DNBUSY", "MANIFEST"}
        BY <1>0, <3>1, <3>4 DEF Follows, BusyPoint, Resetting
      <4>2. \/ sm' \in BusyPoint /\ dfu'.current_state = last.told
            \/ sm' = "wait" /\ dfu'.current_state \in Reached(last.told)
            \/ sm' = "reset" /\ retval' # "OK"
        BY <1>10, <3>3, <3>4, <4>1, BusyPath DEF BusyPoint, Reached
      <4>. QED  BY <2>1, <3>1, <3>2, <4>1, <4>2 DEF Follows, Resetting, Reached
    <3>5. CASE Resetting
      <4>1. retval # "OK" /\ last.told \in {"DNBUSY", "MANIFEST"}
        BY <3>1, <3>5 DEF Follows, BusyPoint, Resetting
      <4>2. \/ sm' \in {"wipe", "error"} /\ retval' # "OK"
            \/ sm' = "wait" /\ dfu'.current_state = "ERROR"
        BY <1>10, <3>3, <3>5, <4>1, BusyPath DEF BusyPoint, Resetting
      <4>3. "ERROR" \in Reached(last.told)
        BY <4>1 DEF Reached
      <4>. QED  BY <2>1, <3>1, <3>2, <4>1, <4>2, <4>3 DEF Follows, Resetting, Reached
    <3>. QED  BY <3>3, <3>4, <3>5 DEF Resetting
  <2>. QED  BY <2>1, <2>2, <2>3 DEF ForecastInv, Announced
<1>. QED  BY <1>4, <1>5, <1>6, <1>7, <1>8, <1>9, <1>10, StepKinds

\* For a slow host that sends one request at a time and waits its timeouts: the state
\* that GETSTATUS announced, by reading current_state while the other task may change
\* it, is the state the device then goes to, dfuIDLE apart.
THEOREM ForecastsComeTrue ==
  ASSUME PacedHost
  PROVE  Spec => []PredictionHonoured
<1>. DEFINE Paced == EdgeInv /\ StatusInv /\ OneInv /\ ReadInv /\ ForecastInv
<1>0. SlowHost /\ OneAtATime
  BY DEF PacedHost, OneAtATime
<1>1. Init => Paced
  BY DEF Init, TasksInit, Nothing, EdgeInv, StatusInv, OneInv, ReadInv, ForecastInv, Announced
<1>2. SafetyInv /\ ImageInv /\ Paced /\ [Next]_vars => Paced'
  BY <1>0, EdgeStep, StatusStep, OneStep, ReadStep, ForecastStep
<1>3. SafetyInv /\ Paced => PredictionHonoured
  <2>1. ASSUME SafetyInv, Paced, Quiet, Announced PROVE dfu.current_state \in Reached(last.told)
    <3>1. ~StatusPending
      BY <2>1 DEF Quiet, StatusPending
    <3>. QED  BY <2>1, <3>1 DEF ForecastInv, Follows, Quiet, BusyPoint, Resetting
  <2>. QED  BY <2>1 DEF PredictionHonoured, Announced
<1>. HIDE DEF Paced
<1>4. Spec => [](SafetyInv /\ ImageInv)
  BY <1>0, ImageHolds
<1>. QED  BY <1>1, <1>2, <1>3, <1>4, PTL DEF Spec

-----------------------------------------------------------------------------
(***************************************************************************)
(* What UploadAnswered rests on, besides EveryRoundEnds: for a host that   *)
(* sends one request at a time the servicer never waits for nothing.       *)
(***************************************************************************)
\* An UPLOAD that is taken up leads to the give, through dfu_int_error or not.
UploadPath ==
  "UPLOAD" \in event /\ sm \notin {"wait", "count"} =>
    event = {"UPLOAD"} /\ (sm \in {"reset", "wipe", "error"} => retval # "OK")
AnswerComes == srv = "take" => UploadUnderWay \/ semaphore = 1

LEMMA UploadPathStep ==
  ASSUME SafetyInv, UploadPath, [Next]_vars
  PROVE  UploadPath'
<1>0. EventIsSingle /\ PhaseInv
  BY DEF SafetyInv, CountInv
<1>1. CASE Outside
  BY <1>1, OutsideFrame DEF SafetyInv, smVars, UploadPath
<1>2. CASE WatchdogFires \/ UNCHANGED vars
  BY <1>2 DEF WatchdogFires, vars, smVars, UploadPath
<1>3. CASE Wake \/ CountOther \/ GiveBack
  BY <1>3 DEF Wake, CountOther, GiveBack, UploadPath
<1>4. CASE CountOne
  <2>1. sm' = "dispatch" /\ EventIsSingle'
    BY <1>4, StepSafe DEF CountOne, SafetyInv, CountInv
  <2>. QED  BY <2>1 DEF EventIsSingle, UploadPath
<1>5. CASE Internal
  <2>. SUFFICES ASSUME "UPLOAD" \in event', sm' # "wait"
                PROVE  event' = {"UPLOAD"} /\ (sm' \in {"reset", "wipe", "error"} => retval' # "OK")
    BY DEF UploadPath
  <2>1. event' = event /\ sm \notin {"wait", "count"} /\ event = {"UPLOAD"}
    BY <1>5, InternalFrame DEF UploadPath
  <2>2. sm' \in {"reset", "wipe", "error"} =>
          RejectUpload \/ ResetDownload \/ WipeBuffer
    BY <1>0, <1>5, <2>1
       DEF Internal, EnterError, EnterErrorAnd, HandleDownload, HandleDownloadEnd,
           RejectDownload, HandleUpload, ReadFragment, ReadBlock, ReadPastEnd, StayPut,
           StartBusy, SyncDone, ManifestDone, InGetStatus, BufferFragment, WriteRefused,
           SectorFull, StartWrite, EndWrite, Manifest, FinishBusy, FinishError, HandleReset,
           Dispatch, Move, Local, PhaseInv, BusyPoint
  <2>3. RejectUpload \/ ResetDownload \/ WipeBuffer => retval' # "OK"
    BY <2>1 DEF RejectUpload, Reset, ResetDownload, WipeBuffer, Local, UploadPath
  <2>. QED  BY <2>1, <2>2, <2>3
<1>. QED  BY <1>1, <1>2, <1>3, <1>4, <1>5, StepKinds

LEMMA AnswerStep ==
  ASSUME OneAtATime, SafetyInv, OneInv, UploadPath, AnswerComes, [Next]_vars
  PROVE  AnswerComes'
<1>. SUFFICES ASSUME srv' = "take" PROVE UploadUnderWay' \/ semaphore' = 1
  BY DEF AnswerComes
<1>0. PhaseInv /\ UploadInv
  BY DEF SafetyInv
<1>1. CASE Notify
  <2>1. bits' = bits \cup {"UPLOAD"}
    BY <1>1 DEF Notify
  <2>. QED  BY <2>1 DEF UploadUnderWay
<1>2. CASE Outside /\ ~Notify
  <2>1. UNCHANGED smVars
    BY <1>2, OutsideFrame DEF SafetyInv
  <2>2. srv = "take" /\ UNCHANGED <<bits, semaphore>>
    BY <1>2 DEF Outside, HostRequest, Download, DownloadEnd, Simple, SetAlternate,
                SetTransferBlock, GetStatus, Detach, HostSends, Ask, Servicer, PredictSame,
                PredictTooEarly, PredictStillBusy, PredictDownload, PredictManifest,
                PredictDone, Reply, Give, Take, Eat, TimeoutExpires, srvVars, shared
  <2>. QED  BY <2>1, <2>2 DEF AnswerComes, UploadUnderWay, smVars
<1>3. CASE WatchdogFires
  BY <1>3 DEF WatchdogFires
<1>4. CASE UNCHANGED vars
  BY <1>4 DEF vars, smVars, srvVars, shared, AnswerComes, UploadUnderWay
<1>5. CASE Wake
  BY <1>5 DEF Wake, srvVars, AnswerComes, UploadUnderWay
<1>6. CASE CountOne
  BY <1>6 DEF CountOne, srvVars, AnswerComes, UploadUnderWay
<1>7. CASE CountOther
  BY <1>7 DEF CountOther, OneInv
<1>8. CASE GiveBack
  BY <1>8 DEF GiveBack
<1>9. CASE Internal
  <2>1. srv = "take" /\ UNCHANGED <<bits, semaphore>>
    BY <1>9, InternalFrame DEF srvVars, shared
  <2>2. ASSUME "UPLOAD" \in event, sm \notin {"wait", "getstatus"}
        PROVE  "UPLOAD" \in event' /\ sm' \notin {"wait", "getstatus"}
    <3>1. event = {"UPLOAD"} /\ (sm \in {"reset", "wipe", "error"} => retval # "OK")
      BY <1>9, <2>2, InternalFrame DEF UploadPath
    <3>2. sm' \notin {"wait", "getstatus"}
      BY <1>0, <1>9, <2>2, <3>1
         DEF Internal, ResetDownload, WipeBuffer, EnterError, EnterErrorAnd, HandleDownload,
             HandleDownloadEnd, RejectDownload, HandleUpload, RejectUpload, ReadFragment,
             ReadBlock, ReadPastEnd, StayPut, StartBusy, SyncDone, ManifestDone, InGetStatus,
             BufferFragment, WriteRefused, SectorFull, StartWrite, EndWrite, Manifest,
             FinishBusy, FinishError, HandleReset, Reset, Dispatch, Move, Local, PhaseInv,
             BusyPoint
    <3>. QED  BY <1>9, <3>1, <3>2, InternalFrame
  <2>. QED  BY <2>1, <2>2 DEF AnswerComes, UploadUnderWay
<1>. QED  BY <1>1, <1>2, <1>3, <1>4, <1>5, <1>6, <1>7, <1>8, <1>9, StepKinds

\* For a host that is slow and sends one request at a time, any timeouts ignored: while
\* dfu_int_upload waits for the semaphore, its request is notified, or taken up and on the way to
\* the give, or the semaphore is given.  A second request
\* breaks it: see DfuUploadStuck.cfg.
THEOREM UploadsAreServed ==
  ASSUME OneAtATime
  PROVE  Spec => []AnswerComes
<1>. DEFINE Serving == OneInv /\ UploadPath /\ AnswerComes
<1>1. Init => Serving
  BY DEF Init, TasksInit, OneInv, UploadPath, AnswerComes
<1>2. SafetyInv /\ Serving /\ [Next]_vars => Serving'
  BY OneStep, UploadPathStep, AnswerStep
<1>. QED  BY <1>1, <1>2, Safety, PTL DEF Spec
=============================================================================
