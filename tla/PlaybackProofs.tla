--------------------------- MODULE PlaybackProofs ---------------------------
(***************************************************************************)
(* Theorems about the playback path, for blocks and buffers of every size, *)
(* any sampling rates, and a host that does anything at any moment.        *)
(***************************************************************************)
EXTENDS AsrcPlayback, TLAPS

\* The notification of the level lies between a block and a full buffer, and half
\* the driver's buffer holds any block.
LEMMA Sizes ==
  /\ BlockFrames \in Nat \ {0} /\ FromHostSize = 2 * BlockFrames
  /\ NotifyLevel \in BlockFrames + 1 .. FromHostSize
  /\ SendSize \in Nat /\ Half \in Nat /\ SendSize = 2 * Half
  /\ \A n \in Outputs \cup {0} : n \in 0 .. Half
  BY PlaybackAssumption DEF BlockFrames, FromHostSize, NotifyLevel, Half

-----------------------------------------------------------------------------
(***************************************************************************)
(* The inductive invariant.                                                *)
(***************************************************************************)
\* A frame above the level at which the ASRC task is notified was preceded by the
\* one at that level.
NotifiedInv ==
  \/ from_host < NotifyLevel
  \/ from_host = NotifyLevel /\ callback = "notify"
  \/ notified > 0
  \/ out = "receive"

\* A buffer that was empty stays so until its block is written; a buffer that is
\* not sent is filled to the half at most, but for the block written last.
FillInv ==
  /\ was_empty => unread = 0 /\ i2s \in {"event", "clear", "rate", "tx"}
  /\ i2s = "clear" => was_empty
  /\ ~okay_to_send /\ i2s # "level" => unread <= Half

\* The types, flags and lengths apart from levels.
Flags ==
  /\ streaming \in BOOLEAN /\ spkr_interface_open \in BOOLEAN
  /\ callback \in {"idle", "notify"} /\ out \in OutPoint
  /\ spkr_itf_open \in {"none", "open", "closed"} /\ prev_spkr_itf_open \in BOOLEAN
  /\ close_to_open_event \in BOOLEAN
  /\ i2s_nominal_sampling_rate \in Rate /\ prev_i2s_sampling_rate \in Rate
  /\ okay_to_send \in BOOLEAN /\ i2s \in I2sPoint /\ was_empty \in BOOLEAN
  /\ n_samps_out \in Outputs \cup {0} /\ message \in Outputs \cup {0}
  /\ num_samps \in Outputs \cup {0}
Levels ==
  /\ from_host \in 0 .. FromHostSize /\ notified \in 0 .. MaxNotified
  /\ n_samps_out \in 0 .. Half /\ message \in 0 .. Half
  /\ unread \in 0 .. SendSize /\ num_samps \in 0 .. Half
LevelsInv == Levels /\ NotifiedInv /\ FillInv
PlaybackInv == Flags /\ LevelsInv

LEMMA InitInv == Init => PlaybackInv
<1>. SUFFICES ASSUME Init PROVE PlaybackInv
  OBVIOUS
<1>1. Flags
  BY Zenon DEF Init, Flags, OutPoint, I2sPoint, Rate
<1>2. LevelsInv
  BY Sizes, PlaybackAssumption DEF Init, LevelsInv, Levels, NotifiedInv, FillInv
<1>. QED  BY <1>1, <1>2 DEF PlaybackInv

LEMMA FlagsKept == Flags /\ [Next]_vars => Flags'
<1>. USE DEF Flags
<1>1. Flags /\ Host => Flags'
  BY Zenon DEF Host, SetInterface, ReceivePart, ReceiveFrame, LoseFrame, UsbStep,
               asrcVars, rateVars, driverVars, i2sVars
<1>2. Flags /\ Notify => Flags'
  BY Zenon DEF Notify, rateVars, driverVars, i2sVars
<1>3. Flags /\ AsrcTask => Flags'
  BY DEF AsrcTask, TakeNotification, ReceiveBlock, SkipBlock, ConvertBlock, SendBlock,
         AsrcStep, OutPoint, rateVars, driverVars, i2sVars
<1>4. Flags /\ (AskForRatio \/ ServeRatio) => Flags'
  BY Zenon DEF AskForRatio, ServeRatio, usbVars, asrcVars, driverVars, i2sVars
<1>5. Flags /\ (RestartI2s \/ Drain \/ \E rate \in Rates : DetectRate(rate)) => Flags'
  BY DEF RestartI2s, Drain, DetectRate, DriverStep, Rate, usbVars, asrcVars, rateVars,
         i2sVars
<1>6. Flags /\ I2sTask => Flags'
  <2>1. Flags /\ TakeBlock => Flags'
    BY Zenon DEF TakeBlock, I2sStep, I2sPoint, usbVars, asrcVars
  <2>2. Flags /\ (NoEvent \/ SeeEvent \/ SameRate \/ ClearEvent \/ StartOver) => Flags'
    BY ZenonT(30) DEF NoEvent, SeeEvent, SameRate, ClearEvent, StartOver, I2sStep, I2sPoint,
                 usbVars, asrcVars
  <2>3. Flags /\ (DropForEvent \/ DropForRate \/ TransmitBlock \/ CheckLevel) => Flags'
    BY ZenonT(30) DEF DropForEvent, DropForRate, DropBlock, TransmitBlock, CheckLevel, I2sStep,
                 I2sPoint, usbVars, asrcVars
  <2>. QED  BY <2>1, <2>2, <2>3 DEF I2sTask
<1>7. Flags /\ UNCHANGED vars => Flags'
  BY Zenon DEF vars, usbVars, asrcVars, rateVars, driverVars, i2sVars
<1>. QED  BY <1>1, <1>2, <1>3, <1>4, <1>5, <1>6, <1>7 DEF Next

LEMMA HostKeeps == PlaybackInv /\ Host => LevelsInv'
<1>. SUFFICES ASSUME PlaybackInv, Host PROVE LevelsInv'
  OBVIOUS
<1>. USE Sizes DEF PlaybackInv, LevelsInv, Levels, NotifiedInv, FillInv, UsbStep,
       asrcVars, rateVars, driverVars, i2sVars
<1>1. CASE \E alternate \in BOOLEAN : SetInterface(alternate)
  BY <1>1 DEF SetInterface
<1>2. CASE ReceivePart \/ LoseFrame
  BY <1>2 DEF ReceivePart, LoseFrame
<1>3. CASE ReceiveFrame
  BY <1>3 DEF ReceiveFrame
<1>. QED  BY <1>1, <1>2, <1>3 DEF Host

LEMMA NotifyKeeps == PlaybackInv /\ Notify => LevelsInv'
  BY Sizes, PlaybackAssumption
     DEF Notify, PlaybackInv, LevelsInv, Levels, NotifiedInv, FillInv, rateVars, driverVars,
         i2sVars

LEMMA AsrcKeeps == PlaybackInv /\ AsrcTask => LevelsInv'
<1>. SUFFICES ASSUME PlaybackInv, AsrcTask PROVE LevelsInv'
  OBVIOUS
<1>. USE Sizes DEF PlaybackInv, LevelsInv, Levels, NotifiedInv, FillInv, AsrcStep,
       rateVars, driverVars, i2sVars
<1>1. CASE TakeNotification
  BY <1>1, PlaybackAssumption DEF TakeNotification
<1>2. CASE ReceiveBlock
  BY <1>2 DEF ReceiveBlock, Smaller
<1>3. CASE SkipBlock \/ SendBlock
  BY <1>3 DEF SkipBlock, SendBlock
<1>4. CASE ConvertBlock
  BY <1>4 DEF ConvertBlock
<1>. QED  BY <1>1, <1>2, <1>3, <1>4 DEF AsrcTask

LEMMA RatesKeep ==
  PlaybackInv /\ (AskForRatio \/ ServeRatio \/ RestartI2s \/ Drain
                  \/ \E rate \in Rates : DetectRate(rate)) => LevelsInv'
  BY Sizes
     DEF AskForRatio, ServeRatio, RestartI2s, Drain, DetectRate, DriverStep,
         PlaybackInv, LevelsInv, Levels, NotifiedInv, FillInv,
         usbVars, asrcVars, rateVars, driverVars, i2sVars

LEMMA I2sKeeps == PlaybackInv /\ I2sTask => LevelsInv'
<1>. SUFFICES ASSUME PlaybackInv, I2sTask PROVE LevelsInv'
  OBVIOUS
<1>. USE Sizes DEF PlaybackInv, LevelsInv, Levels, NotifiedInv, FillInv, I2sStep,
       usbVars, asrcVars
<1>1. CASE TakeBlock
  BY <1>1 DEF TakeBlock
<1>2. CASE NoEvent \/ SeeEvent \/ SameRate
  BY <1>2 DEF NoEvent, SeeEvent, SameRate
<1>3. CASE ClearEvent
  BY <1>3 DEF ClearEvent
<1>4. CASE DropForEvent \/ DropForRate
  BY <1>4 DEF DropForEvent, DropForRate, DropBlock
<1>5. CASE StartOver
  BY <1>5 DEF StartOver, NewRate
<1>6. CASE TransmitBlock
  BY <1>6 DEF TransmitBlock, HasRoom
<1>7. CASE CheckLevel
  <2>1. /\ UNCHANGED <<from_host, notified, n_samps_out, message, unread, num_samps,
                       callback, out, was_empty>>
        /\ i2s = "level" /\ i2s' = "receive"
    BY <1>7 DEF CheckLevel
  <2>2. ~okay_to_send' => ~(unread >= Half)
    BY <1>7, Zenon DEF CheckLevel
  <2>3. ~was_empty
    BY <2>1
  <2>. QED  BY <2>1, <2>2, <2>3
<1>. QED  BY <1>1, <1>2, <1>3, <1>4, <1>5, <1>6, <1>7 DEF I2sTask

LEMMA StutterKeeps == PlaybackInv /\ UNCHANGED vars => LevelsInv'
  BY DEF PlaybackInv, LevelsInv, Levels, NotifiedInv, FillInv, vars,
         usbVars, asrcVars, rateVars, driverVars, i2sVars

LEMMA PlaybackSafety == Spec => []PlaybackInv
<1>1. PlaybackInv /\ [Next]_vars => PlaybackInv'
  BY FlagsKept, HostKeeps, NotifyKeeps, AsrcKeeps, RatesKeep, I2sKeeps, StutterKeeps
     DEF Next, PlaybackInv
<1>. QED  BY InitInv, <1>1, PTL DEF Spec

-----------------------------------------------------------------------------
(***************************************************************************)
(* What it means                                                           *)
(***************************************************************************)
\* The playback path is well typed: in particular neither buffer of the host's
\* audio nor the driver's overflows.
THEOREM PlaybackTyping == Spec => []TypeOK
<1>1. PlaybackInv => TypeOK
  BY DEF PlaybackInv, Flags, LevelsInv, Levels, TypeOK
<1>. QED  BY <1>1, PlaybackSafety, PTL

\* The ASRC task is never left asleep over a block, although
\* tud_audio_rx_done_post_read_cb notifies it at one level only.
THEOREM NeverLeftAsleep == Spec => []NoLostWakeUp
<1>1. PlaybackInv => NoLostWakeUp
  BY Sizes DEF PlaybackInv, LevelsInv, Levels, NotifiedInv, NoLostWakeUp
<1>. QED  BY <1>1, PlaybackSafety, PTL

LEMMA FillsHaveRoom == PlaybackInv => RoomWhileFilling
<1>. SUFFICES ASSUME PlaybackInv, ~okay_to_send, i2s \in {"event", "clear", "rate", "tx"}
              PROVE  unread + num_samps <= SendSize
  BY DEF RoomWhileFilling, HasRoom
<1>1. unread <= Half /\ unread \in Nat /\ num_samps \in 0 .. Half
  BY Sizes DEF PlaybackInv, LevelsInv, Levels, FillInv
<1>. QED  BY <1>1, Sizes

\* usb_to_i2s_intertile never waits for room in a buffer that nobody empties.
THEOREM FillingNeverBlocks == Spec => []RoomWhileFilling
  BY FillsHaveRoom, PlaybackSafety, PTL

\* The port only stops sending with its buffer empty, so that every refill starts
\* from nothing, whenever the host reopens and the rate changes.
THEOREM RefillFromEmpty == Spec => RefillStartsEmpty
<1>1. PlaybackInv /\ [Next]_vars => [okay_to_send /\ ~okay_to_send' => unread' = 0]_vars
  <2>. SUFFICES ASSUME PlaybackInv, Next, okay_to_send, ~okay_to_send' PROVE unread' = 0
    OBVIOUS
  <2>1. ClearEvent \/ StartOver
    BY DEF Next, Host, SetInterface, ReceivePart, ReceiveFrame, LoseFrame, UsbStep, Notify,
           AsrcTask, TakeNotification, ReceiveBlock, SkipBlock, ConvertBlock, SendBlock,
           AsrcStep, AskForRatio, ServeRatio, RestartI2s, Drain, DetectRate, DriverStep,
           I2sTask, TakeBlock, NoEvent, SeeEvent, DropForEvent, DropForRate, DropBlock,
           SameRate, TransmitBlock, CheckLevel, driverVars
  <2>2. was_empty /\ unread' = unread
    BY <2>1 DEF ClearEvent, StartOver, I2sStep, PlaybackInv, LevelsInv, FillInv
  <2>. QED  BY <2>2 DEF PlaybackInv, LevelsInv, FillInv
<1>. QED  BY <1>1, PlaybackSafety, PTL DEF Spec, RefillStartsEmpty

-----------------------------------------------------------------------------
(***************************************************************************)
(* What PlaybackResumes rests on.  With the port stopped,                  *)
(* usb_to_i2s_intertile only ever waits for a block, and a bounded number  *)
(* of its steps lets the port send; after a reopening the samples to send  *)
(* only become fewer.  PlaybackResumes adds the fairness of the scheduler. *)
(***************************************************************************)
\* Only blocks with samples are passed on, so that a refill has begun when the
\* level is looked at.
BlockInv ==
  /\ out = "send" => n_samps_out # 0
  /\ i2s \in {"event", "clear", "rate", "tx"} => num_samps # 0
  /\ ~okay_to_send /\ i2s = "level" => unread # 0

\* The blocks that a buffer of level u still needs, of one sample each at worst, and
\* the steps that usb_to_i2s_intertile takes for them from point p.
Missing(u) == IF u < Half THEN Half - u ELSE 0
Refills(u, p) == IF p = "level" /\ u < Half THEN Missing(u) + 1 ELSE Missing(u)
ToReceive == [receive |-> 7, event |-> 5, clear |-> 4, rate |-> 3, tx |-> 2, level |-> 1]
StepsLeft(u, p) == 7 * Refills(u, p) + ToReceive[p]
SilenceLeft == StepsLeft(unread, i2s)

\* While the port is stopped every step of the task counts, and no other does.
SilenceCountsDown ==
  ~okay_to_send =>
    \/ okay_to_send'
    \/ SilenceLeft' < SilenceLeft
    \/ SilenceLeft' = SilenceLeft /\ ~I2sTask

\* In a silence the task waits for a block, and for nothing else.
WaitsForBlock == i2s = "receive" /\ message = 0
I2sCanStep ==
  \/ i2s = "receive" /\ message # 0
  \/ i2s \in {"event", "clear", "rate", "level"}
  \/ i2s = "tx" /\ HasRoom
SilenceIsShort ==
  ~okay_to_send => SilenceLeft \in 1 .. 7 * Half + 7 /\ (I2sCanStep \/ WaitsForBlock)

\* The samples to send before the buffer is empty: those of a block that was past
\* the look at the event when it came are the last to be added.
Backlog == unread + (IF i2s \in {"rate", "tx"} THEN num_samps ELSE 0)
BacklogGoesDown ==
  close_to_open_event /\ close_to_open_event' =>
    Backlog' <= Backlog /\ (Drain => Backlog' < Backlog)

\* The variables of the driver and of usb_to_i2s_intertile that others leave alone.
fillVars == <<unread, okay_to_send, i2s, num_samps>>

LEMMA OthersLeaveTheFilling ==
  /\ Host => UNCHANGED <<out, n_samps_out, message, close_to_open_event, fillVars>>
  /\ Notify => UNCHANGED <<out, n_samps_out, message, close_to_open_event, fillVars>>
  /\ AskForRatio => UNCHANGED <<out, n_samps_out, message, close_to_open_event, fillVars>>
  /\ ServeRatio => UNCHANGED <<out, n_samps_out, message, fillVars>>
  /\ RestartI2s => UNCHANGED <<out, n_samps_out, message, close_to_open_event, fillVars>>
  /\ \A rate \in Rates : DetectRate(rate) =>
       UNCHANGED <<out, n_samps_out, message, close_to_open_event, fillVars>>
  /\ AsrcTask => UNCHANGED <<close_to_open_event, fillVars>>
  /\ UNCHANGED vars => UNCHANGED <<out, n_samps_out, message, close_to_open_event, fillVars>>
<1>. USE DEF fillVars, asrcVars, usbVars, rateVars, driverVars, i2sVars
<1>1. Host => UNCHANGED <<out, n_samps_out, message, close_to_open_event, fillVars>>
  BY DEF Host, SetInterface, ReceivePart, ReceiveFrame, LoseFrame, UsbStep
<1>2. AsrcTask => UNCHANGED <<close_to_open_event, fillVars>>
  BY DEF AsrcTask, AsrcStep, TakeNotification, ReceiveBlock, SkipBlock, ConvertBlock, SendBlock
<1>3. /\ Notify => UNCHANGED <<out, n_samps_out, message, close_to_open_event, fillVars>>
      /\ AskForRatio => UNCHANGED <<out, n_samps_out, message, close_to_open_event, fillVars>>
      /\ ServeRatio => UNCHANGED <<out, n_samps_out, message, fillVars>>
  BY DEF Notify, AskForRatio, ServeRatio
<1>4. /\ RestartI2s => UNCHANGED <<out, n_samps_out, message, close_to_open_event, fillVars>>
      /\ \A rate \in Rates : DetectRate(rate) =>
           UNCHANGED <<out, n_samps_out, message, close_to_open_event, fillVars>>
      /\ UNCHANGED vars =>
           UNCHANGED <<out, n_samps_out, message, close_to_open_event, fillVars>>
  BY DEF RestartI2s, DetectRate, DriverStep, vars
<1>. QED  BY <1>1, <1>2, <1>3, <1>4

LEMMA BlockInvKept ==
  ASSUME PlaybackInv, BlockInv, [Next]_vars PROVE BlockInv'
<1>. USE Sizes DEF BlockInv, PlaybackInv, Flags, LevelsInv, Levels, FillInv
<1>1. CASE Host \/ Notify \/ AskForRatio \/ ServeRatio \/ RestartI2s \/ UNCHANGED vars
           \/ \E rate \in Rates : DetectRate(rate)
  <2>1. UNCHANGED <<out, n_samps_out, unread, okay_to_send, i2s, num_samps>>
    BY <1>1, OthersLeaveTheFilling, Zenon DEF fillVars
  <2>. QED  BY <2>1
<1>2. CASE AsrcTask
  <2>1. UNCHANGED fillVars
    BY <1>2, OthersLeaveTheFilling
  <2>2. out' = "send" => n_samps_out' # 0
    BY <1>2 DEF AsrcTask, AsrcStep, TakeNotification, ReceiveBlock, SkipBlock, ConvertBlock,
                SendBlock
  <2>. QED  BY <2>1, <2>2, Zenon DEF fillVars
<1>3. CASE Drain
  BY <1>3 DEF Drain, DriverStep, asrcVars, i2sVars
<1>4. CASE I2sTask
  <2>. USE DEF I2sStep, asrcVars, usbVars
  <2>1. CASE TakeBlock \/ NoEvent \/ SeeEvent \/ SameRate \/ ClearEvent
    BY <2>1 DEF TakeBlock, NoEvent, SeeEvent, SameRate, ClearEvent
  <2>2. CASE StartOver \/ DropForEvent \/ DropForRate
    BY <2>2 DEF StartOver, DropForEvent, DropForRate, DropBlock
  <2>3. CASE TransmitBlock
    BY <2>3 DEF TransmitBlock
  <2>4. CASE CheckLevel
    BY <2>4 DEF CheckLevel
  <2>. QED  BY <1>4, <2>1, <2>2, <2>3, <2>4 DEF I2sTask
<1>. QED  BY <1>1, <1>2, <1>3, <1>4 DEF Next

LEMMA BlockSafety == Spec => [](PlaybackInv /\ BlockInv)
<1>1. Init => BlockInv
  BY DEF Init, BlockInv
<1>2. PlaybackInv /\ BlockInv /\ [Next]_vars => BlockInv'
  BY BlockInvKept
<1>. QED  BY PlaybackSafety, <1>1, <1>2, PTL DEF Spec

\* A block takes one step after another, and its samples are worth a round.
LEMMA ABlockCounts ==
  ASSUME NEW u \in Nat, NEW n \in Nat \ {0}
  PROVE  /\ StepsLeft(u, "event") < StepsLeft(u, "receive")
         /\ StepsLeft(u, "clear") < StepsLeft(u, "event")
         /\ StepsLeft(u, "rate") < StepsLeft(u, "clear")
         /\ StepsLeft(u, "rate") < StepsLeft(u, "event")
         /\ StepsLeft(u, "tx") < StepsLeft(u, "rate")
         /\ StepsLeft(u + n, "level") < StepsLeft(u, "tx")
         /\ u < Half => StepsLeft(u, "receive") < StepsLeft(u, "level")
  BY Sizes DEF StepsLeft, Refills, Missing, ToReceive

LEMMA StepsAreBounded ==
  ASSUME NEW u \in Nat, NEW p \in I2sPoint, p = "level" => u # 0
  PROVE  StepsLeft(u, p) \in 1 .. 7 * Half + 7
  BY Sizes DEF StepsLeft, Refills, Missing, ToReceive, I2sPoint

LEMMA RefillCountsDown ==
  ASSUME PlaybackInv, BlockInv, I2sTask, ~okay_to_send, ~okay_to_send'
  PROVE  SilenceLeft' < SilenceLeft
<1>. USE DEF I2sStep, SilenceLeft
<1>1. unread \in Nat /\ num_samps \in Nat
  BY Sizes DEF PlaybackInv, LevelsInv, Levels
<1>2. CASE TakeBlock \/ NoEvent \/ SeeEvent \/ ClearEvent \/ StartOver \/ SameRate
  <2>1. /\ unread' = unread
        /\ <<i2s, i2s'>> \in {<<"receive", "event">>, <<"event", "rate">>, <<"event", "clear">>,
                             <<"clear", "rate">>, <<"rate", "tx">>}
    BY <1>2 DEF TakeBlock, NoEvent, SeeEvent, ClearEvent, StartOver, SameRate
  <2>. QED  BY <2>1, <1>1, ABlockCounts
<1>3. CASE DropForEvent \/ DropForRate
  BY <1>3 DEF DropForEvent, DropForRate, DropBlock
<1>4. CASE TransmitBlock
  <2>1. i2s = "tx" /\ i2s' = "level" /\ unread' = unread + num_samps /\ num_samps # 0
    BY <1>4 DEF TransmitBlock, BlockInv
  <2>. QED  BY <2>1, <1>1, ABlockCounts
<1>5. CASE CheckLevel
  <2>1. i2s = "level" /\ i2s' = "receive" /\ unread' = unread
    BY <1>5 DEF CheckLevel
  <2>2. ~(unread >= Half)
    BY <1>5, Zenon DEF CheckLevel
  <2>3. unread < Half
    BY <2>2, <1>1, Sizes
  <2>. QED  BY <2>1, <2>3, <1>1, ABlockCounts
<1>. QED  BY <1>2, <1>3, <1>4, <1>5 DEF I2sTask

LEMMA OthersDoNotCount ==
  ASSUME ~I2sTask, [Next]_vars, ~okay_to_send PROVE SilenceLeft' = SilenceLeft
<1>1. unread' = unread /\ i2s' = i2s
  BY OthersLeaveTheFilling, Zenon DEF Next, fillVars, Drain
<1>. QED  BY <1>1, Zenon DEF SilenceLeft

\* usb_to_i2s_intertile, with the port stopped: at most 7 * Half + 7 of its steps are
\* left until it lets the port send; it can take the next one, or waits for a block;
\* and each one that it takes brings the end nearer, whatever the host, the rate
\* server and the driver do in between, a new event or a new rate included.
THEOREM SilenceEnds == Spec => []SilenceIsShort /\ [][SilenceCountsDown]_vars
<1>1. PlaybackInv /\ BlockInv => SilenceIsShort
  <2>. SUFFICES ASSUME PlaybackInv, BlockInv, ~okay_to_send
                PROVE  SilenceLeft \in 1 .. 7 * Half + 7 /\ (I2sCanStep \/ WaitsForBlock)
    BY DEF SilenceIsShort
  <2>1. SilenceLeft \in 1 .. 7 * Half + 7
    <3>1. unread \in Nat /\ i2s \in I2sPoint
      BY Sizes DEF PlaybackInv, Flags, LevelsInv, Levels
    <3>. QED  BY <3>1, StepsAreBounded, Zenon DEF SilenceLeft, BlockInv
  <2>2. i2s = "tx" => HasRoom
    BY FillsHaveRoom DEF RoomWhileFilling
  <2>. QED  BY <2>1, <2>2, Zenon DEF PlaybackInv, Flags, I2sPoint, I2sCanStep, WaitsForBlock
<1>2. PlaybackInv /\ BlockInv /\ [Next]_vars => [SilenceCountsDown]_vars
  <2>. SUFFICES ASSUME PlaybackInv, BlockInv, [Next]_vars PROVE SilenceCountsDown
    OBVIOUS
  <2>1. CASE I2sTask
    BY <2>1, RefillCountsDown DEF SilenceCountsDown
  <2>2. CASE ~I2sTask
    BY <2>2, OthersDoNotCount DEF SilenceCountsDown
  <2>. QED  BY <2>1, <2>2
<1>3. Spec => []SilenceIsShort
  BY <1>1, BlockSafety, PTL
<1>4. Spec => [][SilenceCountsDown]_vars
  BY <1>2, BlockSafety, PTL DEF Spec
<1>. QED  BY <1>3, <1>4

\* After a reopening the samples of the old stream are sent and not replaced: until
\* usb_to_i2s_intertile deals with the event the backlog never grows, and every
\* sample the port sends makes it smaller.
THEOREM TheOldStreamRunsOut == Spec => [][BacklogGoesDown]_vars
<1>1. PlaybackInv /\ [Next]_vars => [BacklogGoesDown]_vars
  <2>. SUFFICES ASSUME PlaybackInv, [Next]_vars, close_to_open_event, close_to_open_event'
                PROVE  Backlog' <= Backlog /\ (Drain => Backlog' < Backlog)
    BY DEF BacklogGoesDown
  <2>1. unread \in Nat /\ num_samps \in Nat
    BY Sizes DEF PlaybackInv, LevelsInv, Levels
  <2>2. CASE Drain
    BY <2>1, <2>2 DEF Drain, DriverStep, i2sVars, Backlog
  <2>3. CASE I2sTask
    <3>. USE DEF I2sStep
    <3>1. ~Drain
      BY <2>3, <2>1 DEF Drain, DriverStep, i2sVars, I2sTask, TakeBlock, NoEvent, SeeEvent,
         ClearEvent, DropForEvent, DropForRate, DropBlock, StartOver, SameRate,
         TransmitBlock, CheckLevel
    <3>2. ~NoEvent /\ ~ClearEvent
      BY DEF NoEvent, ClearEvent
    <3>3. Backlog' <= Backlog
      BY <2>1, <2>3, <3>2 DEF Backlog, I2sTask, TakeBlock, SeeEvent, DropForEvent,
         DropForRate, DropBlock, StartOver, SameRate, TransmitBlock, CheckLevel
    <3>. QED  BY <3>1, <3>3
  <2>4. CASE ~Drain /\ ~I2sTask
    <3>1. unread' = unread /\ i2s' = i2s /\ num_samps' = num_samps
      BY <2>4, OthersLeaveTheFilling, Zenon DEF Next, fillVars
    <3>2. Backlog' = Backlog
      BY <3>1 DEF Backlog
    <3>. QED  BY <2>1, <2>4, <3>2 DEF Backlog
  <2>. QED  BY <2>2, <2>3, <2>4
<1>. QED  BY <1>1, PlaybackSafety, PTL DEF Spec
=============================================================================
