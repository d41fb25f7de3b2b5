---------------------------- MODULE RecordProofs ----------------------------
(***************************************************************************)
(* Theorems about the recording path, for blocks, transfers and buffers of *)
(* every size, any sampling rates, and a host that does anything at any    *)
(* moment.                                                                 *)
(***************************************************************************)
EXTENDS AsrcRecord, SequenceTheorems, TLAPS

-----------------------------------------------------------------------------
(***************************************************************************)
(* Sequences of samples                                                    *)
(***************************************************************************)
LEMMA Uniform ==
  ASSUME NEW r, NEW n \in Nat
  PROVE  LET s == [i \in 1 .. n |-> r] IN s \in Seq({r}) /\ Len(s) = n
  OBVIOUS

LEMMA Joined ==
  ASSUME NEW S, NEW s \in Seq(S), NEW t \in Seq(S)
  PROVE  s \o t \in Seq(S) /\ Len(s \o t) = Len(s) + Len(t)
  OBVIOUS

LEMMA Rest ==
  ASSUME NEW S, NEW s \in Seq(S), NEW n \in 0 .. Len(s)
  PROVE  LET t == SubSeq(s, n + 1, Len(s)) IN t \in Seq(S) /\ Len(t) = Len(s) - n
  BY SubSeqProperties

LEMMA Narrow == ASSUME NEW S, NEW r \in S, NEW s \in Seq({r}) PROVE s \in Seq(S)
  OBVIOUS

-----------------------------------------------------------------------------
(***************************************************************************)
(* The two channels                                                        *)
(***************************************************************************)
\* A block is with the task of the second channel exactly while the receiving task
\* waits for it, and the rate does not change meanwhile.
ChannelInv ==
  /\ i2s_nominal_sampling_rate \in Rate /\ i2s_sampling_rate \in Rate
  /\ recv \in {"recv", "collect", "rate", "data"}
  /\ recv # "recv" => i2s_sampling_rate \in Rates
  /\ recv # "collect" => asrc = "wait" /\ asrc_queue = <<>> /\ asrc_ret_queue = <<>>
  /\ recv = "collect" =>
       \/ asrc = "wait" /\ asrc_queue = <<i2s_sampling_rate>> /\ asrc_ret_queue = <<>>
       \/ asrc = "process" /\ asrc_queue = <<>> /\ asrc_ret_queue = <<>>
       \/ asrc = "wait" /\ asrc_queue = <<>> /\ asrc_ret_queue = <<i2s_sampling_rate>>

LEMMA ChannelKept == ChannelInv /\ [Next]_vars => ChannelInv'
<1>. SUFFICES ASSUME ChannelInv, [Next]_vars PROVE ChannelInv'
  OBVIOUS
<1>1. CASE RestartI2s \/ \E rate \in Rates : DetectRate(rate)
  BY <1>1 DEF RestartI2s, DetectRate, DriverStep, recvVars, ChannelInv, Rate
<1>2. CASE DiscardBlock \/ Reinitialise \/ SendRate \/ SendBlock
  BY <1>2 DEF DiscardBlock, Reinitialise, SendRate, SendBlock, RecvStep, driverVars,
              ChannelInv, Rate
<1>3. CASE ConvertBlock
  BY <1>3 DEF ConvertBlock, RecvStep, driverVars, ChannelInv, Rate
<1>4. CASE CollectBlock
  BY <1>4 DEF CollectBlock, RecvStep, driverVars, ChannelInv
<1>5. CASE ChannelTask
  BY <1>5 DEF ChannelTask, TakeChannel, ReturnChannel, AsrcStep, driverVars, ChannelInv
<1>6. CASE UNCHANGED <<driverVars, recvVars, asrc>>
  BY <1>6 DEF driverVars, recvVars, ChannelInv
<1>7. CASE SendTask \/ ServeRatio
  BY <1>6, <1>7 DEF SendTask, ReceiveRate, ReceiveBlock, LookAtInterface, DetectChange,
       WriteBlock, LoseBlock, DummyWrite, AskForRatio, TakeRatio, NextBlock, SendStep,
       ServeRatio
<1>8. CASE Transfer \/ Callback \/ \E alternate \in BOOLEAN : SetInterface(alternate)
  BY <1>6, <1>8 DEF Transfer, FirstTransfer, SecondTransfer, LaterTransfer, Callback,
       NoChange, ResetForChange, ClearChange, ResetFull, NotFull, CheckLevel, LoadSamples, LoadZeros,
       CallbackStep, BeginTransfer, EndTransfer, SetInterface, UsbStep
<1>9. CASE UNCHANGED vars
  BY <1>6, <1>9 DEF vars
<1>. QED  BY <1>1, <1>2, <1>3, <1>4, <1>5, <1>7, <1>8, <1>9 DEF Next, RecvTask

-----------------------------------------------------------------------------
(***************************************************************************)
(* The messages between the tiles                                          *)
(***************************************************************************)
IsBlock(s) == s \in Seq({g_i2s_nominal_sampling_rate}) /\ Len(s) \in Lengths

\* The two tiles take turns: a rate, then the samples that belong to it.
MessageInv ==
  /\ recv = "data" =>
       \/ message = <<"rate", i2s_sampling_rate>> /\ send # "data"
       \/ message = <<>> /\ send = "data" /\ g_i2s_nominal_sampling_rate = i2s_sampling_rate
  /\ recv # "data" =>
       \/ message = <<>> /\ send # "data"
       \/ send = "data" /\ \E s : message = <<"data", s>> /\ IsBlock(s)

\* The block in the hands of i2s_to_usb_intertile was sent with the rate it knows.
BlockInv ==
  /\ send \in {"rate", "data", "look", "change", "write", "dummy", "ask", "answer", "done"}
  /\ g_i2s_nominal_sampling_rate \in Rate
  /\ send # "rate" => g_i2s_nominal_sampling_rate \in Rates
  /\ IF send \in {"rate", "data"} THEN block = <<>> ELSE IsBlock(block)

LEMMA MessageKept ==
  ChannelInv /\ MessageInv /\ BlockInv /\ [Next]_vars => MessageInv' /\ BlockInv'
<1>. SUFFICES ASSUME ChannelInv, MessageInv, BlockInv, [Next]_vars
              PROVE  MessageInv' /\ BlockInv'
  OBVIOUS
<1>1. CASE UNCHANGED <<recv, i2s_sampling_rate, message, send,
                       g_i2s_nominal_sampling_rate, block>>
  BY <1>1 DEF MessageInv, BlockInv, IsBlock
<1>2. CASE UNCHANGED <<i2s_sampling_rate, message, g_i2s_nominal_sampling_rate, block, send>>
           /\ recv # "data" /\ recv' # "data"
  BY <1>2 DEF MessageInv, BlockInv, IsBlock
<1>3. CASE UNCHANGED <<recv, i2s_sampling_rate, message, g_i2s_nominal_sampling_rate, block>>
           /\ send \notin {"rate", "data"}
           /\ send' \in {"look", "change", "write", "dummy", "ask", "answer", "done"}
  BY <1>3 DEF MessageInv, BlockInv, IsBlock
<1>4. CASE DiscardBlock \/ ConvertBlock \/ CollectBlock
  BY <1>2, <1>4 DEF DiscardBlock, ConvertBlock, CollectBlock, RecvStep, sendVars
<1>5. CASE Reinitialise
  BY <1>5 DEF Reinitialise, RecvStep, sendVars, MessageInv, BlockInv, IsBlock
<1>6. CASE SendRate
  BY <1>6 DEF SendRate, RecvStep, sendVars, MessageInv, BlockInv, IsBlock
<1>7. CASE SendBlock
  <2>1. /\ recv' = "recv" /\ UNCHANGED <<send, g_i2s_nominal_sampling_rate, block>>
        /\ send = "data" /\ g_i2s_nominal_sampling_rate = i2s_sampling_rate
    BY <1>7 DEF SendBlock, RecvStep, sendVars, MessageInv
  <2>2. PICK n \in Lengths : message' = <<"data", [i \in 1 .. n |-> i2s_sampling_rate]>>
    BY <1>7 DEF SendBlock
  <2>3. IsBlock([i \in 1 .. n |-> i2s_sampling_rate])'
    BY <1>7, <2>1, Uniform, RecordAssumption DEF SendBlock, IsBlock
  <2>. QED  BY <1>7, <2>1, <2>2, <2>3 DEF SendBlock, MessageInv, BlockInv, IsBlock
<1>8. CASE ReceiveRate
  <2>1. recv = "data" /\ message = <<"rate", i2s_sampling_rate>>
    BY <1>8 DEF ReceiveRate, SendStep, MessageInv
  <2>. QED
    BY <1>8, <2>1 DEF ReceiveRate, SendStep, recvVars, ChannelInv, MessageInv, BlockInv
<1>9. CASE ReceiveBlock
  <2>1. recv # "data" /\ \E s : message = <<"data", s>> /\ IsBlock(s)
    BY <1>9 DEF ReceiveBlock, SendStep, MessageInv
  <2>2. IsBlock(block)'
    BY <1>9, <2>1 DEF ReceiveBlock, IsBlock
  <2>. QED
    BY <1>9, <2>1, <2>2 DEF ReceiveBlock, SendStep, recvVars, MessageInv, BlockInv
<1>10. CASE NextBlock
  BY <1>10 DEF NextBlock, SendStep, recvVars, MessageInv, BlockInv
<1>11. CASE LookAtInterface \/ DetectChange \/ WriteBlock \/ LoseBlock \/ DummyWrite
            \/ AskForRatio \/ TakeRatio
  BY <1>3, <1>11 DEF LookAtInterface, DetectChange, WriteBlock, LoseBlock, DummyWrite,
       AskForRatio, TakeRatio, SendStep, AfterWrite, recvVars
<1>12. CASE RestartI2s \/ ChannelTask \/ ServeRatio \/ \E rate \in Rates : DetectRate(rate)
  BY <1>1, <1>12 DEF RestartI2s, DetectRate, DriverStep, ChannelTask, TakeChannel,
       ReturnChannel, AsrcStep, ServeRatio, recvVars, sendVars
<1>13. CASE Transfer \/ Callback \/ \E alternate \in BOOLEAN : SetInterface(alternate)
  BY <1>1, <1>13 DEF Transfer, FirstTransfer, SecondTransfer, LaterTransfer, Callback,
       NoChange, ResetForChange, ClearChange, ResetFull, NotFull, CheckLevel, LoadSamples, LoadZeros,
       CallbackStep, BeginTransfer, EndTransfer, SetInterface, UsbStep, recvVars, sendVars
<1>14. CASE UNCHANGED vars
  BY <1>1, <1>14 DEF vars, recvVars, sendVars
<1>. QED
  BY <1>4, <1>5, <1>6, <1>7, <1>8, <1>9, <1>10, <1>11, <1>12, <1>13, <1>14
     DEF Next, RecvTask, SendTask

-----------------------------------------------------------------------------
(***************************************************************************)
(* The buffer for the host                                                 *)
(***************************************************************************)
\* What the buffer holds is of the rate written last, unless it is to be emptied;
\* nobody writes between the reset and the clearing of the flag.
BufferInv ==
  /\ prev_i2s_sampling_rate \in Rate
  /\ samples_to_host \in Seq(Rates) /\ Len(samples_to_host) <= HostSize
  /\ g_i2s_sr_change_detected \/ samples_to_host \in Seq({prev_i2s_sampling_rate})
  /\ send = "write" => prev_i2s_sampling_rate = g_i2s_nominal_sampling_rate
  /\ callback = "clear" => g_i2s_sr_change_detected /\ samples_to_host = <<>>

\* While its interface is closed the buffer holds a stale block at most, and it is
\* read only with the interface open.
GateInv ==
  /\ callback \in {"idle", "change", "clear", "full", "level", "load"}
  /\ mic_interface_open \in BOOLEAN
  /\ ~mic_interface_open =>
       /\ Available < HostSize \div 2
       /\ send \in {"change", "write"} => samples_to_host = <<>>
  /\ first_frame_after_mic_interface_open =>
       ~samples_to_host_buf_ready_to_read /\ ~mic_interface_open
  /\ samples_to_host_buf_ready_to_read => callback = "idle" \/ mic_interface_open

\* What was there when the level was read is there when the samples are taken.
LoadInv ==
  /\ tx_size \in Nat /\ bytes_available \in 0 .. HostSize
  /\ callback # "idle" => tx_size \in Transfers
  /\ callback = "load" => bytes_available <= Available

RecordInv == ChannelInv /\ MessageInv /\ BlockInv /\ BufferInv /\ GateInv /\ LoadInv

LEMMA BufferKept == RecordInv /\ [Next]_vars => BufferInv'
<1>. SUFFICES ASSUME RecordInv, [Next]_vars PROVE BufferInv'
  OBVIOUS
<1>. USE DEF RecordInv, BufferInv
<1>1. CASE UNCHANGED <<prev_i2s_sampling_rate, samples_to_host, g_i2s_sr_change_detected,
                       g_i2s_nominal_sampling_rate>>
           /\ (send' = "write" => send = "write") /\ callback' # "clear"
  BY <1>1
<1>2. CASE UNCHANGED <<prev_i2s_sampling_rate, samples_to_host, g_i2s_sr_change_detected,
                       g_i2s_nominal_sampling_rate, callback>>
           /\ (send' = "write" => send = "write")
  BY <1>2
<1>3. CASE DetectChange
  <2>1. g_i2s_nominal_sampling_rate \in Rates /\ NoRate \notin Rates
    BY <1>3, RecordAssumption DEF DetectChange, SendStep, BlockInv
  <2>2. CASE NewRate
    BY <1>3, <2>1, <2>2 DEF DetectChange, SendStep, usbVars, Rate
  <2>3. CASE ~NewRate
    <3>1. g_i2s_nominal_sampling_rate = prev_i2s_sampling_rate
      BY <2>1, <2>3 DEF NewRate
    <3>2. g_i2s_sr_change_detected' <=> g_i2s_sr_change_detected
      BY <1>3, <2>3, Zenon DEF DetectChange
    <3>3. UNCHANGED <<prev_i2s_sampling_rate, samples_to_host, g_i2s_nominal_sampling_rate,
                      callback>>
      BY <1>3, <3>1 DEF DetectChange, SendStep, usbVars
    <3>. QED  BY <3>1, <3>2, <3>3
  <2>. QED  BY <2>2, <2>3
<1>4. CASE WriteBlock
  <2>1. /\ block \in Seq({prev_i2s_sampling_rate}) /\ prev_i2s_sampling_rate \in Rates
        /\ samples_to_host \in Seq({prev_i2s_sampling_rate})
        /\ HostSize - Len(samples_to_host) >= Len(block) /\ ~g_i2s_sr_change_detected
    BY <1>4 DEF WriteBlock, SendStep, BlockInv, IsBlock, Room, Available
  <2>2. /\ samples_to_host' \in Seq({prev_i2s_sampling_rate})
        /\ Len(samples_to_host') = Len(samples_to_host) + Len(block)
    BY <1>4, <2>1, Joined DEF WriteBlock
  <2>3. samples_to_host' \in Seq(Rates) /\ Len(samples_to_host') <= HostSize
    BY <2>1, <2>2, Narrow, LenProperties, RecordAssumption
  <2>4. UNCHANGED <<prev_i2s_sampling_rate, g_i2s_sr_change_detected, callback,
                    g_i2s_nominal_sampling_rate>>
    BY <1>4 DEF WriteBlock, SendStep, usbVars
  <2>5. send' # "write" /\ callback' # "clear"
    BY <1>4, <2>1, <2>4 DEF WriteBlock, SendStep, AfterWrite
  <2>. QED  BY <2>1, <2>2, <2>3, <2>4, <2>5
<1>5. CASE LookAtInterface \/ LoseBlock \/ DummyWrite \/ AskForRatio \/ TakeRatio
           \/ ReceiveBlock \/ NextBlock
  BY <1>2, <1>5 DEF LookAtInterface, LoseBlock, DummyWrite, AskForRatio, TakeRatio,
       ReceiveBlock, NextBlock, SendStep, AfterWrite, usbVars, bufferVars
<1>6. CASE ReceiveRate
  BY <1>6 DEF ReceiveRate, SendStep, usbVars, bufferVars
<1>7. CASE ChannelTask \/ RecvTask \/ ServeRatio
           \/ RestartI2s \/ \E rate \in Rates : DetectRate(rate)
  BY <1>2, <1>7 DEF RestartI2s, DetectRate, DriverStep, ChannelTask, TakeChannel,
       ReturnChannel, AsrcStep, ServeRatio, RecvTask, DiscardBlock, Reinitialise,
       ConvertBlock, CollectBlock, SendRate, SendBlock, RecvStep, sendVars, usbVars,
       bufferVars
<1>8. CASE (\E alternate \in BOOLEAN : SetInterface(alternate)) \/ ResetForChange \/ ResetFull
  <2>1. /\ samples_to_host' = <<>>
        /\ UNCHANGED <<prev_i2s_sampling_rate, g_i2s_sr_change_detected, send,
                       g_i2s_nominal_sampling_rate>>
        /\ callback' = "clear" => g_i2s_sr_change_detected
    BY <1>8 DEF SetInterface, ResetForChange, ResetFull, CallbackStep, BeginTransfer, EndTransfer, UsbStep, sendVars
  <2>2. /\ <<>> \in Seq(Rates) /\ <<>> \in Seq({prev_i2s_sampling_rate})
        /\ Len(<<>>) <= HostSize
    BY RecordAssumption
  <2>. QED  BY <2>1, <2>2
<1>9. CASE Transfer \/ NoChange \/ NotFull \/ CheckLevel \/ LoadZeros
  BY <1>1, <1>9 DEF Transfer, FirstTransfer, SecondTransfer, LaterTransfer, NoChange,
       NotFull, CheckLevel, LoadZeros, CallbackStep, BeginTransfer, EndTransfer, UsbStep, sendVars, bufferVars
<1>10. CASE ClearChange
  BY <1>10 DEF ClearChange, CallbackStep, BeginTransfer, EndTransfer, UsbStep, sendVars
<1>11. CASE LoadSamples
  <2>. DEFINE n == Smaller(tx_size, bytes_available)
  <2>1. /\ samples_to_host' = SubSeq(samples_to_host, n + 1, Len(samples_to_host))
        /\ callback = "load"
    BY <1>11 DEF LoadSamples, EndTransfer, Available
  <2>2. n \in 0 .. Len(samples_to_host)
    BY <2>1, LenProperties DEF Smaller, Available, LoadInv
  <2>. HIDE DEF n
  <2>3. /\ samples_to_host' \in Seq(Rates)
        /\ Len(samples_to_host') = Len(samples_to_host) - n
        /\ samples_to_host \in Seq({prev_i2s_sampling_rate})
             => samples_to_host' \in Seq({prev_i2s_sampling_rate})
    BY <2>1, <2>2, Rest
  <2>4. Len(samples_to_host') <= HostSize
    BY <2>2, <2>3, LenProperties, RecordAssumption
  <2>. QED
    BY <1>11, <2>3, <2>4 DEF LoadSamples, EndTransfer, UsbStep, sendVars
<1>12. CASE UNCHANGED vars
  BY <1>2, <1>12 DEF vars, sendVars, usbVars, bufferVars
<1>. QED
  BY <1>3, <1>4, <1>5, <1>6, <1>7, <1>8, <1>9, <1>10, <1>11, <1>12
     DEF Next, SendTask, Callback

LEMMA GateKept == RecordInv /\ [Next]_vars => GateInv'
<1>. SUFFICES ASSUME RecordInv, [Next]_vars PROVE GateInv'
  OBVIOUS
<1>. USE DEF RecordInv, GateInv, Available
<1>1. CASE UNCHANGED <<usbVars, samples_to_host>>
           /\ (send' \in {"change", "write"} => send \in {"change", "write"})
  BY <1>1 DEF usbVars
<1>2. CASE LookAtInterface
  BY <1>2 DEF LookAtInterface, SendStep, usbVars, bufferVars
<1>3. CASE WriteBlock
  <2>1. CASE mic_interface_open
    BY <1>3, <2>1 DEF WriteBlock, SendStep, usbVars
  <2>2. CASE ~mic_interface_open
    <3>1. samples_to_host = <<>> /\ block \in Seq({g_i2s_nominal_sampling_rate})
          /\ Len(block) \in Lengths
      BY <1>3, <2>2 DEF WriteBlock, SendStep, BlockInv, IsBlock
    <3>2. samples_to_host' = block
      BY <1>3, <3>1 DEF WriteBlock
    <3>3. send' \notin {"change", "write"}
      BY <1>3 DEF WriteBlock, SendStep, AfterWrite
    <3>. QED
      BY <1>3, <2>2, <3>1, <3>2, <3>3, RecordAssumption DEF WriteBlock, SendStep, usbVars
  <2>. QED  BY <2>1, <2>2
<1>4. CASE ReceiveRate \/ ReceiveBlock \/ DetectChange \/ LoseBlock \/ DummyWrite
           \/ AskForRatio \/ TakeRatio \/ NextBlock
  BY <1>1, <1>4 DEF ReceiveRate, ReceiveBlock, DetectChange, LoseBlock, DummyWrite,
       AskForRatio, TakeRatio, NextBlock, SendStep, AfterWrite, bufferVars
<1>5. CASE ChannelTask \/ RecvTask \/ ServeRatio
           \/ RestartI2s \/ \E rate \in Rates : DetectRate(rate)
  BY <1>1, <1>5 DEF RestartI2s, DetectRate, DriverStep, ChannelTask, TakeChannel,
       ReturnChannel, AsrcStep, ServeRatio, RecvTask, DiscardBlock, Reinitialise,
       ConvertBlock, CollectBlock, SendRate, SendBlock, RecvStep, sendVars, bufferVars
<1>6. CASE \E alternate \in BOOLEAN : SetInterface(alternate)
  <2>1. 0 < HostSize \div 2 /\ Len(<<>>) = 0
    BY RecordAssumption
  <2>. QED  BY <1>6, <2>1 DEF SetInterface, UsbStep
<1>7. CASE Transfer
  <2>1. UNCHANGED <<samples_to_host, send>> /\ callback' = "change"
    BY <1>7 DEF Transfer, FirstTransfer, SecondTransfer, LaterTransfer, CallbackStep, BeginTransfer, EndTransfer, UsbStep,
         sendVars, bufferVars
  <2>2. CASE FirstTransfer
    BY <2>1, <2>2 DEF FirstTransfer
  <2>3. CASE SecondTransfer
    BY <2>1, <2>3 DEF SecondTransfer
  <2>4. CASE LaterTransfer
    BY <2>1, <2>4 DEF LaterTransfer
  <2>. QED  BY <1>7, <2>2, <2>3, <2>4 DEF Transfer
<1>8. CASE NoChange \/ ClearChange \/ NotFull \/ LoadZeros
  BY <1>8 DEF NoChange, ClearChange, NotFull, LoadZeros, CallbackStep, BeginTransfer, EndTransfer, UsbStep, sendVars, bufferVars
<1>9. CASE ResetForChange \/ ResetFull
  <2>1. 0 < HostSize \div 2 /\ Len(<<>>) = 0
    BY RecordAssumption
  <2>. QED  BY <1>9, <2>1 DEF ResetForChange, ResetFull, CallbackStep, BeginTransfer, EndTransfer, UsbStep, sendVars
<1>10. CASE CheckLevel
  <2>1. UNCHANGED <<mic_interface_open, first_frame_after_mic_interface_open,
                    samples_to_host, send>>
        /\ callback = "level" /\ callback' = "load"
    BY <1>10 DEF CheckLevel, CallbackStep, BeginTransfer, EndTransfer, UsbStep, sendVars, bufferVars
  <2>2. samples_to_host_buf_ready_to_read' =>
          samples_to_host_buf_ready_to_read \/ Len(samples_to_host) >= HostSize \div 2
    BY <1>10, Zenon DEF CheckLevel
  <2>. QED  BY <2>1, <2>2, LenProperties, RecordAssumption
<1>11. CASE LoadSamples
  BY <1>11 DEF LoadSamples, CallbackStep, BeginTransfer, EndTransfer, UsbStep, sendVars
<1>12. CASE UNCHANGED vars
  BY <1>1, <1>12 DEF vars, sendVars, bufferVars
<1>. QED
  BY <1>2, <1>3, <1>4, <1>5, <1>6, <1>7, <1>8, <1>9, <1>10, <1>11, <1>12
     DEF Next, SendTask, Callback

LEMMA LoadKept == RecordInv /\ [Next]_vars => LoadInv'
<1>. SUFFICES ASSUME RecordInv, [Next]_vars PROVE LoadInv'
  OBVIOUS
<1>. USE DEF RecordInv, LoadInv
<1>0. Transfers \subseteq Nat /\ HostSize \in Nat /\ Available \in 0 .. HostSize
  BY RecordAssumption, LenProperties DEF BufferInv, Available
<1>1. CASE UNCHANGED <<usbVars, samples_to_host>>
  BY <1>1 DEF usbVars, Available
<1>2. CASE WriteBlock
  <2>1. /\ block \in Seq({g_i2s_nominal_sampling_rate}) /\ samples_to_host \in Seq(Rates)
        /\ g_i2s_nominal_sampling_rate \in Rates
    BY <1>2 DEF WriteBlock, SendStep, BlockInv, IsBlock, BufferInv
  <2>2. Available' = Available + Len(block) /\ Len(block) \in Nat
    BY <1>2, <2>1, Narrow, Joined, LenProperties DEF WriteBlock, Available
  <2>. QED  BY <1>0, <1>2, <2>2 DEF WriteBlock, SendStep, usbVars
<1>3. CASE LookAtInterface \/ ReceiveRate \/ ReceiveBlock \/ DetectChange \/ LoseBlock
           \/ DummyWrite \/ AskForRatio \/ TakeRatio \/ NextBlock
  BY <1>1, <1>3 DEF LookAtInterface, ReceiveRate, ReceiveBlock, DetectChange, LoseBlock,
       DummyWrite, AskForRatio, TakeRatio, NextBlock, SendStep, bufferVars
<1>4. CASE ChannelTask \/ RecvTask \/ ServeRatio
           \/ RestartI2s \/ \E rate \in Rates : DetectRate(rate)
  BY <1>1, <1>4 DEF RestartI2s, DetectRate, DriverStep, ChannelTask, TakeChannel,
       ReturnChannel, AsrcStep, ServeRatio, RecvTask, DiscardBlock, Reinitialise,
       ConvertBlock, CollectBlock, SendRate, SendBlock, RecvStep, bufferVars
<1>5. CASE \E alternate \in BOOLEAN : SetInterface(alternate)
  BY <1>5 DEF SetInterface
<1>6. CASE Transfer
  BY <1>0, <1>6 DEF Transfer, FirstTransfer, SecondTransfer, LaterTransfer, BeginTransfer
<1>7. CASE NoChange \/ ResetForChange \/ ClearChange \/ NotFull
  BY <1>7 DEF NoChange, ResetForChange, ClearChange, NotFull, CallbackStep
<1>8. CASE CheckLevel
  BY <1>0, <1>8 DEF CheckLevel, CallbackStep, bufferVars, Available
<1>9. CASE ResetFull \/ LoadSamples \/ LoadZeros
  BY <1>0, <1>9 DEF ResetFull, LoadSamples, LoadZeros, EndTransfer
<1>10. CASE UNCHANGED vars
  BY <1>1, <1>10 DEF vars, bufferVars
<1>. QED
  BY <1>2, <1>3, <1>4, <1>5, <1>6, <1>7, <1>8, <1>9, <1>10 DEF Next, SendTask, Callback

\* What the other invariants leave open: flags, and the counters of the interval.
RestInv ==
  /\ rpc \in {"none", "asked", "answered"}
  /\ g_i2s_sr_change_detected \in BOOLEAN /\ recording \in BOOLEAN
  /\ first_frame_after_mic_interface_open \in BOOLEAN
  /\ samples_to_host_buf_ready_to_read \in BOOLEAN
CountersInv == num_samples_to_host_buf_writes \in InInterval /\ num_dummy_writes \in InInterval

LEMMA RestKept == RestInv /\ [Next]_vars => RestInv'
<1>. USE DEF RestInv
<1>1. RestInv /\ (RestartI2s \/ (\E rate \in Rates : DetectRate(rate)) \/ RecvTask
                  \/ ChannelTask) => RestInv'
  BY Zenon DEF RestartI2s, DetectRate, DriverStep, RecvTask, DiscardBlock, Reinitialise,
       ConvertBlock, CollectBlock, SendRate, SendBlock, RecvStep, ChannelTask, TakeChannel,
       ReturnChannel, AsrcStep, usbVars, bufferVars
<1>2. RestInv /\ (SendTask \/ ServeRatio) => RestInv'
  BY Zenon DEF SendTask, ReceiveRate, ReceiveBlock, LookAtInterface, DetectChange,
       WriteBlock, LoseBlock, DummyWrite, AskForRatio, TakeRatio, NextBlock, SendStep,
       ServeRatio, usbVars, bufferVars
<1>3. RestInv /\ ((\E alternate \in BOOLEAN : SetInterface(alternate)) \/ Transfer) => RestInv'
  BY Zenon DEF SetInterface, Transfer, FirstTransfer, SecondTransfer, LaterTransfer,
       CallbackStep, BeginTransfer, EndTransfer, UsbStep, bufferVars
<1>4. RestInv /\ Callback => RestInv'
  BY Zenon DEF Callback, NoChange, ResetForChange, ClearChange, ResetFull, NotFull, CheckLevel,
       LoadSamples, LoadZeros, CallbackStep, BeginTransfer, EndTransfer, UsbStep, bufferVars
<1>5. RestInv /\ UNCHANGED vars => RestInv'
  BY Zenon DEF vars, usbVars, bufferVars
<1>. QED  BY <1>1, <1>2, <1>3, <1>4, <1>5 DEF Next

LEMMA CountersKept == CountersInv /\ [Next]_vars => CountersInv'
<1>. SUFFICES ASSUME CountersInv, [Next]_vars PROVE CountersInv'
  OBVIOUS
<1>1. ASSUME NEW n \in InInterval PROVE Counted(n) \in InInterval /\ 0 \in InInterval
  BY RecordAssumption DEF Counted, InInterval
<1>2. CASE UNCHANGED <<num_samples_to_host_buf_writes, num_dummy_writes>>
  BY <1>2 DEF CountersInv
<1>3. CASE DetectChange \/ WriteBlock \/ DummyWrite
  BY <1>1, <1>3 DEF DetectChange, WriteBlock, DummyWrite, CountersInv
<1>4. CASE ReceiveRate \/ ReceiveBlock \/ LookAtInterface \/ LoseBlock
           \/ AskForRatio \/ TakeRatio \/ NextBlock
  BY <1>2, <1>4 DEF ReceiveRate, ReceiveBlock, LookAtInterface, LoseBlock, AskForRatio,
       TakeRatio, NextBlock
<1>5. CASE ServeRatio \/ RestartI2s \/ (\E rate \in Rates : DetectRate(rate)) \/ RecvTask
           \/ ChannelTask
  BY <1>2, <1>5 DEF ServeRatio, RestartI2s, DetectRate, DriverStep, RecvTask, DiscardBlock,
       Reinitialise, ConvertBlock, CollectBlock, SendRate, SendBlock, RecvStep,
       ChannelTask, TakeChannel, ReturnChannel, AsrcStep, sendVars
<1>6. CASE (\E alternate \in BOOLEAN : SetInterface(alternate)) \/ Transfer \/ Callback
  BY <1>2, <1>6 DEF SetInterface, Transfer, FirstTransfer, SecondTransfer, LaterTransfer,
       Callback, NoChange, ResetForChange, ClearChange, ResetFull, NotFull, CheckLevel, LoadSamples,
       LoadZeros, CallbackStep, BeginTransfer, EndTransfer, UsbStep, sendVars
<1>7. CASE UNCHANGED vars
  BY <1>2, <1>7 DEF vars, sendVars
<1>. QED  BY <1>3, <1>4, <1>5, <1>6, <1>7 DEF Next, SendTask

-----------------------------------------------------------------------------
(***************************************************************************)
(* What it means                                                           *)
(***************************************************************************)
LEMMA RecordInit == Init => RecordInv
<1>. SUFFICES ASSUME Init PROVE RecordInv
  OBVIOUS
<1>1. ChannelInv /\ MessageInv /\ BlockInv
  BY DEF Init, ChannelInv, MessageInv, BlockInv, Rate
<1>2. BufferInv
  <2>1. <<>> \in Seq(Rates) /\ <<>> \in Seq({NoRate}) /\ Len(<<>>) <= HostSize
    BY RecordAssumption
  <2>. QED  BY <2>1 DEF Init, BufferInv, Rate
<1>3. GateInv
  <2>1. 0 < HostSize \div 2 /\ Len(<<>>) = 0
    BY RecordAssumption
  <2>. QED  BY <2>1 DEF Init, GateInv, Available
<1>4. LoadInv
  BY RecordAssumption DEF Init, LoadInv
<1>. QED  BY <1>1, <1>2, <1>3, <1>4 DEF RecordInv

LEMMA RecordSafety == Spec => []RecordInv
<1>1. RecordInv /\ [Next]_vars => RecordInv'
  BY ChannelKept, MessageKept, BufferKept, GateKept, LoadKept DEF RecordInv
<1>. QED  BY RecordInit, <1>1, PTL DEF Spec

\* The recording path is well typed: in particular the buffer for the host never
\* overflows.
THEOREM RecordTyping == Spec => []TypeOK
<1>1. Init => RestInv /\ CountersInv
  <2>1. Init => RestInv
    BY Zenon DEF Init, RestInv
  <2>2. Init => CountersInv
    BY RecordAssumption DEF Init, CountersInv, InInterval
  <2>. QED  BY <2>1, <2>2
<1>2. RecordInv /\ RestInv /\ CountersInv => TypeOK
  <2>. SUFFICES ASSUME RecordInv, RestInv, CountersInv PROVE TypeOK
    OBVIOUS
  <2>. USE DEF RecordInv
  <2>1. /\ i2s_nominal_sampling_rate \in Rate /\ i2s_sampling_rate \in Rate
        /\ recv \in {"recv", "collect", "rate", "data"} /\ asrc \in {"wait", "process"}
        /\ recv # "recv" => i2s_sampling_rate \in Rates
        /\ asrc_queue \in {<<>>} \cup {<<r>> : r \in Rates}
        /\ asrc_ret_queue \in {<<>>} \cup {<<r>> : r \in Rates}
    BY DEF ChannelInv
  <2>2. /\ send \in {"rate", "data", "look", "change", "write", "dummy", "ask", "answer", "done"}
        /\ g_i2s_nominal_sampling_rate \in Rate
        /\ send # "rate" => g_i2s_nominal_sampling_rate \in Rates
    BY DEF BlockInv
  <2>3. block \in Seq(Rates)
    <3>1. CASE send \in {"rate", "data"}
      BY <3>1 DEF BlockInv
    <3>2. CASE send \notin {"rate", "data"}
      <4>1. block \in Seq({g_i2s_nominal_sampling_rate})
        BY <3>2 DEF BlockInv, IsBlock
      <4>. QED  BY <2>2, <3>2, <4>1, Narrow
    <3>. QED  BY <3>1, <3>2
  <2>4. message \in {<<>>} \cup ({"rate"} \X Rates) \cup ({"data"} \X Seq(Rates))
    <3>1. CASE message = <<>>
      BY <3>1
    <3>2. CASE message = <<"rate", i2s_sampling_rate>> /\ recv = "data"
      BY <2>1, <3>2
    <3>3. CASE send = "data" /\ \E s : message = <<"data", s>> /\ IsBlock(s)
      BY <2>2, <3>3, Narrow DEF IsBlock
    <3>. QED  BY <3>1, <3>2, <3>3 DEF MessageInv
  <2>5. /\ prev_i2s_sampling_rate \in Rate
        /\ samples_to_host \in Seq(Rates) /\ Len(samples_to_host) <= HostSize
        /\ callback \in {"idle", "change", "clear", "full", "level", "load"}
        /\ mic_interface_open \in BOOLEAN
        /\ tx_size \in Nat /\ bytes_available \in 0 .. HostSize
    BY DEF BufferInv, GateInv, LoadInv
  <2>. QED
    BY <2>1, <2>2, <2>3, <2>4, <2>5, Zenon DEF TypeOK, RestInv, CountersInv
<1>. QED  BY <1>1, <1>2, RestKept, CountersKept, RecordSafety, PTL DEF Spec

\* The second channel converts at the rate of the first, and every message that
\* i2s_to_usb_intertile receives is the one it expects, with the samples of the
\* rate that came before.
THEOREM AssertionsNeverFail == Spec => []AssertionsHold
<1>1. RecordInv => AssertionsHold
  <2>. SUFFICES ASSUME RecordInv PROVE AssertionsHold
    OBVIOUS
  <2>. USE DEF RecordInv
  <2>1. \A rate \in Rates : asrc_ret_queue = <<rate>> => rate = i2s_sampling_rate
    BY DEF ChannelInv
  <2>2. send = "rate" /\ message # <<>> => message[1] = "rate"
    BY DEF MessageInv
  <2>3. send = "data" /\ message # <<>> =>
          message[1] = "data" /\ message[2] \in Seq({g_i2s_nominal_sampling_rate})
    BY DEF MessageInv, IsBlock
  <2>. QED  BY <2>1, <2>2, <2>3 DEF AssertionsHold
<1>. QED  BY <1>1, RecordSafety, PTL

\* The buffer for the host never mixes two rates, although the flag, the reset and
\* the writes belong to different tasks.
THEOREM RatesNeverMix == Spec => []OneRate
<1>1. RecordInv => OneRate
  BY DEF RecordInv, BufferInv, OneRate
<1>. QED  BY <1>1, RecordSafety, PTL

\* The host gets silence until a transfer finds the buffer half full, and from then
\* until the buffer is reset each transfer is its full size, or all that was there,
\* whatever is written while it is made up and whatever the host sets and when.
THEOREM BufferIsGated == Spec => ImplementsGatedBuffer
<1>1. Init => Host!Init
  BY DEF Init, Host!Init, Available, Promised
<1>2. RecordInv /\ [Next]_vars => [Host!Next]_Host!vars
  <2>. SUFFICES ASSUME RecordInv, [Next]_vars PROVE [Host!Next]_Host!vars
    OBVIOUS
  <2>. DEFINE open == mic_interface_open /\ samples_to_host_buf_ready_to_read
  <2>0. /\ Available \in 0 .. HostSize /\ HostSize \in Nat /\ Transfers \subseteq Nat
        /\ Promised \in 0 .. Available
    BY RecordAssumption, LenProperties
       DEF RecordInv, BufferInv, LoadInv, Available, Promised, Smaller
  \* Outside a transfer that is being made up nothing is promised.
  <2>1. /\ callback # "load" => Promised = 0
        /\ callback' # "load" => Promised' = 0
    BY DEF Promised
  <2>2. CASE UNCHANGED <<usbVars, samples_to_host>>
    BY <2>2 DEF Host!vars, usbVars, Available, Promised, Smaller
  <2>3. CASE WriteBlock
    <3>1. /\ block \in Seq({g_i2s_nominal_sampling_rate})
          /\ samples_to_host \in Seq({prev_i2s_sampling_rate})
          /\ g_i2s_nominal_sampling_rate = prev_i2s_sampling_rate
          /\ HostSize - Available >= Len(block)
      BY <2>3 DEF WriteBlock, SendStep, RecordInv, BufferInv, BlockInv, IsBlock, Room
    <3>2. Available' = Available + Len(block) /\ Len(block) \in Nat
      BY <2>3, <3>1, Joined, LenProperties DEF WriteBlock, Available
    <3>3. UNCHANGED <<mic_interface_open, samples_to_host_buf_ready_to_read, Promised>>
      BY <2>3 DEF WriteBlock, SendStep, usbVars, Promised, Smaller
    <3>4. (Available - Promised)' \in Available - Promised .. HostSize
      BY <2>0, <3>1, <3>2, <3>3
    <3>. QED  BY <3>3, <3>4 DEF Host!Put, Host!Next
  <2>4. CASE (\E alternate \in BOOLEAN : SetInterface(alternate)) \/ ResetForChange
             \/ ResetFull
    <3>1. /\ samples_to_host' = <<>> /\ callback' # "load"
          /\ ~mic_interface_open' \/ ~samples_to_host_buf_ready_to_read'
      BY <2>4 DEF SetInterface, ResetForChange, ResetFull, CallbackStep, EndTransfer
    <3>2. (Available - Promised)' = 0 /\ open' = FALSE
      BY <2>1, <3>1 DEF Available
    <3>. QED  BY <3>2 DEF Host!Reset, Host!Next
  <2>5. CASE FirstTransfer \/ SecondTransfer
    <3>1. UNCHANGED samples_to_host /\ callback # "load" /\ callback' # "load"
      BY <2>5 DEF FirstTransfer, SecondTransfer, BeginTransfer, bufferVars
    <3>2. ~open /\ ~open'
      BY <2>5 DEF FirstTransfer, SecondTransfer, RecordInv, GateInv
    <3>. QED  BY <2>1, <3>1, <3>2 DEF Host!vars, Available
  <2>6. CASE LaterTransfer \/ NoChange \/ ClearChange \/ NotFull
    <3>1. UNCHANGED <<mic_interface_open, samples_to_host_buf_ready_to_read, samples_to_host>>
          /\ callback # "load" /\ callback' # "load"
      BY <2>6 DEF LaterTransfer, NoChange, ClearChange, NotFull, BeginTransfer, CallbackStep,
           bufferVars
    <3>. QED  BY <2>1, <3>1 DEF Host!vars, Available
  \* The transfer is done when the level is read.
  <2>7. CASE CheckLevel
    <3>1. /\ UNCHANGED <<mic_interface_open, samples_to_host, tx_size>>
          /\ bytes_available' = Available /\ callback' = "load"
          /\ callback = "level" /\ tx_size \in Transfers
      BY <2>7 DEF CheckLevel, CallbackStep, bufferVars, RecordInv, LoadInv
    <3>2. Promised = 0 /\ Available' = Available
      BY <2>1, <3>1 DEF Available
    <3>3. ~mic_interface_open => ~(Available >= HostSize \div 2)
                                 /\ ~samples_to_host_buf_ready_to_read
      BY <2>0, <3>1, RecordAssumption DEF RecordInv, GateInv
    <3>4. CASE samples_to_host_buf_ready_to_read \/ Available >= HostSize \div 2
      <4>1. samples_to_host_buf_ready_to_read'
        BY <2>7, <3>4, Zenon DEF CheckLevel
      <4>2. open' = TRUE /\ (open \/ Available >= HostSize \div 2)
        BY <3>1, <3>3, <3>4, <4>1
      <4>3. Promised' = Smaller(tx_size, Available)
        BY <3>1, <4>1 DEF Promised, Smaller
      <4>4. (Available - Promised)'
              = IF tx_size < Available THEN Available - tx_size ELSE 0
        BY <2>0, <3>1, <3>2, <4>3 DEF Smaller
      <4>5. Available - Promised = Available
        BY <2>0, <3>2
      <4>. QED  BY <3>1, <4>2, <4>4, <4>5 DEF Host!Take, Host!Next
    <3>5. CASE ~(samples_to_host_buf_ready_to_read \/ Available >= HostSize \div 2)
      <4>1. ~samples_to_host_buf_ready_to_read'
        BY <2>7, <3>5, Zenon DEF CheckLevel
      <4>2. ~open /\ ~open' /\ Promised' = 0
        BY <3>5, <4>1 DEF Promised
      <4>. QED  BY <3>2, <4>2 DEF Host!vars
    <3>. QED  BY <3>4, <3>5
  <2>8. CASE LoadSamples
    <3>1. /\ callback = "load" /\ callback' = "idle"
          /\ samples_to_host_buf_ready_to_read
          /\ UNCHANGED <<mic_interface_open, samples_to_host_buf_ready_to_read>>
          /\ samples_to_host' = SubSeq(samples_to_host, Promised + 1, Len(samples_to_host))
      BY <2>8 DEF LoadSamples, EndTransfer, Promised, Available
    <3>2. Available' = Available - Promised
      BY <2>0, <3>1, Rest DEF Available, RecordInv, BufferInv
    <3>3. (Available - Promised)' = Available - Promised
      BY <2>0, <2>1, <3>1, <3>2
    <3>. QED  BY <3>1, <3>3 DEF Host!vars
  <2>9. CASE LoadZeros
    <3>1. /\ UNCHANGED <<mic_interface_open, samples_to_host_buf_ready_to_read, samples_to_host>>
          /\ ~samples_to_host_buf_ready_to_read /\ callback' = "idle"
      BY <2>9 DEF LoadZeros, EndTransfer, bufferVars
    <3>2. Promised = 0 /\ Promised' = 0
      BY <3>1 DEF Promised
    <3>. QED  BY <3>1, <3>2 DEF Host!vars, Available
  <2>10. CASE ReceiveRate \/ ReceiveBlock \/ LookAtInterface \/ DetectChange \/ LoseBlock
              \/ DummyWrite \/ AskForRatio \/ TakeRatio \/ NextBlock
    BY <2>2, <2>10 DEF ReceiveRate, ReceiveBlock, LookAtInterface, DetectChange, LoseBlock,
         DummyWrite, AskForRatio, TakeRatio, NextBlock, SendStep, bufferVars
  <2>11. CASE ChannelTask \/ RecvTask \/ ServeRatio
              \/ RestartI2s \/ \E rate \in Rates : DetectRate(rate)
    BY <2>2, <2>11 DEF RestartI2s, DetectRate, DriverStep, ChannelTask, TakeChannel,
         ReturnChannel, AsrcStep, ServeRatio, RecvTask, DiscardBlock, Reinitialise,
         ConvertBlock, CollectBlock, SendRate, SendBlock, RecvStep, bufferVars
  <2>12. CASE UNCHANGED vars
    BY <2>2, <2>12 DEF vars, bufferVars
  <2>. QED
    BY <2>3, <2>4, <2>5, <2>6, <2>7, <2>8, <2>9, <2>10, <2>11, <2>12
       DEF Next, SendTask, Transfer, Callback
<1>. QED  BY <1>1, <1>2, RecordSafety, PTL DEF Spec, ImplementsGatedBuffer, Host!Spec

-----------------------------------------------------------------------------
(***************************************************************************)
(* The ring of tasks: what RecordingGoesOn rests on                        *)
(***************************************************************************)
\* The rate server has a request exactly while usb_audio_send waits for its answer.
RpcInv == rpc \in {"none", "asked", "answered"} /\ (rpc # "none" <=> send = "answer")

\* When each of the four tasks of the ring can take its next step.  At "recv" the
\* receiving task waits for the I2S clock, not for another task.
RecvCanStep ==
  \/ recv = "collect" /\ asrc_ret_queue # <<>>
  \/ recv \in {"rate", "data"} /\ message = <<>>
ChannelCanStep ==
  \/ asrc = "wait" /\ asrc_queue # <<>>
  \/ asrc = "process" /\ asrc_ret_queue = <<>>
SendCanStep ==
  \/ send \in {"rate", "data"} /\ message # <<>>
  \/ send \in {"look", "change", "write", "dummy", "done"}
  \/ send = "ask" /\ rpc = "none"
  \/ send = "answer" /\ rpc = "answered"
ServerCanStep == rpc = "asked"

\* The two tiles are at rest between two blocks, or one of the tasks can run.
AtRest == recv = "recv" /\ send = "rate"
SomeTaskCanStep == RecvCanStep \/ ChannelCanStep \/ SendCanStep \/ ServerCanStep

\* The steps that the tasks have left before both tiles are at rest, at most.
RecvLeft ==
  IF recv = "collect" THEN 3 ELSE IF recv = "rate" THEN 2 ELSE IF recv = "data" THEN 1 ELSE 0
ChannelLeft ==
  IF asrc_queue # <<>> THEN 2 ELSE IF asrc = "process" THEN 1 ELSE 0
SendLeft ==
  IF send = "data" THEN IF recv = "data" THEN 0 ELSE 8
  ELSE (IF recv = "data" THEN 1 ELSE 0)
       + (IF send = "look" THEN 7 ELSE IF send = "change" THEN 6
          ELSE IF send \in {"write", "dummy"} THEN 5 ELSE IF send = "ask" THEN 4
          ELSE IF send = "answer" THEN (IF rpc = "asked" THEN 3 ELSE 2)
          ELSE IF send = "done" THEN 1 ELSE 0)
StepsLeft == 12 * RecvLeft + ChannelLeft + SendLeft
LongestRound == 46

\* A task that takes up a block counts down, and nobody else makes the count larger.
CountsDown ==
  \/ recv = "recv" /\ RecvTask
  \/ (RecvTask \/ ChannelTask \/ SendTask \/ ServeRatio) /\ StepsLeft' < StepsLeft
  \/ StepsLeft' = StepsLeft
     /\ UNCHANGED <<recvVars, asrc, message, sendVars, rpc>>

LEMMA RpcKept == RpcInv /\ [Next]_vars => RpcInv'
<1>. SUFFICES ASSUME RpcInv, [Next]_vars PROVE RpcInv'
  OBVIOUS
<1>1. CASE UNCHANGED <<send, rpc>>
  BY <1>1 DEF RpcInv
<1>2. CASE AskForRatio \/ TakeRatio \/ ServeRatio
  BY <1>2 DEF AskForRatio, TakeRatio, ServeRatio, SendStep, sendVars, RpcInv
<1>3. CASE ReceiveRate \/ ReceiveBlock \/ LookAtInterface \/ DetectChange \/ WriteBlock
           \/ LoseBlock \/ DummyWrite \/ NextBlock
  BY <1>3 DEF ReceiveRate, ReceiveBlock, LookAtInterface, DetectChange, WriteBlock,
       LoseBlock, DummyWrite, NextBlock, SendStep, AfterWrite, RpcInv
<1>4. CASE RestartI2s \/ (\E rate \in Rates : DetectRate(rate)) \/ RecvTask \/ ChannelTask
  BY <1>1, <1>4 DEF RestartI2s, DetectRate, DriverStep, RecvTask, DiscardBlock,
       Reinitialise, ConvertBlock, CollectBlock, SendRate, SendBlock, RecvStep,
       ChannelTask, TakeChannel, ReturnChannel, AsrcStep, sendVars
<1>5. CASE (\E alternate \in BOOLEAN : SetInterface(alternate)) \/ Transfer \/ Callback
  BY <1>1, <1>5 DEF SetInterface, Transfer, FirstTransfer, SecondTransfer, LaterTransfer,
       Callback, NoChange, ResetForChange, ClearChange, ResetFull, NotFull, CheckLevel, LoadSamples,
       LoadZeros, CallbackStep, BeginTransfer, EndTransfer, UsbStep, sendVars
<1>6. CASE UNCHANGED vars
  BY <1>1, <1>6 DEF vars, sendVars
<1>. QED  BY <1>2, <1>3, <1>4, <1>5, <1>6 DEF Next, SendTask

LEMMA RingSafety == Spec => [](RecordInv /\ RpcInv)
<1>1. Init => RpcInv
  BY DEF Init, RpcInv
<1>. QED  BY <1>1, RpcKept, RecordSafety, PTL DEF Spec

\* The tasks of the two tiles never all wait for one another: whenever a block is
\* under way, one of the four can take its next step.
THEOREM TheRingNeverBlocks == Spec => [](AtRest \/ SomeTaskCanStep)
<1>1. RecordInv /\ RpcInv => AtRest \/ SomeTaskCanStep
  <2>. SUFFICES ASSUME RecordInv, RpcInv PROVE ~AtRest => SomeTaskCanStep
    OBVIOUS
  <2>. HAVE ~AtRest
  <2>. USE DEF SomeTaskCanStep
  <2>1. CASE recv = "collect"
    <3>1. <<i2s_sampling_rate>> # <<>>
      OBVIOUS
    <3>. QED  BY <2>1, <3>1 DEF RecordInv, ChannelInv, RecvCanStep, ChannelCanStep
  <2>2. CASE send \notin {"rate", "data"}
    <3>1. send \in {"look", "change", "write", "dummy", "ask", "answer", "done"}
      BY <2>2 DEF RecordInv, BlockInv
    <3>. QED  BY <3>1 DEF RpcInv, SendCanStep, ServerCanStep
  <2>3. CASE recv \in {"rate", "data"} /\ send \in {"rate", "data"}
    BY <2>3 DEF RecvCanStep, SendCanStep
  <2>4. CASE recv = "recv" /\ send = "data"
    BY <2>4 DEF RecordInv, MessageInv, SendCanStep
  <2>5. recv \in {"recv", "collect", "rate", "data"}
    BY DEF RecordInv, ChannelInv
  <2>. QED  BY <2>1, <2>2, <2>3, <2>4, <2>5 DEF AtRest
<1>. QED  BY <1>1, RingSafety, PTL

LEMMA LeftTyping ==
  ASSUME RecordInv, RpcInv
  PROVE  /\ RecvLeft \in 0 .. 3 /\ ChannelLeft \in 0 .. 2 /\ SendLeft \in 0 .. 8
         /\ recv # "collect" => ChannelLeft = 0
<1>1. recv # "collect" => asrc = "wait" /\ asrc_queue = <<>>
  BY DEF RecordInv, ChannelInv
<1>2. RecvLeft \in 0 .. 3
  BY DEF RecvLeft
<1>3. ChannelLeft \in 0 .. 2 /\ (recv # "collect" => ChannelLeft = 0)
  BY <1>1 DEF ChannelLeft
<1>4. SendLeft \in 0 .. 8
  BY DEF SendLeft
<1>. QED  BY <1>2, <1>3, <1>4

\* The steps that move the ring, one by one.
LEMMA RecvCounts ==
  ASSUME RecordInv, RpcInv, RecvTask, recv # "recv" PROVE StepsLeft' < StepsLeft
<1>0. UNCHANGED <<send, rpc>>
  BY DEF RecvTask, DiscardBlock, Reinitialise, ConvertBlock, CollectBlock, SendRate,
     SendBlock, RecvStep, sendVars
<1>1. CASE CollectBlock
  <2>1. recv = "collect" /\ recv' \in {"recv", "rate"}
        /\ asrc_queue' = asrc_queue /\ asrc' = asrc
    BY <1>1 DEF CollectBlock, RecvStep
  <2>2. RecvLeft = 3 /\ RecvLeft' \in {0, 2} /\ ChannelLeft' = ChannelLeft
        /\ SendLeft' = SendLeft
    BY <1>0, <2>1 DEF RecvLeft, ChannelLeft, SendLeft
  <2>. QED  BY <2>2, LeftTyping DEF StepsLeft
<1>2. CASE SendRate
  <2>1. recv = "rate" /\ recv' = "data" /\ asrc_queue' = asrc_queue /\ asrc' = asrc
        /\ message = <<>>
    BY <1>2 DEF SendRate, RecvStep
  <2>2. send # "data"
    BY <2>1 DEF RecordInv, MessageInv
  <2>3. RecvLeft = 2 /\ RecvLeft' = 1 /\ ChannelLeft' = ChannelLeft
    BY <2>1 DEF RecvLeft, ChannelLeft
  <2>4. SendLeft' = SendLeft + 1
    BY <1>0, <2>1, <2>2 DEF SendLeft
  <2>. QED  BY <2>3, <2>4, LeftTyping DEF StepsLeft
<1>3. CASE SendBlock
  <2>1. recv = "data" /\ recv' = "recv" /\ asrc_queue' = asrc_queue /\ asrc' = asrc
    BY <1>3 DEF SendBlock, RecvStep
  <2>2. RecvLeft = 1 /\ RecvLeft' = 0 /\ ChannelLeft' = ChannelLeft
    BY <2>1 DEF RecvLeft, ChannelLeft
  <2>3. SendLeft \in Nat /\ SendLeft' \in 0 .. 8
    BY <1>0, <2>1, LeftTyping DEF SendLeft
  <2>. QED  BY <2>2, <2>3, LeftTyping DEF StepsLeft
<1>. QED
  BY <1>1, <1>2, <1>3 DEF RecvTask, DiscardBlock, Reinitialise, ConvertBlock, RecvStep

LEMMA ChannelCounts ==
  ASSUME RecordInv, RpcInv, ChannelTask PROVE StepsLeft' < StepsLeft
<1>1. UNCHANGED <<recv, send, rpc>>
  BY DEF ChannelTask, TakeChannel, ReturnChannel, AsrcStep, sendVars
<1>2. RecvLeft' = RecvLeft /\ SendLeft' = SendLeft
  BY <1>1 DEF RecvLeft, SendLeft
<1>3. ChannelLeft' = ChannelLeft - 1
  <2>1. CASE TakeChannel
    BY <2>1 DEF TakeChannel, ChannelLeft
  <2>2. CASE ReturnChannel
    BY <2>2 DEF ReturnChannel, ChannelLeft, RecordInv, ChannelInv
  <2>. QED  BY <2>1, <2>2 DEF ChannelTask
<1>. QED  BY <1>2, <1>3, LeftTyping DEF StepsLeft

LEMMA SendCounts ==
  ASSUME RecordInv, RpcInv, SendTask \/ ServeRatio PROVE StepsLeft' < StepsLeft
<1>1. UNCHANGED <<recv, asrc, asrc_queue>>
  BY DEF SendTask, ReceiveRate, ReceiveBlock, LookAtInterface, DetectChange, WriteBlock,
     LoseBlock, DummyWrite, AskForRatio, TakeRatio, NextBlock, SendStep, ServeRatio, recvVars
<1>2. RecvLeft' = RecvLeft /\ ChannelLeft' = ChannelLeft
  BY <1>1 DEF RecvLeft, ChannelLeft
<1>3. SendLeft' < SendLeft
  <2>1. CASE ReceiveRate
    <3>1. send = "rate" /\ send' = "data" /\ recv = "data"
      BY <2>1 DEF ReceiveRate, SendStep, RecordInv, MessageInv
    <3>. QED  BY <1>1, <3>1 DEF SendLeft
  <2>2. CASE ReceiveBlock
    <3>1. send = "data" /\ send' = "look" /\ recv # "data"
      BY <2>2 DEF ReceiveBlock, SendStep, RecordInv, MessageInv
    <3>. QED  BY <1>1, <3>1 DEF SendLeft
  <2>3. CASE LookAtInterface
    <3>1. send = "look" /\ send' \in {"change", "dummy"}
      BY <2>3 DEF LookAtInterface, SendStep
    <3>. QED  BY <1>1, <3>1 DEF SendLeft
  <2>4. CASE DetectChange
    <3>1. send = "change" /\ send' = "write"
      BY <2>4 DEF DetectChange, SendStep
    <3>. QED  BY <1>1, <3>1 DEF SendLeft
  <2>5. CASE WriteBlock \/ LoseBlock \/ DummyWrite
    <3>1. send \in {"write", "dummy"} /\ send' \in {"ask", "done"}
      BY <2>5 DEF WriteBlock, LoseBlock, DummyWrite, SendStep, AfterWrite
    <3>. QED  BY <1>1, <3>1 DEF SendLeft
  <2>6. CASE AskForRatio
    <3>1. send = "ask" /\ send' = "answer" /\ rpc' = "asked"
      BY <2>6 DEF AskForRatio, SendStep
    <3>. QED  BY <1>1, <3>1 DEF SendLeft
  <2>7. CASE TakeRatio
    <3>1. send = "answer" /\ send' = "done"
      BY <2>7 DEF TakeRatio, SendStep
    <3>. QED  BY <1>1, <3>1 DEF SendLeft
  <2>8. CASE NextBlock
    <3>1. send = "done" /\ send' = "rate"
      BY <2>8 DEF NextBlock, SendStep
    <3>. QED  BY <1>1, <3>1 DEF SendLeft
  <2>9. CASE ServeRatio
    <3>1. send = "answer" /\ send' = "answer" /\ rpc = "asked" /\ rpc' = "answered"
      BY <2>9 DEF ServeRatio, RpcInv, sendVars
    <3>. QED  BY <1>1, <3>1 DEF SendLeft
  <2>. QED
    BY <2>1, <2>2, <2>3, <2>4, <2>5, <2>6, <2>7, <2>8, <2>9 DEF SendTask
<1>4. SendLeft' \in Int /\ SendLeft \in Int
  BY DEF SendLeft
<1>. QED  BY <1>2, <1>3, <1>4, LeftTyping DEF StepsLeft

\* From the moment a block is taken up the two tiles take at most LongestRound steps
\* until both wait for the next one: each step of a task counts down, whatever the
\* host, its transfers and the I2S clock do in between.
THEOREM ARoundEnds ==
  /\ Spec => [](StepsLeft \in 0 .. LongestRound /\ (StepsLeft = 0 => AtRest))
  /\ Spec => [][CountsDown]_vars
<1>1. RecordInv /\ RpcInv => StepsLeft \in 0 .. LongestRound /\ (StepsLeft = 0 => AtRest)
  <2>. SUFFICES ASSUME RecordInv, RpcInv
                PROVE  StepsLeft \in 0 .. LongestRound /\ (StepsLeft = 0 => AtRest)
    OBVIOUS
  <2>1. StepsLeft \in 0 .. LongestRound
    BY LeftTyping DEF StepsLeft, LongestRound
  <2>2. ASSUME StepsLeft = 0 PROVE AtRest
    <3>1. RecvLeft = 0 /\ SendLeft = 0
      BY <2>2, LeftTyping DEF StepsLeft
    <3>2. recv = "recv"
      BY <3>1 DEF RecvLeft, RecordInv, ChannelInv
    <3>3. send = "rate"
      <4>1. send \in {"rate", "data", "look", "change", "write", "dummy", "ask", "answer",
                      "done"}
        BY DEF RecordInv, BlockInv
      <4>. QED  BY <3>1, <3>2, <4>1 DEF SendLeft
    <3>. QED  BY <3>2, <3>3 DEF AtRest
  <2>. QED  BY <2>1, <2>2
<1>2. RecordInv /\ RpcInv /\ [Next]_vars => [CountsDown]_vars
  <2>. SUFFICES ASSUME RecordInv, RpcInv, [Next]_vars PROVE [CountsDown]_vars
    OBVIOUS
  <2>1. CASE RecvTask /\ recv = "recv"
    BY <2>1 DEF CountsDown
  <2>2. CASE RecvTask /\ recv # "recv"
    BY <2>2, RecvCounts DEF CountsDown
  <2>3. CASE ChannelTask
    BY <2>3, ChannelCounts DEF CountsDown
  <2>4. CASE SendTask \/ ServeRatio
    BY <2>4, SendCounts DEF CountsDown
  <2>5. CASE UNCHANGED <<recvVars, asrc, message, sendVars, rpc>>
    <3>1. StepsLeft' = StepsLeft
      BY <2>5 DEF StepsLeft, RecvLeft, ChannelLeft, SendLeft, recvVars, sendVars
    <3>. QED  BY <2>5, <3>1 DEF CountsDown
  <2>6. CASE RestartI2s \/ (\E rate \in Rates : DetectRate(rate))
             \/ (\E alternate \in BOOLEAN : SetInterface(alternate)) \/ Transfer \/ Callback
    BY <2>5, <2>6 DEF RestartI2s, DetectRate, DriverStep, SetInterface, Transfer,
         FirstTransfer, SecondTransfer, LaterTransfer, Callback, NoChange, ResetForChange,
         ClearChange, ResetFull, NotFull, CheckLevel, LoadSamples, LoadZeros, CallbackStep, BeginTransfer, EndTransfer, UsbStep
  <2>7. CASE UNCHANGED vars
    BY <2>7
  <2>. QED  BY <2>1, <2>2, <2>3, <2>4, <2>6, <2>7 DEF Next
<1>. QED  BY <1>1, <1>2, RingSafety, PTL DEF Spec
=============================================================================
