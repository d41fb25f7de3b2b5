----------------------------- MODULE AsrcRecord -----------------------------
(***************************************************************************)
(* The recording path of the ASRC demo.  On the I2S tile                   *)
(* i2s_audio_recv_task (i2s_audio.c) converts blocks with a second task    *)
(* for the second channel, and sends for each the I2S rate it was          *)
(* recorded at and the samples.  On the USB tile i2s_to_usb_intertile and  *)
(* usb_audio_send (usb_audio.c) put them into the buffer for the host,     *)
(* and ask the rate server (rate_server.c) for a new ratio now and then;   *)
(* the TinyUSB callbacks hand the samples to the host.                     *)
(*                                                                         *)
(* A sample is the rate it was converted from.  The stream buffer is       *)
(* FreeRTOS's: a call of it is one step.                                   *)
(***************************************************************************)
EXTENDS Integers, Sequences

CONSTANTS
  Rates,       (* Nominal I2S sampling rates.                                *)
  NoRate,      (* 0: the rate is not known.                                  *)
  Lengths,     (* The n_samps_out of a block, but for 0.                     *)
  Transfers,   (* The samples of a transfer to the host.                     *)
  HostSize,    (* samples_to_host_stream_buf_size_bytes, in samples.         *)
  RATE_MONITOR_TRIGGER_INTERVAL

\* usb_audio_init: the buffer has room for four blocks.
ASSUME RecordAssumption ==
  /\ NoRate \notin Rates
  /\ Transfers \subseteq Nat
  /\ HostSize \in Nat \ {0, 1}
  /\ Lengths \subseteq Nat \ {0} /\ \A n \in Lengths : n < HostSize \div 2
  /\ RATE_MONITOR_TRIGGER_INTERVAL \in Nat \ {0}

VARIABLES
  i2s_nominal_sampling_rate,        (* The driver's.                         *)
  recv, i2s_sampling_rate,          (* i2s_audio_recv_task, its ASRC's rate. *)
  asrc_queue, asrc_ret_queue, asrc, (* The task of the second channel.       *)
  message,                 (* On appconfAUDIOPIPELINE_PORT, <<>> for none.   *)
  send,                    (* Where i2s_to_usb_intertile is.                 *)
  g_i2s_nominal_sampling_rate, block,   (* The rate and the samples it got.  *)
  prev_i2s_sampling_rate, g_i2s_sr_change_detected,
  num_samples_to_host_buf_writes, num_dummy_writes,  (* In the interval.     *)
  rpc,                     (* On appconfUSB_RATE_NOTIFY_PORT.                *)
  callback,                (* Where tud_audio_tx_done_pre_load_cb is,        *)
  tx_size, bytes_available,   (* the samples asked for, and those it saw.    *)
  recording,               (* Has the host set an alternate with an endpoint? *)
  mic_interface_open, first_frame_after_mic_interface_open,
  samples_to_host, samples_to_host_buf_ready_to_read

driverVars == <<i2s_nominal_sampling_rate>>
recvVars == <<recv, i2s_sampling_rate, asrc_queue, asrc_ret_queue>>
sendVars == <<send, g_i2s_nominal_sampling_rate, block, prev_i2s_sampling_rate,
              num_samples_to_host_buf_writes, num_dummy_writes>>
usbVars == <<callback, tx_size, bytes_available, recording, mic_interface_open,
             first_frame_after_mic_interface_open, samples_to_host_buf_ready_to_read>>
bufferVars == <<samples_to_host, g_i2s_sr_change_detected>>
vars == <<driverVars, recvVars, asrc, message, sendVars, rpc, usbVars, bufferVars>>

Init ==
  /\ i2s_nominal_sampling_rate = NoRate
  /\ recv = "recv" /\ i2s_sampling_rate = NoRate
  /\ asrc_queue = <<>> /\ asrc_ret_queue = <<>> /\ asrc = "wait"
  /\ message = <<>>
  /\ send = "rate" /\ g_i2s_nominal_sampling_rate = NoRate /\ block = <<>>
  /\ prev_i2s_sampling_rate = NoRate /\ g_i2s_sr_change_detected = FALSE
  /\ num_samples_to_host_buf_writes = 0 /\ num_dummy_writes = 0
  /\ rpc = "none"
  /\ callback = "idle" /\ tx_size = 0 /\ bytes_available = 0 /\ recording = FALSE
  /\ mic_interface_open = FALSE /\ first_frame_after_mic_interface_open = FALSE
  /\ samples_to_host = <<>> /\ samples_to_host_buf_ready_to_read = FALSE

-----------------------------------------------------------------------------
(***************************************************************************)
(* The I2S driver                                                          *)
(***************************************************************************)
DriverStep == UNCHANGED <<recvVars, asrc, message, sendVars, rpc, usbVars, bufferVars>>

RestartI2s == i2s_nominal_sampling_rate' = NoRate /\ DriverStep

DetectRate(rate) ==
  /\ i2s_nominal_sampling_rate = NoRate /\ i2s_nominal_sampling_rate' = rate
  /\ DriverStep

-----------------------------------------------------------------------------
(***************************************************************************)
(* i2s_audio_recv_task, when a block has been received                     *)
(***************************************************************************)
RecvStep(from, to) ==
  /\ recv = from /\ recv' = to
  /\ UNCHANGED <<driverVars, asrc, sendVars, rpc, usbVars, bufferVars>>

\* No rate yet: the block is discarded.
DiscardBlock ==
  /\ RecvStep("recv", "recv")
  /\ i2s_nominal_sampling_rate = NoRate
  /\ UNCHANGED <<i2s_sampling_rate, asrc_queue, asrc_ret_queue, message>>

\* A new rate: both channels are initialised, and the block is skipped.
Reinitialise ==
  /\ RecvStep("recv", "recv")
  /\ i2s_nominal_sampling_rate \notin {NoRate, i2s_sampling_rate}
  /\ i2s_sampling_rate' = i2s_nominal_sampling_rate
  /\ UNCHANGED <<asrc_queue, asrc_ret_queue, message>>

ConvertBlock ==
  /\ RecvStep("recv", "collect")
  /\ i2s_nominal_sampling_rate # NoRate /\ i2s_nominal_sampling_rate = i2s_sampling_rate
  /\ asrc_queue = <<>> /\ asrc_queue' = <<i2s_sampling_rate>>
  /\ UNCHANGED <<i2s_sampling_rate, asrc_ret_queue, message>>

CollectAtOnce ==
  /\ \E to \in {"recv", "rate"} : RecvStep("collect", to)
  /\ asrc_ret_queue' = <<>>
  /\ UNCHANGED <<i2s_sampling_rate, asrc_queue, message>>

\* When n_samps_out is zero nothing is sent.
CollectBlock ==
  /\ \E to \in {"recv", "rate"} : RecvStep("collect", to)
  /\ asrc_ret_queue # <<>> /\ asrc_ret_queue' = <<>>
  /\ UNCHANGED <<i2s_sampling_rate, asrc_queue, message>>

SendRate ==
  /\ RecvStep("rate", "data")
  /\ message = <<>> /\ message' = <<"rate", i2s_sampling_rate>>
  /\ UNCHANGED <<i2s_sampling_rate, asrc_queue, asrc_ret_queue>>

SendBlock ==
  /\ RecvStep("data", "recv")
  /\ message = <<>>
  /\ \E n \in Lengths : message' = <<"data", [i \in 1 .. n |-> i2s_sampling_rate]>>
  /\ UNCHANGED <<i2s_sampling_rate, asrc_queue, asrc_ret_queue>>

\* asrc_one_channel_task
AsrcStep ==
  UNCHANGED <<driverVars, recv, i2s_sampling_rate, message, sendVars, rpc, usbVars, bufferVars>>

TakeChannel ==
  /\ asrc = "wait" /\ asrc' = "process"
  /\ asrc_queue # <<>> /\ asrc_queue' = <<>>
  /\ AsrcStep /\ UNCHANGED asrc_ret_queue

ReturnChannel ==
  /\ asrc = "process" /\ asrc' = "wait"
  /\ asrc_ret_queue = <<>> /\ asrc_ret_queue' = <<i2s_sampling_rate>>
  /\ AsrcStep /\ UNCHANGED asrc_queue

-----------------------------------------------------------------------------
(***************************************************************************)
(* i2s_to_usb_intertile and usb_audio_send                                 *)
(***************************************************************************)
SendStep(from, to) ==
  /\ send = from /\ send' = to
  /\ UNCHANGED <<driverVars, recvVars, asrc, usbVars>>

ReceiveRate ==
  /\ SendStep("rate", "data")
  /\ message # <<>> /\ message' = <<>>
  /\ g_i2s_nominal_sampling_rate' = message[2]
  /\ UNCHANGED <<block, prev_i2s_sampling_rate, num_samples_to_host_buf_writes,
                 num_dummy_writes, rpc, bufferVars>>

ReceiveBlock ==
  /\ SendStep("data", "look")
  /\ message # <<>> /\ message' = <<>>
  /\ block' = message[2]
  /\ UNCHANGED <<g_i2s_nominal_sampling_rate, prev_i2s_sampling_rate,
                 num_samples_to_host_buf_writes, num_dummy_writes, rpc, bufferVars>>

\* The interface is looked at once.
LookAtInterface ==
  /\ SendStep("look", IF mic_interface_open THEN "change" ELSE "dummy")
  /\ UNCHANGED <<message, g_i2s_nominal_sampling_rate, block, prev_i2s_sampling_rate,
                 num_samples_to_host_buf_writes, num_dummy_writes, rpc, bufferVars>>

NewRate == g_i2s_nominal_sampling_rate \notin {NoRate, prev_i2s_sampling_rate}
DetectChange ==
  /\ SendStep("change", "write")
  /\ g_i2s_sr_change_detected' = (NewRate \/ g_i2s_sr_change_detected)
  /\ num_samples_to_host_buf_writes' = IF NewRate THEN 0 ELSE num_samples_to_host_buf_writes
  /\ num_dummy_writes' = IF NewRate THEN 0 ELSE num_dummy_writes
  /\ prev_i2s_sampling_rate' = g_i2s_nominal_sampling_rate
  /\ UNCHANGED <<message, g_i2s_nominal_sampling_rate, block, rpc, samples_to_host>>

\* Every RATE_MONITOR_TRIGGER_INTERVAL-th write triggers the rate monitor.
Counted(n) == (n + 1) % RATE_MONITOR_TRIGGER_INTERVAL
AfterWrite(n) == IF Counted(n) = 0 THEN "ask" ELSE "done"

Available == Len(samples_to_host)
RoomOffByOne == HostSize - Available + 1 >= Len(block)
Room == HostSize - Available >= Len(block)
WriteBlock ==
  /\ SendStep("write", AfterWrite(num_samples_to_host_buf_writes))
  /\ ~g_i2s_sr_change_detected /\ Room
  /\ samples_to_host' = samples_to_host \o block
  /\ num_samples_to_host_buf_writes' = Counted(num_samples_to_host_buf_writes)
  /\ UNCHANGED <<message, g_i2s_nominal_sampling_rate, block, prev_i2s_sampling_rate,
                 num_dummy_writes, rpc, g_i2s_sr_change_detected>>

LoseBlockWaiting ==
  /\ SendStep("write", "done")
  /\ g_i2s_sr_change_detected
  /\ UNCHANGED <<message, g_i2s_nominal_sampling_rate, block, prev_i2s_sampling_rate,
                 num_samples_to_host_buf_writes, num_dummy_writes, rpc, bufferVars>>

\* The buffer waits to be emptied, or "lost VFE output samples".
LoseBlock ==
  /\ SendStep("write", "done")
  /\ g_i2s_sr_change_detected \/ ~Room
  /\ UNCHANGED <<message, g_i2s_nominal_sampling_rate, block, prev_i2s_sampling_rate,
                 num_samples_to_host_buf_writes, num_dummy_writes, rpc, bufferVars>>

DummyWrite ==
  /\ SendStep("dummy", AfterWrite(num_dummy_writes))
  /\ num_dummy_writes' = Counted(num_dummy_writes)
  /\ UNCHANGED <<message, g_i2s_nominal_sampling_rate, block, prev_i2s_sampling_rate,
                 num_samples_to_host_buf_writes, rpc, bufferVars>>

AskForRatio ==
  /\ SendStep("ask", "answer")
  /\ rpc = "none" /\ rpc' = "asked"
  /\ UNCHANGED <<message, g_i2s_nominal_sampling_rate, block, prev_i2s_sampling_rate,
                 num_samples_to_host_buf_writes, num_dummy_writes, bufferVars>>

TakeRatio ==
  /\ SendStep("answer", "done")
  /\ rpc = "answered" /\ rpc' = "none"
  /\ UNCHANGED <<message, g_i2s_nominal_sampling_rate, block, prev_i2s_sampling_rate,
                 num_samples_to_host_buf_writes, num_dummy_writes, bufferVars>>

NextBlock ==
  /\ SendStep("done", "rate")
  /\ block' = <<>>
  /\ UNCHANGED <<message, g_i2s_nominal_sampling_rate, prev_i2s_sampling_rate,
                 num_samples_to_host_buf_writes, num_dummy_writes, rpc, bufferVars>>

\* rate_server
ServeRatio ==
  /\ rpc = "asked" /\ rpc' = "answered"
  /\ UNCHANGED <<driverVars, recvVars, asrc, message, sendVars, usbVars, bufferVars>>

-----------------------------------------------------------------------------
(***************************************************************************)
(* The TinyUSB task: SET_INTERFACE, and a transfer to the host.            *)
(***************************************************************************)
UsbStep == UNCHANGED <<driverVars, recvVars, asrc, message, sendVars, rpc>>

\* tud_audio_set_itf_close_EP_cb, then tud_audio_set_itf_cb.
SetInterface(alternate) ==
  /\ callback = "idle"
  /\ recording' = alternate
  /\ mic_interface_open' = FALSE /\ first_frame_after_mic_interface_open' = FALSE
  /\ samples_to_host' = <<>>
  /\ UsbStep
  /\ UNCHANGED <<callback, tx_size, bytes_available, samples_to_host_buf_ready_to_read,
                 g_i2s_sr_change_detected>>

\* The callback begins with the size of the transfer.
BeginTransfer ==
  /\ callback = "idle" /\ callback' = "change" /\ recording
  /\ tx_size' \in Transfers
  /\ UsbStep /\ UNCHANGED <<bytes_available, recording, bufferVars>>

\* The interface counts as open from the second transfer on.
FirstTransfer ==
  /\ BeginTransfer
  /\ ~first_frame_after_mic_interface_open /\ ~mic_interface_open
  /\ samples_to_host_buf_ready_to_read' = FALSE
  /\ first_frame_after_mic_interface_open' = TRUE
  /\ UNCHANGED mic_interface_open

SecondTransfer ==
  /\ BeginTransfer
  /\ first_frame_after_mic_interface_open
  /\ first_frame_after_mic_interface_open' = FALSE /\ mic_interface_open' = TRUE
  /\ UNCHANGED samples_to_host_buf_ready_to_read

LaterTransfer ==
  /\ BeginTransfer
  /\ ~first_frame_after_mic_interface_open /\ mic_interface_open
  /\ UNCHANGED <<mic_interface_open, first_frame_after_mic_interface_open,
                 samples_to_host_buf_ready_to_read>>

CallbackStep(from, to) ==
  /\ callback = from /\ callback' = to
  /\ UsbStep
  /\ UNCHANGED <<tx_size, recording, mic_interface_open, first_frame_after_mic_interface_open>>

\* Its end; its locals are dead.
EndTransfer(from) ==
  /\ callback = from /\ callback' = "idle" /\ tx_size' = 0 /\ bytes_available' = 0
  /\ UsbStep
  /\ UNCHANGED <<recording, mic_interface_open, first_frame_after_mic_interface_open>>

NoChange ==
  /\ CallbackStep("change", "full")
  /\ ~g_i2s_sr_change_detected
  /\ UNCHANGED <<bytes_available, samples_to_host_buf_ready_to_read, bufferVars>>

ResetForChangeKeeping ==
  /\ CallbackStep("change", "clear")
  /\ g_i2s_sr_change_detected
  /\ samples_to_host_buf_ready_to_read' = FALSE
  /\ UNCHANGED <<bytes_available, samples_to_host, g_i2s_sr_change_detected>>

ResetForChange ==
  /\ CallbackStep("change", "clear")
  /\ g_i2s_sr_change_detected
  /\ samples_to_host' = <<>> /\ samples_to_host_buf_ready_to_read' = FALSE
  /\ UNCHANGED <<bytes_available, g_i2s_sr_change_detected>>

ClearChange ==
  /\ CallbackStep("clear", "full")
  /\ g_i2s_sr_change_detected' = FALSE
  /\ UNCHANGED <<bytes_available, samples_to_host_buf_ready_to_read, samples_to_host>>

ResetFullStillReady ==
  /\ EndTransfer("full")
  /\ Available = HostSize
  /\ samples_to_host' = <<>>
  /\ UNCHANGED <<samples_to_host_buf_ready_to_read, g_i2s_sr_change_detected>>

\* "Oops buffer is full"
ResetFull ==
  /\ EndTransfer("full")
  /\ Available = HostSize
  /\ samples_to_host' = <<>> /\ samples_to_host_buf_ready_to_read' = FALSE
  /\ UNCHANGED g_i2s_sr_change_detected

NotFull ==
  /\ CallbackStep("full", "level")
  /\ Available # HostSize
  /\ UNCHANGED <<bytes_available, samples_to_host_buf_ready_to_read, bufferVars>>

\* The level is read once.  "Buffer fill level 0": half full.
CheckLevel ==
  /\ CallbackStep("level", "load")
  /\ bytes_available' = Available
  /\ samples_to_host_buf_ready_to_read' =
       (samples_to_host_buf_ready_to_read \/ Available >= HostSize \div 2)
  /\ UNCHANGED bufferVars

\* As many samples as the transfer takes, or as there were when the level was read,
\* with zeros behind them.
Smaller(m, n) == IF m < n THEN m ELSE n
LoadSamples ==
  /\ EndTransfer("load")
  /\ samples_to_host_buf_ready_to_read
  /\ samples_to_host' =
       SubSeq(samples_to_host, Smaller(tx_size, bytes_available) + 1, Available)
  /\ UNCHANGED <<samples_to_host_buf_ready_to_read, g_i2s_sr_change_detected>>

LoadZeros ==
  /\ EndTransfer("load")
  /\ ~samples_to_host_buf_ready_to_read
  /\ UNCHANGED <<samples_to_host_buf_ready_to_read, bufferVars>>

-----------------------------------------------------------------------------
RecvTask ==
  \/ DiscardBlock \/ Reinitialise \/ ConvertBlock
  \/ CollectBlock \/ SendRate \/ SendBlock
ChannelTask == TakeChannel \/ ReturnChannel
SendTask ==
  \/ ReceiveRate \/ ReceiveBlock \/ LookAtInterface \/ DetectChange
  \/ WriteBlock \/ LoseBlock \/ DummyWrite \/ AskForRatio \/ TakeRatio \/ NextBlock
Transfer == FirstTransfer \/ SecondTransfer \/ LaterTransfer
Callback ==
  \/ NoChange \/ ResetForChange \/ ClearChange
  \/ ResetFull \/ NotFull \/ CheckLevel \/ LoadSamples \/ LoadZeros

Next ==
  \/ RestartI2s \/ \E rate \in Rates : DetectRate(rate)
  \/ RecvTask \/ ChannelTask \/ SendTask \/ ServeRatio
  \/ \E alternate \in BOOLEAN : SetInterface(alternate)
  \/ Transfer \/ Callback

Spec == Init /\ [][Next]_vars

\* The tasks run.  Nothing is asked of the host and of the I2S clock.
Fairness ==
  /\ WF_vars(RecvTask) /\ WF_vars(ChannelTask) /\ WF_vars(SendTask)
  /\ WF_vars(ServeRatio) /\ WF_vars(Callback)
FairSpec == Spec /\ Fairness

-----------------------------------------------------------------------------
Rate == Rates \cup {NoRate}
InInterval == 0 .. RATE_MONITOR_TRIGGER_INTERVAL - 1

TypeOK ==
  /\ i2s_nominal_sampling_rate \in Rate /\ i2s_sampling_rate \in Rate
  /\ recv \in {"recv", "collect", "rate", "data"}
  /\ asrc_queue \in {<<>>} \cup {<<r>> : r \in Rates}
  /\ asrc_ret_queue \in {<<>>} \cup {<<r>> : r \in Rates}
  /\ asrc \in {"wait", "process"}
  /\ message \in {<<>>} \cup ({"rate"} \X Rates) \cup ({"data"} \X Seq(Rates))
  /\ send \in {"rate", "data", "look", "change", "write", "dummy", "ask", "answer", "done"}
  /\ g_i2s_nominal_sampling_rate \in Rate /\ block \in Seq(Rates)
  /\ prev_i2s_sampling_rate \in Rate /\ g_i2s_sr_change_detected \in BOOLEAN
  /\ num_samples_to_host_buf_writes \in InInterval /\ num_dummy_writes \in InInterval
  /\ rpc \in {"none", "asked", "answered"}
  /\ callback \in {"idle", "change", "clear", "full", "level", "load"}
  /\ tx_size \in Nat /\ bytes_available \in 0 .. HostSize
  /\ recording \in BOOLEAN /\ mic_interface_open \in BOOLEAN
  /\ first_frame_after_mic_interface_open \in BOOLEAN
  /\ samples_to_host \in Seq(Rates) /\ Len(samples_to_host) <= HostSize
  /\ samples_to_host_buf_ready_to_read \in BOOLEAN

\* The assertions of the two tiles: the channels return the same number of samples
\* because they convert at the same rate, and the length of a message tells that it
\* is the one the receiver expects.
AssertionsHold ==
  /\ \A rate \in Rates : asrc_ret_queue = <<rate>> => rate = i2s_sampling_rate
  /\ send = "rate" /\ message # <<>> => message[1] = "rate"
  /\ send = "data" /\ message # <<>> =>
       message[1] = "data" /\ message[2] \in Seq({g_i2s_nominal_sampling_rate})

\* The host never hears samples of two rates in one stretch: the buffer holds
\* samples of the rate written last, unless it is about to be emptied.
OneRate ==
  \/ g_i2s_sr_change_detected
  \/ samples_to_host \in Seq({prev_i2s_sampling_rate})

\* The host gets silence until the buffer has been half full since it was last reset;
\* from then on every transfer is its full size, or all the buffer held when the level
\* was read, although the interface, the flag and the buffer change in different tasks
\* and the buffer is written while a transfer is made up.  A transfer is done when the
\* level is read: what it will take is no longer in the buffer.
Promised ==
  IF callback = "load" /\ samples_to_host_buf_ready_to_read
  THEN Smaller(tx_size, bytes_available) ELSE 0
Host ==
  INSTANCE GatedBuffer WITH Size <- HostSize, level <- Available - Promised,
    open <- (mic_interface_open /\ samples_to_host_buf_ready_to_read)
ImplementsGatedBuffer == Host!Spec

\* The tasks of the two tiles, who wait for one another in a ring, never all wait.
RecordingGoesOn == []<>(recv = "recv") /\ []<>(send = "rate")
=============================================================================
