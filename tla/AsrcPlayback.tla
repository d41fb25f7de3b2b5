---------------------------- MODULE AsrcPlayback ----------------------------
(***************************************************************************)
(* The playback path of the ASRC demo.  On the USB tile the TinyUSB task   *)
(* collects the host's audio and the ASRC task turns blocks of it into     *)
(* samples at the I2S rate (usb_audio.c).  On the I2S tile                 *)
(* usb_to_i2s_intertile (i2s_audio.c) writes them to the driver, and       *)
(* empties and refills the driver's buffer after the host reopened the     *)
(* interface or the I2S rate changed.  The rate server (rate_server.c)     *)
(* learns of a reopening from the USB tile, now and then.                  *)
(*                                                                         *)
(* The driver's send buffer is the queue that I2sDriver implements; here   *)
(* only its level counts.                                                  *)
(***************************************************************************)
EXTENDS Integers

CONSTANTS
  USB_FRAMES_PER_ASRC_INPUT_FRAME,
  Outputs,      (* The n_samps_out the ASRC may return for a block.          *)
  SendSize,     (* The driver's send buffer, in the unit of Outputs.         *)
  Rates,        (* Nominal I2S sampling rates.                               *)
  NoRate,       (* 0: the rate is not known.                                 *)
  MaxNotified   (* Bound: the notifications that may be outstanding.         *)

\* platform_start.c: the buffer has room for four blocks of the largest output.
ASSUME PlaybackAssumption ==
  /\ USB_FRAMES_PER_ASRC_INPUT_FRAME \in Nat \ {0}
  /\ SendSize \in Nat /\ SendSize % 2 = 0
  /\ Outputs \subseteq 0 .. SendSize \div 2
  /\ NoRate \notin Rates
  /\ MaxNotified \in Nat

VARIABLES
  streaming,            (* Has the host set an alternate with an endpoint?   *)
  spkr_interface_open,
  from_host,            (* USB frames in samples_from_host_stream_buf.       *)
  callback,             (* Where tud_audio_rx_done_post_read_cb is.          *)
  notified,             (* Notification count of the ASRC task.              *)
  out, n_samps_out,     (* usb_audio_out_asrc, its local.                    *)
  message,              (* On appconfUSB_AUDIO_PORT: a length, or 0.         *)
  spkr_itf_open,        (* On appconfUSB_RATE_NOTIFY_PORT, or "none".        *)
  prev_spkr_itf_open, close_to_open_event,
  i2s_nominal_sampling_rate, prev_i2s_sampling_rate,
  unread, okay_to_send, (* The driver's send buffer.                         *)
  i2s, num_samps, was_empty   (* usb_to_i2s_intertile, its locals.           *)

usbVars == <<streaming, spkr_interface_open, from_host, callback>>
asrcVars == <<notified, out, n_samps_out>>
rateVars == <<spkr_itf_open, prev_spkr_itf_open, close_to_open_event>>
driverVars == <<i2s_nominal_sampling_rate, unread, okay_to_send>>
i2sVars == <<i2s, num_samps, was_empty, prev_i2s_sampling_rate>>
vars == <<usbVars, asrcVars, message, rateVars, driverVars, i2sVars>>

BlockFrames == USB_FRAMES_PER_ASRC_INPUT_FRAME
FromHostThreeBlocks == 3 * BlockFrames
FromHostSize == 2 * BlockFrames
Smaller(m, n) == IF m < n THEN m ELSE n
Half == SendSize \div 2

Init ==
  /\ streaming = FALSE /\ spkr_interface_open = FALSE /\ from_host = 0 /\ callback = "idle"
  /\ notified = 0 /\ out = "wait" /\ n_samps_out = 0
  /\ message = 0
  /\ spkr_itf_open = "none" /\ prev_spkr_itf_open = FALSE /\ close_to_open_event = FALSE
  /\ i2s_nominal_sampling_rate = NoRate /\ prev_i2s_sampling_rate = NoRate
  /\ unread = 0 /\ okay_to_send = FALSE
  /\ i2s = "receive" /\ num_samps = 0 /\ was_empty = FALSE

-----------------------------------------------------------------------------
(***************************************************************************)
(* The TinyUSB task                                                        *)
(***************************************************************************)
UsbStep == UNCHANGED <<asrcVars, message, rateVars, driverVars, i2sVars>>

\* SET_INTERFACE: tud_audio_set_itf_close_EP_cb, then tud_audio_set_itf_cb.
SetInterface(alternate) ==
  /\ callback = "idle"
  /\ streaming' = alternate
  /\ spkr_interface_open' = FALSE /\ from_host' = 0
  /\ UsbStep /\ UNCHANGED callback

\* A transaction that leaves no whole frame in rx_buffer, or does not fit there.
ReceivePart ==
  /\ streaming /\ callback = "idle"
  /\ spkr_interface_open' = TRUE
  /\ UsbStep /\ UNCHANGED <<streaming, from_host, callback>>

ReceiveFrame ==
  /\ streaming /\ callback = "idle"
  /\ spkr_interface_open' = TRUE
  /\ from_host < FromHostSize
  /\ from_host' = from_host + 1 /\ callback' = "notify"
  /\ UsbStep /\ UNCHANGED streaming

\* "lost USB output samples"
LoseFrame ==
  /\ streaming /\ callback = "idle"
  /\ spkr_interface_open' = TRUE
  /\ from_host >= FromHostSize
  /\ UsbStep /\ UNCHANGED <<streaming, from_host, callback>>

\* xTaskNotifyGive, when there is one frame more than a block needs.
NotifyLevel == 1 + BlockFrames
Notify ==
  /\ callback = "notify" /\ callback' = "idle"
  /\ from_host = NotifyLevel => notified < MaxNotified
  /\ notified' = IF from_host = NotifyLevel THEN notified + 1 ELSE notified
  /\ UNCHANGED <<streaming, spkr_interface_open, from_host, out, n_samps_out, message,
                 rateVars, driverVars, i2sVars>>

-----------------------------------------------------------------------------
(***************************************************************************)
(* usb_audio_out_asrc                                                      *)
(***************************************************************************)
AsrcStep(from) ==
  /\ out = from
  /\ UNCHANGED <<streaming, spkr_interface_open, callback, rateVars, driverVars, i2sVars>>

TakeNotification ==
  /\ AsrcStep("wait") /\ out' = "receive"
  /\ notified > 0 /\ notified' = notified - 1
  /\ UNCHANGED <<from_host, n_samps_out, message>>

\* A whole block, or what a reset of the stream buffer has left.
ReceiveBlock ==
  /\ AsrcStep("receive") /\ out' = "convert"
  /\ from_host' = from_host - Smaller(BlockFrames, from_host)
  /\ UNCHANGED <<notified, n_samps_out, message>>

\* The block is skipped when the tile knows no I2S rate yet, or a new one, which
\* comes with the blocks that are recorded.
SkipBlock ==
  /\ AsrcStep("convert") /\ out' = "wait"
  /\ UNCHANGED <<from_host, notified, n_samps_out, message>>

ConvertBlock ==
  /\ AsrcStep("convert")
  /\ n_samps_out' \in Outputs
  /\ out' = IF n_samps_out' > 0 THEN "send" ELSE "wait"
  /\ UNCHANGED <<from_host, notified, message>>

SendBlock ==
  /\ AsrcStep("send") /\ out' = "wait"
  /\ message = 0 /\ message' = n_samps_out /\ n_samps_out' = 0
  /\ UNCHANGED <<from_host, notified>>

-----------------------------------------------------------------------------
(***************************************************************************)
(* The rate server: usb_audio_send reads spkr_interface_open and asks; the *)
(* server looks for a reopening.                                           *)
(***************************************************************************)
AskForRatio ==
  /\ spkr_itf_open = "none"
  /\ spkr_itf_open' = IF spkr_interface_open THEN "open" ELSE "closed"
  /\ UNCHANGED <<usbVars, asrcVars, message, prev_spkr_itf_open, close_to_open_event,
                 driverVars, i2sVars>>

ServeRatio ==
  /\ spkr_itf_open # "none" /\ spkr_itf_open' = "none"
  /\ close_to_open_event' = (close_to_open_event \/ (~prev_spkr_itf_open /\ spkr_itf_open = "open"))
  /\ prev_spkr_itf_open' = (spkr_itf_open = "open")
  /\ UNCHANGED <<usbVars, asrcVars, message, driverVars, i2sVars>>

-----------------------------------------------------------------------------
(***************************************************************************)
(* The I2S driver: a restart forgets the nominal rate, which is measured   *)
(* anew; the port sends what the application lets go.                      *)
(***************************************************************************)
DriverStep ==
  UNCHANGED <<usbVars, asrcVars, message, rateVars, okay_to_send, i2sVars>>

RestartI2s ==
  /\ i2s_nominal_sampling_rate' = NoRate
  /\ DriverStep /\ UNCHANGED unread

DetectRate(rate) ==
  /\ i2s_nominal_sampling_rate = NoRate /\ i2s_nominal_sampling_rate' = rate
  /\ DriverStep /\ UNCHANGED unread

Drain ==
  /\ okay_to_send /\ unread > 0
  /\ unread' = unread - 1
  /\ DriverStep /\ UNCHANGED i2s_nominal_sampling_rate

-----------------------------------------------------------------------------
(***************************************************************************)
(* usb_to_i2s_intertile                                                    *)
(***************************************************************************)
I2sStep(from, to) ==
  /\ i2s = from /\ i2s' = to
  /\ UNCHANGED <<usbVars, asrcVars, spkr_itf_open, prev_spkr_itf_open,
                 i2s_nominal_sampling_rate>>

\* usb_audio_recv, and the look at the driver's buffer.
TakeBlock ==
  /\ I2sStep("receive", "event")
  /\ message # 0 /\ message' = 0
  /\ num_samps' = message /\ was_empty' = (unread = 0)
  /\ UNCHANGED <<close_to_open_event, prev_i2s_sampling_rate, unread, okay_to_send>>

NoEvent ==
  /\ I2sStep("event", "rate")
  /\ ~close_to_open_event
  /\ UNCHANGED <<message, close_to_open_event, num_samps, was_empty, prev_i2s_sampling_rate,
                 unread, okay_to_send>>

SeeEventAtOnce ==
  /\ I2sStep("event", "clear")
  /\ close_to_open_event
  /\ UNCHANGED <<message, close_to_open_event, num_samps, was_empty, prev_i2s_sampling_rate,
                 unread, okay_to_send>>

SeeEvent ==
  /\ I2sStep("event", "clear")
  /\ close_to_open_event /\ was_empty
  /\ UNCHANGED <<message, close_to_open_event, num_samps, was_empty, prev_i2s_sampling_rate,
                 unread, okay_to_send>>

ClearEvent ==
  /\ I2sStep("clear", "rate")
  /\ close_to_open_event' = FALSE /\ okay_to_send' = FALSE
  /\ UNCHANGED <<message, num_samps, was_empty, prev_i2s_sampling_rate, unread>>

NewRate ==
  /\ i2s_nominal_sampling_rate # NoRate
  /\ i2s_nominal_sampling_rate # prev_i2s_sampling_rate

DropBlockSilently(from) ==
  /\ I2sStep(from, "receive")
  /\ ~was_empty
  /\ num_samps' = 0 /\ was_empty' = FALSE
  /\ UNCHANGED <<message, close_to_open_event, prev_i2s_sampling_rate, unread, okay_to_send>>

\* The block is dropped, and the port goes on sending until the buffer is empty.
DropBlock(from) ==
  /\ I2sStep(from, "receive")
  /\ ~was_empty /\ okay_to_send' = TRUE
  /\ num_samps' = 0 /\ was_empty' = FALSE
  /\ UNCHANGED <<message, close_to_open_event, prev_i2s_sampling_rate, unread>>
DropForEvent == close_to_open_event /\ DropBlock("event")
DropForRate == NewRate /\ DropBlock("rate")

StartOverAtOnce ==
  /\ I2sStep("rate", "tx")
  /\ NewRate
  /\ prev_i2s_sampling_rate' = i2s_nominal_sampling_rate /\ okay_to_send' = FALSE
  /\ UNCHANGED <<message, close_to_open_event, num_samps, was_empty, unread>>

StartOver ==
  /\ I2sStep("rate", "tx")
  /\ NewRate /\ was_empty
  /\ prev_i2s_sampling_rate' = i2s_nominal_sampling_rate /\ okay_to_send' = FALSE
  /\ UNCHANGED <<message, close_to_open_event, num_samps, was_empty, unread>>

SameRate ==
  /\ I2sStep("rate", "tx")
  /\ ~NewRate
  /\ UNCHANGED <<message, close_to_open_event, num_samps, was_empty, prev_i2s_sampling_rate,
                 unread, okay_to_send>>

\* rtos_i2s_tx waits until the buffer has the room.
HasRoomOffByOne == unread + num_samps <= SendSize + 1
HasRoom == unread + num_samps <= SendSize
TransmitBlock ==
  /\ I2sStep("tx", "level")
  /\ HasRoom
  /\ unread' = unread + num_samps
  /\ num_samps' = 0 /\ was_empty' = FALSE
  /\ UNCHANGED <<message, close_to_open_event, prev_i2s_sampling_rate, okay_to_send>>

\* Half full: the port may send again.
CheckLevel ==
  /\ I2sStep("level", "receive")
  /\ okay_to_send' = (okay_to_send \/ unread >= Half)
  /\ UNCHANGED <<message, close_to_open_event, num_samps, was_empty, prev_i2s_sampling_rate, unread>>

-----------------------------------------------------------------------------
Host ==
  \/ \E alternate \in BOOLEAN : SetInterface(alternate)
  \/ ReceivePart \/ ReceiveFrame \/ LoseFrame
AsrcTask == TakeNotification \/ ReceiveBlock \/ SkipBlock \/ ConvertBlock \/ SendBlock
I2sTask ==
  \/ TakeBlock
  \/ NoEvent \/ SeeEvent \/ ClearEvent \/ DropForEvent
  \/ DropForRate \/ StartOver \/ SameRate
  \/ TransmitBlock \/ CheckLevel

Next ==
  \/ Host \/ Notify \/ AsrcTask
  \/ AskForRatio \/ ServeRatio
  \/ RestartI2s \/ Drain
  \/ \E rate \in Rates : DetectRate(rate)
  \/ I2sTask

Spec == Init /\ [][Next]_vars

\* The tasks run, and while it may the port sends.  Nothing is asked of the host.
Fairness ==
  /\ WF_vars(Notify) /\ WF_vars(AsrcTask) /\ WF_vars(ServeRatio)
  /\ WF_vars(I2sTask) /\ WF_vars(Drain)
FairSpec == Spec /\ Fairness

-----------------------------------------------------------------------------
OutPoint == {"wait", "receive", "convert", "send"}
I2sPoint == {"receive", "event", "clear", "rate", "tx", "level"}
Rate == Rates \cup {NoRate}

TypeOK ==
  /\ streaming \in BOOLEAN /\ spkr_interface_open \in BOOLEAN
  /\ from_host \in 0 .. FromHostSize /\ callback \in {"idle", "notify"}
  /\ notified \in 0 .. MaxNotified /\ out \in OutPoint
  /\ n_samps_out \in Outputs \cup {0} /\ message \in Outputs \cup {0}
  /\ spkr_itf_open \in {"none", "open", "closed"} /\ prev_spkr_itf_open \in BOOLEAN
  /\ close_to_open_event \in BOOLEAN
  /\ i2s_nominal_sampling_rate \in Rate /\ prev_i2s_sampling_rate \in Rate
  /\ unread \in 0 .. SendSize /\ okay_to_send \in BOOLEAN
  /\ i2s \in I2sPoint /\ num_samps \in Outputs \cup {0} /\ was_empty \in BOOLEAN

\* "The size of this buffer MUST NOT be greater than 2 VFE frames": the ASRC task
\* is notified at one level only, and never left asleep above it.
NoLostWakeUp ==
  from_host >= NotifyLevel /\ callback = "idle" => notified > 0 \/ out = "receive"

\* "So there's no chance we start at a fill level greater than 0": the port stops
\* sending only with nothing left in the buffer.
RefillStartsEmpty == [][okay_to_send /\ ~okay_to_send' => unread' = 0]_vars

\* While nothing is sent the task never waits for room, which nobody would make.
RoomWhileFilling == ~okay_to_send /\ i2s \in {"event", "clear", "rate", "tx"} => HasRoom

\* As long as blocks arrive the port never stops sending for good, and every
\* reopening is dealt with.
PlaybackResumes ==
  []<>(message # 0) => []<>okay_to_send /\ []<>~close_to_open_event
=============================================================================
