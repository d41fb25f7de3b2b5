----------------------------- MODULE I2sDriver -----------------------------
(***************************************************************************)
(* The I2S driver of the ASRC demo (rtos_i2s.c): two rings between the     *)
(* thread that serves the I2S port and the tasks that call rtos_i2s_tx and *)
(* rtos_i2s_rx.  There is no lock: the thread and the tasks run on cores   *)
(* of their own and interleave at every access to what they share.  The    *)
(* unit is a sample frame, the words of all channels of one instant.       *)
(*                                                                         *)
(* Calls wait for ever (portMAX_DELAY), as every call in this repository   *)
(* does, and the filter callbacks are not installed.                       *)
(***************************************************************************)
EXTENDS Integers, Sequences

CONSTANTS
  SendSize,  (* send_buffer.buf_size, in frames.                             *)
  RecvSize,  (* recv_buffer.buf_size, in frames.                             *)
  Wrap,      (* 2^32: the totals are size_t.                                 *)
  Sample,    (* Contents of a sample frame.                                  *)
  Zero,      (* The frame of zeros that is sent when there is no other.      *)
  Blocks,    (* What the application passes to rtos_i2s_tx.                  *)
  Counts     (* The frame counts it passes to rtos_i2s_rx.                   *)

\* "This must be less than or equal to the size of the buffer" (rtos_i2s.h).
ASSUME DriverAssumption ==
  /\ SendSize \in Nat \ {0} /\ RecvSize \in Nat \ {0}
  /\ Wrap \in Nat /\ SendSize < Wrap /\ RecvSize < Wrap
  /\ Zero \in Sample
  /\ Blocks \subseteq Seq(Sample) /\ \A b \in Blocks : Len(b) \in 1 .. SendSize
  /\ Counts \subseteq 1 .. RecvSize

VARIABLES
  send, recv,         (* ctx->send_buffer and ctx->recv_buffer.              *)
  okay_to_send,
  isr_cmd,            (* The bits the thread has for the interrupt.          *)
  isr_byte,           (* The bits of the bytes on their way to the interrupt.*)
  send_sem, recv_sem,
  port,               (* Where the thread is in its callbacks.               *)
  heard, frame,       (* Its i2s_sample_buf, while receiving and sending.    *)
  line,               (* What it sent over I2S last.                         *)
  tx, samples,        (* Where i2s_local_tx is, and what it was given.       *)
  rx, wanted, copied, (* Where i2s_local_rx is, what it was asked for, has.  *)
  received            (* What i2s_local_rx returned last.                    *)

sendVars == <<send, okay_to_send, send_sem, frame, line, tx, samples>>
recvVars == <<recv, recv_sem, heard, rx, wanted, copied, received>>
driverVars == <<sendVars, recvVars, isr_cmd, isr_byte, port>>

-----------------------------------------------------------------------------
(***************************************************************************)
(* A ring.  Its indices wrap at its size, its totals at the width of a     *)
(* word; their difference is what the ring holds.                          *)
(***************************************************************************)
TurnLate(n, size) == IF n > size THEN n - size ELSE n
Turn(n, size) == IF n >= size THEN n - size ELSE n
Back(n, size) == IF n < 0 THEN n + size ELSE n

UnreadSigned(b) == b.total_written - b.total_read
Unread(b) == Back(b.total_written - b.total_read, Wrap)
Oldest(b, size, n) == [i \in 1 .. n |-> b.buf[Turn(b.read_index + i - 1, size)]]
Held(b, size) == Oldest(b, size, Unread(b))

EmptyBuffer(size) ==
  [buf |-> [i \in 0 .. size - 1 |-> Zero], write_index |-> 0, read_index |-> 0,
   total_written |-> 0, total_read |-> 0, required |-> 0]

\* The copy into the ring, in two pieces when it reaches the end.
Filled(b, size, items) ==
  [b EXCEPT !.buf =
     [i \in 0 .. size - 1 |->
        LET offset == Back(i - b.write_index, size)
        IN  IF offset < Len(items) THEN items[offset + 1] ELSE b.buf[i]]]

Written(b, size, n) ==
  [b EXCEPT !.write_index = Turn(@ + n, size), !.total_written = Turn(@ + n, Wrap)]
Released(b, size, n) ==
  [b EXCEPT !.read_index = Turn(@ + n, size), !.total_read = Turn(@ + n, Wrap)]

Cleared(b) == [b EXCEPT !.required = 0]

DriverInit ==
  /\ send = EmptyBuffer(SendSize) /\ recv = EmptyBuffer(RecvSize)
  /\ okay_to_send = FALSE
  /\ isr_cmd = {} /\ isr_byte = {} /\ send_sem = 0 /\ recv_sem = 0
  /\ port = "receive" /\ heard = <<>> /\ frame = <<>> /\ line = <<Zero>>
  /\ tx = "idle" /\ samples = <<>>
  /\ rx = "idle" /\ wanted = 0 /\ copied = <<>> /\ received = <<>>

-----------------------------------------------------------------------------
(***************************************************************************)
(* i2s_local_tx                                                            *)
(***************************************************************************)
Tx(block) ==
  /\ tx = "idle" /\ tx' = "check"
  /\ samples' = block
  /\ UNCHANGED <<send, okay_to_send, send_sem, frame, line, recvVars, isr_cmd, isr_byte, port>>

SendStep(from, to) ==
  /\ tx = from /\ tx' = to
  /\ UNCHANGED <<okay_to_send, frame, line, recvVars, isr_cmd, isr_byte, port>>

TxCheck ==
  /\ SendStep("check", IF Len(samples) > SendSize - Unread(send) THEN "require" ELSE "copy")
  /\ UNCHANGED <<send, send_sem, samples>>

TxRequireShort ==
  /\ SendStep("require", "get")
  /\ send' = [send EXCEPT !.required = Len(samples) - 1]
  /\ UNCHANGED <<send_sem, samples>>

TxRequire ==
  /\ SendStep("require", "get")
  /\ send' = [send EXCEPT !.required = Len(samples)]
  /\ UNCHANGED <<send_sem, samples>>

TxResume ==
  /\ SendStep("get", "copy")
  /\ send_sem = 1 /\ send_sem' = 0
  /\ UNCHANGED <<send, samples>>

TxCopy ==
  /\ SendStep("copy", "publish")
  /\ send' = Filled(send, SendSize, samples)
  /\ UNCHANGED <<send_sem, samples>>

TxPublish ==
  /\ SendStep("publish", "idle")
  /\ send' = Written(send, SendSize, Len(samples))
  /\ samples' = <<>>
  /\ UNCHANGED send_sem

\* rtos_i2s_set_okay_to_send
SetOkay(okay) ==
  /\ okay_to_send' = okay
  /\ UNCHANGED <<send, send_sem, frame, line, tx, samples, recvVars, isr_cmd, isr_byte, port>>

(***************************************************************************)
(* i2s_local_rx                                                            *)
(***************************************************************************)
Rx(n) ==
  /\ rx = "idle" /\ rx' = "check"
  /\ wanted' = n /\ received' = <<>>
  /\ UNCHANGED <<recv, recv_sem, heard, copied, sendVars, isr_cmd, isr_byte, port>>

RecvStep(from, to) ==
  /\ rx = from /\ rx' = to
  /\ UNCHANGED <<heard, sendVars, isr_cmd, isr_byte, port>>

RxCheck ==
  /\ RecvStep("check", IF wanted > Unread(recv) THEN "require" ELSE "copy")
  /\ UNCHANGED <<recv, recv_sem, wanted, copied, received>>

RxRequire ==
  /\ RecvStep("require", "get")
  /\ recv' = [recv EXCEPT !.required = wanted]
  /\ UNCHANGED <<recv_sem, wanted, copied, received>>

RxResume ==
  /\ RecvStep("get", "copy")
  /\ recv_sem = 1 /\ recv_sem' = 0
  /\ UNCHANGED <<recv, wanted, copied, received>>

RxCopy ==
  /\ RecvStep("copy", "release")
  /\ copied' = Oldest(recv, RecvSize, wanted)
  /\ UNCHANGED <<recv, recv_sem, wanted, received>>

RxRelease ==
  /\ RecvStep("release", "idle")
  /\ recv' = Released(recv, RecvSize, wanted)
  /\ received' = copied
  /\ copied' = <<>> /\ wanted' = 0
  /\ UNCHANGED recv_sem

-----------------------------------------------------------------------------
(***************************************************************************)
(* The thread: i2s_receive and i2s_send for every frame, and the interrupt *)
(* that gives the semaphores.                                              *)
(***************************************************************************)
ThreadRecv(from, to) ==
  /\ port = from /\ port' = to
  /\ UNCHANGED <<rx, wanted, copied, received, recv_sem, sendVars, isr_byte>>

Hear(s) ==
  /\ ThreadRecv("receive", "store")
  /\ heard' = <<s>>
  /\ UNCHANGED <<recv, isr_cmd>>

\* "i2s rx overrun": the frame is lost.
Overrun ==
  /\ ThreadRecv("store", "wake_rx")
  /\ RecvSize - Unread(recv) < 1
  /\ heard' = <<>>
  /\ UNCHANGED <<recv, isr_cmd>>

Store ==
  /\ ThreadRecv("store", "stored")
  /\ RecvSize - Unread(recv) >= 1
  /\ recv' = Filled(recv, RecvSize, heard)
  /\ UNCHANGED <<heard, isr_cmd>>

StorePublish ==
  /\ ThreadRecv("stored", "wake_rx")
  /\ recv' = Written(recv, RecvSize, 1)
  /\ heard' = <<>>
  /\ UNCHANGED isr_cmd

WakeRxKeeping ==
  /\ ThreadRecv("wake_rx", "send")
  /\ IF recv.required > 0 /\ Unread(recv) >= recv.required
     THEN isr_cmd' = isr_cmd \cup {"RECV"}
     ELSE UNCHANGED isr_cmd
  /\ UNCHANGED <<recv, heard>>

WakeRxLate ==
  /\ ThreadRecv("wake_rx", "send")
  /\ IF recv.required > 0 /\ Unread(recv) > recv.required
     THEN recv' = Cleared(recv) /\ isr_cmd' = isr_cmd \cup {"RECV"}
     ELSE UNCHANGED <<recv, isr_cmd>>
  /\ UNCHANGED heard

WakeRx ==
  /\ ThreadRecv("wake_rx", "send")
  /\ IF recv.required > 0 /\ Unread(recv) >= recv.required
     THEN recv' = Cleared(recv) /\ isr_cmd' = isr_cmd \cup {"RECV"}
     ELSE UNCHANGED <<recv, isr_cmd>>
  /\ UNCHANGED heard

ThreadSend(from, to) ==
  /\ port = from /\ port' = to
  /\ UNCHANGED <<tx, samples, send_sem, okay_to_send, recvVars>>

Fetch ==
  /\ Unread(send) >= 1 /\ okay_to_send
  /\ ThreadSend("send", "fetched")
  /\ frame' = Oldest(send, SendSize, 1)
  /\ UNCHANGED <<send, line, isr_cmd, isr_byte>>

SendZeros ==
  /\ ~(Unread(send) >= 1 /\ okay_to_send)
  /\ ThreadSend("send", "wake_tx")
  /\ line' = <<Zero>>
  /\ UNCHANGED <<send, frame, isr_cmd, isr_byte>>

FetchReleaseAgain ==
  /\ ThreadSend("fetched", "wake_tx")
  /\ send' = [send EXCEPT !.read_index = Turn(@ + 1, SendSize)]
  /\ line' = frame /\ frame' = <<>>
  /\ UNCHANGED <<isr_cmd, isr_byte>>

FetchRelease ==
  /\ ThreadSend("fetched", "wake_tx")
  /\ send' = Released(send, SendSize, 1)
  /\ line' = frame /\ frame' = <<>>
  /\ UNCHANGED <<isr_cmd, isr_byte>>

\* The wake-up of the sender, and the byte for the interrupt.  The channel has
\* room for every byte that can be on its way.
RoomAskedMore == send.required > 0 /\ SendSize - Unread(send) > send.required
RoomAsked == send.required > 0 /\ SendSize - Unread(send) >= send.required
WakeTx ==
  /\ ThreadSend("wake_tx", "receive")
  /\ send' = IF RoomAsked THEN Cleared(send) ELSE send
  /\ isr_byte' = isr_byte \cup isr_cmd \cup (IF RoomAsked THEN {"SEND"} ELSE {})
  /\ isr_cmd' = {}
  /\ UNCHANGED <<frame, line>>

\* rtos_i2s_isr gives the semaphores that a byte names one after the other.
Interrupt(resume) ==
  /\ resume \in isr_byte /\ isr_byte' = isr_byte \ {resume}
  /\ send_sem' = IF resume = "SEND" THEN 1 ELSE send_sem
  /\ recv_sem' = IF resume = "RECV" THEN 1 ELSE recv_sem
  /\ UNCHANGED <<send, okay_to_send, frame, line, tx, samples,
                 recv, heard, rx, wanted, copied, received, isr_cmd, port>>

-----------------------------------------------------------------------------
TxTask == TxCheck \/ TxRequire \/ TxResume \/ TxCopy \/ TxPublish
RxTask == RxCheck \/ RxRequire \/ RxResume \/ RxCopy \/ RxRelease
Thread ==
  \/ \E s \in Sample : Hear(s)
  \/ Overrun \/ Store \/ StorePublish \/ WakeRx
  \/ Fetch \/ SendZeros \/ FetchRelease \/ WakeTx
Caller ==
  \/ \E block \in Blocks : Tx(block)
  \/ \E n \in Counts : Rx(n)
  \/ \E okay \in BOOLEAN : SetOkay(okay)

Resume == {"SEND", "RECV"}
Next ==
  \/ Caller \/ TxTask \/ RxTask \/ Thread
  \/ \E resume \in Resume : Interrupt(resume)

Spec == DriverInit /\ [][Next]_driverVars

\* The I2S clock runs, and the thread, the interrupt and the tasks have cores.
Fairness ==
  /\ WF_driverVars(TxTask) /\ WF_driverVars(RxTask)
  /\ WF_driverVars(Thread)
  /\ \A resume \in Resume : WF_driverVars(Interrupt(resume))
FairSpec == Spec /\ Fairness

-----------------------------------------------------------------------------
Buffer(size) ==
  [buf : [0 .. size - 1 -> Sample], write_index : 0 .. size - 1,
   read_index : 0 .. size - 1, total_written : 0 .. Wrap - 1,
   total_read : 0 .. Wrap - 1, required : 0 .. size]
TxPoint == {"idle", "check", "require", "get", "copy", "publish"}
RxPoint == {"idle", "check", "require", "get", "copy", "release"}
PortPoint == {"receive", "store", "stored", "wake_rx", "send", "fetched", "wake_tx"}

TypeOK ==
  /\ send \in Buffer(SendSize) /\ recv \in Buffer(RecvSize)
  /\ okay_to_send \in BOOLEAN
  /\ isr_cmd \in SUBSET {"RECV"} /\ isr_byte \in SUBSET Resume
  /\ send_sem \in {0, 1} /\ recv_sem \in {0, 1}
  /\ port \in PortPoint /\ tx \in TxPoint /\ rx \in RxPoint
  /\ samples \in Seq(Sample) /\ heard \in Seq(Sample) /\ frame \in Seq(Sample)
  /\ line \in Seq(Sample) /\ copied \in Seq(Sample) /\ received \in Seq(Sample)
  /\ wanted \in Counts \cup {0}

\* A semaphore is given only to a call that waits for it, once.  A semaphore left
\* over would let the next call go on although the ring has no room, or no data.
NoSpareWakeUp ==
  /\ send_sem = 1 \/ "SEND" \in isr_byte => tx = "get" /\ send.required = 0
  /\ recv_sem = 1 \/ "RECV" \in isr_byte \cup isr_cmd => rx = "get" /\ recv.required = 0

\* A call that copies has the room, or the data, that it asked for, although it
\* looked once and was told by another thread later.
NeverPastTheOther ==
  /\ tx \in {"copy", "publish"} => Len(samples) <= SendSize - Unread(send)
  /\ rx \in {"copy", "release"} => wanted <= Unread(recv)

\* Each ring is a queue: the samples come out complete, in order and once, and the
\* interface loses one only when the ring is full.
SendQueue ==
  INSTANCE BoundedQueue WITH Size <- SendSize, Nothing <- <<Zero>>,
    given <- samples, queue <- Held(send, SendSize), taken <- line
RecvQueue ==
  INSTANCE BoundedQueue WITH Size <- RecvSize, Nothing <- <<>>,
    given <- heard, queue <- Held(recv, RecvSize), taken <- received
ImplementsSendQueue == SendQueue!Spec
ImplementsRecvQueue == RecvQueue!Spec

\* Neither call sleeps through its wake-up.  The sender needs the application to
\* let the samples go.
ReceiverWakes == rx = "get" ~> rx = "copy"
SenderWakes == <>[]okay_to_send => (tx = "get" ~> tx = "copy")
=============================================================================
