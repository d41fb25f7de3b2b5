# A verification development for the xcore-voice examples (`sln_avona`)

TLA+ models of the parts of this repository whose correctness depends on the
order in which tasks, requests and interrupts happen; TLC configurations that
check them on small instances; and proofs, checked by TLAPS, of what holds for
every instance. Paths below are relative to `src/`.

- [1. The system](#1-the-system)
- [2. The plan](#2-the-plan)
- [3. Device firmware upgrade](#3-device-firmware-upgrade)
- [4. The low-power audio path](#4-the-low-power-audio-path)
- [5. Low-power control](#5-low-power-control)
- [6. The I2S driver of the ASRC demo](#6-the-i2s-driver-of-the-asrc-demo)
- [7. Playback in the ASRC demo](#7-playback-in-the-asrc-demo)
- [8. Recording in the ASRC demo](#8-recording-in-the-asrc-demo)
- [9. The runs](#9-the-runs)
- [10. Where the code and its documentation differ](#10-where-the-code-and-its-documentation-differ)
- [11. The proofs](#11-the-proofs)
- [12. What is not modelled](#12-what-is-not-modelled)

To repeat everything, in this directory:

    tlc -workers 2 -config DfuDownload.cfg MCDfu      # one run of section 9
    tlapm DfuProofs.tla                               # the proofs of section 11
    tlapm DfuContentProofs.tla                        # ... and so on, for DfuPacedProofs, AudioProofs,
                                                      # LowPowerProofs, I2sDriverProofs,
                                                      # PlaybackProofs, RecordProofs

`PROJECT.json` lists the runs, the source lines every definition stands for, the
hazards with the properties that watch them, and for every property a small
change of the model, made as a plausible bug would make it, that breaks it.

## 1. The system

The repository holds example applications for a two-tile xcore device running
FreeRTOS on each tile. The tiles, and the tasks of a tile, run on different
hardware threads at the same time, so two tasks that share a variable without a
lock interleave at every access.

| Component | State it keeps | Operations | Interacts with | What is hard | What makes it correct |
|---|---|---|---|---|---|
| **DFU state machine** `examples/ffva/src/dfu_int/dfu_state_machine.c` | `dfu_data` (state, status, buffer, fragment and block numbers, alternate, timeouts), a notification word, a request counter, a semaphore | one handler per DFU request, `dfu_int_reset_state`, `dfu_int_error` | the servicer calls `dfu_int_*` in its own task; flash through `dfu_common` | two tasks share `dfu_data` with no lock; notifications merge; the servicer forecasts a state the other task computes; UPLOAD waits on a semaphore | one request per dispatch; the DFU diagram; every request finished, every UPLOAD answered; forecasts come true |
| **DFU servicer** `dfu_servicer.c` | none of its own | `write_cmd`, `read_cmd` | device control (host, I2C) → `dfu_int_*` | answers without waiting for the state machine | replies describe the device |
| **DFU flash access** `dfu_common.c` | `dn_base_addr`, `bytes_avail`, `total_len` | write sector, read fragment, manifest, reboot | QSPI flash; used by the I2C and the USB transport | statics that outlive a download; unsigned arithmetic; erase before program | writes stay in the partition; the flash ends up holding the image |
| **USB DFU callbacks** `*/usb/usb_dfu.c` | none | TinyUSB callbacks | TinyUSB owns the state machine | none | delegation |
| **Low-power audio buffer** `examples/low_power_ffd/src/power/low_power_audio_buffer.c` | a ring with `set_ptr`, `get_ptr`, `count`, `full`, `empty` | enqueue, dequeue | filled and drained by the audio pipeline callback | wrap in both pointers, overwrite when full, full against empty | holds the newest frames in order |
| **Low-power audio path** `examples/low_power_ffd/src/main.c` | the power state it reads | `audio_pipeline_output` | ring, wakeword engine, power control, intent engine | power switches between any two frames with a ring that may be half drained | no frame lost at full power, repeated or reordered |
| **Low-power control** `power_control.c`, `power_state.c` | `power_state`, notification bits, inactivity timer, clock dividers, `halt` | request/response/ready/full handshake over the intertile channel | two tiles, LED task, intent engine, wakeword task, timer callback | stale or merged notifications; response computed before the state is written; assertions on every notification | asserts never fail; a wakeword always ends in full power; after the wakeword engine fails the device ends locked in full power |
| **Low-power intent engine** `intent_engine*.c`, `intent_handler.c` | low-power phase, stream buffer, keyword queue, `keyword_proc_busy` | receive, timeout, low-power handshake, queue | power control, audio path | samples or keywords still queued at sleep | sleeps only when idle; no keyword lost |
| **Indicators** `leds.c`, `gpi_ctrl.c` | LED state | awake/asleep | power control waits for its acknowledgement | ordering of notifications | acknowledges every request |
| **I2S driver (ASRC demo)** `examples/asrc_demo/src/i2s_driver/src/rtos_i2s.c` | send and receive rings, totals, required counts, semaphores | interrupt callbacks, `rtos_i2s_rx/tx` | interrupt against tasks | indices shared with an interrupt; timeouts; over- and underrun | samples in order, wait woken exactly when enough |
| **ASRC data path** `i2s_audio.c`, `asrc_utils.c`, `main.c` | ring buffers, channel worker queues | ASRC in two worker tasks per direction | I2S, USB, rate server | drain/refill of the output buffer, worker handshake | both channels of one block; no deadlock |
| **Rate server** `rate_server.c`, `avg_buffer_level.c` | averaged buffer level, rate ratio | exchange with the other tile | ASRC tasks | state read while the other tile changes it | ratio only used when valid |
| **USB audio (ASRC demo)** `usb/usb_audio.c` | stream buffers, open flags | interface open and close, TinyUSB callbacks | ASRC data path | close and reopen with data in flight | no stale data |
| **Adaptive rate** `usb/adaptive_rate_*.c` | ring of time buckets, counters | counting in the interrupt, evaluation in a task | USB start-of-frame, I2S | counters reset under the interrupt | no samples lost or counted twice |
| **Intent engine, handler, LEDs** `modules/asr/*` | stream buffer, response queue | push samples, process, respond | audio pipelines, I2C/UART | queue and stream buffer at their limits | order, no deadlock |
| **Audio pipelines** `modules/audio_pipelines` | delay buffer, ADEC state, DSP state | frame processing | driver tasks | delay buffer arithmetic; the controller's mode changes | delay in range |
| **Microphone aggregator, speech recognition, FFD, board support** | – | start-up, straight-line processing | drivers | little that a model adds | – |

The hard behaviour is in the first group (DFU: two unsynchronised tasks, flash
that keeps what a half-finished download wrote, a watchdog reset at any point),
the low-power example (two tiles, five tasks, a handshake with asserts) and the
ASRC demo (interrupts against tasks). They come in this order.

## 2. The plan

| Order | Module | Models | Uses | State |
|---|---|---|---|---|
| 1 | `DfuFlash` | `dfu_common.c` and the flash | – | done |
| 2 | `Dfu` | `dfu_state_machine.c`, `dfu_servicer.c`: both tasks | extends `DfuFlash` | done |
| 3 | `DfuDiagram` | abstract: the DFU state diagram | instantiated by `Dfu` | done |
| 4 | `DfuProofs` | safety invariants of `Dfu`; rounds end | extends `Dfu` | done |
| 5 | `AudioRing` | `low_power_audio_buffer.c` | – | done |
| 6 | `SlidingWindow`, `DelayLine` | abstract: the newest frames; a delay line | instantiated by 5 and 7 | done |
| 7 | `AudioPath` | `audio_pipeline_output` over the ring | extends `AudioRing` | done |
| 8 | `AudioProofs` | the ring's shape; it keeps the newest frames; `AudioPath` implements `DelayLine` | extends `AudioPath` | done |
| 9 | `LowPower` | `power_control.c` of both tiles, `power_state.c`, the LED acknowledgement, the intent engine, the keyword handler | – | done |
| 10 | `LowPowerProofs` | the safety invariants of `LowPower`; a halt is final; sleeps end | extends 9 | done |
| 11 | `I2sDriver`, `BoundedQueue` | the rings of `rtos_i2s.c`: thread, interrupt and both calls; abstract: a bounded queue, instantiated once for each ring | – | done |
| 12 | `I2sDriverProofs` | both rings implement `BoundedQueue`; wake-ups, and the way to them | extends `I2sDriver` | done |
| 13 | `AsrcPlayback` | USB to I2S: `usb_audio.c`, `i2s_audio.c`, `rate_server.c` | – (the level of the queue of 11) | done |
| 14 | `PlaybackProofs` | the safety invariants of `AsrcPlayback`; silences are bounded | extends 13 | done |
| 15 | `AsrcRecord`, `GatedBuffer` | I2S to USB, with the channel worker; abstract: the buffer towards the host | – | done |
| 16 | `RecordProofs` | the assertions of both tiles; the buffer implements `GatedBuffer`; rounds end | extends `AsrcRecord` | done |
| 17 | `DfuContentProofs` | answers to UPLOAD; the safety part of `Dfu` implements `DfuDiagram` | extends `DfuProofs` | done |
| 18 | `DfuPacedProofs` | contents of buffer and flash, forecasts and UPLOADs, for slow hosts | extends 17 | done |
| – | `AdaptiveRate` | the ring of time buckets and its reset, with the two words another core reads | – | left out: one task's sums, and a hazard described in section 10 |

Abstract specifications: `DfuDiagram`, `SlidingWindow`, `DelayLine`,
`BoundedQueue`, `GatedBuffer`. The keyword queue of the low-power engine, once
meant to have a module of its own, is part of `LowPower`.

## 3. Device firmware upgrade

### Tasks and steps

`Dfu` has one variable per shared object: `dfu` is the structure `dfu_data`
field by field, `bits` the notification word of the state-machine task,
`counter` its notification index used as a counter, `semaphore` the upload
semaphore. Each task has a program point. A step is one access, or a run of
accesses that the other task cannot tell apart.

| Code | Model |
|---|---|
| `dfu_int_download`, `_upload`, `_clear_status`, `_abort`, `_set_alternate`, `_set_transfer_block`, `_detach` | `Download`, `DownloadEnd`, `Simple`, `SetAlternate`, `SetTransferBlock`, `Detach`; then `Give` (`xTaskNotifyGiveIndexed`) and `Notify` (`xTaskNotify`), two steps because they are two calls |
| `dfu_int_get_status` | `GetStatus` reads `current_state`; one `Predict...` action per case fills the reply later, from the fields as they are then |
| wait for the semaphore in `dfu_int_upload` | `Take`, `Eat` |
| top of `dfu_int_state_machine` | `Wake` takes and clears the word; `CountOne` and `CountOther` are the decrement of the counter and its test |
| `dfu_int_error`, `dfu_int_reset_state` | three steps, `Reset`/`CountOther`, `ResetDownload`, `WipeBuffer`, and `EnterError` for the error |
| cases of the switch | `HandleDownload`, `HandleDownloadEnd`, `RejectDownload`, `HandleUpload` (then `ReadFragment` or `ReadPastEnd`, `GiveBack`), `RejectUpload`, `HandleReset`; GETSTATUS is `StayPut`, `StartBusy`, `SyncDone`, `ManifestDone` and the busy steps |
| busy states | `BufferFragment`, `WriteRefused`, `StartWrite` and `EndWrite` (erase and program apart), `Manifest`, then `FinishBusy` or `FinishError` |
| `dfu_common_write_to_flash` | `EraseSector`, `ProgramSector`, `RefuseAlternate`, `RefuseAddress` of `DfuFlash` |
| `reboot()` over I2C: the watchdog starts and the call returns | `Detach`, and `WatchdogFires` at any later moment: RAM is lost, the flash stays |

The data are abstracted: a host transfer is one `Payload`, a sector a function
from fragments to payloads, an address a partition and a sector, and sizes count
sectors. Time is one bit, whether the poll timeout the host was given is still
running, which any later step may end. `last` and `image` are history variables,
read by properties only: the latest GETSTATUS or CLRSTATUS, and the transfers of
this download. The branch that the code's comment says it never reaches (GETSTATUS
found in DNBUSY or MANIFEST by the state machine) has no action; `NeverBusyHere`
shows that it is dead. How long a timeout is, which the code takes from the kind
of operation, is left out. `Download` is one step for the read of `frag_number`, the
length and the copy: no property depends on the difference.

### The host

A host sends one request at a time and each is answered before the next. The
answer, though, does not wait for the state machine, so a request may arrive at
any moment of the previous one. Constants say which host is meant:

- `Window`, where the state machine may be when a request comes. `AnyWindow` is
  a host of any speed; `SlowWindow` one that is slower than the dispatch of a
  request (microseconds) but not than a flash operation (milliseconds);
- `Backlog`, where it may be when an earlier request is still unread;
- `RespectsTimeout`, whether the host waits out the poll timeout;
- `Commands`, `Alternates`, `TransferBlocks`, the requests it uses.

### Bounds

`MaxPending` caps the request counter by keeping the host silent at the cap; two
is enough for a merge (two requests, one word) and for the state after it (the
counter stuck at one, so that the next request finds two). `MaxImage` caps the
transfers of a download: four with `NumFragments = 2` fill both sectors of the
upgrade partition and overflow the one-sector data partition; two with `NumFragments = 1` overflow the data partition. `factory`,
`upgrade` and `data` have 2, 2 and 1 sectors, so an upload crosses a sector and
reaches its end. Alternate 3 stands for all alternates with no partition. Two
payloads, symmetric, tell a swapped or repeated fragment; they are used where a
property speaks of contents.

### Fairness and stopping

`FairSpec` says the two tasks are never starved and time passes: each has its
own priority and waits only in FreeRTOS calls, and the tile has more hardware
threads than ready tasks. Nothing is assumed of the host, which may stop at any
moment, nor of the watchdog. `CHECK_DEADLOCK FALSE` is set where the system really
can stop: in runs whose host may merge an UPLOAD with another request, the servicer
is stuck in `xSemaphoreTake` for ever (section 10), and no host request can be sent.

### Abstract specification

`DfuDiagram` is the diagrams drawn in `dfu_state_machine.c`. It has the state, the request
that was taken up (a set of one, or empty), whether work is pending and whether a
restart was asked for; one action per request, with one disjunct per edge that the
drawings label with it. So which request is legal in which state is part of it, and a
request where it is not legal has an edge to dfuERROR only. One edge is the code's and not
the drawing's, and has a name of its own: `AbortRefused` takes ABORT in dfuIDLE to dfuERROR,
where the drawing stays in dfuIDLE (section 10). `Merge` is the error after two
requests that merged, which answers neither, and `Restart` needs a `Detach`.

`ImplementsDiagram` maps the two tasks to it. A request is taken up when the switch is reached
and answered when its case sets the state (`DiagramRequest`); the path through
`dfu_int_error`, which resets to dfuIDLE before it enters dfuERROR, is a single
edge into dfuERROR (`DiagramState`), and everything between two edges is a
stutter. Its liveness says that a busy device stops being busy and that a request
taken up is answered.

## 4. The low-power audio path

`AudioRing` has the fields of `ring_buffer_t` in one record, and the two
operations as functions of it: `Enqueued` for
`low_power_audio_buffer_enqueue` (tail, then head, then the flags),
`Dequeued` and `Pushed` for `low_power_audio_buffer_dequeue` (what is left, and
what went to `intent_engine_sample_push`). Pointers are offsets from `buf`; the
unit is a frame, since every caller passes whole frames. `SlidingWindow` is what
the ring promises any caller; `RingSpec` calls both operations with arrays of up
to `Size` frames and requests of up to one frame more than there is.

`AudioPath` is `audio_pipeline_output` from its power check on: at full power one
frame is dequeued and, when there was one, the new frame takes its place in the
ring; in low power the frame is enqueued. Another task switches the power between
any two frames. `DelayLine` is what the intent engine is promised.

`Size = 4` makes both pointers wrap with every remainder and lets a batch, a
request or a sleep be shorter than, as long as and longer than the ring; two
frame contents suffice because nothing looks into a frame. The proofs cover every
size. Neither specification has fairness: a callback that never comes breaks no
promise of these.

## 5. Low-power control

### Tasks and steps

`LowPower` has both tiles in one state: tile 1 hears words and decides, tile 0
executes commands and sleeps.

| Code | Model |
|---|---|
| `audio_pipeline_output` on tile 1: `wakeword_handler`, `power_state_set`, the route of the frame | `HearNothing`, `HearWakeword` or `HearEndOfEvaluation`, `SetPowerState`, `RouteFrame`: three steps, so that the power state may change between them; `audio` is the program point |
| `vPowerStateTimerCallback` | `PowerTimerExpires` |
| `power_control_task`, tile 1 (`pc1`) | `AwaitRequest`; `ReadHalt`, `ReadExpired`, `Respond` (`low_power_response` reads two flags of other tasks, then writes the state and answers); `EnterLowPower`; `ExitLowPower` and `EnterFullPower` (the message goes out before the state is written) |
| `power_control_task`, tile 0 (`pc0`) | `RequestLowPower`; `Accepted`, `Rejected`, `Halted`; `IndicatedAsleep`, `LockDrivers`; `ReturnToFullPower`, `IndicatedAwake` |
| `led_task` | `Indicate`: the acknowledgement of ASLEEP and AWAKE |
| `vIntentTimerCallback` | `IntentTimer` |
| `intent_engine_task`, one turn of the loop (`engine`) | `NoTimeout`, `AskForLowPower`, `HoldFullPower` for `timeout_event_handler`; `AwaitDecision`, `AbortRequest`, `ResetStream`, `KeywordsDone`, `LeaveLowPower`, `FinishExit`, `Awake` for the cases of `low_power_handler`; `ReceiveFrame`; `NoCommand`, `Command`, `EndOfEvaluation` for what the recogniser may answer; `QueueKeyword` |
| `proc_keyword_res` (`handler`) | `ReceiveKeyword`, `SendKeyword`, `KeywordSent`, `CountKeywords`, `CompleteKeyword` |

`notif` and `led` are notification words, sets of bits that `xTaskNotify` adds to
and `xTaskNotifyWait` takes and clears; on tile 1 the word has one bit, `lp_exit`.
`to0` and `to1` are the two directions of the intertile port. A failing
`configASSERT` stops its task: the actions wait for the expected word only, and
`AssertionsHold` says that whenever a task is about to take a word or a message it
is that one. One flag stands for the driver mutexes that tile 0 takes together.

Two assumptions come from the code's surroundings. The timer task has
`configTIMER_TASK_PRIORITY`, the highest, and a core to run on, so a callback is
over before the task that stops the timer goes on. The intent timer runs for one
second at least and a frame lasts 15 ms, so it expires only after the engine has
received a frame since it was started (`timer`: fresh, then on).

### Late commands

`Command` asks for nothing but a result of the recogniser, as `intent_engine.c:265-268`
does, which does not look at the power state. In low power the engine may still process a block: a frame that tile 1 routed at
full power may arrive after the stream buffer was reset, and the block that ends a
sleep is processed before the recogniser is. If such a block completes a command, the intent
timer is started where it should be off, and expires in the middle of the sleep, or before
the engine has dealt with its exit. The engine then asks for low power of a power task
that awaits something else, and the handshake breaks (section 10).

`late_command` is a history variable, set by a command recognised outside
`STATE_EXITED_LOW_POWER` and read by no step. The properties say with it what holds
of the code as it is:

- with late commands or without: the types, the messages of the handshake
  and the assertions on them, the assertion on LP_ENTER, and that tile 0 is slow only with its
  drivers locked, no transfer under way and both power tasks agreed;
- until a command comes late: the assertions on the LED's acknowledgements, that the engine has left
  normal operation when tile 0 is slow, `EngineIsAnswered`, `NoStaleAnswer`, and the
  ends of `WakesUp` and `StaysAwake`.

`EngineIsAnswered` counts a request as in good hands only while the power task runs. One engine
is left without an answer, and the property names it: the one whose evaluation has ended
(`run_asr` zero), which may ask a task that has ended too.

### Bounds

`QueueLen` and `StreamLen` are 1: a queue and a buffer that are empty, or full, and
a keyword or a frame that finds them full. A longer queue holds more of the same
keyword, since only its emptiness and its fullness are tested. `LateBound` keeps TLC from
going on once the timer of a late command has run out: what the properties say of
the states after that is typing, the messages of the handshake and the prepared
sleep, and is proved (without the bound TLC finds 1.3 million states and no violation). The
proofs hold for every length, and without `LateBound`.

### Fairness and stopping

`FairSpec` has weak fairness for each task and timer: a tile has
five cores (`configNUM_CORES`), and of its tasks only the engine ever spins (while it
awaits a decision or a wake-up), the others wait in FreeRTOS calls; the microphones
deliver frames for ever, and a running timer expires. Nothing makes anybody speak,
or the evaluation end. The system never stops, even with both power tasks ended:
deadlock is checked.

## 6. The I2S driver of the ASRC demo

### Tasks and steps

`I2sDriver` is `rtos_i2s.c` in slave or master mode, both rings in one state. Three
parties run on cores of their own: the thread in its port callbacks, the
interrupt it sends bytes to, and the application's calls, at most one in each
direction.

| Code | Model |
|---|---|
| `i2s_local_tx` (`tx`) | `Tx`; `TxCheck` looks at the ring; `TxRequire` stores the count; `TxResume` is the semaphore; `TxCopy`, `TxPublish` are the copy, in two pieces when it reaches the end, and the move of index and total |
| `i2s_local_rx` (`rx`) | `Rx`, `RxCheck`, `RxRequire`, `RxResume`, `RxCopy`, `RxRelease`, likewise |
| `i2s_receive` (`port`) | `Hear`; `Overrun` or `Store` and `StorePublish`; `WakeRx` |
| `i2s_send` | `Fetch` and `FetchRelease`, or `SendZeros`; `WakeTx`, which also sends the byte |
| `rtos_i2s_isr` | `Interrupt`, once for each bit of a byte |
| `rtos_i2s_set_okay_to_send` | `SetOkay` |

A step is one access to what another party may change at the same time. The
indices of a ring wrap at its size and the totals at `Wrap`, the width of a word
(`Turn`, `Back`); what the ring holds is the difference of the totals. The unit
is a frame, the words of all channels, because every caller and the thread move
whole frames. Calls wait for ever (`portMAX_DELAY`) and no filter callback is
installed: that is how every caller in the repository uses the driver.

### Abstract specification, bounds, fairness

`BoundedQueue` has a party that gives samples, a queue, and a party that takes.
It is instantiated twice: `SendQueue`, where the application gives blocks and the
thread takes single frames or `<<Zero>>`, and `RecvQueue`, where the thread gives
frames, which an overrun drops, and the application takes blocks. The mapping of
the queue is `Held`, the slots from the read index on.

Rings of two frames, words that wrap at four and blocks of one and of two frames
give every alignment of a block to the end of the ring and of the totals to the
end of the word, a ring that is too full for a block by one and by two frames, and
overruns; two samples tell a frame from its neighbour and from zeros. A receiver
asks for two frames, so the thread may fill the ring between its look and its
request; its read index then stays zero, and a copy that reaches the end of the ring is
checked on the sending side and proved for both. The proofs cover every size. `FairSpec`: the I2S clock runs, and thread,
interrupt and tasks have cores; nobody is made to call.

## 7. Playback in the ASRC demo

`AsrcPlayback` follows audio from the host to the I2S port over two tiles.

| Code | Model |
|---|---|
| `tud_audio_set_itf_close_EP_cb` and `tud_audio_set_itf_cb` | `SetInterface` |
| `tud_audio_rx_done_post_read_cb` | `ReceiveFrame`, then `Notify`; `ReceivePart` when no whole frame has come; `LoseFrame` when the stream buffer is full |
| `usb_audio_out_asrc` (`out`) | `TakeNotification`, `ReceiveBlock`, `SkipBlock` or `ConvertBlock`, `SendBlock` |
| `usb_audio_send`, its read of `spkr_interface_open`, and `rate_server` | `AskForRatio`, `ServeRatio` |
| `rtos_i2s_get_nominal_sampling_rate`, restart of the port | `RestartI2s`, `DetectRate` |
| the port | `Drain` |
| `usb_to_i2s_intertile` (`i2s`) | `TakeBlock`; `NoEvent`, `SeeEvent` and `ClearEvent`, or `DropForEvent`; `SameRate`, `StartOver` or `DropForRate`; `TransmitBlock`; `CheckLevel` |

The three flags (`close_to_open_event`, `okay_to_send`, the rate) belong to
different tasks and are read and written one at a time. The driver's buffer is
the queue of section 6, of which only the level matters here; `TransmitBlock` is a
call of `rtos_i2s_tx` that returns. A stream-buffer call is one step: FreeRTOS
makes it one for the single reader and single writer each buffer has.

The ASRC may turn a block into any number of samples in `Outputs`, zero
included, and blocks are skipped whenever the tile has no rate or a new one:
`SkipBlock` is enabled always, because the rate arrives with the recorded blocks.
`SendSize` is four, twice what a block yields, as half the buffer is two blocks
in the code; a block of two frames makes the notification level one above a
block and the buffer as full as it gets two above; `MaxNotified = 2` keeps the host
back with two notifications unread, one more than the buffer can cause before
it is full. Two rates tell a change from a restart with the same rate.

`FairSpec`: the tasks run and the port sends while it may. Nothing is asked of the
host, who may stop, close and open at every moment, so `PlaybackResumes` speaks
of the behaviours in which blocks keep coming.

## 8. Recording in the ASRC demo

`AsrcRecord` follows audio from the I2S port to the host. A sample is the rate it
was converted from, which is all the properties ask of it.

| Code | Model |
|---|---|
| `i2s_audio_recv_task` (`recv`) | `DiscardBlock`, `Reinitialise`, `ConvertBlock`, `CollectBlock`; `SendRate`, `SendBlock` |
| `asrc_one_channel_task` (`asrc`) | `TakeChannel`, `ReturnChannel` |
| `i2s_to_usb_intertile` and `usb_audio_send` (`send`) | `ReceiveRate`, `ReceiveBlock`, `LookAtInterface`, `DetectChange`, `WriteBlock` or `LoseBlock`, `DummyWrite`, `AskForRatio`, `TakeRatio`, `NextBlock` |
| `rate_server` | `ServeRatio` |
| `tud_audio_set_itf_close_EP_cb` and `tud_audio_set_itf_cb` | `SetInterface` |
| `tud_audio_tx_done_pre_load_cb` (`callback`) | `FirstTransfer`, `SecondTransfer`, `LaterTransfer`, which fix `tx_size`; `NoChange`, or `ResetForChange` and `ClearChange`; `ResetFull` or `NotFull`; `CheckLevel`, which reads `bytes_available`; `LoadSamples` or `LoadZeros`, which use it |

The change of rate is a handshake by one flag, `g_i2s_sr_change_detected`, set by
the sending task and cleared by the USB callback after its reset: the steps in
between are apart. `message` is the intertile port, on which a rate and a block
alternate and are told apart by their lengths; `asrc_queue` and `asrc_ret_queue`
are the two queues of the channel task, of length one.

`GatedBuffer` says what the host is promised. A gate is closed, and the host gets silence,
until a transfer finds the buffer half full; from then on every transfer gets its size of
samples or all there are. The gate closes with a reset of the buffer, and with nothing
else: an underflow (`usb_audio.c:1207-1213`) leaves the flag set, and the host hears what
comes in below half full. The callback reads the level once (`:1177`) and uses that value
up to `:1220` while the other task goes on writing, so a short transfer may leave
samples behind. `ImplementsGatedBuffer` therefore counts a transfer as done when the level
is read: `Promised` is what it is going to take.

A buffer of six samples with blocks of two and transfers of one and of three passes the
half and the full mark, runs dry with a short transfer and is written in the middle of
one. Two channels converted at equal rates stand for equal lengths `n_samps_out`; the
assertions on the size of a message (`usb_audio.c:467`, `:1338`) are not covered. The code's rate monitor interval is two, so that every second write asks
the other tile. `FairSpec`: the tasks run; nothing is asked of the host or of the
I2S clock, which may restart with another rate whenever a block is converted.

## 9. The runs

| Run | Checks | Shows |
|---|---|---|
| `DfuDownload` | `ImageAssembled`, `ManifestHoldsSectors` | A host that waits its timeouts, and may poll, abort, clear or change the alternate during flash operations: between transfers the buffer and flash hold exactly the transfers sent so far, in order, and at manifestation every full sector is on the flash. |
| `DfuAny` | `TypeOK`, `EventIsSingle`, `NeverBusyHere`, `WriteInBounds`, `SemaphoreForWaiter`, `UploadReplyIsTheBlock` | With every request at every moment, and a watchdog reset at any point: the counter keeps merged requests out of the dispatch, no write leaves its partition or touches the factory image, the semaphore never outlives its waiter, and an upload is answered with the block the counter names. |
| `DfuFair` | `PredictionHonoured`, `UploadAnswered`, `RequestsTaken`, `ImplementsDiagram` | For a host that keeps to one request at a time and to the timeouts: every request is answered by an edge that the DFU diagrams label with it (for ABORT in dfuIDLE, by the code's own), no device stays busy, each state GETSTATUS announces (other than dfuIDLE, section 10) is the state reached, every request is taken and finished, every UPLOAD answered. |
| `AudioRingApi` | `RingTypeOK`, `RingShape`, `KeepsTheNewest` | The ring implements a window of the newest frames. |
| `AudioPathPower` | `ImplementsDelayLine` | The audio path implements a delay line under power changes at every frame. |
| `LowPowerFair` | `TypeOK`, `AssertionsHold`, `SleepIsPrepared`, `EngineIsAnswered`, `NoStaleAnswer`, `WakesUp`, `StaysAwake` | With words, commands, expiring timers and the end of the evaluation at any moment: tile 0 is slowed down only with its drivers locked, no transfer under way and both sides agreed; and until a command comes late (section 5), no assertion of the handshake fails, the engine gets one answer for each request and keeps none, unless its own evaluation has ended; a wakeword in low power leads to normal operation, and the end of the evaluation to full power for good. |
| `I2sDriverFair` | `TypeOK`, `NoSpareWakeUp`, `NeverPastTheOther`, `ImplementsSendQueue`, `ImplementsRecvQueue`, `ReceiverWakes`, `SenderWakes` | With every interleaving of thread, interrupt and calls, overruns, and totals that wrap: both rings are bounded queues; a semaphore is given only to a call that waits for it, and once; a call that copies has the room or the data although it looked long before; no call sleeps through its wake-up. |
| `AsrcPlaybackFair` | `TypeOK`, `NoLostWakeUp`, `RoomWhileFilling`, `RefillStartsEmpty`, `PlaybackResumes` | With the interface opened and closed and the rate changed at any moment: the task that is notified at one level only never sleeps above it; the port stops sending only when it has nothing left; while it does not send, nobody waits for room; and as long as blocks arrive it always sends again. |
| `AsrcRecordFair` | `TypeOK`, `AssertionsHold`, `OneRate`, `ImplementsGatedBuffer`, `RecordingGoesOn` | With the host recording or not and the rate changing at any moment: the assertions on channel lengths and on messages hold, samples of two rates never meet in the buffer unless it is about to be emptied, the host gets silence until the buffer has been half full since its last reset, and after that whole transfers, or all there was, and the tasks of both tiles, which wait for one another in a ring, never all wait. |
| `DfuUploadStuck`, `DfuPartialSector`, `LowPowerWakeword` | one property each, violated | Section 10. |

`UploadAnswered` appears twice: it holds for the host of `DfuFair`, which never
sends a request while one is unread, and fails for the host of `DfuUploadStuck`,
which does so while the flash is busy. Deadlock is checked in the passing runs of
sections 5 to 8.

## 10. Where the code and its documentation differ

Each of these three is a counterexample of a run.

1. **A merged UPLOAD is never answered** (`DfuUploadStuck`). When the word taken
   at the top of the loop merged two requests, the state machine goes to
   dfuERROR and `continue`s, past the `xSemaphoreGive` that
   `dfu_state_machine.c:573` promises "regardless of what happened". The servicer
   stays in `xSemaphoreTake`, and the control interface with it.
2. **The last, partial sector is dropped** (`DfuPartialSector`). Fragments are
   written when a sector is full; the zero-length DNLOAD clears the buffer and
   nothing flushes it, although `dfu_common.h:39` says manifestation will ensure
   that all data are flushed. An image padded to whole sectors is not affected.
3. **A wakeword is slept through** (`LowPowerWakeword`). Tile 1 reads the timer,
   then writes `power_state` (`power_control.c:154`, `:161`). A wakeword in between
   restarts the timer, finds the power state still full and signals no exit, and
   tile 1 goes to sleep with the timer running, although
   `software_desc/power.rst:105` says that it does so only after the timer has
   expired. The user has to say the word again.

More were met while translating and have no run of their own.

In the DFU code, the iteration of difference 1 decrements the counter once for two
requests: every later request, CLRSTATUS included, then finds two and is an
error, and only a reset helps. `dn_base_addr` is reset by manifestation only: after a download that
ended by ABORT, an error or SETALTERNATE, the first write for another alternate goes
to the partition of the earlier one; a host that, as
`doc/programming_guide/ffva/design.rst:100` asks, runs downloads to completion and
never sees an error is not affected. ABORT in dfuIDLE goes to dfuERROR, where the comment at `dfu_state_machine.c:811`
says "If in dfuIDLE, do nothing" and the drawing below it stays in dfuIDLE
(`AbortRefused` of `DfuDiagram`). A GETSTATUS that runs during `dfu_int_error`
is told the dfuIDLE that function passes through, which is why
`PredictionHonoured` leaves that forecast out. A host that polls too early is
told dfuERROR by `move_to_error`, but the state machine may already have tested
that flag and carries on. `total_len`, like `dn_base_addr`, outlives an
unfinished download, so one that fits may be refused with errADDRESS; and
every sector write erases, while only one in sixteen is announced with the erase
timeout.

In the low-power code, `low_power_clocks_disable` restores the switch clock under
`appconfLOW_POWER_ENABLE_SWITCH_CONTROL`, which nothing defines, while
`low_power_clocks_enable` divides it under `appconfLOW_POWER_SWITCH_CLK_DIV_ENABLE`,
which is 1: after the first sleep it stays divided, against the comment at
`power_control.c:99`. An LP_EXIT signalled between the exit and the write of
`power_state` is kept and ends the next sleep at once. A keyword queued between
the handler's count and its clearing of `keyword_proc_busy` is not waited for. And
an evaluation of the command engine that ends in the block received before a
wake-up is handled leaves `run_asr` zero with the timer restarted: the engine
asks for low power again, possibly of a power task that has deleted itself, and
stays in `STATE_REQUESTING_LOW_POWER`.

A command that is recognised after the engine has left normal operation (section 5) breaks
more. The intent timer that it starts expires in the sleep, the engine goes
to `STATE_REQUESTING_LOW_POWER` and notifies LP_ENTER to a power task that waits for
LP_IND_COMPLETE; the word it takes then has both bits, and the `configASSERT` at
`power_control.c:312` fails (TLC finds it 33 steps from the start when `AssertionsHold` is
stated without `late_command`). Or the exit resets the keyword queue (`intent_engine.c:169`) with the command's keyword in it: `keyword_proc_busy` stays
set, and there is no low power until the next command has been sent. A test of
`intent_power_state` before line 266 would exclude both.

In the ASRC demo, the rate server sees a reopened interface as a difference between
two messages (`rate_server.c:234`): one closed and opened between them is not seen,
and playback goes on at the level it had. A ratio computed for the rate before
a change may be stored after `i2s_audio.c:116` has set it to 0, and is used
until the next message. `rtos_i2s_tx` and `rtos_i2s_rx` with a finite timeout
keep their request when they time out (`rtos_i2s.c:396`): a next call for more
frames would wait for the old count only. No caller uses one. And the
adaptive-rate task writes two words (`adaptive_rate_adjust.c:55`) that
the USB task reads without a lock; a reader in between takes one of each.

## 11. The proofs

`DfuProofs` proves `Spec => []SafetyInv` from `FlashAssumption` and
`DfuAssumption`: any number of fragments, any partition sizes, any images, any host
(every `Window`, `Backlog` and repertoire). From it follow the theorems `Typing`,
`OneRequestAtATime`, `BusyIsNeverLeftOver`, `SemaphoreIsNeverLeftOver` and
`WritesStayInBounds`, and two statements that need no run:
`WritesStayInTheirPartition` (a step erases and programs the partition of the
download only) and `FactoryImageSurvives`. `EveryRoundEnds` is the safety core of
`RequestsTaken`: `StepsToWait` gives each program point of the state-machine task its
distance from the wait, at most ten steps, which its own steps shorten and nobody
lengthens; `EventIsSingle` and `NeverBusyHere` say that one of its branches always
applies. The properties are not inductive; `SafetyInv` adds why
they hold:

- `CountInv`: the bits set, those taken but not yet counted, and the request given
  but not yet notified are together at most `counter`. The give comes before
  the notify, so when the count finds one there was one bit.
- `PhaseInv`: DNBUSY and MANIFEST are the current state exactly at the program
  points of the flash operations, which all lead out through `FinishBusy` or
  `FinishError`; an UPLOAD is never under way there.
- `UploadInv`: an UPLOAD that is notified, or taken and not yet answered, has its
  servicer at `take` and the semaphore at zero.
- `BoundsInv`: `download_block_number` is at most what was written since
  `dn_base_addr` was chosen, except between a refused write and the reset it
  causes; and a chosen partition has its own size in `bytes_avail`. So the room
  test, made on `total_len`, bounds the address, made from
  `download_block_number`.

The proof of the step has one lemma per group of actions and one named step per
action and per conjunct it can disturb.

`DfuContentProofs` adds two theorems from the same assumptions, again for every
host. `UploadsAnswerTheirBlock` rests on `ReplyInv`: while an UPLOAD is served the
host is silent, so nothing else is notified, and the fragment (or the length
zero) is in the shared structure from the moment it is read until the servicer
has copied it. With it the six properties of `DfuAny` are all proved.
`FollowsTheDiagram` is the safety part of `ImplementsDiagram`: `Spec` implies
`Diagram!Init` and `[][Diagram!Next]_(Diagram!vars)`, with each edge labelled with its request. `EdgeInv` says what the map
needs: a program point inside `dfu_int_error` has a status to announce, and a block is
read only in a state that allows it. That a request is taken up where the diagram can, and
is one, comes from `NeverBusyHere` and `EventIsSingle` in the state the step leads to.

`DfuPacedProofs` is about hosts that are slow in the sense of `SlowHost`: a request
meets the state machine at rest or in a flash operation, and a second one is sent
early only while the flash keeps the first waiting. Neither the commands nor
the timeouts are restricted. `DownloadsAreAssembled` and
`ManifestsHoldTheirSectors` (the run `DfuDownload`, for every size of sector and
partition) follow from `ImageInv`, which says for each state of the diagram where
the transfers of the download are: `Holds(0)` between two transfers and `Holds(1)`
while one that arrived is not yet counted, in the buffer up to `frag_number` and on
the flash below `download_block_number`. A DNLOAD that arrives where it will be
refused spoils the buffer; the invariant then only promises that it is still pending,
and the steps of the state machine show that it ends in an error.
`PaddedImagesAreHeld` draws the exact limit of finding 2: the whole image is on the flash
at the manifestation when it is a whole number of sectors.
`StatusInv` says that a GETSTATUS is notified and taken up with nothing else
pending. `ForecastsComeTrue` proves `PredictionHonoured` for `PacedHost`, a slow host
that also sends one request at a time and waits its timeouts: `OneInv` makes the
counter exact, `ReadInv` says where the state machine may be between the servicer's two
reads, and `ForecastInv` follows the announced state from the forecast through
the handler to the end of the flash operation. `UploadsAreServed` needs no timeouts, only
`OneAtATime`: `UploadPath` says that an UPLOAD taken up stays the only event until the
give, through `dfu_int_error` or not, and `AnswerComes` that a servicer at `take` has its
request ahead of it or the semaphore given. The second request of difference 1
breaks `AnswerComes`.

`AudioProofs` proves, from `RingAssumption`, `RingIsTyped` and `RingIsShaped` (flags,
pointers and count agree after every sequence of calls, for every `Size`) and
`PathImplementsDelayLine`: `PathSpec => ImplementsDelayLine`, a full refinement
(`DelayLine` has no fairness). The inductive invariant is `PathInv`: the typing
and the shape of the ring. The lemmas compute, with explicit wrap-around, what
`Held` is after an enqueue of one frame into a ring with room and into a full one,
and after a dequeue. `RingKeepsTheNewest` is the same for the ring by itself, with batches
of up to a ring of frames, which may wrap and overtake the oldest frames.

`LowPowerProofs` proves two invariants from `LowPowerAssumption`: `CoreInv` always, and
`LowPowerInv` until a command comes late, `Spec => [](late_command \/ LowPowerInv)`. From them follow
`HandshakeAssertions`, `SleepOnlyPrepared`, `EveryRequestAnswered`,
`AnswersAreConsumed` and `LowPowerTyping`. `CoreInv` is the typing, `HandshakeInv` and
`LedInv`, and `LowPowerInv` adds `EngineInv`:

- `HandshakeInv`: for each place of tile 0 in the handshake, the places where tile 1
  may be and the one message that may be under way; the clock is divided exactly
  while tile 1 waits for LP_EXIT, and the drivers are locked exactly while tile 0
  waits for the return to full power.
- `LedInv`: an indication is under way or acknowledged, and not both, exactly when
  the power task awaits it.
- `EngineInv`: the engine's request, its answer and its timer exclude one another; in
  each phase of the engine, where the power task may be; and a halted engine has its
  evaluation ended before it asks again. A late command breaks it at once, as it
  starts the timer.

The proof of the step has one lemma per task, and `HandshakeKept`, `LedKept` and
`EngineKept` for the parts a task does not touch. `HaltedForGood` is the safety core of
`StaysAwake`, and, like it, speaks of the behaviour up to a late command. The halt flag is read before the timer, so a request may be accepted that
was made before the flag was set; `HaltLeft` counts the steps from there through
this last sleep, with `ReadyLeft` for tile 0 on its way into it (the keywords
still to be sent included, which keep the locks) and `WakeLeft` for the frame that ends it.
`WokenUpInTheEnd` is the safety core of `WakesUp`, under the same condition. `WakingUp` is what lies between an exit
signalled in low power and normal operation, and the steps left there are three sums:
`AnswerLeft` to the answer that the engine waits for (over both tiles, through a
refusal or through a sleep that ends at once), `RestoreLeft` to the recorded full power, and
`EngineLeft` of the engine, the frame it blocks on included (`FrameLeft`). Only the
question that the engine repeats until it is answered (`AsksAgain`) does not count.
`NothingProcessed` says why `wait_for_keyword_queue_completion` never waits: low power is
requested with `keyword_proc_busy` clear, and nothing sets it until the engine is back or a command comes late.

`I2sDriverProofs` proves from `DriverAssumption` (rings of any size below the width of
a word, any blocks and counts that fit) `DriverTyping`, `WakeUpsAreUsed`,
`CallsStayInside`, and two full refinements, `SendRingIsAQueue` and
`RecvRingIsAQueue`: `Spec => ImplementsSendQueue` and `Spec =>
ImplementsRecvQueue`. The lemmas about a ring come first: how two totals that wrap
measure a distance, where a slot lies from the read and from the write index, and
what `Held` is after a copy behind the samples held, a publication and a release.
The invariant has for each ring

- a shape, `SendShape` and `RecvShape`: the write index is as far ahead of the read
  index as the totals say (`Shaped`);
- its data, `SendData` and `RecvData`: between a copy and its publication the slots
  behind those held contain the samples already (`Ready`), and between a fetch and
  its release the thread has the oldest;
- its wake-up, `SendWake` and `RecvWake`: it is in one place only, the request in the
  ring, the thread's bits, the byte or the semaphore, and there only while the call waits for
  it. The room or the data that the wake-up promises cannot shrink before the
  call has copied, because only the call itself uses it.

`ReceiversAreServed` and `SendersAreServed` go on from there to what `ReceiverWakes` and
`SenderWakes` rest on: `RxLeft` and `TxLeft` count the thread's rounds that the waiting call
still needs, a waiting call is at most that many steps away from its semaphore, and each step of
the thread, the interrupt or the call takes one away.

`PlaybackProofs` proves from `PlaybackAssumption` `PlaybackTyping`, `NeverLeftAsleep`,
`FillingNeverBlocks` and the action property `RefillFromEmpty`. `NotifiedInv` says
that a level above the notification's was preceded by the level itself, since frames are
counted one by one; `FillInv` that a buffer seen empty stays so until its block is
written, and that one that is not sent is at most half full but for the block
written last, which `CheckLevel` then sees. `SilenceEnds` and `TheOldStreamRunsOut`
are the safety core of `PlaybackResumes`: in a silence every block that arrives brings
at least one sample (`BlockInv`), so `SilenceLeft` bounds the steps of
`usb_to_i2s_intertile` to the restart; and after a reopening `Backlog` only goes down
until the event is dealt with.

`RecordProofs` proves from `RecordAssumption` `RecordTyping`, `AssertionsNeverFail`,
`RatesNeverMix` and the refinement `BufferIsGated`. `ChannelInv` follows the block through the two queues,
`MessageInv` and `BlockInv` follow a rate and its block over the port; `BufferInv`
relates the buffer, the flag and the rate written last, `GateInv` the flags of the
interface and the level, and `LoadInv` says that what the callback saw is still there when it
takes it, since nobody else takes or resets. `TheRingNeverBlocks` and `ARoundEnds` are the safety core of
`RecordingGoesOn`: while a block is under way one of the four tasks can step (`RpcInv` says
where the request and the answer of the rate server are), and their steps count down
from `LongestRound`.

Every safety property of a passing run is proved. Model-checked only: the liveness
properties (`UploadAnswered`, `RequestsTaken`, `WakesUp`, `StaysAwake`,
`ReceiverWakes`, `SenderWakes`, `PlaybackResumes`, `RecordingGoesOn`) and the liveness
part of `ImplementsDiagram`, as the prover does not reason about ENABLED. For all
eight the part that is not about fairness is proved, as said above: who can take the next
step, and a natural number that no step raises and each of those steps lowers, for every
value of the constants. What TLC alone shows is that the fairness of sections 3 to 8 makes
those steps happen and, for `UploadAnswered` and `RequestsTaken`, that the rounds follow
one another until the request is taken and answered.

## 12. What is not modelled

- *Low power:* the switch clock's divider, tile 1's lock on its own GPIO driver,
  colours and heartbeat of the LEDs, the buttons, the host's wake-up pin, what is in
  samples and keywords, and the ring of section 4 between `RouteFrame` and
  `PushFrame` (`AudioPath` models it).
- *Flash failures.* `rtos_qspi_flash_write` and `_erase` return nothing, so the
  code has no path for them. A reset between erase and program is modelled.
- *USB DFU.* The state machine belongs to TinyUSB, which is not in the repository.
- *Durations.* Timeouts are a bit; the 32-bit wrap of the reference timer in
  `dfu_int_get_status` (a host that polls 43 s later) is therefore out of reach.
- *Start-up.* Both DFU tasks are running in `Init`; that the servicer registers
  before the semaphore exists is decided by a library that is not here.
- *Contents of messages* of the control interface: version, the read-only queries.
- *ASRC arithmetic.* What the converter computes, the ratio of the clocks, the averages
  of the buffer level (`avg_buffer_level.c`), volume and mute: numerical code
  without shared state, of which the models keep that the result is any.
- *Adaptive rate.* `adaptive_rate_*.c` sums samples over time buckets, in one callback;
  its one hazard, a result in two words read on another core, is described
  in section 10.
- *I2S.* Filter callbacks, finite timeouts, and the RPC to a driver on the other tile,
  which nothing here uses; the start-up of the port.
- *The intent engine of `modules/asr`, FFVA and FFD applications, audio pipelines, the
  microphone aggregator, board support.* Straight-line start-up and processing
  around library calls; the engine is the one of `LowPower` without power states.
- *Signal processing, inference, drivers.* They are libraries or closed, and
  decide nothing that the models do not leave open.

Nearly all lines of the repository that a compiler sees are data: the generated
speech models under `examples/*/model` and `modules/asr` (about half a million lines of coefficients),
and a vendored WAV reader. What is modelled is a few thousand lines of control,
which is where orders of events matter.
