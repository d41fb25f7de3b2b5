------------------------------ MODULE LowPower ------------------------------
(***************************************************************************)
(* Low-power control of the low-power example: the power control tasks of  *)
(* both tiles (power_control.c, power_state.c), the wakeword task on tile  *)
(* 1, and on tile 0 the intent engine (intent_engine.c), the keyword       *)
(* handler (intent_handler.c) and the LED task (leds.c).  Each task runs   *)
(* on a core of its own; a step is one access to what tasks share, or a    *)
(* run of accesses the others cannot tell apart.                           *)
(***************************************************************************)
EXTENDS Naturals, Sequences

CONSTANTS
  QueueLen,  (* appconfINTENT_QUEUE_LEN                                      *)
  StreamLen  (* Frames the engine's stream buffer holds.                     *)

ASSUME LowPowerAssumption == QueueLen \in Nat \ {0} /\ StreamLen \in Nat \ {0}

Response == {"ACK", "NAK", "HALT"}

VARIABLES
  (* Tile 1 *)
  power_state,     (* POWER_STATE_LOW or _FULL.                              *)
  low_power_halt,  (* The wakeword engine's evaluation is over.              *)
  expired,         (* power_state_time_expired; FALSE: the timer is running. *)
  lp_exit,         (* Notification bit LP_EXIT.                              *)
  pc1,             (* Where power_control_task is,                           *)
  response,        (*   and the response it has computed.                    *)
  audio,           (* Where audio_pipeline_output is.                        *)
  (* Between the tiles *)
  to0, to1,        (* Messages on appconfPOWER_CONTROL_PORT.                 *)
  slow,            (* The clock of tile 0 is divided.                        *)
  stream,          (* Frames in the engine's stream buffer.                  *)
  (* Tile 0 *)
  pc0,             (* Where power_control_task is,                           *)
  notif,           (*   and its notification word.                           *)
  locked,          (* It holds the driver locks.                             *)
  led,             (* Notification word of the LED task.                     *)
  engine,          (* Where intent_engine_task is.                           *)
  intent_power_state, requested_full_power, timeout_event, asr_halted, run_asr,
  timer,           (* int_eng_tmr: off, fresh, or on (able to expire).       *)
  q_intent,        (* Keywords in the queue.                                 *)
  keyword_proc_busy,
  handler,         (* Where proc_keyword_res is.                             *)
  (* History, which no step reads *)
  late_command     (* A command has been recognised after the engine left    *)
                   (* normal operation.                                      *)

tile1   == <<power_state, low_power_halt, expired, lp_exit, pc1, response, audio>>
control == <<pc0, notif, locked, led>>
phase   == <<intent_power_state, requested_full_power, asr_halted, run_asr>>
timing  == <<timeout_event, timer>>
keyword == <<q_intent, keyword_proc_busy, handler>>
vars == <<tile1, to0, to1, slow, stream, control, engine, phase, timing, keyword,
          late_command>>

\* What the tasks start with; intent_power_state is a zeroed static, and the
\* engine signals an intent timeout before its loop.
Init ==
  /\ power_state = "FULL" /\ low_power_halt = FALSE /\ expired = TRUE
  /\ lp_exit = FALSE /\ pc1 = "request" /\ response = "NAK" /\ audio = "listen"
  /\ to0 = <<>> /\ to1 = <<>> /\ slow = FALSE /\ stream = 0
  /\ pc0 = "request" /\ notif = {} /\ locked = FALSE /\ led = {}
  /\ engine = "timeout" /\ intent_power_state = "REQUESTING"
  /\ requested_full_power = FALSE /\ asr_halted = FALSE /\ run_asr = TRUE
  /\ timeout_event = TRUE /\ timer = "off"
  /\ q_intent = 0 /\ keyword_proc_busy = FALSE /\ handler = "idle"
  /\ late_command = FALSE

-----------------------------------------------------------------------------
(***************************************************************************)
(* Tile 1: the wakeword engine and the frames it hears.                    *)
(***************************************************************************)
\* wakeword_handler; when the evaluation is over it says so for every frame.
\* Then power_state_set(POWER_STATE_FULL), up to its test of the power state.
HearNothing ==
  /\ audio = "listen" /\ ~low_power_halt
  /\ audio' = "output"
  /\ UNCHANGED <<power_state, low_power_halt, expired, lp_exit, pc1, response>>

HearWakeword ==
  /\ audio = "listen" /\ ~low_power_halt
  /\ expired' = FALSE /\ audio' = "set"
  /\ UNCHANGED <<power_state, low_power_halt, lp_exit, pc1, response>>

HearEndOfEvaluation ==
  /\ audio = "listen"
  /\ low_power_halt' = TRUE /\ expired' = FALSE /\ audio' = "set"
  /\ UNCHANGED <<power_state, lp_exit, pc1, response>>

\* The rest of power_state_set: LP_EXIT, in low power.
SetPowerState ==
  /\ audio = "set"
  /\ lp_exit' = (lp_exit \/ power_state = "LOW")
  /\ audio' = "output"
  /\ UNCHANGED <<power_state, low_power_halt, expired, pc1, response>>

\* At full power the frame goes to the other tile, else into the audio buffer.
RouteFrame ==
  /\ audio = "output"
  /\ audio' = IF power_state = "FULL" THEN "push" ELSE "listen"
  /\ UNCHANGED <<power_state, low_power_halt, expired, lp_exit, pc1, response>>

\* vPowerStateTimerCallback
PowerTimerExpires ==
  /\ ~expired /\ expired' = TRUE
  /\ UNCHANGED <<power_state, low_power_halt, lp_exit, pc1, response, audio>>

\* "lost output samples for intent" when the stream buffer is full.
PushFrame ==
  /\ audio = "push" /\ audio' = "listen"
  /\ stream' = IF stream < StreamLen THEN stream + 1 ELSE stream
  /\ UNCHANGED <<power_state, low_power_halt, expired, lp_exit, pc1, response,
                 to0, to1, slow, control, engine, phase, timing, keyword, late_command>>

Wakeword ==
  \/ /\ HearNothing \/ HearWakeword \/ HearEndOfEvaluation \/ SetPowerState \/ RouteFrame
     /\ UNCHANGED <<to0, to1, slow, stream, control, engine, phase, timing, keyword,
                    late_command>>
  \/ PushFrame

PowerTimer ==
  /\ PowerTimerExpires
  /\ UNCHANGED <<to0, to1, slow, stream, control, engine, phase, timing, keyword,
                 late_command>>

-----------------------------------------------------------------------------
(***************************************************************************)
(* Tile 1: power_control_task.                                             *)
(***************************************************************************)
AwaitRequest ==
  /\ pc1 = "request" /\ to1 # <<>> /\ Head(to1) = "LOW"
  /\ to1' = Tail(to1) /\ pc1' = "read_halt"
  /\ UNCHANGED <<power_state, response, lp_exit, to0, slow>>

ReadHaltLate ==
  /\ pc1 = "read_halt" /\ response' = "NAK" /\ pc1' = "read_expired"
  /\ UNCHANGED <<power_state, lp_exit, to0, to1, slow>>

\* low_power_response: the halt flag is read first, then the timer's.
ReadHalt ==
  /\ pc1 = "read_halt"
  /\ response' = IF low_power_halt THEN "HALT" ELSE "NAK"
  /\ pc1' = IF low_power_halt THEN "respond" ELSE "read_expired"
  /\ UNCHANGED <<power_state, lp_exit, to0, to1, slow>>

ReadExpired ==
  /\ pc1 = "read_expired"
  /\ response' = IF expired THEN "ACK" ELSE "NAK"
  /\ pc1' = "respond"
  /\ UNCHANGED <<power_state, lp_exit, to0, to1, slow>>

Respond ==
  /\ pc1 = "respond"
  /\ power_state' = IF response = "ACK" THEN "LOW" ELSE "FULL"
  /\ to0' = Append(to0, response)
  /\ pc1' = CASE response = "HALT" -> "locked" [] response = "ACK" -> "ready"
              [] OTHER -> "request"
  /\ UNCHANGED <<response, lp_exit, to1, slow>>

\* low_power_ready and low_power_clocks_enable.
EnterLowPower ==
  /\ pc1 = "ready" /\ to1 # <<>> /\ Head(to1) = "READY"
  /\ to1' = Tail(to1) /\ slow' = TRUE /\ pc1' = "low"
  /\ UNCHANGED <<power_state, response, lp_exit, to0>>

ExitSilently ==
  /\ pc1 = "low" /\ lp_exit
  /\ lp_exit' = FALSE /\ slow' = FALSE /\ pc1' = "full"
  /\ UNCHANGED <<power_state, response, to0, to1>>

\* full_power: the clocks are restored and the other tile told ...
ExitLowPower ==
  /\ pc1 = "low" /\ lp_exit
  /\ lp_exit' = FALSE /\ slow' = FALSE
  /\ to0' = Append(to0, "FULL")
  /\ pc1' = "full"
  /\ UNCHANGED <<power_state, response, to1>>

\* ... before the state is changed.
EnterFullPower ==
  /\ pc1 = "full" /\ power_state' = "FULL" /\ pc1' = "request"
  /\ UNCHANGED <<response, lp_exit, to0, to1, slow>>

PowerControl1 ==
  /\ \/ AwaitRequest \/ ReadHalt \/ ReadExpired \/ Respond
     \/ EnterLowPower \/ ExitLowPower \/ EnterFullPower
  /\ UNCHANGED <<low_power_halt, expired, audio, stream, control, engine, phase,
                 timing, keyword, late_command>>

-----------------------------------------------------------------------------
(***************************************************************************)
(* Tile 0: power_control_task.  An assertion on a notification that fails  *)
(* stops the task: the guards let it take the expected word only, and      *)
(* AssertionsHold says that it finds no other.                             *)
(***************************************************************************)
RequestLowPower ==
  /\ pc0 = "request" /\ notif = {"ENTER"}
  /\ notif' = {} /\ to1' = Append(to1, "LOW") /\ pc0' = "response"
  /\ UNCHANGED <<to0, locked, led, phase>>

\* intent_engine_low_power_accept, then led_indicate_asleep.
Accepted ==
  /\ pc0 = "response" /\ to0 # <<>> /\ Head(to0) = "ACK"
  /\ to0' = Tail(to0)
  /\ intent_power_state' = "ENTERING"
  /\ led' = led \cup {"ASLEEP"} /\ pc0' = "asleep"
  /\ UNCHANGED <<to1, notif, locked, requested_full_power, asr_halted, run_asr>>

RejectedSilently ==
  /\ pc0 = "response" /\ to0 # <<>> /\ Head(to0) = "NAK"
  /\ to0' = Tail(to0) /\ pc0' = "request"
  /\ UNCHANGED <<to1, notif, locked, led, phase>>

\* intent_engine_full_power_request
Rejected ==
  /\ pc0 = "response" /\ to0 # <<>> /\ Head(to0) = "NAK"
  /\ to0' = Tail(to0) /\ requested_full_power' = TRUE /\ pc0' = "request"
  /\ UNCHANGED <<to1, notif, locked, led, intent_power_state, asr_halted, run_asr>>

\* intent_engine_halt; the task ends.
Halted ==
  /\ pc0 = "response" /\ to0 # <<>> /\ Head(to0) = "HALT"
  /\ to0' = Tail(to0)
  /\ requested_full_power' = TRUE /\ asr_halted' = TRUE /\ pc0' = "locked"
  /\ UNCHANGED <<to1, notif, locked, led, intent_power_state, run_asr>>

IndicatedAsleep ==
  /\ pc0 = "asleep" /\ notif = {"IND"}
  /\ notif' = {} /\ pc0' = "lock"
  /\ UNCHANGED <<to0, to1, locked, led, phase>>

LockWithoutWaiting ==
  /\ pc0 = "lock"
  /\ locked' = TRUE /\ to1' = Append(to1, "READY") /\ pc0' = "low"
  /\ UNCHANGED <<to0, notif, led, phase>>

\* driver_control_lock waits for the handler's transfer.
LockDrivers ==
  /\ pc0 = "lock" /\ handler # "send"
  /\ locked' = TRUE /\ to1' = Append(to1, "READY") /\ pc0' = "low"
  /\ UNCHANGED <<to0, notif, led, phase>>

ReturnToFullPower ==
  /\ pc0 = "low" /\ to0 # <<>> /\ Head(to0) = "FULL"
  /\ to0' = Tail(to0) /\ locked' = FALSE
  /\ led' = led \cup {"AWAKE"} /\ pc0' = "awake"
  /\ UNCHANGED <<to1, notif, phase>>

IndicatedAwake ==
  /\ pc0 = "awake" /\ notif = {"IND"}
  /\ notif' = {} /\ requested_full_power' = TRUE /\ pc0' = "request"
  /\ UNCHANGED <<to0, to1, locked, led, intent_power_state, asr_halted, run_asr>>

\* The LED task answers every ASLEEP and AWAKE; other indications change a colour.
Indicate ==
  /\ led # {}
  /\ led' = {} /\ notif' = notif \cup {"IND"}
  /\ UNCHANGED <<to0, to1, pc0, locked, phase>>

PowerControl0 ==
  /\ \/ RequestLowPower \/ Accepted \/ Rejected \/ Halted
     \/ IndicatedAsleep \/ LockDrivers \/ ReturnToFullPower \/ IndicatedAwake
  /\ UNCHANGED <<tile1, slow, stream, engine, timing, keyword, late_command>>

Led ==
  /\ Indicate
  /\ UNCHANGED <<tile1, slow, stream, engine, timing, keyword, late_command>>

-----------------------------------------------------------------------------
(***************************************************************************)
(* Tile 0: the timer of the intent engine.  It runs for one second at      *)
(* least and a frame lasts 15 ms: it expires only when the engine has      *)
(* received a frame, or waited for the other tile, since it was started.   *)
(* The timer task has the highest priority and a core to run on: a         *)
(* callback is over before the engine goes on.                             *)
(***************************************************************************)
\* hold_intent_state and hold_full_power
Hold == timeout_event' = FALSE /\ timer' = "fresh"

\* vIntentTimerCallback
IntentTimer ==
  /\ timer = "on" /\ timer' = "off" /\ timeout_event' = TRUE
  /\ UNCHANGED <<tile1, to0, to1, slow, stream, control, engine, phase, keyword,
                 late_command>>

-----------------------------------------------------------------------------
(***************************************************************************)
(* Tile 0: intent_engine_task, one turn of its loop.                       *)
(***************************************************************************)
\* timeout_event_handler
NoTimeout ==
  /\ engine = "timeout" /\ ~timeout_event
  /\ engine' = "power"
  /\ UNCHANGED <<stream, notif, phase, timing, keyword>>

AskAgain ==
  /\ engine = "timeout" /\ timeout_event /\ ~keyword_proc_busy
  /\ intent_power_state' = "REQUESTING" /\ notif' = notif \cup {"ENTER"}
  /\ engine' = "power"
  /\ UNCHANGED <<stream, requested_full_power, asr_halted, run_asr, timing, keyword>>

AskForLowPower ==
  /\ engine = "timeout" /\ timeout_event /\ ~keyword_proc_busy
  /\ timeout_event' = FALSE
  /\ intent_power_state' = "REQUESTING" /\ notif' = notif \cup {"ENTER"}
  /\ engine' = "power"
  /\ UNCHANGED <<stream, requested_full_power, asr_halted, run_asr, timer,
                 keyword>>

HoldFullPower ==
  /\ engine = "timeout" /\ timeout_event /\ keyword_proc_busy
  /\ Hold /\ engine' = "power"
  /\ UNCHANGED <<stream, notif, phase, keyword>>

Age == timer' = IF timer = "fresh" THEN "on" ELSE timer

\* low_power_handler
AwaitDecision ==
  /\ engine = "power" /\ intent_power_state \in {"REQUESTING", "ENTERED"}
  /\ ~requested_full_power
  /\ Age /\ engine' = "timeout"
  /\ UNCHANGED <<stream, notif, phase, timeout_event, keyword>>

AbortKeepingAnswer ==
  /\ engine = "power" /\ intent_power_state = "REQUESTING" /\ requested_full_power
  /\ intent_power_state' = "EXITING" /\ engine' = "timeout"
  /\ UNCHANGED <<stream, notif, requested_full_power, asr_halted, run_asr, timing,
                 keyword>>

AbortRequest ==
  /\ engine = "power" /\ intent_power_state = "REQUESTING" /\ requested_full_power
  /\ requested_full_power' = FALSE /\ intent_power_state' = "EXITING"
  /\ engine' = "timeout"
  /\ UNCHANGED <<stream, notif, asr_halted, run_asr, timing, keyword>>

ResetStream ==
  /\ engine = "power" /\ intent_power_state = "ENTERING"
  /\ stream' = 0 /\ engine' = "drain"
  /\ UNCHANGED <<notif, phase, timing, keyword>>

\* wait_for_keyword_queue_completion, and on to receive_audio_frames.
KeywordsDone ==
  /\ engine = "drain" /\ ~keyword_proc_busy
  /\ intent_power_state' = "ENTERED" /\ engine' = "receive"
  /\ UNCHANGED <<stream, notif, requested_full_power, asr_halted, run_asr, timing,
                 keyword>>

\* asr_reset and intent_engine_keyword_queue_reset
LeaveLowPower ==
  /\ engine = "power" /\ intent_power_state = "ENTERED" /\ requested_full_power
  /\ requested_full_power' = FALSE /\ intent_power_state' = "EXITING"
  /\ q_intent' = 0 /\ engine' = "timeout"
  /\ UNCHANGED <<stream, notif, asr_halted, run_asr, timing, keyword_proc_busy, handler>>

FinishExit ==
  /\ engine = "power" /\ intent_power_state = "EXITING"
  /\ Hold /\ intent_power_state' = "EXITED" /\ engine' = "receive"
  /\ UNCHANGED <<stream, notif, requested_full_power, asr_halted, run_asr,
                 keyword>>

Awake ==
  /\ engine = "power" /\ intent_power_state = "EXITED"
  /\ engine' = "receive"
  /\ UNCHANGED <<stream, notif, phase, timing, keyword>>

\* receive_audio_frames, and asr_process unless the evaluation is over.
ReceiveFrame ==
  /\ engine = "receive" /\ stream > 0
  /\ stream' = stream - 1
  /\ engine' = IF run_asr THEN "process" ELSE "timeout"
  /\ Age
  /\ UNCHANGED <<notif, phase, timeout_event, keyword>>

EndOfEvaluation ==
  /\ engine = "process"
  /\ timer' = "off" /\ timeout_event' = FALSE
  /\ asr_halted' = TRUE /\ run_asr' = FALSE
  /\ engine' = "timeout"
  /\ UNCHANGED <<stream, notif, intent_power_state, requested_full_power,
                 keyword>>

NoCommand ==
  /\ engine = "process" /\ ~asr_halted
  /\ engine' = "timeout"
  /\ UNCHANGED <<stream, notif, phase, timing, keyword>>

\* hold_intent_state and the first half of intent_engine_process_asr_result,
\* whatever the power state: the block that wait_for_keyword_queue_completion is
\* followed by is processed too, by a recogniser that is reset only afterwards.
Command ==
  /\ engine = "process" /\ ~asr_halted
  /\ Hold
  /\ keyword_proc_busy' = TRUE /\ engine' = "queue"
  /\ UNCHANGED <<stream, notif, phase, q_intent, handler>>

QueueKeywordBlindly ==
  /\ engine = "queue"
  /\ q_intent' = q_intent + 1 /\ engine' = "timeout"
  /\ UNCHANGED <<stream, notif, phase, timing, keyword_proc_busy, handler>>

\* xQueueSend with no wait: a keyword that finds the queue full is lost.
QueueKeyword ==
  /\ engine = "queue"
  /\ IF q_intent < QueueLen THEN q_intent' = q_intent + 1 /\ UNCHANGED keyword_proc_busy
     ELSE keyword_proc_busy' = FALSE /\ UNCHANGED q_intent
  /\ engine' = "timeout"
  /\ UNCHANGED <<stream, notif, phase, timing, handler>>

CommandIsLate ==
  engine = "process" /\ engine' = "queue" /\ intent_power_state # "EXITED"

Engine ==
  /\ \/ NoTimeout \/ AskForLowPower \/ HoldFullPower
     \/ AwaitDecision \/ AbortRequest \/ ResetStream \/ KeywordsDone
     \/ LeaveLowPower \/ FinishExit \/ Awake
     \/ ReceiveFrame \/ EndOfEvaluation \/ NoCommand \/ Command \/ QueueKeyword
  /\ late_command' = (late_command \/ CommandIsLate)
  /\ UNCHANGED <<tile1, to0, to1, slow, pc0, locked, led>>

-----------------------------------------------------------------------------
(***************************************************************************)
(* Tile 0: proc_keyword_res.                                               *)
(***************************************************************************)
ReceiveKeyword ==
  /\ handler = "idle" /\ q_intent > 0
  /\ q_intent' = q_intent - 1 /\ handler' = "take_lock"
  /\ UNCHANGED keyword_proc_busy

\* The I2C and UART transfers hold the locks that driver_control_lock takes.
SendKeyword ==
  /\ handler = "take_lock" /\ ~locked
  /\ handler' = "send"
  /\ UNCHANGED <<q_intent, keyword_proc_busy>>

KeywordSent ==
  /\ handler = "send" /\ handler' = "count"
  /\ UNCHANGED <<q_intent, keyword_proc_busy>>

CountKeywords ==
  /\ handler = "count"
  /\ handler' = IF q_intent = 0 THEN "complete" ELSE "idle"
  /\ UNCHANGED <<q_intent, keyword_proc_busy>>

CompleteKeyword ==
  /\ handler = "complete"
  /\ keyword_proc_busy' = FALSE /\ handler' = "idle"
  /\ UNCHANGED q_intent

Handler ==
  /\ ReceiveKeyword \/ SendKeyword \/ KeywordSent \/ CountKeywords \/ CompleteKeyword
  /\ UNCHANGED <<tile1, to0, to1, slow, stream, control, engine, phase, timing,
                 late_command>>

-----------------------------------------------------------------------------
Next ==
  \/ Wakeword \/ PowerTimer \/ PowerControl1 \/ PowerControl0 \/ Led
  \/ IntentTimer \/ Engine \/ Handler

Spec == Init /\ [][Next]_vars

\* Every task has a core and is never starved, frames keep coming, and timers
\* expire.  Nothing makes a user speak.
Fairness ==
  /\ WF_vars(Wakeword) /\ WF_vars(PowerTimer)
  /\ WF_vars(PowerControl1) /\ WF_vars(PowerControl0) /\ WF_vars(Led)
  /\ WF_vars(IntentTimer) /\ WF_vars(Engine) /\ WF_vars(Handler)

FairSpec == Spec /\ Fairness

-----------------------------------------------------------------------------
TypeOK ==
  /\ power_state \in {"LOW", "FULL"} /\ low_power_halt \in BOOLEAN
  /\ expired \in BOOLEAN /\ lp_exit \in BOOLEAN /\ response \in Response
  /\ pc1 \in {"request", "read_halt", "read_expired", "respond", "ready", "low", "full", "locked"}
  /\ audio \in {"listen", "set", "output", "push"}
  /\ to0 \in {<<>>, <<"ACK">>, <<"NAK">>, <<"HALT">>, <<"FULL">>}
  /\ to1 \in {<<>>, <<"LOW">>, <<"READY">>}
  /\ slow \in BOOLEAN /\ stream \in 0 .. StreamLen
  /\ pc0 \in {"request", "response", "asleep", "lock", "low", "awake", "locked"}
  /\ notif \in SUBSET {"ENTER", "IND"} /\ led \in SUBSET {"ASLEEP", "AWAKE"}
  /\ locked \in BOOLEAN
  /\ engine \in {"timeout", "power", "drain", "receive", "process", "queue"}
  /\ intent_power_state \in {"REQUESTING", "ENTERING", "ENTERED", "EXITING", "EXITED"}
  /\ requested_full_power \in BOOLEAN /\ asr_halted \in BOOLEAN /\ run_asr \in BOOLEAN
  /\ timeout_event \in BOOLEAN /\ timer \in {"off", "fresh", "on"}
  /\ q_intent \in 0 .. QueueLen /\ keyword_proc_busy \in BOOLEAN
  /\ handler \in {"idle", "take_lock", "send", "count", "complete"}
  /\ late_command \in BOOLEAN

Finds(channel, expected) == channel # <<>> => Head(channel) \in expected

\* The configASSERTs of both tasks: whenever one is about to take a notification
\* or a message, it is the one that this phase of the handshake expects.  Only the
\* intent timer of a late command can break one: it asks for low power in the sleep.
AssertionsHold ==
  /\ pc0 = "request" => notif \subseteq {"ENTER"}
  /\ ~late_command /\ pc0 \in {"asleep", "awake"} => notif \subseteq {"IND"}
  /\ pc0 = "response" => Finds(to0, Response)
  /\ pc0 = "low" => Finds(to0, {"FULL"})
  /\ pc1 = "request" => Finds(to1, {"LOW"})
  /\ pc1 = "ready" => Finds(to1, {"READY"})

\* Tile 0 is slowed down only when both sides have agreed and prepared: its
\* drivers are locked, no transfer is under way, its power task waits for the return
\* to full power and, but for a late command, its engine has left normal operation.
SleepIsPrepared ==
  slow =>
    /\ power_state = "LOW" /\ pc1 = "low"
    /\ pc0 = "low" /\ locked /\ handler # "send"
    /\ late_command \/ intent_power_state \in {"ENTERING", "ENTERED"}

\* As long as no command has come late, the engine is not left without an answer:
\* whenever it waits for a decision, or sleeps, the request is in the hands of a
\* power task that runs, or the answer or the wake-up is on its way.  Only an engine
\* whose evaluation is over asks a task that has ended, and waits for ever.
EngineIsAnswered ==
  ~late_command =>
    /\ intent_power_state = "REQUESTING" =>
         \/ timeout_event \/ requested_full_power
         \/ pc0 = "request" /\ "ENTER" \in notif
         \/ pc0 = "response"
         \/ pc0 = "locked" /\ ~run_asr
    /\ intent_power_state \in {"ENTERING", "ENTERED"} =>
         pc0 \in {"asleep", "lock", "low", "awake"} \/ requested_full_power

\* ... and no answer is left over, which would call off the next request at once
\* while the other tile goes on with it.
NoStaleAnswer ==
  ~late_command /\ requested_full_power =>
    intent_power_state \notin {"EXITING", "EXITED"}

\* "When the small wake word model recognizes a wake word utterance, the device
\* transitions to full power": in low power with no exit signalled, the timer that
\* the last wakeword started has run out since.
NoLostWakeword ==
  power_state = "LOW" /\ pc1 \in {"ready", "low"} /\ audio # "set" /\ ~lp_exit =>
    expired

\* A wakeword heard in low power ends with the engine in normal operation, the
\* clocks restored and the drivers free, unless a command comes late.
WakesUp ==
  power_state = "LOW" /\ lp_exit ~>
    late_command \/ (intent_power_state = "EXITED" /\ ~slow /\ ~locked)

\* "When halted, the system remains in full power mode", unless a command comes late.
StaysAwake ==
  low_power_halt ~> [](late_command \/ (power_state = "FULL" /\ ~slow))

-----------------------------------------------------------------------------
(***************************************************************************)
(* Why the safety properties hold: what is true between the steps.         *)
(***************************************************************************)
\* Where tile 1 and the channels may be for each place of tile 0.
Away == pc1 \in {"request", "full"}
HandshakeInv ==
  /\ pc0 \in {"request", "awake"} => to0 = <<>> /\ to1 = <<>> /\ Away
  /\ pc0 = "response" =>
       \/ to0 = <<>> /\ to1 = <<"LOW">> /\ Away
       \/ to0 = <<>> /\ to1 = <<>> /\ pc1 \in {"read_halt", "read_expired", "respond"}
       \/ to0 = <<"ACK">> /\ to1 = <<>> /\ pc1 = "ready"
       \/ to0 = <<"NAK">> /\ to1 = <<>> /\ pc1 = "request"
       \/ to0 = <<"HALT">> /\ to1 = <<>> /\ pc1 = "locked"
  /\ pc0 \in {"asleep", "lock"} => to0 = <<>> /\ to1 = <<>> /\ pc1 = "ready"
  /\ pc0 = "low" =>
       \/ to0 = <<>> /\ to1 = <<"READY">> /\ pc1 = "ready"
       \/ to0 = <<>> /\ to1 = <<>> /\ pc1 = "low"
       \/ to0 = <<"FULL">> /\ to1 = <<>> /\ Away
  /\ pc0 = "locked" => to0 = <<>> /\ to1 = <<>> /\ pc1 = "locked"
  /\ slow <=> pc1 = "low"
  /\ power_state = "LOW" <=> pc1 \in {"ready", "low", "full"}
  /\ locked <=> pc0 = "low"
  /\ locked => handler # "send"

\* An indication is under way or acknowledged exactly when it is awaited.
LedInv ==
  /\ pc0 \in {"asleep", "awake"} <=> led # {} \/ "IND" \in notif
  /\ ~(led # {} /\ "IND" \in notif)

\* Until a command comes late, the engine's request, its answer and its timer exclude
\* one another, and a halted engine ends its evaluation before it asks again.
AtRest == pc0 \in {"request", "locked"} /\ "ENTER" \notin notif
EngineInv ==
  /\ ~late_command
  /\ timeout_event \/ requested_full_power \/ "ENTER" \in notif => timer = "off"
  /\ timer # "off" => intent_power_state = "EXITED"
  /\ timeout_event => intent_power_state \in {"REQUESTING", "EXITED"} /\ AtRest
  /\ timeout_event /\ intent_power_state = "REQUESTING" => ~keyword_proc_busy
  /\ requested_full_power =>
       /\ intent_power_state \in {"REQUESTING", "ENTERING", "ENTERED"}
       /\ AtRest /\ ~timeout_event
  /\ "ENTER" \in notif =>
       intent_power_state = "REQUESTING" /\ pc0 \in {"request", "locked"}
  /\ intent_power_state \in {"EXITING", "EXITED"} => AtRest
  /\ pc0 = "response" => intent_power_state = "REQUESTING"
  /\ pc0 \in {"asleep", "lock", "low", "awake"} =>
       intent_power_state \in {"ENTERING", "ENTERED"}
  /\ engine = "drain" => intent_power_state = "ENTERING"
  /\ engine \in {"receive", "process"} => intent_power_state \in {"ENTERED", "EXITED"}
  /\ engine = "queue" => intent_power_state = "EXITED"
  /\ pc0 = "locked" /\ run_asr =>
       /\ asr_halted
       /\ \/ intent_power_state = "REQUESTING" /\ requested_full_power
          \/ intent_power_state = "EXITING"
          \/ intent_power_state = "EXITED" /\ engine \in {"receive", "process"}
  /\ EngineIsAnswered

CoreInv == TypeOK /\ HandshakeInv /\ LedInv
LowPowerInv == TypeOK /\ HandshakeInv /\ LedInv /\ EngineInv
=============================================================================
