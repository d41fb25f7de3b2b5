--------------------------- MODULE LowPowerProofs ---------------------------
(***************************************************************************)
(* Theorems about LowPower, for queues and stream buffers of every size.   *)
(***************************************************************************)
EXTENDS LowPower, TLAPS

\* A channel of one message.
LEMMA OneMessage ==
  \A m : /\ Append(<<>>, m) = <<m>> /\ <<m>> # <<>>
        /\ Head(<<m>>) = m /\ Tail(<<m>>) = <<>>
  OBVIOUS

\* What every step keeps: the handshake in any case, and what is true of the engine
\* until a command comes late.
Kept == CoreInv' /\ (EngineInv /\ ~late_command' => EngineInv')

LEMMA InitHolds == Init => LowPowerInv
<1>. SUFFICES ASSUME Init PROVE LowPowerInv
  OBVIOUS
<1>1. TypeOK
  <2>1. stream \in 0 .. StreamLen /\ q_intent \in 0 .. QueueLen
    BY LowPowerAssumption DEF Init
  <2>. QED  BY <2>1, Zenon DEF Init, TypeOK, Response
<1>2. HandshakeInv
  BY DEF Init, HandshakeInv, Away
<1>3. LedInv
  BY DEF Init, LedInv
<1>4. EngineInv
  BY DEF Init, EngineInv, EngineIsAnswered, AtRest
<1>. QED  BY <1>1, <1>2, <1>3, <1>4 DEF LowPowerInv

-----------------------------------------------------------------------------
(***************************************************************************)
(* Tile 1.                                                                 *)
(***************************************************************************)
LEMMA HandshakeKept ==
  ASSUME HandshakeInv,
         UNCHANGED <<pc0, pc1, to0, to1, slow, power_state, locked, handler>>
  PROVE  HandshakeInv'
  BY DEF HandshakeInv, Away

LEMMA LedKept == ASSUME LedInv, UNCHANGED <<pc0, led, notif>> PROVE LedInv'
  BY DEF LedInv

LEMMA EngineKept ==
  ASSUME EngineInv, UNCHANGED <<pc0, notif, engine, phase, timing, late_command>>,
         keyword_proc_busy' => keyword_proc_busy
  PROVE  EngineInv'
  BY DEF EngineInv, EngineIsAnswered, AtRest, phase, timing

LEMMA WakewordKeeps == ASSUME CoreInv, Wakeword \/ PowerTimer PROVE Kept
<1>1. UNCHANGED <<to0, to1, slow, control, engine, phase, timing, keyword,
                  power_state, pc1, response, late_command>>
  BY DEF Wakeword, PowerTimer, HearNothing, HearWakeword, HearEndOfEvaluation,
         SetPowerState, RouteFrame, PushFrame, PowerTimerExpires
<1>2. TypeOK'
  <2>1. /\ stream' \in 0 .. StreamLen
        /\ audio' \in {"listen", "set", "output", "push"}
    BY LowPowerAssumption
       DEF CoreInv, TypeOK, Wakeword, PowerTimer, HearNothing, HearWakeword,
           HearEndOfEvaluation, SetPowerState, RouteFrame, PushFrame, PowerTimerExpires
  <2>2. low_power_halt' \in BOOLEAN /\ expired' \in BOOLEAN
    BY DEF CoreInv, TypeOK, Wakeword, PowerTimer, HearNothing, HearWakeword,
           HearEndOfEvaluation, SetPowerState, RouteFrame, PushFrame, PowerTimerExpires
  <2>3. lp_exit' \in BOOLEAN
    BY Zenon
       DEF CoreInv, TypeOK, Wakeword, PowerTimer, HearNothing, HearWakeword,
           HearEndOfEvaluation, SetPowerState, RouteFrame, PushFrame, PowerTimerExpires
  <2>. QED
    BY <1>1, <2>1, <2>2, <2>3 DEF Kept, CoreInv, TypeOK, control, phase, timing, keyword
<1>3. HandshakeInv'
  BY <1>1, HandshakeKept DEF CoreInv, control, keyword
<1>4. LedInv' /\ (EngineInv => EngineInv')
  BY <1>1, LedKept, EngineKept DEF CoreInv, control, keyword
<1>. QED  BY <1>2, <1>3, <1>4 DEF Kept, CoreInv

LEMMA PowerControl1Keeps == ASSUME CoreInv, PowerControl1 PROVE Kept
<1>1. UNCHANGED <<low_power_halt, expired, audio, stream, control, engine, phase,
                  timing, keyword, late_command>>
  BY DEF PowerControl1
<1>2. LedInv' /\ (EngineInv => EngineInv')
  BY <1>1, LedKept, EngineKept DEF CoreInv, control, keyword
<1>3. TypeOK' /\ HandshakeInv'
  <2>1. TypeOK /\ HandshakeInv
    BY DEF CoreInv
  <2>2. UNCHANGED <<pc0, locked, handler>>
    BY <1>1 DEF control, keyword
  <2>3. ASSUME /\ power_state' \in {"LOW", "FULL"} /\ lp_exit' \in BOOLEAN
               /\ response' \in Response /\ slow' \in BOOLEAN
               /\ pc1' \in {"request", "read_halt", "read_expired", "respond", "ready",
                            "low", "full", "locked"}
               /\ to0' \in {<<>>, <<"ACK">>, <<"NAK">>, <<"HALT">>, <<"FULL">>}
               /\ to1' \in {<<>>, <<"LOW">>, <<"READY">>}
        PROVE  TypeOK'
    BY <1>1, <2>1, <2>3 DEF TypeOK, control, phase, timing, keyword
  <2>4. CASE AwaitRequest
    <3>1. pc0 = "response" /\ to0 = <<>> /\ to1 = <<"LOW">>
      BY <2>1, <2>4 DEF AwaitRequest, TypeOK, HandshakeInv, Away
    <3>2. to1' = <<>> /\ UNCHANGED to0 /\ pc1' = "read_halt"
      BY <2>4, <3>1, OneMessage DEF AwaitRequest
    <3>. QED
      BY <2>1, <2>2, <2>3, <2>4, <3>1, <3>2 DEF AwaitRequest, TypeOK, HandshakeInv, Away
  <2>5. CASE ReadHalt \/ ReadExpired
    BY <2>1, <2>2, <2>3, <2>5
       DEF ReadHalt, ReadExpired, TypeOK, Response, HandshakeInv, Away
  <2>6. CASE Respond
    <3>1. pc0 = "response" /\ to0 = <<>> /\ to1 = <<>>
      BY <2>1, <2>6 DEF Respond, TypeOK, HandshakeInv, Away
    <3>2. to0' = <<response>> /\ UNCHANGED to1
      BY <2>6, <3>1, OneMessage DEF Respond
    <3>. QED
      BY <2>1, <2>2, <2>3, <2>6, <3>1, <3>2
         DEF Respond, TypeOK, Response, HandshakeInv, Away
  <2>7. CASE EnterLowPower
    <3>1. pc0 = "low" /\ to0 = <<>> /\ to1 = <<"READY">>
      BY <2>1, <2>7 DEF EnterLowPower, TypeOK, HandshakeInv, Away
    <3>2. to1' = <<>> /\ UNCHANGED to0
      BY <2>7, <3>1, OneMessage DEF EnterLowPower
    <3>. QED
      BY <2>1, <2>2, <2>3, <2>7, <3>1, <3>2 DEF EnterLowPower, TypeOK, HandshakeInv, Away
  <2>8. CASE ExitLowPower
    <3>1. pc0 = "low" /\ to0 = <<>> /\ to1 = <<>>
      BY <2>1, <2>8 DEF ExitLowPower, TypeOK, HandshakeInv, Away
    <3>2. to0' = <<"FULL">> /\ UNCHANGED to1
      BY <2>8, <3>1, OneMessage DEF ExitLowPower
    <3>. QED
      BY <2>1, <2>2, <2>3, <2>8, <3>1, <3>2 DEF ExitLowPower, TypeOK, HandshakeInv, Away
  <2>9. CASE EnterFullPower
    BY <2>1, <2>2, <2>3, <2>9 DEF EnterFullPower, TypeOK, HandshakeInv, Away
  <2>. QED
    BY <2>4, <2>5, <2>6, <2>7, <2>8, <2>9 DEF PowerControl1
<1>. QED  BY <1>2, <1>3 DEF Kept, CoreInv

-----------------------------------------------------------------------------
(***************************************************************************)
(* Tile 0: power control and the indications.                              *)
(***************************************************************************)
LEMMA PowerControl0Keeps == ASSUME CoreInv, PowerControl0 PROVE Kept
<1>1. UNCHANGED <<tile1, slow, stream, engine, timing, keyword, late_command>>
  BY DEF PowerControl0
<1>2. TypeOK /\ HandshakeInv /\ LedInv
  BY DEF CoreInv
<1>3. UNCHANGED <<pc1, power_state, handler, timeout_event, timer, keyword_proc_busy>>
  BY <1>1 DEF tile1, timing, keyword
<1>4. ASSUME /\ to0' \in {<<>>, <<"ACK">>, <<"NAK">>, <<"HALT">>, <<"FULL">>}
             /\ to1' \in {<<>>, <<"LOW">>, <<"READY">>}
             /\ pc0' \in {"request", "response", "asleep", "lock", "low", "awake",
                          "locked"}
             /\ notif' \in SUBSET {"ENTER", "IND"} /\ led' \in SUBSET {"ASLEEP", "AWAKE"}
             /\ locked' \in BOOLEAN
             /\ intent_power_state' \in {"REQUESTING", "ENTERING", "ENTERED",
                                         "EXITING", "EXITED"}
             /\ requested_full_power' \in BOOLEAN /\ asr_halted' \in BOOLEAN
             /\ run_asr' = run_asr
      PROVE  TypeOK'
  BY <1>1, <1>2, <1>4 DEF TypeOK, tile1, timing, keyword
<1>5. CASE RequestLowPower
  <2>1. TypeOK' /\ HandshakeInv'
    BY <1>2, <1>1, <1>3, <1>4, <1>5
       DEF RequestLowPower, TypeOK, HandshakeInv, Away, phase
  <2>2. LedInv' /\ (EngineInv => EngineInv')
    BY <1>2, <1>1, <1>3, <1>5
       DEF RequestLowPower, TypeOK, LedInv, EngineInv, EngineIsAnswered, AtRest, phase
  <2>. QED  BY <2>1, <2>2 DEF Kept, CoreInv
<1>6. CASE Accepted
  <2>1. TypeOK' /\ HandshakeInv'
    <3>1. to0 = <<"ACK">> /\ to1 = <<>> /\ pc1 = "ready"
      BY <1>2, <1>6, OneMessage DEF Accepted, TypeOK, HandshakeInv, Away
    <3>2. to0' = <<>> /\ UNCHANGED to1
      BY <1>6, <3>1, OneMessage DEF Accepted
    <3>. QED
      BY <1>2, <1>1, <1>3, <1>4, <1>6, <3>1, <3>2
         DEF Accepted, TypeOK, HandshakeInv, Away
  <2>2. LedInv' /\ (EngineInv => EngineInv')
    BY <1>2, <1>1, <1>3, <1>6
       DEF Accepted, TypeOK, LedInv, EngineInv, EngineIsAnswered, AtRest
  <2>. QED  BY <2>1, <2>2 DEF Kept, CoreInv
<1>7. CASE Rejected \/ Halted
  <2>1. TypeOK' /\ HandshakeInv'
    <3>1. /\ to1 = <<>>
          /\ Rejected => to0 = <<"NAK">> /\ pc1 = "request"
          /\ Halted => to0 = <<"HALT">> /\ pc1 = "locked"
      BY <1>2, <1>7, OneMessage DEF Rejected, Halted, TypeOK, HandshakeInv, Away
    <3>2. to0' = <<>> /\ UNCHANGED to1
      BY <1>7, <3>1, OneMessage DEF Rejected, Halted
    <3>. QED
      BY <1>2, <1>1, <1>3, <1>4, <1>7, <3>1, <3>2
         DEF Rejected, Halted, TypeOK, HandshakeInv, Away
  <2>2. LedInv' /\ (EngineInv => EngineInv')
    BY <1>2, <1>1, <1>3, <1>7
       DEF Rejected, Halted, TypeOK, LedInv, EngineInv, EngineIsAnswered, AtRest
  <2>. QED  BY <2>1, <2>2 DEF Kept, CoreInv
<1>8. CASE IndicatedAsleep
  <2>1. TypeOK' /\ HandshakeInv'
    BY <1>2, <1>1, <1>3, <1>4, <1>8
       DEF IndicatedAsleep, TypeOK, HandshakeInv, Away, phase
  <2>2. LedInv' /\ (EngineInv => EngineInv')
    BY <1>2, <1>1, <1>3, <1>8
       DEF IndicatedAsleep, TypeOK, LedInv, EngineInv, EngineIsAnswered, AtRest, phase
  <2>. QED  BY <2>1, <2>2 DEF Kept, CoreInv
<1>9. CASE LockDrivers
  <2>1. TypeOK' /\ HandshakeInv'
    BY <1>2, <1>1, <1>3, <1>4, <1>9
       DEF LockDrivers, TypeOK, HandshakeInv, Away, phase
  <2>2. LedInv' /\ (EngineInv => EngineInv')
    BY <1>2, <1>1, <1>3, <1>9
       DEF LockDrivers, TypeOK, LedInv, EngineInv, EngineIsAnswered, AtRest, phase
  <2>. QED  BY <2>1, <2>2 DEF Kept, CoreInv
<1>10. CASE ReturnToFullPower
  <2>1. TypeOK' /\ HandshakeInv'
    <3>1. to0 = <<"FULL">> /\ to1 = <<>> /\ Away
      BY <1>2, <1>10 DEF ReturnToFullPower, TypeOK, HandshakeInv, Away
    <3>2. to0' = <<>> /\ UNCHANGED to1
      BY <1>10, <3>1, OneMessage DEF ReturnToFullPower
    <3>. QED
      BY <1>2, <1>1, <1>3, <1>4, <1>10, <3>1, <3>2
         DEF ReturnToFullPower, TypeOK, HandshakeInv, Away, phase
  <2>2. LedInv' /\ (EngineInv => EngineInv')
    BY <1>2, <1>1, <1>3, <1>10
       DEF ReturnToFullPower, TypeOK, LedInv, EngineInv, EngineIsAnswered, AtRest, phase
  <2>. QED  BY <2>1, <2>2 DEF Kept, CoreInv
<1>11. CASE IndicatedAwake
  <2>1. TypeOK' /\ HandshakeInv'
    BY <1>2, <1>1, <1>3, <1>4, <1>11
       DEF IndicatedAwake, TypeOK, HandshakeInv, Away
  <2>2. LedInv' /\ (EngineInv => EngineInv')
    BY <1>2, <1>1, <1>3, <1>11
       DEF IndicatedAwake, TypeOK, LedInv, EngineInv, EngineIsAnswered, AtRest
  <2>. QED  BY <2>1, <2>2 DEF Kept, CoreInv
<1>. QED
  BY <1>5, <1>6, <1>7, <1>8, <1>9, <1>10, <1>11 DEF PowerControl0

LEMMA LedKeeps == ASSUME CoreInv, Led PROVE Kept
<1>1. TypeOK /\ HandshakeInv /\ LedInv
  BY DEF CoreInv
<1>2. /\ led # {} /\ led' = {} /\ notif' = notif \cup {"IND"}
      /\ UNCHANGED <<to0, to1, pc0, locked, phase, tile1, slow, stream, engine,
                     timing, keyword, late_command>>
  BY DEF Led, Indicate
<1>3. TypeOK'
  BY <1>1, <1>2 DEF TypeOK, phase, tile1, timing, keyword
<1>4. HandshakeInv'
  BY <1>1, <1>2, HandshakeKept DEF tile1, keyword
<1>5. LedInv' /\ (EngineInv => EngineInv')
  BY <1>1, <1>2
     DEF LedInv, EngineInv, EngineIsAnswered, AtRest, phase, timing, keyword
<1>. QED  BY <1>3, <1>4, <1>5 DEF Kept, CoreInv

-----------------------------------------------------------------------------
(***************************************************************************)
(* Tile 0: the engine, its timer and the keyword handler.                  *)
(***************************************************************************)
LEMMA IntentTimerKeeps == ASSUME CoreInv, IntentTimer PROVE Kept
<1>1. TypeOK /\ HandshakeInv /\ LedInv
  BY DEF CoreInv
<1>2. TypeOK'
  BY <1>1 DEF IntentTimer, TypeOK, phase, tile1, control, keyword
<1>3. HandshakeInv' /\ LedInv'
  BY <1>1, HandshakeKept, LedKept DEF IntentTimer, tile1, control, keyword
<1>4. EngineInv => EngineInv'
  BY <1>1 DEF IntentTimer, EngineInv, EngineIsAnswered, AtRest, TypeOK, control, phase,
                  keyword
<1>. QED  BY <1>2, <1>3, <1>4 DEF Kept, CoreInv

LEMMA EngineKeeps == ASSUME CoreInv, Engine PROVE Kept
<1>1. TypeOK /\ HandshakeInv /\ LedInv
  BY DEF CoreInv
<1>2. UNCHANGED <<tile1, to0, to1, slow, pc0, locked, led>> /\ UNCHANGED handler
  BY DEF Engine, NoTimeout, AskForLowPower, HoldFullPower, AwaitDecision, AbortRequest,
         ResetStream, KeywordsDone, LeaveLowPower, FinishExit, Awake, ReceiveFrame,
         EndOfEvaluation, NoCommand, Command, QueueKeyword, keyword
<1>3. HandshakeInv'
  BY <1>1, <1>2, HandshakeKept DEF tile1
<1>4. notif' = notif \/ AskForLowPower
  BY DEF Engine, NoTimeout, HoldFullPower, AwaitDecision, AbortRequest,
         ResetStream, KeywordsDone, LeaveLowPower, FinishExit, Awake, ReceiveFrame,
         EndOfEvaluation, NoCommand, Command, QueueKeyword
<1>5. LedInv'
  BY <1>1, <1>2, <1>4 DEF LedInv, AskForLowPower
<1>6. TypeOK'
  <2>1. stream' \in 0 .. StreamLen /\ q_intent' \in 0 .. QueueLen
    BY <1>1, LowPowerAssumption
       DEF TypeOK, Engine, NoTimeout, AskForLowPower, HoldFullPower, AwaitDecision,
           AbortRequest, ResetStream, KeywordsDone, LeaveLowPower, FinishExit, Awake,
           ReceiveFrame, EndOfEvaluation, NoCommand, Command, QueueKeyword, keyword
  <2>2. notif' \in SUBSET {"ENTER", "IND"}
    BY <1>1, <1>4 DEF TypeOK, AskForLowPower
  <2>3. engine' \in {"timeout", "power", "drain", "receive", "process", "queue"}
    BY DEF Engine, NoTimeout, AskForLowPower, HoldFullPower, AwaitDecision,
           AbortRequest, ResetStream, KeywordsDone, LeaveLowPower, FinishExit, Awake,
           ReceiveFrame, EndOfEvaluation, NoCommand, Command, QueueKeyword
  <2>4. intent_power_state' \in {"REQUESTING", "ENTERING", "ENTERED", "EXITING", "EXITED"}
    BY <1>1
       DEF TypeOK, Engine, NoTimeout, AskForLowPower, HoldFullPower, AwaitDecision,
           AbortRequest, ResetStream, KeywordsDone, LeaveLowPower, FinishExit, Awake,
           ReceiveFrame, EndOfEvaluation, NoCommand, Command, QueueKeyword,
           phase
  <2>5. requested_full_power' \in BOOLEAN /\ asr_halted' \in BOOLEAN /\ run_asr' \in BOOLEAN
    BY <1>1
       DEF TypeOK, Engine, NoTimeout, AskForLowPower, HoldFullPower, AwaitDecision,
           AbortRequest, ResetStream, KeywordsDone, LeaveLowPower, FinishExit, Awake,
           ReceiveFrame, EndOfEvaluation, NoCommand, Command, QueueKeyword,
           phase
  <2>6. timeout_event' \in BOOLEAN /\ timer' \in {"off", "fresh", "on"}
    BY <1>1
       DEF TypeOK, Engine, NoTimeout, AskForLowPower, HoldFullPower, AwaitDecision,
           AbortRequest, ResetStream, KeywordsDone, LeaveLowPower, FinishExit, Awake,
           ReceiveFrame, EndOfEvaluation, NoCommand, Command, QueueKeyword,
           Hold, Age, timing
  <2>7. keyword_proc_busy' \in BOOLEAN
    BY <1>1
       DEF TypeOK, Engine, NoTimeout, AskForLowPower, HoldFullPower, AwaitDecision,
           AbortRequest, ResetStream, KeywordsDone, LeaveLowPower, FinishExit, Awake,
           ReceiveFrame, EndOfEvaluation, NoCommand, Command, QueueKeyword,
           keyword
  <2>8. late_command' \in BOOLEAN
    BY <1>1, Zenon DEF TypeOK, Engine
  <2>. QED
    BY <1>1, <1>2, <2>1, <2>2, <2>3, <2>4, <2>5, <2>6, <2>7, <2>8 DEF TypeOK, tile1
<1>7. ASSUME EngineInv, ~late_command' PROVE EngineInv'
  <2>1. CASE NoTimeout
    BY <1>1, <1>2, <1>7, <2>1
       DEF NoTimeout, EngineInv, EngineIsAnswered, AtRest, TypeOK, phase, timing,
           keyword
  <2>2. CASE HoldFullPower
    BY <1>1, <1>2, <1>7, <2>2
       DEF HoldFullPower, Hold, EngineInv, EngineIsAnswered, AtRest, TypeOK, phase,
           keyword
  <2>3. CASE AskForLowPower
    BY <1>1, <1>2, <1>7, <2>3
       DEF AskForLowPower, EngineInv, EngineIsAnswered, AtRest, TypeOK, keyword
  <2>4. CASE AwaitDecision \/ Awake \/ ResetStream
    BY <1>1, <1>2, <1>7, <2>4
       DEF AwaitDecision, Age, Awake, ResetStream, EngineInv, EngineIsAnswered, AtRest,
           TypeOK, phase, timing,
           keyword
  <2>5. CASE AbortRequest \/ LeaveLowPower \/ KeywordsDone
    BY <1>1, <1>2, <1>7, <2>5
       DEF AbortRequest, LeaveLowPower, KeywordsDone, EngineInv, EngineIsAnswered,
           AtRest, TypeOK, timing, keyword
  <2>6. CASE FinishExit
    BY <1>1, <1>2, <1>7, <2>6
       DEF FinishExit, Hold, EngineInv, EngineIsAnswered, AtRest, TypeOK, keyword
  <2>7. CASE ReceiveFrame \/ EndOfEvaluation \/ NoCommand \/ QueueKeyword
    BY <1>1, <1>2, <1>7, <2>7
       DEF ReceiveFrame, Age, EndOfEvaluation, NoCommand, QueueKeyword, EngineInv,
           EngineIsAnswered, AtRest, TypeOK, phase, timing,
           keyword
  <2>8. CASE Command
    BY <1>1, <1>2, <1>7, <2>8
       DEF Engine, Command, CommandIsLate, Hold, EngineInv, EngineIsAnswered, AtRest, TypeOK,
           phase, keyword
  <2>. QED
    BY <2>1, <2>2, <2>3, <2>4, <2>5, <2>6, <2>7, <2>8 DEF Engine
<1>. QED  BY <1>3, <1>5, <1>6, <1>7 DEF Kept, CoreInv

LEMMA HandlerKeeps == ASSUME CoreInv, Handler PROVE Kept
<1>1. TypeOK /\ HandshakeInv /\ LedInv
  BY DEF CoreInv
<1>2. UNCHANGED <<tile1, to0, to1, slow, stream, control, engine, phase, timing,
                  late_command>>
  BY DEF Handler
<1>3. TypeOK'
  <2>1. q_intent' \in 0 .. QueueLen
    BY <1>1, LowPowerAssumption
       DEF TypeOK, Handler, ReceiveKeyword, SendKeyword, KeywordSent, CountKeywords,
           CompleteKeyword
  <2>2. /\ keyword_proc_busy' \in BOOLEAN
        /\ handler' \in {"idle", "take_lock", "send", "count", "complete"}
    BY <1>1
       DEF TypeOK, Handler, ReceiveKeyword, SendKeyword, KeywordSent, CountKeywords,
           CompleteKeyword
  <2>. QED  BY <1>1, <1>2, <2>1, <2>2 DEF TypeOK, tile1, control, phase, timing
<1>4. HandshakeInv'
  <2>1. locked => handler' # "send"
    BY <1>1 DEF HandshakeInv, Handler, ReceiveKeyword, SendKeyword, KeywordSent,
                CountKeywords, CompleteKeyword
  <2>. QED  BY <1>1, <1>2, <2>1 DEF HandshakeInv, Away, tile1, control
<1>5. LedInv' /\ (EngineInv => EngineInv')
  <2>1. keyword_proc_busy' => keyword_proc_busy
    BY DEF Handler, ReceiveKeyword, SendKeyword, KeywordSent, CountKeywords,
           CompleteKeyword
  <2>. QED  BY <1>1, <1>2, <2>1, LedKept, EngineKept DEF control
<1>. QED  BY <1>3, <1>4, <1>5 DEF Kept, CoreInv

-----------------------------------------------------------------------------
LEMMA StepsKeep == ASSUME CoreInv, [Next]_vars PROVE Kept
<1>1. CASE Next
  BY <1>1, WakewordKeeps, PowerControl1Keeps, PowerControl0Keeps, LedKeeps,
     IntentTimerKeeps, EngineKeeps, HandlerKeeps DEF Next
<1>2. CASE UNCHANGED vars
  <2>1. UNCHANGED <<tile1, to0, to1, slow, stream, control, engine, phase, timing,
                    keyword, late_command>>
    BY <1>2 DEF vars
  <2>2. TypeOK'
    BY <1>2, <2>1 DEF CoreInv, TypeOK, tile1, control, phase, timing, keyword
  <2>. QED
    BY <1>2, <2>1, <2>2, HandshakeKept, LedKept, EngineKept
       DEF Kept, CoreInv, tile1, control, keyword
<1>. QED  BY <1>1, <1>2

LEMMA CoreHolds == Spec => []CoreInv
<1>1. Init => CoreInv
  BY InitHolds DEF LowPowerInv, CoreInv
<1>2. CoreInv /\ [Next]_vars => CoreInv'
  BY StepsKeep DEF Kept
<1>. QED  BY <1>1, <1>2, PTL DEF Spec

\* A late command stays one.
LEMMA StaysLate ==
  ASSUME CoreInv, [Next]_vars, late_command PROVE late_command'
  BY Zenon DEF Next, Wakeword, PushFrame, PowerTimer, PowerControl1, PowerControl0, Led,
         IntentTimer, Engine, Handler, vars

LEMMA InvariantHolds == Spec => [](late_command \/ LowPowerInv)
<1>1. Init => late_command \/ LowPowerInv
  BY InitHolds
<1>2. CoreInv /\ (late_command \/ LowPowerInv) /\ [Next]_vars
        => late_command' \/ LowPowerInv'
  BY StepsKeep, StaysLate DEF Kept, CoreInv, LowPowerInv
<1>. QED  BY <1>1, <1>2, CoreHolds, PTL DEF Spec

\* No configASSERT of the handshake fails: no notification is merged with another or
\* left over, and no message is one the phase does not expect; but for the indications,
\* which the question of a late command may join.
THEOREM HandshakeAssertions == Spec => []AssertionsHold
<1>1. CoreInv /\ (late_command \/ LowPowerInv) => AssertionsHold
  <2>. SUFFICES ASSUME CoreInv, late_command \/ LowPowerInv PROVE AssertionsHold
    OBVIOUS
  <2>1. pc0 = "request" => notif \subseteq {"ENTER"}
    BY DEF CoreInv, TypeOK, LedInv
  <2>2. ~late_command /\ pc0 \in {"asleep", "awake"} => notif \subseteq {"IND"}
    BY DEF LowPowerInv, TypeOK, LedInv, EngineInv
  <2>3. /\ pc0 = "response" => Finds(to0, Response)
        /\ pc0 = "low" => Finds(to0, {"FULL"})
    BY DEF CoreInv, HandshakeInv, Finds, Response
  <2>4. /\ pc1 = "request" => Finds(to1, {"LOW"})
        /\ pc1 = "ready" => Finds(to1, {"READY"})
    BY DEF CoreInv, TypeOK, HandshakeInv, Away, Finds
  <2>. QED  BY <2>1, <2>2, <2>3, <2>4 DEF AssertionsHold
<1>. QED  BY CoreHolds, InvariantHolds, <1>1, PTL

\* The clock of tile 0 is divided only while both tiles are prepared for it; what the
\* engine is doing then is known unless a command came late.
THEOREM SleepOnlyPrepared == Spec => []SleepIsPrepared
<1>1. CoreInv => (slow => /\ power_state = "LOW" /\ pc1 = "low" /\ pc0 = "low"
                          /\ locked /\ handler # "send")
  BY DEF CoreInv, TypeOK, HandshakeInv, Away
<1>2. late_command \/ LowPowerInv =>
        (slow => late_command \/ intent_power_state \in {"ENTERING", "ENTERED"})
  BY DEF LowPowerInv, TypeOK, HandshakeInv, EngineInv, Away
<1>3. CoreInv /\ (late_command \/ LowPowerInv) => SleepIsPrepared
  BY <1>1, <1>2 DEF SleepIsPrepared
<1>. QED  BY CoreHolds, InvariantHolds, <1>3, PTL

\* Until a command comes late the engine never waits for a decision, or sleeps, with
\* nobody left to answer it, unless its evaluation is over.
THEOREM EveryRequestAnswered == Spec => []EngineIsAnswered
<1>1. late_command \/ LowPowerInv => EngineIsAnswered
  BY DEF LowPowerInv, EngineInv, EngineIsAnswered
<1>. QED  BY InvariantHolds, <1>1, PTL

\* Until a command comes late no answer outlives the request it was for.
THEOREM AnswersAreConsumed == Spec => []NoStaleAnswer
<1>1. late_command \/ LowPowerInv => NoStaleAnswer
  BY DEF LowPowerInv, EngineInv, NoStaleAnswer
<1>. QED  BY InvariantHolds, <1>1, PTL

\* Every variable keeps its type: the words hold only the notifications their task
\* knows, the port one message at most in each direction, and the queue and the
\* stream buffer never more than their lengths, for every length and whatever the
\* engine recognises in the sleep.
THEOREM LowPowerTyping == Spec => []TypeOK
<1>1. CoreInv => TypeOK
  BY DEF CoreInv
<1>. QED  BY CoreHolds, <1>1, PTL

-----------------------------------------------------------------------------
(***************************************************************************)
(* What StaysAwake rests on.  Once the evaluation is over there is at most *)
(* one more sleep, the one that the power control of tile 1 had agreed to  *)
(* or was about to: a bounded number of steps ends it, some task can       *)
(* always take the next one, and there is none after it, as long as no     *)
(* command comes late.  StaysAwake adds the fairness of the scheduler.     *)
(***************************************************************************)
\* The steps that proc_keyword_res still takes for the keywords queued.
HandlerPosition == [take_lock |-> 4, send |-> 3, count |-> 2, complete |-> 1, idle |-> 0]
SendsLeft(keywords, point) == 5 * keywords + HandlerPosition[point]
MostSends == 5 * QueueLen + 4

\* The steps to the end of the sleep: from the frame that ends it, for tile 0 to get
\* ready for it, and from where tile 1 has read the halt flag as it was before.
WakeLeft == IF lp_exit THEN 2 ELSE [output |-> 5, push |-> 5, listen |-> 4, set |-> 3][audio]
ReadyLeft ==
  IF pc0 = "low" THEN 6
  ELSE IF pc0 = "lock" THEN 7 + SendsLeft(q_intent, handler)
  ELSE IF pc0 = "asleep" THEN (IF led = {} THEN 8 + MostSends ELSE 9 + MostSends)
  ELSE 10 + MostSends
HaltLeft ==
  IF pc1 = "full" THEN 1
  ELSE IF pc1 = "low" THEN WakeLeft
  ELSE IF pc1 = "ready" THEN ReadyLeft
  ELSE IF pc1 = "respond" /\ response = "ACK" THEN 11 + MostSends
  ELSE IF pc1 = "read_expired" THEN 12 + MostSends
  ELSE 0

\* Every step that the end of the sleep waits for counts, and no step takes it back.
HaltCounts ==
  \/ PowerControl1
  \/ pc1 = "low" /\ ~lp_exit /\ Wakeword
  \/ pc1 = "ready" /\ (PowerControl0 \/ Led)
  \/ pc1 = "ready" /\ pc0 = "lock" /\ Handler
HaltCountsDown ==
  low_power_halt =>
    /\ low_power_halt'
    /\ HaltLeft' <= HaltLeft
    /\ HaltCounts /\ HaltLeft # 0 => HaltLeft' < HaltLeft

\* Until then one of the tasks has what it waits for, and afterwards the device is
\* at full power.
HaltGoesOn ==
  HaltLeft # 0 =>
    \/ pc1 \in {"read_expired", "respond", "low", "full"}
    \/ pc1 = "ready" /\ pc0 = "response" /\ to0 = <<"ACK">>
    \/ pc1 = "ready" /\ pc0 = "asleep" /\ (led # {} \/ notif = {"IND"})
    \/ pc1 = "ready" /\ pc0 = "lock"
    \/ pc1 = "ready" /\ pc0 = "low" /\ to1 = <<"READY">>
HaltIsFinal == HaltLeft = 0 => power_state = "FULL" /\ ~slow

\* The order of the places on the way.
LEMMA Places ==
  ASSUME NEW m \in Nat
  PROVE  /\ 8 + m < 9 + m /\ 9 + m < 10 + m /\ 11 + m < 12 + m /\ 0 < 12 + m
         /\ \A x \in 0 .. m : 6 < 7 + x /\ 7 + x < 8 + m
         /\ \A x \in 6 .. 10 + m : x < 11 + m /\ x \in 0 .. 12 + m
         /\ \A x \in 2 .. 5 : x < 6 /\ x \in 0 .. 12 + m
         /\ 0 \in 0 .. 12 + m /\ 1 \in 0 .. 12 + m
         /\ 11 + m \in 0 .. 12 + m /\ 12 + m \in 0 .. 12 + m
  OBVIOUS

LEMMA SendsLeftBounded ==
  ASSUME NEW q \in 0 .. QueueLen,
         NEW h \in {"idle", "take_lock", "send", "count", "complete"}
  PROVE  SendsLeft(q, h) \in 0 .. MostSends
  BY LowPowerAssumption DEF SendsLeft, MostSends, HandlerPosition

LEMMA WakeTyping == TypeOK => WakeLeft \in 2 .. 5
  BY DEF TypeOK, WakeLeft

LEMMA ReadyTyping == TypeOK => ReadyLeft \in 6 .. 10 + MostSends
<1>. SUFFICES ASSUME TypeOK PROVE ReadyLeft \in 6 .. 10 + MostSends
  OBVIOUS
<1>1. SendsLeft(q_intent, handler) \in 0 .. MostSends
  BY SendsLeftBounded DEF TypeOK
<1>2. MostSends \in Nat
  BY LowPowerAssumption DEF MostSends
<1>. QED  BY <1>1, <1>2 DEF ReadyLeft

LEMMA HaltTyping == TypeOK => HaltLeft \in 0 .. 12 + MostSends
<1>1. MostSends \in Nat
  BY LowPowerAssumption DEF MostSends
<1>. QED  BY <1>1, WakeTyping, ReadyTyping, Places, Zenon DEF HaltLeft

LEMMA TypePrimed ==
  ASSUME LowPowerInv' PROVE WakeLeft' \in 2 .. 5 /\ ReadyLeft' \in 6 .. 10 + MostSends
<1>. USE DEF LowPowerInv, TypeOK
<1>1. SendsLeft(q_intent', handler') \in 0 .. MostSends
  BY SendsLeftBounded
<1>2. MostSends \in Nat
  BY LowPowerAssumption DEF MostSends
<1>3. WakeLeft' \in 2 .. 5
  BY DEF WakeLeft
<1>4. ReadyLeft' \in 6 .. 10 + MostSends
  BY <1>1, <1>2 DEF ReadyLeft, MostSends
<1>. QED  BY <1>3, <1>4

\* Tile 1.
LEMMA PowerControl1CountsDown ==
  ASSUME LowPowerInv, LowPowerInv', PowerControl1, low_power_halt
  PROVE  HaltLeft' < HaltLeft \/ (HaltLeft = 0 /\ HaltLeft' = 0)
<1>1. /\ TypeOK /\ HandshakeInv /\ MostSends \in Nat
      /\ WakeLeft' \in 2 .. 5 /\ ReadyLeft' \in 6 .. 10 + MostSends
  BY TypePrimed, LowPowerAssumption DEF LowPowerInv, MostSends
<1>2. UNCHANGED <<control, keyword>>
  BY DEF PowerControl1
<1>3. CASE AwaitRequest
  BY <1>3 DEF AwaitRequest, HaltLeft
<1>4. CASE ReadHalt
  BY <1>4 DEF ReadHalt, HaltLeft
<1>5. CASE ReadExpired
  <2>1. HaltLeft = 12 + MostSends
    BY <1>5 DEF ReadExpired, HaltLeft
  <2>2. HaltLeft' \in {0, 11 + MostSends}
    BY <1>5 DEF ReadExpired, HaltLeft, MostSends
  <2>. QED  BY <1>1, <2>1, <2>2, Places, Zenon
<1>6. CASE Respond
  <2>1. CASE response = "ACK"
    <3>1. pc1 = "respond" /\ pc1' = "ready"
      BY <1>6, <2>1 DEF Respond
    <3>2. HaltLeft = 11 + MostSends /\ HaltLeft' = ReadyLeft'
      BY <2>1, <3>1 DEF HaltLeft
    <3>. QED  BY <1>1, <3>2, Places, Zenon
  <2>2. CASE response # "ACK"
    BY <1>6, <2>2 DEF Respond, HaltLeft
  <2>. QED  BY <2>1, <2>2
<1>7. CASE EnterLowPower
  <2>1. pc1 = "ready" /\ pc1' = "low" /\ pc0 = "low"
    BY <1>7, <1>1 DEF EnterLowPower, TypeOK, HandshakeInv, Away
  <2>2. HaltLeft = 6 /\ HaltLeft' = WakeLeft'
    BY <2>1 DEF HaltLeft, ReadyLeft
  <2>. QED  BY <1>1, <2>2, Places, Zenon
<1>8. CASE ExitLowPower
  <2>1. HaltLeft' = 1
    BY <1>8 DEF ExitLowPower, HaltLeft
  <2>2. HaltLeft = 2
    BY <1>8 DEF ExitLowPower, HaltLeft, WakeLeft
  <2>. QED  BY <2>1, <2>2
<1>9. CASE EnterFullPower
  BY <1>9 DEF EnterFullPower, HaltLeft
<1>. QED  BY <1>3, <1>4, <1>5, <1>6, <1>7, <1>8, <1>9 DEF PowerControl1

LEMMA WakewordCountsDown ==
  ASSUME LowPowerInv, Wakeword \/ PowerTimer, low_power_halt
  PROVE  /\ low_power_halt'
         /\ \/ HaltLeft' < HaltLeft
            \/ HaltLeft' = HaltLeft /\ (Wakeword => pc1 # "low" \/ lp_exit)
<1>1. /\ low_power_halt'
      /\ UNCHANGED <<slow, to0, to1, control, keyword, pc1, response>>
      /\ lp_exit => lp_exit'
  <2>1. low_power_halt' /\ UNCHANGED <<slow, to0, to1, control, keyword, pc1, response>>
    BY DEF Wakeword, PowerTimer, HearNothing, HearWakeword, HearEndOfEvaluation,
           SetPowerState, RouteFrame, PushFrame, PowerTimerExpires
  <2>2. lp_exit => lp_exit'
    BY Zenon DEF Wakeword, PowerTimer, HearNothing, HearWakeword, HearEndOfEvaluation,
           SetPowerState, RouteFrame, PushFrame, PowerTimerExpires
  <2>. QED  BY <2>1, <2>2
<1>2. CASE pc1 # "low"
  BY <1>1, <1>2 DEF HaltLeft, ReadyLeft, SendsLeft, MostSends, control, keyword
<1>3. CASE pc1 = "low" /\ lp_exit
  BY <1>1, <1>3 DEF HaltLeft, WakeLeft
<1>4. CASE pc1 = "low" /\ ~lp_exit
  <2>1. power_state = "LOW"
    BY <1>4 DEF LowPowerInv, HandshakeInv
  <2>2. HaltLeft' = WakeLeft' /\ HaltLeft = WakeLeft
    BY <1>1, <1>4 DEF HaltLeft
  <2>3. CASE Wakeword
    <3>1. \/ audio \in {"output", "push"} /\ audio' = "listen" /\ ~lp_exit'
          \/ audio = "listen" /\ audio' = "set" /\ ~lp_exit'
          \/ audio = "set" /\ lp_exit'
      BY <1>4, <2>1, <2>3, Zenon
         DEF Wakeword, HearNothing, HearWakeword, HearEndOfEvaluation, SetPowerState,
             RouteFrame, PushFrame
    <3>. QED  BY <1>1, <1>4, <2>2, <3>1 DEF WakeLeft
  <2>4. CASE PowerTimer
    <3>1. lp_exit' = lp_exit /\ audio' = audio
      BY <2>4 DEF PowerTimer, PowerTimerExpires
    <3>2. WakeLeft' = WakeLeft
      BY <3>1 DEF WakeLeft
    <3>3. ~Wakeword \/ audio' # audio
      BY DEF Wakeword, HearNothing, HearWakeword, HearEndOfEvaluation, SetPowerState,
             RouteFrame, PushFrame
    <3>. QED  BY <1>1, <2>2, <3>1, <3>2, <3>3
  <2>. QED  BY <2>3, <2>4
<1>. QED  BY <1>2, <1>3, <1>4

\* Tile 0.
LEMMA PowerControl0CountsDown ==
  ASSUME LowPowerInv, PowerControl0 \/ Led
  PROVE  HaltLeft' < HaltLeft \/ (HaltLeft' = HaltLeft /\ pc1 # "ready")
<1>1. UNCHANGED <<tile1, slow, keyword>>
  BY DEF PowerControl0, Led
<1>2. /\ TypeOK /\ HandshakeInv /\ LedInv /\ MostSends \in Nat
      /\ SendsLeft(q_intent, handler) \in 0 .. MostSends
  <2>1. SendsLeft(q_intent, handler) \in 0 .. MostSends
    BY SendsLeftBounded DEF LowPowerInv, TypeOK
  <2>. QED  BY <2>1, LowPowerAssumption DEF LowPowerInv, MostSends
<1>3. CASE pc1 # "ready"
  BY <1>1, <1>3 DEF HaltLeft, WakeLeft, MostSends, tile1
<1>4. CASE pc1 = "ready"
  <2>1. HaltLeft = ReadyLeft /\ HaltLeft' = ReadyLeft'
    BY <1>1, <1>4 DEF HaltLeft, tile1
  <2>2. CASE PowerControl0
    <3>1. \/ pc0 = "response" /\ pc0' = "asleep" /\ led' # {}
          \/ pc0 = "asleep" /\ led = {} /\ pc0' = "lock"
          \/ pc0 = "lock" /\ pc0' = "low"
      <4>1. Accepted \/ IndicatedAsleep \/ LockDrivers
        BY <1>2, <1>4, <2>2, OneMessage
           DEF PowerControl0, RequestLowPower, Accepted, Rejected, Halted, IndicatedAsleep,
               LockDrivers, ReturnToFullPower, IndicatedAwake, TypeOK, HandshakeInv, Away
      <4>. QED  BY <4>1, <1>2 DEF Accepted, IndicatedAsleep, LockDrivers, LedInv
    <3>2. ReadyLeft' < ReadyLeft
      <4>1. SendsLeft(q_intent', handler') = SendsLeft(q_intent, handler)
        BY <1>1 DEF keyword
      <4>2. CASE pc0 = "response" /\ pc0' = "asleep" /\ led' # {}
        BY <4>2, <1>2 DEF ReadyLeft, MostSends
      <4>3. CASE pc0 = "asleep" /\ led = {} /\ pc0' = "lock"
        BY <4>1, <4>3, <1>2 DEF ReadyLeft
      <4>4. CASE pc0 = "lock" /\ pc0' = "low"
        BY <4>4, <1>2 DEF ReadyLeft
      <4>. QED  BY <3>1, <4>2, <4>3, <4>4
    <3>. QED  BY <2>1, <3>2, Zenon
  <2>3. CASE Led
    <3>1. pc0 = "asleep" /\ pc0' = "asleep" /\ led # {} /\ led' = {}
      BY <2>3, <1>2, <1>4 DEF Led, Indicate, LedInv, HandshakeInv, Away
    <3>2. ReadyLeft' < ReadyLeft
      BY <3>1, <1>2 DEF ReadyLeft, MostSends
    <3>. QED  BY <2>1, <3>2, Zenon
  <2>. QED  BY <2>2, <2>3
<1>. QED  BY <1>3, <1>4

LEMMA HandlerCountsDown ==
  ASSUME LowPowerInv, Handler
  PROVE  \/ HaltLeft' < HaltLeft
         \/ HaltLeft' = HaltLeft /\ ~(pc1 = "ready" /\ pc0 = "lock")
<1>1. UNCHANGED <<tile1, slow, control>>
  BY DEF Handler
<1>2. CASE ~(pc1 = "ready" /\ pc0 = "lock")
  BY <1>1, <1>2 DEF HaltLeft, WakeLeft, ReadyLeft, MostSends, tile1, control
<1>3. CASE pc1 = "ready" /\ pc0 = "lock"
  <2>1. /\ HaltLeft = 7 + SendsLeft(q_intent, handler)
        /\ HaltLeft' = 7 + SendsLeft(q_intent', handler')
    BY <1>1, <1>3 DEF HaltLeft, ReadyLeft, tile1, control
  <2>2. SendsLeft(q_intent', handler') < SendsLeft(q_intent, handler)
    BY LowPowerAssumption
       DEF LowPowerInv, TypeOK, Handler, ReceiveKeyword, SendKeyword, KeywordSent,
           CountKeywords, CompleteKeyword, SendsLeft, HandlerPosition
  <2>3. SendsLeft(q_intent, handler) \in Nat
    <3>1. SendsLeft(q_intent, handler) \in 0 .. MostSends
      BY SendsLeftBounded DEF LowPowerInv, TypeOK
    <3>. QED  BY <3>1
  <2>4. SendsLeft(q_intent', handler') \in Nat
    BY LowPowerAssumption
       DEF LowPowerInv, TypeOK, Handler, ReceiveKeyword, SendKeyword, KeywordSent,
           CountKeywords, CompleteKeyword, SendsLeft, HandlerPosition
  <2>. QED  BY <2>1, <2>2, <2>3, <2>4
<1>. QED  BY <1>2, <1>3

LEMMA EngineDoesNotCount ==
  ASSUME LowPowerInv, Engine \/ IntentTimer \/ UNCHANGED vars
  PROVE  HaltLeft' = HaltLeft /\ low_power_halt' = low_power_halt
<1>1. UNCHANGED <<tile1, pc0, led>>
  BY DEF Engine, IntentTimer, vars, control
<1>2. pc0 = "lock" => UNCHANGED <<q_intent, handler>>
  <2>. SUFFICES ASSUME pc0 = "lock" PROVE UNCHANGED <<q_intent, handler>>
    OBVIOUS
  <2>1. intent_power_state # "EXITED" /\ engine # "queue" /\ ~requested_full_power
    BY DEF LowPowerInv, EngineInv, AtRest
  <2>. QED
    BY <2>1
       DEF Engine, IntentTimer, vars, NoTimeout, AskForLowPower, HoldFullPower,
           AwaitDecision, AbortRequest, ResetStream, KeywordsDone, LeaveLowPower,
           FinishExit, Awake, ReceiveFrame, EndOfEvaluation, NoCommand, Command,
           QueueKeyword, keyword
<1>3. CASE pc0 = "lock"
  BY <1>1, <1>2, <1>3 DEF HaltLeft, WakeLeft, ReadyLeft, MostSends, tile1
<1>4. CASE pc0 # "lock"
  BY <1>1, <1>4 DEF HaltLeft, WakeLeft, ReadyLeft, MostSends, tile1
<1>. QED  BY <1>1, <1>3, <1>4 DEF tile1

\* "When halted, the system remains in full power mode", but for one sleep: at most
\* 12 + MostSends steps of the tasks it is waiting for end it, however the others are
\* interleaved, and from then on the device is at full power for good, as long as no
\* command comes late.
THEOREM HaltedForGood ==
  Spec => /\ [](late_command \/ (HaltLeft \in 0 .. 12 + MostSends /\ HaltGoesOn /\ HaltIsFinal))
          /\ [][late_command' \/ HaltCountsDown]_vars
<1>1. LowPowerInv => HaltLeft \in 0 .. 12 + MostSends /\ HaltGoesOn /\ HaltIsFinal
  <2>. SUFFICES ASSUME LowPowerInv
                PROVE  HaltLeft \in 0 .. 12 + MostSends /\ HaltGoesOn /\ HaltIsFinal
    OBVIOUS
  <2>1. TypeOK /\ HandshakeInv /\ LedInv /\ EngineInv
    BY DEF LowPowerInv
  <2>2. HaltLeft \in 0 .. 12 + MostSends
    BY <2>1, HaltTyping
  <2>3. MostSends \in Nat /\ WakeLeft # 0 /\ ReadyLeft # 0
    BY <2>1, WakeTyping, ReadyTyping, LowPowerAssumption DEF MostSends
  <2>4. HaltGoesOn
    <3>1. CASE pc1 # "ready"
      BY <3>1, <2>1 DEF HaltGoesOn, HaltLeft, TypeOK
    <3>2. CASE pc1 = "ready"
      BY <3>2, <2>1 DEF HaltGoesOn, TypeOK, HandshakeInv, Away, LedInv, EngineInv
    <3>. QED  BY <3>1, <3>2
  <2>5. HaltIsFinal
    <3>. SUFFICES ASSUME HaltLeft = 0 PROVE power_state = "FULL" /\ ~slow
      BY DEF HaltIsFinal
    <3>1. pc1 \notin {"full", "low", "ready"}
      BY <2>3 DEF HaltLeft
    <3>. QED  BY <3>1, <2>1 DEF TypeOK, HandshakeInv
  <2>. QED  BY <2>2, <2>4, <2>5
<1>2. ASSUME LowPowerInv, LowPowerInv', [Next]_vars PROVE [HaltCountsDown]_vars
  <2>. SUFFICES ASSUME LowPowerInv, LowPowerInv', [Next]_vars, low_power_halt
                PROVE  /\ low_power_halt'
                       /\ HaltLeft' <= HaltLeft
                       /\ HaltCounts /\ HaltLeft # 0 => HaltLeft' < HaltLeft
    BY <1>2 DEF HaltCountsDown
  <2>1. HaltLeft \in Nat /\ MostSends \in Nat
    BY HaltTyping, LowPowerAssumption DEF LowPowerInv, MostSends
  <2>2. low_power_halt' /\ (HaltLeft' < HaltLeft \/ HaltLeft' = HaltLeft)
    <3>1. CASE PowerControl1
      BY <3>1, PowerControl1CountsDown DEF PowerControl1
    <3>2. CASE Wakeword \/ PowerTimer
      BY <3>2, WakewordCountsDown
    <3>3. CASE PowerControl0 \/ Led
      BY <3>3, PowerControl0CountsDown DEF PowerControl0, Led, tile1
    <3>4. CASE Handler
      BY <3>4, HandlerCountsDown DEF Handler, tile1
    <3>5. CASE Engine \/ IntentTimer \/ UNCHANGED vars
      BY <3>5, EngineDoesNotCount
    <3>. QED  BY <3>1, <3>2, <3>3, <3>4, <3>5 DEF Next
  <2>3. HaltCounts /\ HaltLeft # 0 => HaltLeft' < HaltLeft
    BY PowerControl1CountsDown, WakewordCountsDown, PowerControl0CountsDown,
       HandlerCountsDown DEF HaltCounts
  <2>4. HaltLeft' \in Nat
    BY <2>1, TypePrimed DEF HaltLeft, MostSends
  <2>. QED  BY <2>1, <2>2, <2>3, <2>4
<1>3. ASSUME CoreInv, late_command \/ LowPowerInv, (late_command \/ LowPowerInv)', [Next]_vars
      PROVE  [late_command' \/ HaltCountsDown]_vars
  <2>1. CASE late_command'
    BY <2>1
  <2>2. CASE ~late_command'
    <3>1. LowPowerInv /\ LowPowerInv'
      BY <1>3, <2>2, StaysLate
    <3>. QED  BY <1>2, <1>3, <3>1
  <2>. QED  BY <2>1, <2>2
<1>4. Spec => [](late_command \/ (HaltLeft \in 0 .. 12 + MostSends /\ HaltGoesOn /\ HaltIsFinal))
  BY <1>1, InvariantHolds, PTL
<1>5. Spec => [][late_command' \/ HaltCountsDown]_vars
  BY <1>3, CoreHolds, InvariantHolds, PTL DEF Spec
<1>. QED  BY <1>4, <1>5

-----------------------------------------------------------------------------
(***************************************************************************)
(* What WakesUp rests on.  An exit that is signalled in low power is       *)
(* followed through the end of the sleep, the return of tile 0 to full     *)
(* power and the engine's return to normal operation; WakesUp adds the     *)
(* fairness of the scheduler.                                              *)
(***************************************************************************)
\* The engine is not in normal operation, and the exit is signalled or the sleep over.
WakingUp ==
  /\ intent_power_state # "EXITED"
  /\ \/ lp_exit
     \/ /\ pc1 \notin {"ready", "low"}
        /\ intent_power_state # "REQUESTING" \/ requested_full_power
  /\ pc0 = "locked" => intent_power_state # "REQUESTING" \/ requested_full_power

\* The engine asks for a decision again and again until it has one.
AsksAgain ==
  /\ engine \in {"timeout", "power"} /\ ~requested_full_power
  /\ intent_power_state = "ENTERED" \/ (intent_power_state = "REQUESTING" /\ ~timeout_event)

\* The steps to the answer that tile 0 awaits, ...
AnswerLeft ==
  IF requested_full_power \/ intent_power_state = "EXITING" THEN 0
  ELSE IF pc0 = "request"
    THEN (IF "ENTER" \in notif THEN 15 ELSE IF engine = "power" THEN 17 ELSE 16) + MostSends
  ELSE IF pc1 = "ready" THEN ReadyLeft
  ELSE IF pc1 = "low" THEN 5
  ELSE IF pc1 = "respond" THEN 11 + MostSends
  ELSE IF pc1 = "read_expired" THEN 12 + MostSends
  ELSE IF pc1 = "read_halt" THEN 13 + MostSends
  ELSE IF pc0 = "response" THEN (IF to0 = <<>> THEN 14 + MostSends ELSE 1)
  ELSE IF pc0 = "low" THEN 3
  ELSE IF led = {} THEN 1 ELSE 2
\* ... for tile 1 to record full power, ...
RestoreLeft == IF pc1 = "full" THEN 1 ELSE 0
\* ... to the next frame for the engine, ...
FrameLeft ==
  IF stream > 0 THEN 0
  ELSE IF power_state = "LOW" THEN 4
  ELSE [push |-> 1, output |-> 2, set |-> 3, listen |-> 4][audio]
\* ... and of the engine itself.
EngineLeft ==
  IF intent_power_state = "EXITING" THEN (IF engine = "power" THEN 1 ELSE 2)
  ELSE IF intent_power_state = "ENTERING"
    THEN (IF engine = "drain" THEN 11 ELSE IF engine = "power" THEN 12 ELSE 13)
  ELSE IF intent_power_state = "REQUESTING" /\ ~requested_full_power THEN 13
  ELSE IF engine = "receive" THEN 6 + FrameLeft
  ELSE IF engine = "process" THEN 5
  ELSE IF engine = "power" /\ requested_full_power THEN 3 ELSE 4
WakeUpLeft ==
  IF intent_power_state = "EXITED" THEN 0 ELSE RestoreLeft + AnswerLeft + EngineLeft

\* Every step that the return waits for counts, and no step takes it back.
WakeUpCounts ==
  \/ PowerControl1 \/ PowerControl0 \/ Led
  \/ pc1 = "ready" /\ pc0 = "lock" /\ Handler
  \/ ~AsksAgain /\ Engine
  \/ engine = "receive" /\ stream = 0 /\ power_state = "FULL" /\ Wakeword
WakeUpCountsDown ==
  WakingUp =>
    /\ WakingUp' \/ intent_power_state' = "EXITED"
    /\ WakeUpLeft' <= WakeUpLeft
    /\ WakeUpCounts => WakeUpLeft' < WakeUpLeft

\* One of the tasks has what it waits for.
WakeUpGoesOn ==
  \/ engine \in {"timeout", "power", "process"} /\ ~AsksAgain
  \/ engine = "drain" /\ ~keyword_proc_busy
  \/ engine = "receive" /\ (stream > 0 \/ power_state = "FULL")
  \/ pc1 \in {"read_halt", "read_expired", "respond", "full"}
  \/ pc1 = "request" /\ to1 = <<"LOW">>
  \/ pc1 = "low" /\ lp_exit
  \/ pc0 = "request" /\ notif = {"ENTER"}
  \/ pc0 = "response" /\ to0 # <<>>
  \/ pc0 \in {"asleep", "awake"} /\ (led # {} \/ notif = {"IND"})
  \/ pc0 = "lock"
  \/ pc0 = "low" /\ to0 = <<"FULL">>
  \/ pc1 = "ready" /\ pc0 = "low" /\ to1 = <<"READY">>
WakeUpInv ==
  /\ power_state = "LOW" /\ lp_exit => WakingUp \/ intent_power_state = "EXITED"
  /\ WakingUp => WakeUpLeft \in 1 .. 31 + MostSends /\ WakeUpGoesOn
  /\ intent_power_state = "EXITED" => ~slow /\ ~locked

\* Arithmetic of the counts.
LEMMA Frames ==
  /\ \A x \in 0 .. 4 : 6 + x \in 1 .. 13
  /\ \A x, y \in 0 .. 4 : (x <= y => 6 + x <= 6 + y) /\ (x < y => 6 + x < 6 + y)
  OBVIOUS

LEMMA Waits ==
  ASSUME NEW m \in Nat
  PROVE  /\ 11 + m < 12 + m /\ 11 + m < 13 + m /\ 12 + m < 13 + m /\ 13 + m < 14 + m
         /\ 14 + m < 15 + m /\ 15 + m < 16 + m /\ 16 + m < 17 + m
  OBVIOUS

LEMMA WakeUpTyping ==
  ASSUME LowPowerInv, intent_power_state # "EXITED"
  PROVE  /\ RestoreLeft \in 0 .. 1 /\ AnswerLeft \in 0 .. 17 + MostSends
         /\ EngineLeft \in 1 .. 13
         /\ WakeUpLeft = RestoreLeft + AnswerLeft + EngineLeft
         /\ WakeUpLeft \in 1 .. 31 + MostSends
<1>1. MostSends \in Nat /\ TypeOK
  BY LowPowerAssumption DEF MostSends, LowPowerInv
<1>2. RestoreLeft \in 0 .. 1
  BY DEF RestoreLeft
<1>3. AnswerLeft \in 0 .. 17 + MostSends
  <2>1. ReadyLeft \in 6 .. 10 + MostSends
    BY <1>1, ReadyTyping
  <2>. QED  BY <1>1, <2>1 DEF AnswerLeft
<1>4. EngineLeft \in 1 .. 13
  <2>1. FrameLeft \in 0 .. 4
    BY <1>1 DEF FrameLeft, TypeOK
  <2>2. 6 + FrameLeft \in 1 .. 13
    BY <2>1
  <2>. QED  BY <2>2 DEF EngineLeft
<1>5. WakeUpLeft = RestoreLeft + AnswerLeft + EngineLeft
  BY DEF WakeUpLeft
<1>. QED  BY <1>1, <1>2, <1>3, <1>4, <1>5

LEMMA WakeUpTypingPrimed ==
  ASSUME LowPowerInv', intent_power_state' # "EXITED"
  PROVE  /\ RestoreLeft' \in 0 .. 1 /\ AnswerLeft' \in 0 .. 17 + MostSends
         /\ EngineLeft' \in 1 .. 13
         /\ WakeUpLeft' = RestoreLeft' + AnswerLeft' + EngineLeft'
<1>1. MostSends \in Nat /\ MostSends' = MostSends /\ TypeOK'
  BY LowPowerAssumption DEF MostSends, LowPowerInv
<1>2. RestoreLeft' \in 0 .. 1
  BY DEF RestoreLeft
<1>3. AnswerLeft' \in 0 .. 17 + MostSends
  <2>1. ReadyLeft' \in 6 .. 10 + MostSends
    BY TypePrimed
  <2>. QED  BY <1>1, <2>1 DEF AnswerLeft
<1>4. EngineLeft' \in 1 .. 13
  <2>1. FrameLeft' \in 0 .. 4
    BY <1>1 DEF FrameLeft, TypeOK
  <2>2. 6 + FrameLeft' \in 1 .. 13
    BY <2>1, Frames, Zenon
  <2>. QED  BY <2>2 DEF EngineLeft
<1>5. WakeUpLeft' = RestoreLeft' + AnswerLeft' + EngineLeft'
  BY DEF WakeUpLeft
<1>. QED  BY <1>2, <1>3, <1>4, <1>5

\* The whole goes down when a part goes down and no other goes up.
LEMMA SumsGoDown ==
  ASSUME NEW a \in Nat, NEW b \in Nat, NEW d \in Nat, NEW e \in Nat, b <= a, e <= d
  PROVE  b + e <= a + d /\ (b < a \/ e < d => b + e < a + d)
  OBVIOUS

LEMMA PartsGoDown ==
  ASSUME LowPowerInv, LowPowerInv',
         intent_power_state # "EXITED", intent_power_state' # "EXITED",
         RestoreLeft' + AnswerLeft' <= RestoreLeft + AnswerLeft, EngineLeft' <= EngineLeft
  PROVE  /\ WakeUpLeft' <= WakeUpLeft
         /\ RestoreLeft' + AnswerLeft' < RestoreLeft + AnswerLeft \/ EngineLeft' < EngineLeft
              => WakeUpLeft' < WakeUpLeft
<1>1. /\ RestoreLeft + AnswerLeft \in Nat /\ RestoreLeft' + AnswerLeft' \in Nat
      /\ EngineLeft \in Nat /\ EngineLeft' \in Nat
      /\ WakeUpLeft = RestoreLeft + AnswerLeft + EngineLeft
      /\ WakeUpLeft' = RestoreLeft' + AnswerLeft' + EngineLeft'
  BY WakeUpTyping, WakeUpTypingPrimed, LowPowerAssumption DEF MostSends
<1>. QED  BY <1>1, SumsGoDown, Zenon

LEMMA PartSinks ==
  ASSUME LowPowerInv, LowPowerInv', WakingUp, WakingUp', RestoreLeft' = RestoreLeft,
         AnswerLeft' < AnswerLeft,
         EngineLeft' = EngineLeft \/ (EngineLeft \in Nat /\ EngineLeft' \in 0 .. EngineLeft)
  PROVE  WakeUpLeft' < WakeUpLeft /\ WakeUpLeft' <= WakeUpLeft
<1>1. intent_power_state # "EXITED" /\ intent_power_state' # "EXITED"
  BY DEF WakingUp
<1>2. /\ RestoreLeft \in Nat /\ AnswerLeft \in Nat /\ AnswerLeft' \in Nat
      /\ EngineLeft \in Nat /\ EngineLeft' \in Nat
  BY <1>1, WakeUpTyping, WakeUpTypingPrimed, LowPowerAssumption DEF MostSends
<1>3. RestoreLeft <= RestoreLeft /\ AnswerLeft' <= AnswerLeft /\ EngineLeft' <= EngineLeft
  BY <1>2
<1>4. /\ RestoreLeft + AnswerLeft' <= RestoreLeft + AnswerLeft
      /\ RestoreLeft + AnswerLeft' < RestoreLeft + AnswerLeft
  BY <1>2, <1>3, SumsGoDown, Zenon
<1>. QED  BY <1>1, <1>3, <1>4, PartsGoDown

\* Tile 1.
LEMMA PowerControl1Restores ==
  ASSUME LowPowerInv, LowPowerInv', PowerControl1, WakingUp
  PROVE  WakingUp' /\ WakeUpLeft' < WakeUpLeft
<1>1. /\ TypeOK /\ HandshakeInv /\ EngineInv /\ MostSends \in Nat /\ MostSends' = MostSends
      /\ ReadyLeft' \in 6 .. 10 + MostSends
      /\ RestoreLeft \in 0 .. 1 /\ AnswerLeft \in 0 .. 17 + MostSends
      /\ RestoreLeft' \in 0 .. 1
  <2>1. MostSends \in Nat /\ MostSends' = MostSends
    BY LowPowerAssumption DEF MostSends
  <2>. QED  BY <2>1, TypePrimed, WakeUpTyping DEF LowPowerInv, WakingUp, RestoreLeft
<1>2. UNCHANGED <<control, engine, phase, timing, keyword, audio, stream>>
  BY DEF PowerControl1
<1>3. UNCHANGED <<pc0, notif, led, intent_power_state, requested_full_power>>
  BY <1>2 DEF control, phase
<1>4. WakingUp' /\ RestoreLeft' + AnswerLeft' < RestoreLeft + AnswerLeft
  <2>0. ASSUME WakingUp', RestoreLeft' = RestoreLeft, AnswerLeft' < AnswerLeft
        PROVE  RestoreLeft' + AnswerLeft' < RestoreLeft + AnswerLeft
    <3>1. /\ RestoreLeft \in Nat /\ AnswerLeft \in Nat /\ AnswerLeft' \in Nat
          /\ RestoreLeft <= RestoreLeft /\ AnswerLeft' <= AnswerLeft
      BY <1>1, <2>0, WakeUpTypingPrimed DEF WakingUp
    <3>2. RestoreLeft + AnswerLeft' < RestoreLeft + AnswerLeft
      BY <2>0, <3>1, SumsGoDown, Zenon
    <3>. QED  BY <2>0, <3>2
  <2>1. CASE AwaitRequest
    <3>1. /\ pc0 = "response" /\ ~requested_full_power /\ intent_power_state = "REQUESTING"
          /\ to0 = <<>> /\ pc1 = "request" /\ pc1' = "read_halt" /\ lp_exit' = lp_exit
      BY <1>1, <2>1 DEF AwaitRequest, TypeOK, HandshakeInv, EngineInv, Away, AtRest
    <3>2. AnswerLeft = 14 + MostSends /\ AnswerLeft' = 13 + MostSends
      BY <1>1, <1>3, <3>1 DEF AnswerLeft
    <3>. QED  BY <1>1, <1>3, <3>1, <3>2 DEF RestoreLeft, WakingUp
  <2>2. CASE ReadHalt
    <3>1. /\ pc0 = "response" /\ ~requested_full_power /\ intent_power_state = "REQUESTING"
          /\ pc1 = "read_halt" /\ pc1' \in {"respond", "read_expired"} /\ lp_exit' = lp_exit
      BY <1>1, <2>2 DEF ReadHalt, TypeOK, HandshakeInv, EngineInv, Away, AtRest
    <3>2. /\ AnswerLeft = 13 + MostSends
          /\ AnswerLeft' \in {11 + MostSends, 12 + MostSends}
      BY <1>1, <1>3, <3>1 DEF AnswerLeft
    <3>3. AnswerLeft' < AnswerLeft
      BY <1>1, <3>2, Waits, Zenon
    <3>4. RestoreLeft' = RestoreLeft /\ WakingUp'
      BY <1>3, <3>1 DEF RestoreLeft, WakingUp
    <3>. QED  BY <2>0, <3>3, <3>4
  <2>3. CASE ReadExpired
    <3>1. /\ pc0 = "response" /\ ~requested_full_power /\ intent_power_state = "REQUESTING"
          /\ pc1 = "read_expired" /\ pc1' = "respond" /\ lp_exit' = lp_exit
      BY <1>1, <2>3 DEF ReadExpired, TypeOK, HandshakeInv, EngineInv, Away, AtRest
    <3>. QED  BY <1>1, <1>3, <3>1 DEF AnswerLeft, RestoreLeft, WakingUp
  <2>4. CASE Respond
    <3>1. /\ pc0 = "response" /\ ~requested_full_power /\ intent_power_state = "REQUESTING"
          /\ pc1 = "respond" /\ pc1' \in {"ready", "locked", "request"} /\ to0' # <<>>
          /\ lp_exit' = lp_exit
      BY <1>1, <2>4 DEF Respond, TypeOK, HandshakeInv, EngineInv, Away, AtRest, Response
    <3>2. CASE pc1' = "ready"
      <4>1. AnswerLeft = 11 + MostSends /\ AnswerLeft' = ReadyLeft'
        BY <1>3, <3>1, <3>2 DEF AnswerLeft
      <4>2. AnswerLeft' < AnswerLeft
        BY <1>1, <4>1, Places, Zenon
      <4>3. RestoreLeft' = RestoreLeft /\ WakingUp'
        BY <1>3, <3>1, <3>2 DEF RestoreLeft, WakingUp
      <4>. QED  BY <2>0, <4>2, <4>3
    <3>3. CASE pc1' # "ready"
      BY <1>1, <1>3, <3>1, <3>3 DEF AnswerLeft, RestoreLeft, WakingUp
    <3>. QED  BY <3>2, <3>3
  <2>5. CASE EnterLowPower
    <3>1. /\ pc0 = "low" /\ ~requested_full_power /\ intent_power_state # "EXITING"
          /\ pc1 = "ready" /\ pc1' = "low" /\ lp_exit' = lp_exit
      BY <1>1, <2>5 DEF EnterLowPower, TypeOK, HandshakeInv, EngineInv, Away, AtRest
    <3>. QED  BY <1>1, <1>3, <3>1 DEF AnswerLeft, ReadyLeft, RestoreLeft, WakingUp
  <2>6. CASE ExitLowPower
    <3>1. /\ pc0 = "low" /\ ~requested_full_power
          /\ intent_power_state \in {"ENTERING", "ENTERED"}
          /\ pc1 = "low" /\ pc1' = "full"
      BY <1>1, <2>6 DEF ExitLowPower, TypeOK, HandshakeInv, EngineInv, Away, AtRest
    <3>. QED  BY <1>1, <1>3, <3>1 DEF AnswerLeft, RestoreLeft, WakingUp
  <2>7. CASE EnterFullPower
    <3>1. /\ pc1 = "full" /\ pc1' = "request" /\ to0' = to0 /\ lp_exit' = lp_exit
      BY <1>1, <2>7 DEF EnterFullPower
    <3>2. AnswerLeft' = AnswerLeft
      BY <1>1, <1>2, <1>3, <3>1 DEF AnswerLeft
    <3>. QED  BY <1>1, <1>3, <3>1, <3>2 DEF RestoreLeft, WakingUp
  <2>. QED  BY <2>1, <2>2, <2>3, <2>4, <2>5, <2>6, <2>7 DEF PowerControl1
<1>5. EngineLeft' <= EngineLeft
  <2>1. FrameLeft' <= FrameLeft \/ engine # "receive" \/ intent_power_state # "ENTERED"
    <3>1. power_state' = "LOW" => power_state = "LOW" \/ intent_power_state = "REQUESTING"
      BY <1>1 DEF PowerControl1, AwaitRequest, ReadHalt, ReadExpired, Respond, EnterLowPower,
           ExitLowPower, EnterFullPower, HandshakeInv, EngineInv, TypeOK, Away
    <3>. QED  BY <1>1, <1>2, <3>1 DEF FrameLeft, TypeOK
  <2>2. FrameLeft \in 0 .. 4 /\ FrameLeft' \in 0 .. 4
    <3>1. TypeOK'
      BY DEF LowPowerInv
    <3>. QED  BY <1>1, <3>1 DEF FrameLeft, TypeOK
  <2>3. EngineLeft' = EngineLeft \/ (EngineLeft' = 6 + FrameLeft' /\ EngineLeft = 6 + FrameLeft)
    BY <1>2, <1>3 DEF EngineLeft
  <2>4. CASE engine = "receive" /\ intent_power_state = "ENTERED"
    <3>1. FrameLeft' <= FrameLeft
      BY <2>1, <2>4
    <3>. QED  BY <1>1, <2>2, <2>3, <3>1, WakeUpTyping DEF WakingUp
  <2>5. CASE engine # "receive" \/ intent_power_state # "ENTERED"
    <3>1. EngineLeft' = EngineLeft
      BY <1>1, <1>2, <1>3, <2>5 DEF EngineLeft, EngineInv, WakingUp
    <3>. QED  BY <3>1, WakeUpTyping DEF WakingUp
  <2>. QED  BY <2>4, <2>5
<1>6. intent_power_state # "EXITED" /\ intent_power_state' # "EXITED"
  BY <1>4 DEF WakingUp
<1>7. RestoreLeft' + AnswerLeft' \in Nat /\ RestoreLeft + AnswerLeft \in Nat
  BY <1>1, <1>6, WakeUpTypingPrimed
<1>8. RestoreLeft' + AnswerLeft' <= RestoreLeft + AnswerLeft
  BY <1>4, <1>7
<1>. QED  BY <1>4, <1>5, <1>6, <1>8, PartsGoDown

\* The wakeword task.
LEMMA FramesComeNearer ==
  ASSUME LowPowerInv, LowPowerInv', Wakeword \/ PowerTimer, WakingUp
  PROVE  /\ WakingUp' /\ WakeUpLeft' <= WakeUpLeft
         /\ engine = "receive" /\ stream = 0 /\ power_state = "FULL" /\ Wakeword
              => WakeUpLeft' < WakeUpLeft
<1>1. /\ TypeOK /\ TypeOK' /\ EngineInv /\ MostSends \in Nat /\ MostSends' = MostSends
  BY LowPowerAssumption DEF MostSends, LowPowerInv
<1>2. UNCHANGED <<slow, to0, to1, control, engine, phase, timing, keyword, pc1, power_state>>
  BY DEF Wakeword, PowerTimer, HearNothing, HearWakeword, HearEndOfEvaluation,
         SetPowerState, RouteFrame, PushFrame, PowerTimerExpires
<1>3. lp_exit => lp_exit'
  BY Zenon DEF Wakeword, PowerTimer, HearNothing, HearWakeword, HearEndOfEvaluation,
         SetPowerState, RouteFrame, PushFrame, PowerTimerExpires
<1>4. WakingUp'
  BY <1>2, <1>3 DEF WakingUp, control, phase
<1>5. RestoreLeft' = RestoreLeft /\ AnswerLeft' = AnswerLeft
  BY <1>1, <1>2
     DEF RestoreLeft, AnswerLeft, ReadyLeft, SendsLeft, control, phase, keyword
<1>6. CASE Wakeword
  <2>1. \/ UNCHANGED stream
           /\ (power_state = "FULL" =>
                 \/ audio = "listen" /\ audio' \in {"output", "set"}
                 \/ audio = "set" /\ audio' = "output"
                 \/ audio = "output" /\ audio' = "push")
        \/ stream' > 0
    BY <1>1, <1>6, LowPowerAssumption
       DEF Wakeword, HearNothing, HearWakeword, HearEndOfEvaluation, SetPowerState,
           RouteFrame, PushFrame, TypeOK
  <2>2. FrameLeft' <= FrameLeft /\ (stream = 0 /\ power_state = "FULL" => FrameLeft' < FrameLeft)
    BY <1>1, <1>2, <2>1 DEF FrameLeft, TypeOK
  <2>3. FrameLeft \in 0 .. 4 /\ FrameLeft' \in 0 .. 4
    BY <1>1 DEF FrameLeft, TypeOK
  <2>4. /\ EngineLeft' <= EngineLeft
        /\ engine = "receive" /\ stream = 0 /\ power_state = "FULL" => EngineLeft' < EngineLeft
    <3>1. CASE engine = "receive"
      <4>1. EngineLeft' = 6 + FrameLeft' /\ EngineLeft = 6 + FrameLeft
        BY <1>1, <1>2, <3>1 DEF EngineLeft, EngineInv, WakingUp, phase
      <4>. QED  BY <2>2, <2>3, <4>1, Frames, Zenon
    <3>2. CASE engine # "receive"
      <4>1. EngineLeft' = EngineLeft /\ EngineLeft \in Nat
        BY <1>2, <3>2, WakeUpTyping DEF EngineLeft, WakingUp, phase
      <4>. QED  BY <3>2, <4>1
    <3>. QED  BY <3>1, <3>2
  <2>. QED
    BY <1>2, <1>4, <1>5, <2>4, PartsGoDown, WakeUpTyping DEF WakingUp, phase
<1>7. CASE PowerTimer /\ ~Wakeword
  <2>1. UNCHANGED <<stream, audio>>
    BY <1>7 DEF PowerTimer, PowerTimerExpires
  <2>2. EngineLeft' = EngineLeft
    BY <1>2, <2>1 DEF EngineLeft, FrameLeft, phase
  <2>. QED
    BY <1>2, <1>4, <1>5, <1>7, <2>2, PartsGoDown, WakeUpTyping DEF WakingUp, phase
<1>. QED  BY <1>6, <1>7

\* Tile 0.
LEMMA PowerControl0Restores ==
  ASSUME LowPowerInv, LowPowerInv', PowerControl0 \/ Led, WakingUp
  PROVE  WakingUp' /\ WakeUpLeft' < WakeUpLeft
<1>1. /\ TypeOK /\ HandshakeInv /\ LedInv /\ EngineInv /\ TypeOK'
      /\ MostSends \in Nat /\ MostSends' = MostSends
      /\ SendsLeft(q_intent, handler) \in 0 .. MostSends
  <2>1. MostSends \in Nat /\ MostSends' = MostSends
    BY LowPowerAssumption DEF MostSends
  <2>2. SendsLeft(q_intent, handler) \in 0 .. MostSends
    BY SendsLeftBounded DEF LowPowerInv, TypeOK
  <2>. QED  BY <2>1, <2>2 DEF LowPowerInv
<1>2. UNCHANGED <<tile1, slow, stream, engine, timing, keyword>>
  BY DEF PowerControl0, Led
<1>3. /\ UNCHANGED <<power_state, lp_exit, pc1, audio, stream, engine, timeout_event>>
      /\ RestoreLeft' = RestoreLeft
      /\ SendsLeft(q_intent', handler') = SendsLeft(q_intent, handler)
  BY <1>2 DEF tile1, timing, keyword, RestoreLeft
<1>4. CASE RequestLowPower
  <2>1. /\ ~requested_full_power /\ intent_power_state = "REQUESTING"
        /\ pc0 = "request" /\ pc0' = "response" /\ pc1 \in {"request", "full"}
        /\ "ENTER" \in notif /\ to0' = <<>> /\ UNCHANGED phase
    BY <1>1, <1>4 DEF RequestLowPower, HandshakeInv, EngineInv, Away, AtRest
  <2>2. AnswerLeft = 15 + MostSends /\ AnswerLeft' = 14 + MostSends
    BY <1>1, <1>3, <2>1 DEF AnswerLeft, phase
  <2>3. WakingUp' /\ EngineLeft' = EngineLeft
    BY <1>3, <2>1 DEF WakingUp, EngineLeft, FrameLeft, phase
  <2>. QED  BY <1>1, <1>3, <2>2, <2>3, Waits, PartSinks
<1>5. CASE Accepted
  <2>1. /\ ~requested_full_power /\ ~requested_full_power'
        /\ intent_power_state = "REQUESTING" /\ intent_power_state' = "ENTERING"
        /\ pc0 = "response" /\ pc0' = "asleep" /\ led' # {} /\ pc1 = "ready"
    BY <1>1, <1>5, OneMessage DEF Accepted, HandshakeInv, EngineInv, Away, AtRest
  <2>2. AnswerLeft = 10 + MostSends /\ AnswerLeft' = 9 + MostSends
    BY <1>1, <1>3, <2>1 DEF AnswerLeft, ReadyLeft
  <2>3. WakingUp' /\ EngineLeft = 13 /\ EngineLeft' \in 11 .. 13
    BY <1>3, <2>1 DEF WakingUp, EngineLeft
  <2>. QED  BY <1>1, <1>3, <2>2, <2>3, Places, PartSinks
<1>6. CASE Rejected \/ Halted
  <2>1. /\ ~requested_full_power /\ requested_full_power'
        /\ intent_power_state = "REQUESTING" /\ intent_power_state' = "REQUESTING"
        /\ pc0 = "response" /\ to0 # <<>> /\ pc1 \in {"request", "locked"}
        /\ engine \in {"timeout", "power"}
    BY <1>1, <1>6, OneMessage
       DEF Rejected, Halted, TypeOK, HandshakeInv, EngineInv, Away, AtRest
  <2>2. AnswerLeft = 1 /\ AnswerLeft' = 0
    BY <1>3, <2>1 DEF AnswerLeft
  <2>3. WakingUp' /\ EngineLeft = 13 /\ EngineLeft' \in 3 .. 4
    BY <1>3, <2>1 DEF WakingUp, EngineLeft
  <2>. QED  BY <1>3, <2>2, <2>3, PartSinks
<1>7. CASE IndicatedAsleep
  <2>1. /\ ~requested_full_power /\ intent_power_state \in {"ENTERING", "ENTERED"}
        /\ pc0 = "asleep" /\ pc0' = "lock" /\ led = {} /\ pc1 = "ready" /\ UNCHANGED phase
    BY <1>1, <1>7 DEF IndicatedAsleep, HandshakeInv, LedInv, EngineInv, Away, AtRest
  <2>2. /\ AnswerLeft = 8 + MostSends
        /\ AnswerLeft' = 7 + SendsLeft(q_intent, handler)
    BY <1>1, <1>3, <2>1 DEF AnswerLeft, ReadyLeft, phase
  <2>3. WakingUp' /\ EngineLeft' = EngineLeft
    BY <1>3, <2>1 DEF WakingUp, EngineLeft, FrameLeft, phase
  <2>. QED  BY <1>1, <1>3, <2>2, <2>3, Places, PartSinks
<1>8. CASE LockDrivers
  <2>1. /\ ~requested_full_power /\ intent_power_state \in {"ENTERING", "ENTERED"}
        /\ pc0 = "lock" /\ pc0' = "low" /\ pc1 = "ready" /\ UNCHANGED phase
    BY <1>1, <1>8 DEF LockDrivers, HandshakeInv, EngineInv, Away, AtRest
  <2>2. AnswerLeft = 7 + SendsLeft(q_intent, handler) /\ AnswerLeft' = 6
    BY <1>1, <1>3, <2>1 DEF AnswerLeft, ReadyLeft, phase
  <2>3. WakingUp' /\ EngineLeft' = EngineLeft
    BY <1>3, <2>1 DEF WakingUp, EngineLeft, FrameLeft, phase
  <2>. QED  BY <1>1, <1>3, <2>2, <2>3, Places, PartSinks
<1>9. CASE ReturnToFullPower
  <2>1. /\ ~requested_full_power /\ intent_power_state \in {"ENTERING", "ENTERED"}
        /\ pc0 = "low" /\ pc0' = "awake" /\ pc1 \in {"request", "full"} /\ led' # {}
        /\ UNCHANGED phase
    BY <1>1, <1>9, OneMessage DEF ReturnToFullPower, HandshakeInv, EngineInv, Away, AtRest
  <2>2. AnswerLeft = 3 /\ AnswerLeft' = 2
    BY <1>3, <2>1 DEF AnswerLeft, phase
  <2>3. WakingUp' /\ EngineLeft' = EngineLeft
    BY <1>3, <2>1 DEF WakingUp, EngineLeft, FrameLeft, phase
  <2>. QED  BY <1>3, <2>2, <2>3, PartSinks
<1>10. CASE IndicatedAwake
  <2>1. /\ ~requested_full_power /\ requested_full_power'
        /\ intent_power_state \in {"ENTERING", "ENTERED"}
        /\ intent_power_state' = intent_power_state
        /\ pc0 = "awake" /\ pc0' = "request" /\ led = {} /\ pc1 \in {"request", "full"}
    BY <1>1, <1>10 DEF IndicatedAwake, HandshakeInv, LedInv, EngineInv, Away, AtRest
  <2>2. AnswerLeft = 1 /\ AnswerLeft' = 0
    BY <1>3, <2>1 DEF AnswerLeft
  <2>3. WakingUp' /\ (EngineLeft' = EngineLeft \/ (EngineLeft = 4 /\ EngineLeft' = 3))
    BY <1>3, <2>1 DEF WakingUp, EngineLeft, FrameLeft
  <2>. QED  BY <1>3, <2>2, <2>3, PartSinks
<1>11. CASE Led
  <2>1. /\ ~requested_full_power /\ intent_power_state \in {"ENTERING", "ENTERED"}
        /\ pc0 \in {"asleep", "awake"} /\ pc0' = pc0 /\ led # {} /\ led' = {}
        /\ pc1 = IF pc0 = "asleep" THEN "ready" ELSE pc1
        /\ pc0 = "awake" => pc1 \in {"request", "full"}
        /\ UNCHANGED phase
    BY <1>1, <1>11 DEF Led, Indicate, HandshakeInv, LedInv, EngineInv, Away, AtRest
  <2>2. \/ AnswerLeft = 9 + MostSends /\ AnswerLeft' = 8 + MostSends
        \/ AnswerLeft = 2 /\ AnswerLeft' = 1
    BY <1>1, <1>3, <2>1 DEF AnswerLeft, ReadyLeft, phase
  <2>3. WakingUp' /\ EngineLeft' = EngineLeft
    BY <1>3, <2>1 DEF WakingUp, EngineLeft, FrameLeft, phase
  <2>. QED  BY <1>1, <1>3, <2>2, <2>3, Places, PartSinks
<1>. QED
  BY <1>4, <1>5, <1>6, <1>7, <1>8, <1>9, <1>10, <1>11 DEF PowerControl0

LEMMA HandlerRestores ==
  ASSUME LowPowerInv, LowPowerInv', Handler, WakingUp
  PROVE  /\ WakingUp' /\ WakeUpLeft' <= WakeUpLeft
         /\ pc1 = "ready" /\ pc0 = "lock" => WakeUpLeft' < WakeUpLeft
<1>1. UNCHANGED <<tile1, slow, stream, to0, control, engine, phase, timing>>
  BY DEF Handler
<1>2. /\ WakingUp' /\ RestoreLeft' = RestoreLeft /\ EngineLeft' = EngineLeft
      /\ MostSends' = MostSends
  BY <1>1
     DEF WakingUp, RestoreLeft, EngineLeft, FrameLeft, MostSends, tile1, control, phase
<1>3. CASE pc1 = "ready" /\ pc0 = "lock"
  <2>1. /\ HaltLeft = ReadyLeft /\ HaltLeft' = ReadyLeft'
        /\ AnswerLeft = ReadyLeft /\ AnswerLeft' = ReadyLeft'
    BY <1>1, <1>3 DEF HaltLeft, AnswerLeft, LowPowerInv, EngineInv, AtRest, tile1, control, phase
  <2>2. HaltLeft' < HaltLeft
    BY <1>3, HandlerCountsDown
  <2>3. AnswerLeft' < AnswerLeft
    BY <2>1, <2>2, Zenon
  <2>4. WakeUpLeft' < WakeUpLeft /\ WakeUpLeft' <= WakeUpLeft
    BY <1>2, <2>3, PartSinks
  <2>. QED  BY <1>2, <2>4
<1>4. CASE ~(pc1 = "ready" /\ pc0 = "lock")
  <2>1. AnswerLeft' = AnswerLeft
    BY <1>1, <1>2, <1>4 DEF AnswerLeft, ReadyLeft, tile1, control, phase
  <2>. QED  BY <1>2, <1>4, <2>1, WakeUpTyping, WakeUpTypingPrimed, PartsGoDown DEF WakingUp
<1>. QED  BY <1>3, <1>4

\* The engine, of which only the repeated question does not count.
LEMMA EngineResumes ==
  ASSUME LowPowerInv, LowPowerInv', Engine, WakingUp
  PROVE  /\ WakingUp' \/ intent_power_state' = "EXITED"
         /\ WakeUpLeft' <= WakeUpLeft
         /\ ~AsksAgain => WakeUpLeft' < WakeUpLeft
<1>1. /\ TypeOK /\ TypeOK' /\ HandshakeInv /\ EngineInv
      /\ MostSends \in Nat /\ MostSends' = MostSends
      /\ intent_power_state # "EXITED"
  BY LowPowerAssumption DEF MostSends, LowPowerInv, WakingUp
<1>2. /\ UNCHANGED <<power_state, lp_exit, pc1, audio, to0, pc0, led>>
      /\ RestoreLeft' = RestoreLeft
  BY DEF Engine, tile1, RestoreLeft
<1>3. pc0 = "lock" => UNCHANGED <<q_intent, handler>>
  BY <1>1 DEF Engine, NoTimeout, AskForLowPower, HoldFullPower, AwaitDecision, AbortRequest,
       ResetStream, KeywordsDone, LeaveLowPower, FinishExit, Awake, ReceiveFrame,
       EndOfEvaluation, NoCommand, Command, QueueKeyword, EngineInv, AtRest, keyword
<1>4. ASSUME UNCHANGED <<notif, phase>>, pc0 # "request" \/ requested_full_power \/ "ENTER" \in notif
             \/ intent_power_state = "EXITING"
      PROVE  WakingUp' /\ AnswerLeft' = AnswerLeft
  <2>1. WakingUp'
    BY <1>2, <1>4 DEF WakingUp, phase
  <2>2. ReadyLeft' = ReadyLeft \/ (pc0 # "lock" /\ ReadyLeft' = ReadyLeft)
    BY <1>1, <1>2, <1>3 DEF ReadyLeft, SendsLeft
  <2>. QED  BY <1>1, <1>2, <1>4, <2>1, <2>2 DEF AnswerLeft, phase
<1>5. ASSUME WakingUp', AnswerLeft' = AnswerLeft, EngineLeft' <= EngineLeft
      PROVE  /\ WakeUpLeft' <= WakeUpLeft
             /\ EngineLeft' < EngineLeft => WakeUpLeft' < WakeUpLeft
  <2>1. intent_power_state' # "EXITED"
    BY <1>5 DEF WakingUp
  <2>2. /\ RestoreLeft' + AnswerLeft' = RestoreLeft + AnswerLeft
        /\ RestoreLeft + AnswerLeft <= RestoreLeft + AnswerLeft
    BY <1>1, <1>2, <1>5, WakeUpTyping
  <2>. QED  BY <1>1, <1>5, <2>1, <2>2, PartsGoDown, Zenon
<1>6. CASE NoTimeout
  <2>1. UNCHANGED <<notif, phase>> /\ ~timeout_event /\ engine = "timeout" /\ engine' = "power"
    BY <1>6 DEF NoTimeout
  <2>2. WakingUp' /\ AnswerLeft' = AnswerLeft
    BY <1>1, <1>4, <2>1 DEF EngineInv, EngineIsAnswered, TypeOK
  <2>3. EngineLeft' <= EngineLeft /\ (~AsksAgain => EngineLeft' < EngineLeft)
    BY <1>1, <2>1 DEF EngineLeft, AsksAgain, TypeOK, phase
  <2>. QED  BY <1>5, <2>2, <2>3
<1>7. CASE AskForLowPower
  <2>1. /\ intent_power_state = "REQUESTING" /\ intent_power_state' = "REQUESTING"
        /\ ~requested_full_power /\ ~requested_full_power'
        /\ pc0 = "request" /\ "ENTER" \notin notif /\ "ENTER" \in notif' /\ engine = "timeout"
    BY <1>1, <1>7 DEF AskForLowPower, EngineInv, AtRest, WakingUp
  <2>2. AnswerLeft = 16 + MostSends /\ AnswerLeft' = 15 + MostSends
    BY <1>1, <1>2, <2>1 DEF AnswerLeft
  <2>3. WakingUp' /\ EngineLeft' = EngineLeft
    BY <1>2, <2>1 DEF WakingUp, EngineLeft
  <2>. QED  BY <1>1, <1>2, <2>2, <2>3, Waits, PartSinks
<1>8. CASE AwaitDecision
  <2>1. /\ UNCHANGED <<notif, phase, timeout_event>> /\ ~requested_full_power
        /\ engine = "power" /\ engine' = "timeout"
        /\ intent_power_state \in {"REQUESTING", "ENTERED"}
    BY <1>8 DEF AwaitDecision, timing
  <2>2. EngineLeft' = EngineLeft /\ EngineLeft \in Nat
    BY <1>1, <2>1, WakeUpTyping DEF EngineLeft, phase
  <2>3. CASE pc0 # "request" \/ "ENTER" \in notif
    <3>1. AsksAgain
      BY <1>1, <2>1, <2>3 DEF AsksAgain, EngineInv, AtRest, WakingUp
    <3>. QED  BY <1>4, <1>5, <2>1, <2>2, <2>3, <3>1
  <2>4. CASE pc0 = "request" /\ "ENTER" \notin notif
    <3>1. AnswerLeft = 17 + MostSends /\ AnswerLeft' = 16 + MostSends
      BY <1>1, <1>2, <2>1, <2>4 DEF AnswerLeft, phase
    <3>2. WakingUp'
      BY <1>2, <2>1 DEF WakingUp, phase
    <3>. QED  BY <1>1, <1>2, <2>2, <3>1, <3>2, Waits, PartSinks
  <2>. QED  BY <2>3, <2>4
<1>9. CASE AbortRequest \/ LeaveLowPower
  <2>1. /\ requested_full_power /\ engine = "power" /\ engine' = "timeout"
        /\ intent_power_state \in {"REQUESTING", "ENTERED"} /\ intent_power_state' = "EXITING"
        /\ pc1 \notin {"ready", "low"}
    BY <1>1, <1>9 DEF AbortRequest, LeaveLowPower, EngineInv, AtRest, HandshakeInv, Away
  <2>2. WakingUp' /\ AnswerLeft' = AnswerLeft
    BY <1>2, <2>1 DEF WakingUp, AnswerLeft
  <2>3. EngineLeft = 3 /\ EngineLeft' = 2
    BY <2>1 DEF EngineLeft
  <2>. QED  BY <1>5, <2>2, <2>3
<1>10. CASE ResetStream
  <2>1. /\ UNCHANGED <<notif, phase>> /\ intent_power_state = "ENTERING"
        /\ engine = "power" /\ engine' = "drain"
    BY <1>10 DEF ResetStream
  <2>2. WakingUp' /\ AnswerLeft' = AnswerLeft
    BY <1>1, <1>4, <2>1 DEF EngineInv, EngineIsAnswered
  <2>3. EngineLeft = 12 /\ EngineLeft' = 11
    BY <2>1 DEF EngineLeft, phase
  <2>. QED  BY <1>5, <2>2, <2>3
<1>11. CASE KeywordsDone
  <2>1. /\ UNCHANGED <<notif, requested_full_power>> /\ intent_power_state = "ENTERING"
        /\ intent_power_state' = "ENTERED" /\ engine = "drain" /\ engine' = "receive"
        /\ pc0 # "request" \/ requested_full_power
    BY <1>1, <1>11 DEF KeywordsDone, EngineInv, EngineIsAnswered
  <2>2. WakingUp' /\ AnswerLeft' = AnswerLeft
    BY <1>1, <1>2, <1>3, <2>1 DEF WakingUp, AnswerLeft, ReadyLeft, SendsLeft
  <2>3. EngineLeft = 11 /\ EngineLeft' \in 6 .. 10
    <3>1. FrameLeft' \in 0 .. 4
      BY <1>1 DEF FrameLeft, TypeOK
    <3>2. EngineLeft' = 6 + FrameLeft'
      BY <2>1 DEF EngineLeft
    <3>3. EngineLeft = 11
      BY <2>1 DEF EngineLeft
    <3>4. \A x \in 0 .. 4 : 6 + x \in 6 .. 10
      OBVIOUS
    <3>. QED  BY <3>1, <3>2, <3>3, <3>4, Zenon
  <2>. QED  BY <1>5, <2>2, <2>3
<1>12. CASE FinishExit
  <2>1. WakeUpLeft' = 0 /\ intent_power_state' = "EXITED"
    BY <1>12 DEF FinishExit, WakeUpLeft
  <2>2. WakeUpLeft \in 1 .. 31 + MostSends
    BY <1>1, WakeUpTyping
  <2>. QED  BY <1>1, <2>1, <2>2
<1>13. CASE ReceiveFrame
  <2>1. /\ UNCHANGED <<notif, phase>> /\ intent_power_state = "ENTERED"
        /\ engine = "receive" /\ stream > 0 /\ engine' \in {"process", "timeout"}
    BY <1>1, <1>13 DEF ReceiveFrame, EngineInv
  <2>2. WakingUp' /\ AnswerLeft' = AnswerLeft
    BY <1>1, <1>4, <2>1 DEF EngineInv, EngineIsAnswered
  <2>3. EngineLeft = 6 /\ EngineLeft' \in {4, 5}
    BY <1>1, <2>1 DEF EngineLeft, FrameLeft, phase
  <2>. QED  BY <1>5, <2>2, <2>3
<1>14. CASE EndOfEvaluation \/ NoCommand
  <2>1. /\ UNCHANGED <<notif, intent_power_state, requested_full_power>>
        /\ intent_power_state = "ENTERED" /\ engine = "process" /\ engine' = "timeout"
        /\ pc0 # "request" \/ requested_full_power
    BY <1>1, <1>14 DEF EndOfEvaluation, NoCommand, EngineInv, EngineIsAnswered, phase
  <2>2. WakingUp' /\ AnswerLeft' = AnswerLeft
    BY <1>1, <1>2, <1>3, <2>1 DEF WakingUp, AnswerLeft, ReadyLeft, SendsLeft
  <2>3. EngineLeft = 5 /\ EngineLeft' = 4
    BY <2>1 DEF EngineLeft
  <2>. QED  BY <1>5, <2>2, <2>3
<1>15. ~HoldFullPower /\ ~Awake /\ ~Command /\ ~QueueKeyword
  <2>1. ~HoldFullPower /\ ~Awake /\ ~QueueKeyword
    BY <1>1 DEF HoldFullPower, Awake, QueueKeyword, EngineInv
  <2>2. ~late_command' /\ late_command' = (late_command \/ CommandIsLate)
    BY DEF LowPowerInv, EngineInv, Engine
  <2>3. ~Command
    BY <1>1, <2>2 DEF Command, CommandIsLate
  <2>. QED  BY <2>1, <2>3
<1>. QED
  BY <1>6, <1>7, <1>8, <1>9, <1>10, <1>11, <1>12, <1>13, <1>14, <1>15 DEF Engine

\* Until a command comes late, keyword_proc_busy is clear from a request to the return
\* to normal operation.
NothingProcessed == intent_power_state # "EXITED" => ~keyword_proc_busy
LEMMA NothingProcessedHolds == Spec => [](late_command \/ NothingProcessed)
<1>1. Init => NothingProcessed
  BY DEF Init, NothingProcessed
<1>2. ASSUME LowPowerInv, ~late_command', NothingProcessed, [Next]_vars
      PROVE  NothingProcessed'
  <2>1. EngineInv
    BY <1>2 DEF LowPowerInv
  <2>2. CASE Engine
    BY <1>2, <2>1, <2>2
       DEF Engine, CommandIsLate, NoTimeout, AskForLowPower, HoldFullPower, AwaitDecision, AbortRequest,
           ResetStream, KeywordsDone, LeaveLowPower, FinishExit, Awake, ReceiveFrame,
           EndOfEvaluation, NoCommand, Command, QueueKeyword, NothingProcessed, EngineInv,
           keyword, phase
  <2>3. CASE Handler
    BY <1>2, <2>3 DEF Handler, ReceiveKeyword, SendKeyword, KeywordSent, CountKeywords,
         CompleteKeyword, NothingProcessed, phase
  <2>4. CASE PowerControl0 \/ Led
    <3>1. UNCHANGED keyword /\ (UNCHANGED intent_power_state \/ Accepted)
      BY <2>4 DEF PowerControl0, Led, RequestLowPower, Accepted, Rejected, Halted,
           IndicatedAsleep, LockDrivers, ReturnToFullPower, IndicatedAwake, Indicate, phase
    <3>2. Accepted => intent_power_state = "REQUESTING"
      BY <2>1 DEF Accepted, EngineInv
    <3>. QED  BY <1>2, <3>1, <3>2 DEF NothingProcessed, keyword
  <2>5. CASE Wakeword \/ PowerTimer \/ PowerControl1 \/ IntentTimer \/ UNCHANGED vars
    <3>1. UNCHANGED <<phase, keyword>>
      BY <2>5 DEF Wakeword, PushFrame, PowerTimer, PowerControl1, IntentTimer, vars
    <3>. QED  BY <1>2, <3>1 DEF NothingProcessed, phase, keyword
  <2>. QED  BY <1>2, <2>2, <2>3, <2>4, <2>5 DEF Next
<1>3. ASSUME CoreInv, late_command \/ LowPowerInv, late_command \/ NothingProcessed,
             [Next]_vars, ~late_command'
      PROVE  NothingProcessed'
  <2>1. LowPowerInv /\ NothingProcessed
    BY <1>3, StaysLate
  <2>. QED  BY <1>2, <1>3, <2>1
<1>. QED  BY <1>1, <1>3, CoreHolds, InvariantHolds, PTL DEF Spec

\* A sleep that is told to end leads back to normal operation, with the clocks restored
\* and the drivers free: at most 31 + MostSends steps of the tasks it is waiting for,
\* however the others are interleaved, and the wakeword may be said again meanwhile, as
\* long as no command comes late.
THEOREM WokenUpInTheEnd ==
  Spec => [](late_command \/ WakeUpInv) /\ [][late_command' \/ WakeUpCountsDown]_vars
<1>1. LowPowerInv /\ NothingProcessed => WakeUpInv
  <2>. SUFFICES ASSUME LowPowerInv, NothingProcessed PROVE WakeUpInv
    OBVIOUS
  <2>1. TypeOK /\ HandshakeInv /\ LedInv /\ EngineInv
    BY DEF LowPowerInv
  <2>2. power_state = "LOW" /\ lp_exit => WakingUp \/ intent_power_state = "EXITED"
    BY <2>1 DEF WakingUp, HandshakeInv
  <2>3. WakingUp => WakeUpLeft \in 1 .. 31 + MostSends
    BY WakeUpTyping DEF WakingUp
  <2>4. intent_power_state = "EXITED" => ~slow /\ ~locked
    BY <2>1 DEF HandshakeInv, EngineInv, AtRest, Away
  <2>5. ASSUME WakingUp PROVE WakeUpGoesOn
    <3>1. intent_power_state # "EXITED"
      BY <2>5 DEF WakingUp
    <3>2. CASE AsksAgain /\ intent_power_state = "REQUESTING"
      <4>1. \/ pc0 = "request" /\ notif = {"ENTER"}
            \/ pc0 = "response"
        BY <2>1, <2>5, <3>2 DEF AsksAgain, WakingUp, EngineInv, EngineIsAnswered, LedInv, TypeOK
      <4>. QED  BY <2>1, <4>1 DEF HandshakeInv, Away, WakeUpGoesOn
    <3>3. CASE AsksAgain /\ intent_power_state = "ENTERED"
      <4>1. pc0 \in {"asleep", "lock", "low", "awake"} /\ notif \subseteq {"IND"}
        BY <2>1, <3>3 DEF AsksAgain, EngineInv, EngineIsAnswered, TypeOK
      <4>. QED  BY <2>1, <2>5, <4>1 DEF HandshakeInv, Away, LedInv, WakingUp, WakeUpGoesOn
    <3>4. CASE engine = "receive" /\ stream = 0 /\ power_state = "LOW"
      <4>1. pc1 \in {"ready", "low", "full"} /\ intent_power_state = "ENTERED"
        BY <2>1, <3>1, <3>4 DEF HandshakeInv, EngineInv
      <4>2. pc1 = "ready" => pc0 \in {"asleep", "lock", "low"} /\ notif \subseteq {"IND"}
        BY <2>1, <4>1 DEF HandshakeInv, EngineInv, EngineIsAnswered, TypeOK, AtRest, Away
      <4>. QED  BY <2>1, <2>5, <4>1, <4>2 DEF HandshakeInv, Away, LedInv, WakingUp, WakeUpGoesOn
    <3>5. CASE engine = "receive" /\ (stream > 0 \/ power_state = "FULL")
      BY <3>5 DEF WakeUpGoesOn
    <3>6. CASE engine = "drain"
      BY <3>1, <3>6 DEF NothingProcessed, WakeUpGoesOn
    <3>7. CASE engine \in {"timeout", "power", "process"} /\ ~AsksAgain
      BY <3>7 DEF WakeUpGoesOn
    <3>8. engine # "queue" /\ (engine = "process" => ~AsksAgain) /\ (stream = 0 \/ stream > 0)
      BY <2>1, <3>1, LowPowerAssumption DEF EngineInv, AsksAgain, TypeOK
    <3>9. AsksAgain => intent_power_state \in {"REQUESTING", "ENTERED"}
      BY DEF AsksAgain
    <3>. QED  BY <2>1, <3>2, <3>3, <3>4, <3>5, <3>6, <3>7, <3>8, <3>9 DEF TypeOK
  <2>. QED  BY <2>2, <2>3, <2>4, <2>5 DEF WakeUpInv
<1>2. ASSUME LowPowerInv, LowPowerInv', [Next]_vars PROVE [WakeUpCountsDown]_vars
  <2>. SUFFICES ASSUME LowPowerInv, LowPowerInv', Next, WakingUp
                PROVE  /\ WakingUp' \/ intent_power_state' = "EXITED"
                       /\ WakeUpLeft' <= WakeUpLeft
                       /\ WakeUpCounts => WakeUpLeft' < WakeUpLeft
    BY <1>2 DEF WakeUpCountsDown
  <2>1. ~IntentTimer
    BY DEF IntentTimer, WakingUp, LowPowerInv, EngineInv
  <2>2. CASE PowerControl1 \/ PowerControl0 \/ Led
    <3>1. WakingUp' /\ WakeUpLeft' < WakeUpLeft
      BY <2>2, PowerControl1Restores, PowerControl0Restores
    <3>2. WakeUpLeft \in Nat /\ WakeUpLeft' \in Nat
      BY <3>1, WakeUpTyping, WakeUpTypingPrimed, LowPowerAssumption DEF WakingUp, MostSends
    <3>. QED  BY <3>1, <3>2
  <2>3. CASE Next /\ ~PowerControl1 /\ ~PowerControl0 /\ ~Led
    <3>1. CASE Wakeword \/ PowerTimer \/ Handler \/ Engine
      BY <2>3, <3>1, FramesComeNearer, HandlerRestores, EngineResumes DEF WakeUpCounts
    <3>. QED  BY <2>1, <2>3, <3>1 DEF Next
  <2>. QED  BY <2>2, <2>3
<1>3. ASSUME CoreInv, late_command \/ LowPowerInv, (late_command \/ LowPowerInv)', [Next]_vars
      PROVE  [late_command' \/ WakeUpCountsDown]_vars
  <2>1. CASE late_command'
    BY <2>1
  <2>2. CASE ~late_command'
    <3>1. LowPowerInv /\ LowPowerInv'
      BY <1>3, <2>2, StaysLate
    <3>. QED  BY <1>2, <1>3, <3>1
  <2>. QED  BY <2>1, <2>2
<1>4. Spec => [](late_command \/ WakeUpInv)
  BY <1>1, InvariantHolds, NothingProcessedHolds, PTL
<1>5. Spec => [][late_command' \/ WakeUpCountsDown]_vars
  BY <1>3, CoreHolds, InvariantHolds, PTL DEF Spec
<1>. QED  BY <1>4, <1>5
=============================================================================
