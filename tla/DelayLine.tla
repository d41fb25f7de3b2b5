----------------------------- MODULE DelayLine -----------------------------
(***************************************************************************)
(* What the audio path of the low-power example promises the intent        *)
(* engine: the microphone's frames come out of one end of a line of at     *)
(* most Size frames in the order they went in at the other.  At full power *)
(* every frame that goes in pushes one out; in low power nothing comes     *)
(* out, and the line forgets its oldest frame when it is too long.         *)
(***************************************************************************)
EXTENDS Naturals, Sequences

CONSTANTS
  Size,   (* Most frames the line holds.                                     *)
  Frame   (* Contents of an audio frame.                                     *)

VARIABLES
  line,   (* The frames held, oldest first.                                  *)
  sent,   (* What the latest frame pushed out.                               *)
  full    (* Is the device at full power?                                    *)

vars == <<line, sent, full>>

Init == line = <<>> /\ sent = <<>> /\ full = TRUE

Pass(frame) ==
  /\ full
  /\ sent' = <<Head(Append(line, frame))>>
  /\ line' = Tail(Append(line, frame))
  /\ UNCHANGED full

Hold(frame) ==
  /\ ~full
  /\ sent' = <<>>
  /\ line' = IF Len(line) < Size THEN Append(line, frame) ELSE Append(Tail(line), frame)
  /\ UNCHANGED full

Switch == full' = ~full /\ UNCHANGED <<line, sent>>

Next == (\E frame \in Frame : Pass(frame) \/ Hold(frame)) \/ Switch
Spec == Init /\ [][Next]_vars
=============================================================================
