----------------------------- MODULE AudioPath -----------------------------
(***************************************************************************)
(* The output callback of the audio pipeline (main.c, low_power_ffd): at   *)
(* full power a frame goes to the intent engine, behind the frames the     *)
(* ring still holds; in low power it goes into the ring.  Another task     *)
(* switches the power between two frames.                                  *)
(***************************************************************************)
EXTENDS AudioRing

VARIABLE power_state   (* power_control_state_get()                          *)

pathVars == <<ring, sent, power_state>>

PathInit == RingInit /\ power_state = "FULL"

OutputFullDirect(frame) ==
  /\ power_state = "FULL"
  /\ ring' = Dequeued(ring, 1)
  /\ sent' = Append(Pushed(ring, 1), frame)
  /\ UNCHANGED power_state

\* One frame is dequeued, and when there was one the newest takes its place.
OutputFull(frame) ==
  /\ power_state = "FULL"
  /\ IF Len(Pushed(ring, 1)) = 1
     THEN /\ ring' = Enqueued(Dequeued(ring, 1), <<frame>>)
          /\ sent' = Pushed(ring, 1)
     ELSE /\ ring' = Dequeued(ring, 1)
          /\ sent' = <<frame>>
  /\ UNCHANGED power_state

OutputLow(frame) ==
  /\ power_state = "LOW"
  /\ ring' = Enqueued(ring, <<frame>>)
  /\ sent' = <<>>
  /\ UNCHANGED power_state

PowerChanges ==
  /\ power_state' = IF power_state = "FULL" THEN "LOW" ELSE "FULL"
  /\ UNCHANGED <<ring, sent>>

PathNext ==
  \/ \E frame \in Frame : OutputFull(frame) \/ OutputLow(frame)
  \/ PowerChanges

PathSpec == PathInit /\ [][PathNext]_pathVars

PathInv == RingTypeOK /\ power_state \in {"FULL", "LOW"} /\ RingShape

-----------------------------------------------------------------------------
\* However often and whenever the power is switched, the engine hears every
\* frame once and in order, but for the oldest that a long sleep overwrites.
Line == INSTANCE DelayLine WITH line <- Held(ring), full <- (power_state = "FULL")
ImplementsDelayLine == Line!Spec
=============================================================================
