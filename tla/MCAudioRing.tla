---------------------------- MODULE MCAudioRing ----------------------------
(* An instance of AudioRing for model checking. *)
EXTENDS AudioRing, TLC, SequencesExt

MCBatch == BoundedSeq(Frame, Size)
=============================================================================
