---------------------------- MODULE MCAudioPath ----------------------------
(* An instance of AudioPath for model checking. *)
EXTENDS AudioPath, TLC
=============================================================================
