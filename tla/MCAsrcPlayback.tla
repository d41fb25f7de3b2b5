-------------------------- MODULE MCAsrcPlayback --------------------------
(* An instance of AsrcPlayback for model checking. *)
EXTENDS AsrcPlayback, TLC
=============================================================================
