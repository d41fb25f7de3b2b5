--------------------------- MODULE MCAsrcRecord ---------------------------
(* An instance of AsrcRecord for model checking. *)
EXTENDS AsrcRecord, TLC
=============================================================================
