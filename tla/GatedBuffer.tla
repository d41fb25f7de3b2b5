---------------------------- MODULE GatedBuffer ----------------------------
(***************************************************************************)
(* What the buffer towards a USB host promises.  A gate is closed, and the *)
(* host gets silence, until a transfer finds the buffer half full.  Then   *)
(* each transfer takes its size of samples, or all there are: a buffer     *)
(* that runs dry leaves the gate open.  The gate closes with a reset of    *)
(* the buffer only, which throws away what it held.                        *)
(***************************************************************************)
EXTENDS Naturals

CONSTANTS
  Size,            (* Most samples the buffer holds.                         *)
  Transfers        (* The samples of a transfer.                             *)

VARIABLES
  level,           (* Samples held.                                          *)
  open             (* May the host take them?                                *)

vars == <<level, open>>

Init == level = 0 /\ open = FALSE

Put == level' \in level .. Size /\ UNCHANGED open

Take ==
  /\ open \/ level >= Size \div 2
  /\ open' = TRUE
  /\ \E n \in Transfers : level' = IF n < level THEN level - n ELSE 0

Reset == level' = 0 /\ open' = FALSE

Next == Put \/ Take \/ Reset
Spec == Init /\ [][Next]_vars
=============================================================================
