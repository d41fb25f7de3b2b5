---------------------------- MODULE MCI2sDriver ----------------------------
(* An instance of I2sDriver for model checking. *)
EXTENDS I2sDriver, TLC

CONSTANTS a, b
MCBlocks == {<<b>>, <<b, b>>}
=============================================================================
