----------------------------- MODULE MCLowPower -----------------------------
(* Instances of LowPower for model checking. *)
EXTENDS LowPower, TLC

\* What follows once the timer of a late command has run out is left unexplored:
\* the properties that speak of it do not depend on how it goes on.
LateBound == late_command => timer # "off"
=============================================================================
