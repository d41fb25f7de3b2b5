--------------------------- MODULE SlidingWindow ---------------------------
(***************************************************************************)
(* What the low-power audio buffer promises its caller: it keeps the       *)
(* newest Size frames it is given, and hands them on oldest first.         *)
(***************************************************************************)
EXTENDS Naturals, SequencesExt

CONSTANTS Size, Frame

VARIABLES
  held,   (* The frames kept, oldest first.                                  *)
  sent    (* What the latest call handed on.                                 *)

vars == <<held, sent>>

Init == held = <<>> /\ sent = <<>>

Newest(s) == IF Len(s) <= Size THEN s ELSE SubSeq(s, Len(s) - Size + 1, Len(s))

Put(samples) ==
  /\ held' = Newest(held \o samples)
  /\ sent' = <<>>

Get(n) ==
  LET m == IF n < Len(held) THEN n ELSE Len(held)
  IN  /\ sent' = SubSeq(held, 1, m)
      /\ held' = SubSeq(held, m + 1, Len(held))

Next ==
  \/ \E samples \in BoundedSeq(Frame, Size) : Put(samples)
  \/ \E n \in 0 .. Size + 1 : Get(n)

Spec == Init /\ [][Next]_vars
=============================================================================
