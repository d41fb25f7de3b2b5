---------------------------- MODULE BoundedQueue ----------------------------
(***************************************************************************)
(* What a buffer between an audio interface and a task promises both: a    *)
(* first-in first-out queue of at most Size samples.  What one side gives  *)
(* is put into the queue once, and dropped only when there is no room; the *)
(* other side takes the oldest samples, or Nothing.                        *)
(***************************************************************************)
EXTENDS Naturals, Sequences

CONSTANTS
  Size,      (* Most samples the queue holds.                                *)
  Sample,    (* Contents of a sample.                                        *)
  Nothing    (* What the taker gets from a queue it does not read.           *)

VARIABLES
  given,     (* The samples that wait to be put.                             *)
  queue,     (* The samples held, oldest first.                              *)
  taken      (* What the taker got last.                                     *)

vars == <<given, queue, taken>>

Room == Len(queue) + Len(given) <= Size

Init == given = <<>> /\ queue = <<>> /\ taken = Nothing

Give ==
  /\ given = <<>> /\ given' \in Seq(Sample)
  /\ UNCHANGED <<queue, taken>>

Put ==
  /\ Room
  /\ given' = <<>> /\ queue' = queue \o given
  /\ UNCHANGED taken

Drop ==
  /\ ~Room
  /\ given' = <<>>
  /\ UNCHANGED <<queue, taken>>

Take ==
  /\ \E n \in 1 .. Len(queue) :
       /\ taken' = SubSeq(queue, 1, n)
       /\ queue' = SubSeq(queue, n + 1, Len(queue))
  /\ UNCHANGED given

TakeNothing == taken' = Nothing /\ UNCHANGED <<given, queue>>

Next == Give \/ Put \/ Drop \/ Take \/ TakeNothing
Spec == Init /\ [][Next]_vars
=============================================================================
