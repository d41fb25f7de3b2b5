----------------------------- MODULE AudioRing -----------------------------
(***************************************************************************)
(* The ring buffer that keeps the latest audio while the low-power example *)
(* sleeps (low_power_audio_buffer.c).  The unit is a frame: every caller   *)
(* enqueues whole frames of appconfAUDIO_PIPELINE_FRAME_ADVANCE samples,   *)
(* and pointers are offsets from buf in frames.                            *)
(***************************************************************************)
EXTENDS Integers, Sequences

CONSTANTS
  Size,    (* appconfAUDIO_PIPELINE_BUFFER_NUM_FRAMES                        *)
  Frame,   (* Contents of an audio frame.                                    *)
  Zero,    (* The frame of zeros sample_buf starts with.                     *)
  Batch    (* The arrays of frames that callers enqueue.                     *)

ASSUME RingAssumption ==
  /\ Size \in Nat \ {0} /\ Zero \in Frame
  /\ Batch \subseteq Seq(Frame) /\ \A samples \in Batch : Len(samples) <= Size

VARIABLES
  ring,    (* ring_buf, a record with the fields of the C structure.         *)
  sent     (* The frames the latest call gave intent_engine_sample_push.     *)

ringVars == <<ring, sent>>

Slot == 0 .. Size - 1
Smaller(a, b) == IF a < b THEN a ELSE b
WrapLate(ptr) == IF ptr > Size THEN 0 ELSE ptr
Wrap(ptr) == IF ptr >= Size THEN 0 ELSE ptr

EmptyRing ==
  [buf |-> [i \in Slot |-> Zero], set_ptr |-> 0, get_ptr |-> 0,
   count |-> 0, full |-> FALSE, empty |-> TRUE]

RingInit == ring = EmptyRing /\ sent = <<>>

(***************************************************************************)
(* low_power_audio_buffer_enqueue: the samples go from set_ptr to the tail *)
(* of the buffer, and what is left over to its head.  A full buffer has    *)
(* its oldest frame where the next one will be set.                        *)
(***************************************************************************)
Enqueued(r, samples) ==
  LET n    == Len(samples)
      tail == Smaller(n, Size - r.set_ptr)
      head == n - tail
      set  == Wrap(IF head # 0 THEN head ELSE r.set_ptr + tail)
      full == r.count + n >= Size
      count == IF full THEN Size ELSE r.count + n
  IN [buf |-> [i \in Slot |->
                 CASE i < head -> samples[tail + i + 1]
                   [] i >= head /\ i \in r.set_ptr .. r.set_ptr + tail - 1 ->
                        samples[i - r.set_ptr + 1]
                   [] OTHER -> r.buf[i]],
      set_ptr |-> set,
      get_ptr |-> IF full THEN set ELSE r.get_ptr,
      count |-> count, full |-> full, empty |-> (count = 0)]

(***************************************************************************)
(* low_power_audio_buffer_dequeue: first from get_ptr to the tail, then    *)
(* from the head; nothing is done, to the flags either, when there is      *)
(* nothing to hand on.                                                     *)
(***************************************************************************)
FromTail(r, n) == Smaller(Smaller(n, r.count), Size - r.get_ptr)
FromHead(r, n) == Smaller(n, r.count) - FromTail(r, n)

DequeuedStillFull(r, n) ==
  IF r.count = 0 \/ n = 0 THEN r
  ELSE [r EXCEPT !.empty = (r.count = Smaller(n, r.count)),
                 !.get_ptr = Wrap(r.get_ptr + FromTail(r, n)) + FromHead(r, n),
                 !.count = r.count - Smaller(n, r.count)]

Dequeued(r, n) ==
  IF r.count = 0 \/ n = 0 THEN r
  ELSE [r EXCEPT !.full = FALSE,
                 !.empty = (r.count = Smaller(n, r.count)),
                 !.get_ptr = Wrap(r.get_ptr + FromTail(r, n)) + FromHead(r, n),
                 !.count = r.count - Smaller(n, r.count)]

PushedHeadLate(r, n) ==
  [i \in 1 .. Smaller(n, r.count) |->
     IF i <= FromTail(r, n) THEN r.buf[r.get_ptr + i - 1] ELSE r.buf[i - 1]]

Pushed(r, n) ==
  [i \in 1 .. Smaller(n, r.count) |->
     IF i <= FromTail(r, n) THEN r.buf[r.get_ptr + i - 1]
     ELSE r.buf[i - FromTail(r, n) - 1]]

-----------------------------------------------------------------------------
(***************************************************************************)
(* The calls of the ring, in any order.                                    *)
(***************************************************************************)
Enqueue(samples) ==
  /\ ring' = Enqueued(ring, samples)
  /\ sent' = <<>>

Dequeue(num_frames) ==
  /\ ring' = Dequeued(ring, num_frames)
  /\ sent' = Pushed(ring, num_frames)

RingNext ==
  \/ \E samples \in Batch : Enqueue(samples)
  \/ \E n \in 0 .. Size + 1 : Dequeue(n)

RingSpec == RingInit /\ [][RingNext]_ringVars

-----------------------------------------------------------------------------
Ring ==
  [buf : [Slot -> Frame], set_ptr : Slot, get_ptr : Slot, count : 0 .. Size,
   full : BOOLEAN, empty : BOOLEAN]

Turn(ptr) == IF ptr >= Size THEN ptr - Size ELSE ptr

Shaped(r) ==
  /\ r.full <=> r.count = Size
  /\ r.empty <=> r.count = 0
  /\ r.set_ptr = Turn(r.get_ptr + r.count)

RingTypeOK == ring \in Ring /\ sent \in Seq(Frame)

\* The flags and the pointers agree with the count after every call: the next
\* frame is set count slots after the oldest, and "full" and "empty" tell a ring
\* whose pointers meet because it is full from one where they meet because it is
\* not.
RingShape == Shaped(ring)

\* "The latest audio samples", and "oldest data will be overwritten": the frames
\* the ring holds, oldest first, are the newest it was given, and dequeuing hands
\* them on in order, whatever the wraps.
Held(r) == [i \in 1 .. r.count |-> r.buf[Turn(r.get_ptr + i - 1)]]
Window == INSTANCE SlidingWindow WITH held <- Held(ring)
KeepsTheNewest == Window!Spec
=============================================================================
