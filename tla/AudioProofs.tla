---------------------------- MODULE AudioProofs ----------------------------
(***************************************************************************)
(* Theorems about the audio ring and the path through it, for rings of     *)
(* every size.                                                             *)
(***************************************************************************)
EXTENDS AudioPath, SequenceTheorems, TLAPS

-----------------------------------------------------------------------------
(***************************************************************************)
(* Every call leaves the ring well formed.                                 *)
(***************************************************************************)
LEMMA EmptyRingShaped == EmptyRing \in Ring /\ Shaped(EmptyRing)
  BY RingAssumption DEF EmptyRing, Ring, Slot, Shaped, Turn

\* The next frame is set one place after the last of the samples.
LEMMA EnqueuedSet ==
  ASSUME NEW r \in Ring, NEW samples \in Seq(Frame), Len(samples) <= Size
  PROVE  Enqueued(r, samples).set_ptr = Turn(r.set_ptr + Len(samples))
<1>. DEFINE n     == Len(samples)
            tail  == Smaller(n, Size - r.set_ptr)
            head  == n - tail
            q     == Enqueued(r, samples)
<1>1. Size \in Nat \ {0} /\ n \in 0 .. Size /\ r.set_ptr \in 0 .. Size - 1
  BY RingAssumption DEF Ring, Slot
<1>2. /\ tail \in 0 .. n /\ tail <= Size - r.set_ptr /\ head \in 0 .. r.set_ptr
      /\ head # 0 => tail = Size - r.set_ptr
  BY <1>1 DEF Smaller
<1>3. q.set_ptr = Wrap(IF head # 0 THEN head ELSE r.set_ptr + tail)
  BY DEF Enqueued
<1>4. head = n - tail
  OBVIOUS
<1>. HIDE DEF tail, head, n, q
<1>5. CASE head = 0
  <2>1. q.set_ptr = Wrap(r.set_ptr + n) /\ r.set_ptr + n \in 0 .. Size
    BY <1>1, <1>2, <1>3, <1>4, <1>5
  <2>2. q.set_ptr = Turn(r.set_ptr + n)
    BY <1>1, <2>1 DEF Wrap, Turn
  <2>. QED  BY <2>2 DEF q, n
<1>6. CASE head # 0
  <2>1. tail = Size - r.set_ptr
    BY <1>2, <1>6, Zenon
  <2>2. head = r.set_ptr + n - Size /\ head \in 1 .. Size - 1
    BY <1>1, <1>2, <1>4, <1>6, <2>1, SMTT(20)
  <2>3. q.set_ptr = Wrap(head)
    BY <1>3, <1>6, Zenon
  <2>4. q.set_ptr = Turn(r.set_ptr + n)
    BY <1>1, <2>2, <2>3 DEF Wrap, Turn
  <2>. QED  BY <2>4 DEF q, n
<1>. QED  BY <1>5, <1>6

LEMMA EnqueuedShaped ==
  ASSUME NEW r \in Ring, Shaped(r), NEW samples \in Seq(Frame), Len(samples) <= Size
  PROVE  Enqueued(r, samples) \in Ring /\ Shaped(Enqueued(r, samples))
<1>. DEFINE n     == Len(samples)
            tail  == Smaller(n, Size - r.set_ptr)
            head  == n - tail
            q     == Enqueued(r, samples)
<1>1. /\ Size \in Nat \ {0} /\ n \in 0 .. Size /\ r.set_ptr \in 0 .. Size - 1
      /\ r.get_ptr \in 0 .. Size - 1 /\ r.count \in 0 .. Size
      /\ r.set_ptr = Turn(r.get_ptr + r.count)
  BY RingAssumption DEF Ring, Slot, Shaped
<1>2. /\ tail \in 0 .. n /\ tail <= Size - r.set_ptr /\ head \in 0 .. r.set_ptr
      /\ head # 0 => tail = Size - r.set_ptr
  BY <1>1 DEF Smaller
<1>3. ASSUME NEW i \in Slot
      PROVE  q.buf[i] \in Frame
  <2>1. CASE i < head
    BY <1>1, <1>2, <2>1 DEF Enqueued, Slot
  <2>2. CASE i >= head /\ i \in r.set_ptr .. r.set_ptr + tail - 1
    <3>1. i - r.set_ptr + 1 \in 1 .. n
      BY <1>1, <1>2, <2>2, SMTT(20) DEF Slot
    <3>. QED  BY <2>2, <3>1 DEF Enqueued
  <2>3. CASE ~(i < head) /\ ~(i >= head /\ i \in r.set_ptr .. r.set_ptr + tail - 1)
    BY <2>3 DEF Enqueued, Ring
  <2>. QED  BY <2>1, <2>2, <2>3
<1>4. q.set_ptr = Turn(r.set_ptr + n) /\ q.set_ptr \in Slot
  <2>1. q.set_ptr = Turn(r.set_ptr + n)
    BY EnqueuedSet
  <2>. QED  BY <1>1, <2>1 DEF Turn, Slot
<1>6. q.get_ptr = (IF r.count + n >= Size THEN q.set_ptr ELSE r.get_ptr)
      /\ q.count = (IF r.count + n >= Size THEN Size ELSE r.count + n)
      /\ q.full = (r.count + n >= Size) /\ q.empty = (q.count = 0)
  BY DEF Enqueued
<1>5. /\ q.full \in BOOLEAN /\ q.empty \in BOOLEAN /\ q.count \in 0 .. Size
      /\ q.full <=> q.count = Size
      /\ q.empty <=> q.count = 0
  <2>1. q.count \in 0 .. Size /\ (r.count + n >= Size <=> q.count = Size)
    BY <1>1, <1>6
  <2>4. (r.count + n >= Size) \in BOOLEAN
    BY <1>1
  <2>2. q.full \in BOOLEAN /\ (q.full <=> q.count = Size)
    BY <1>6, <2>1, <2>4, Zenon
  <2>3. q.empty \in BOOLEAN /\ (q.empty <=> q.count = 0)
    BY <1>6, Zenon
  <2>. QED  BY <2>1, <2>2, <2>3, Zenon
<1>7. q.get_ptr \in Slot
  BY <1>1, <1>4, <1>6 DEF Slot
<1>8. q.set_ptr = Turn(q.get_ptr + q.count)
  BY <1>1, <1>4, <1>6, SMTT(20) DEF Turn, Slot
<1>9. q \in Ring
  BY <1>3, <1>4, <1>5, <1>7 DEF Enqueued, Ring
<1>. QED  BY <1>5, <1>8, <1>9 DEF Shaped

LEMMA DequeuedShaped ==
  ASSUME NEW r \in Ring, Shaped(r), NEW n \in Nat
  PROVE  Dequeued(r, n) \in Ring /\ Shaped(Dequeued(r, n))
<1>1. /\ Size \in Nat \ {0} /\ r.set_ptr \in 0 .. Size - 1 /\ r.buf \in [Slot -> Frame]
      /\ r.get_ptr \in 0 .. Size - 1 /\ r.count \in 0 .. Size
      /\ r.set_ptr = Turn(r.get_ptr + r.count)
  BY RingAssumption DEF Ring, Slot, Shaped
<1>2. CASE r.count = 0 \/ n = 0
  BY <1>2 DEF Dequeued
<1>3. CASE r.count # 0 /\ n # 0
  <2>. DEFINE m == Smaller(n, r.count)
              q == Dequeued(r, n)
  <2>1. m \in 1 .. r.count
    BY <1>1, <1>3 DEF Smaller
  <2>2. /\ q.buf = r.buf /\ q.set_ptr = r.set_ptr /\ q.full = FALSE
        /\ q.count = r.count - m /\ q.empty = (r.count = m)
        /\ q.get_ptr = Wrap(r.get_ptr + FromTail(r, n)) + FromHead(r, n)
    BY <1>3 DEF Dequeued, Ring
  <2>3. q.get_ptr = Turn(r.get_ptr + m)
    BY <1>1, <2>1, <2>2 DEF FromTail, FromHead, Wrap, Turn, Smaller
  <2>4. q.get_ptr \in Slot /\ q.count \in 0 .. Size - 1
    BY <1>1, <2>1, <2>2, <2>3, SMTT(20) DEF Turn, Slot
  <2>5. q \in Ring
    <3>1. q = [r EXCEPT !.full = FALSE, !.empty = q.empty, !.get_ptr = q.get_ptr,
                        !.count = q.count]
      BY <1>3, <2>2 DEF Dequeued
    <3>2. q.get_ptr \in Slot /\ q.count \in 0 .. Size /\ q.empty \in BOOLEAN
      BY <1>1, <2>2, <2>4
    <3>3. ASSUME NEW e \in BOOLEAN, NEW g \in Slot, NEW c \in 0 .. Size
          PROVE  [r EXCEPT !.full = FALSE, !.empty = e, !.get_ptr = g, !.count = c]
                   \in Ring
      BY DEF Ring
    <3>. HIDE DEF q
    <3>4. [r EXCEPT !.full = FALSE, !.empty = q.empty, !.get_ptr = q.get_ptr,
                    !.count = q.count] \in Ring
      BY <3>2, <3>3, Zenon
    <3>. QED  BY <3>1, <3>4, Zenon
  <2>6. q.set_ptr = Turn(q.get_ptr + q.count)
    BY <1>1, <2>1, <2>2, <2>3 DEF Turn
  <2>7. (q.full <=> q.count = Size) /\ (q.empty <=> q.count = 0)
    <3>1. (FALSE <=> q.count = Size) /\ (r.count = m <=> q.count = 0)
      BY <1>1, <2>1, <2>2, <2>4
    <3>. QED  BY <2>2, <3>1, Zenon
  <2>. QED  BY <2>5, <2>6, <2>7 DEF Shaped
<1>. QED  BY <1>2, <1>3

LEMMA PushedType ==
  ASSUME NEW r \in Ring, NEW n \in Nat
  PROVE  Pushed(r, n) \in Seq(Frame) /\ Len(Pushed(r, n)) = Smaller(n, r.count)
<1>. DEFINE m == Smaller(n, r.count)
<1>1. /\ Size \in Nat \ {0} /\ r.buf \in [Slot -> Frame]
      /\ r.get_ptr \in 0 .. Size - 1 /\ r.count \in 0 .. Size
  BY RingAssumption DEF Ring, Slot
<1>2. m \in 0 .. Size /\ FromTail(r, n) \in 0 .. m /\ FromTail(r, n) <= Size - r.get_ptr
  BY <1>1 DEF Smaller, FromTail
<1>3. ASSUME NEW i \in 1 .. m PROVE Pushed(r, n)[i] \in Frame
  <2>1. CASE i <= FromTail(r, n)
    <3>1. r.get_ptr + i - 1 \in Slot
      BY <1>1, <1>2, <2>1 DEF Slot
    <3>. QED  BY <1>1, <2>1, <3>1 DEF Pushed
  <2>2. CASE ~(i <= FromTail(r, n))
    <3>1. i - FromTail(r, n) - 1 \in Slot
      BY <1>1, <1>2, <2>2 DEF Slot
    <3>. QED  BY <1>1, <2>2, <3>1 DEF Pushed
  <2>. QED  BY <2>1, <2>2
<1>4. Pushed(r, n) \in [1 .. m -> Frame]
  BY <1>3 DEF Pushed
<1>. QED  BY <1>2, <1>4

LEMMA RingInvariant == RingSpec => [](RingTypeOK /\ RingShape)
<1>1. RingInit => RingTypeOK /\ RingShape
  BY EmptyRingShaped DEF RingInit, RingTypeOK, RingShape
<1>2. RingTypeOK /\ RingShape /\ [RingNext]_ringVars => (RingTypeOK /\ RingShape)'
  <2>. SUFFICES ASSUME RingTypeOK, RingShape, [RingNext]_ringVars
                PROVE  (RingTypeOK /\ RingShape)'
    OBVIOUS
  <2>. USE DEF RingTypeOK, RingShape
  <2>1. CASE \E samples \in Batch : Enqueue(samples)
    BY <2>1, RingAssumption, EnqueuedShaped DEF Enqueue
  <2>2. CASE \E n \in 0 .. Size + 1 : Dequeue(n)
    BY <2>2, RingAssumption, DequeuedShaped, PushedType DEF Dequeue
  <2>3. CASE UNCHANGED ringVars
    BY <2>3 DEF ringVars
  <2>. QED  BY <2>1, <2>2, <2>3 DEF RingNext
<1>. QED  BY <1>1, <1>2, PTL DEF RingSpec

\* "full" and "empty" never lie, for any size of ring and any sequence of calls
\* with whole frames.
THEOREM RingIsShaped == RingSpec => []RingShape
  BY RingInvariant, PTL

\* The pointers never leave the buffer, under the same calls.
THEOREM RingIsTyped == RingSpec => []RingTypeOK
  BY RingInvariant, PTL

-----------------------------------------------------------------------------
(***************************************************************************)
(* What a call does to the frames held, oldest first.                      *)
(***************************************************************************)
LEMMA HeldType ==
  ASSUME NEW r \in Ring
  PROVE  /\ Held(r) \in Seq(Frame) /\ Len(Held(r)) = r.count
         /\ \A i \in 1 .. r.count :
              /\ Turn(r.get_ptr + i - 1) \in Slot
              /\ Held(r)[i] = r.buf[Turn(r.get_ptr + i - 1)]
<1>1. /\ Size \in Nat \ {0} /\ r.buf \in [Slot -> Frame]
      /\ r.get_ptr \in 0 .. Size - 1 /\ r.count \in 0 .. Size
  BY RingAssumption DEF Ring, Slot
<1>2. ASSUME NEW i \in 1 .. r.count
      PROVE  Turn(r.get_ptr + i - 1) \in Slot
  BY <1>1 DEF Turn, Slot
<1>3. ASSUME NEW i \in 1 .. r.count
      PROVE  /\ Held(r)[i] = r.buf[Turn(r.get_ptr + i - 1)]
             /\ Held(r)[i] \in Frame
  BY <1>1, <1>2 DEF Held
<1>4. Held(r) \in [1 .. r.count -> Frame]
  BY <1>3 DEF Held
<1>. QED  BY <1>1, <1>2, <1>3, <1>4

LEMMA OneEnqueued ==
  ASSUME NEW r \in Ring, NEW f \in Frame
  PROVE  LET q == Enqueued(r, <<f>>)
             full == r.count + 1 >= Size
         IN  /\ q.buf = [r.buf EXCEPT ![r.set_ptr] = f]
             /\ q.set_ptr = Turn(r.set_ptr + 1)
             /\ q.get_ptr = IF full THEN q.set_ptr ELSE r.get_ptr
             /\ q.count = IF full THEN Size ELSE r.count + 1
<1>. DEFINE q == Enqueued(r, <<f>>)
<1>1. /\ Size \in Nat \ {0} /\ r.buf \in [Slot -> Frame]
      /\ r.set_ptr \in 0 .. Size - 1 /\ r.count \in 0 .. Size
  BY RingAssumption DEF Ring, Slot
<1>2. /\ Len(<<f>>) = 1 /\ <<f>>[1] = f
      /\ Smaller(1, Size - r.set_ptr) = 1 /\ 1 - 1 = 0
      /\ r.set_ptr .. r.set_ptr + 1 - 1 = {r.set_ptr}
  BY <1>1 DEF Smaller
<1>3. q.buf = [i \in Slot |-> IF i = r.set_ptr THEN f ELSE r.buf[i]]
  <2>1. ASSUME NEW i \in Slot
        PROVE  q.buf[i] = IF i = r.set_ptr THEN f ELSE r.buf[i]
    BY <1>1, <1>2 DEF Enqueued, Slot
  <2>. QED  BY <2>1 DEF Enqueued
<1>4. q.set_ptr = Wrap(r.set_ptr + 1)
  BY <1>2 DEF Enqueued
<1>5. Wrap(r.set_ptr + 1) = Turn(r.set_ptr + 1)
  BY <1>1 DEF Wrap, Turn
<1>6. /\ q.get_ptr = IF r.count + 1 >= Size THEN q.set_ptr ELSE r.get_ptr
      /\ q.count = IF r.count + 1 >= Size THEN Size ELSE r.count + 1
  BY <1>2 DEF Enqueued
<1>. QED  BY <1>1, <1>3, <1>4, <1>5, <1>6

\* A ring with room keeps what it held and the new frame after it; a full one
\* drops its oldest.
LEMMA EnqueueKeepsTheNewest ==
  ASSUME NEW r \in Ring, Shaped(r), NEW f \in Frame
  PROVE  Held(Enqueued(r, <<f>>)) =
           IF r.count < Size THEN Append(Held(r), f) ELSE Append(Tail(Held(r)), f)
<1>. DEFINE q == Enqueued(r, <<f>>)
<1>1. /\ Size \in Nat \ {0} /\ r.buf \in [Slot -> Frame]
      /\ r.get_ptr \in 0 .. Size - 1 /\ r.count \in 0 .. Size /\ r.set_ptr \in Slot
      /\ r.set_ptr = Turn(r.get_ptr + r.count)
  BY RingAssumption DEF Ring, Slot, Shaped
<1>2. q \in Ring
  <2>1. <<f>> \in Seq(Frame) /\ Len(<<f>>) <= Size
    BY <1>1
  <2>. QED  BY <2>1, EnqueuedShaped
<1>3. /\ q.buf = [r.buf EXCEPT ![r.set_ptr] = f]
      /\ q.set_ptr = Turn(r.set_ptr + 1)
      /\ q.get_ptr = IF r.count + 1 >= Size THEN q.set_ptr ELSE r.get_ptr
      /\ q.count = IF r.count + 1 >= Size THEN Size ELSE r.count + 1
  BY OneEnqueued
<1>. HIDE DEF q
<1>4. /\ Held(r) \in Seq(Frame) /\ Len(Held(r)) = r.count
      /\ Held(q) \in Seq(Frame) /\ Len(Held(q)) = q.count
  BY <1>2, HeldType
<1>5. CASE r.count < Size
  <2>. DEFINE t == Append(Held(r), f)
  <2>1. t \in Seq(Frame) /\ Len(t) = r.count + 1
    BY <1>1, <1>4
  <2>2. q.count = r.count + 1 /\ q.get_ptr = r.get_ptr
    <3>1. CASE r.count + 1 < Size
      BY <1>1, <1>3, <3>1
    <3>2. CASE r.count + 1 = Size
      <4>1. Turn(r.set_ptr + 1) = r.get_ptr
        BY <1>1, <3>2 DEF Turn
      <4>. QED  BY <1>1, <1>3, <3>2, <4>1
    <3>. QED  BY <1>1, <1>5, <3>1, <3>2
  <2>3. ASSUME NEW i \in 1 .. q.count
        PROVE  Held(q)[i] = t[i]
    <3>1. Held(q)[i] = q.buf[Turn(r.get_ptr + i - 1)] /\ Turn(r.get_ptr + i - 1) \in Slot
      BY <1>2, <2>2, HeldType
    <3>2. CASE i = r.count + 1
      <4>1. Turn(r.get_ptr + i - 1) = r.set_ptr
        BY <1>1, <3>2
      <4>2. t[i] = f
        BY <1>1, <1>4, <3>2
      <4>. QED  BY <1>1, <1>3, <3>1, <4>1, <4>2
    <3>3. CASE i # r.count + 1
      <4>1. i \in 1 .. r.count
        BY <1>1, <2>2, <3>3
      <4>2. Turn(r.get_ptr + i - 1) # r.set_ptr
        BY <1>1, <1>5, <4>1 DEF Turn
      <4>3. t[i] = Held(r)[i]
        BY <1>4, <4>1
      <4>4. Held(r)[i] = r.buf[Turn(r.get_ptr + i - 1)]
        BY <4>1, HeldType
      <4>. QED  BY <1>1, <1>3, <3>1, <4>2, <4>3, <4>4
    <3>. QED  BY <3>2, <3>3
  <2>4. Held(q) = t
    <3>. HIDE DEF t
    <3>. QED  BY <1>4, <2>1, <2>2, <2>3, SeqEqual
  <2>. QED  BY <1>5, <2>4 DEF q
<1>6. CASE r.count = Size
  <2>. DEFINE t == Append(Tail(Held(r)), f)
  <2>1. /\ Tail(Held(r)) \in Seq(Frame) /\ Len(Tail(Held(r))) = Size - 1
        /\ \A i \in 1 .. Size - 1 : Tail(Held(r))[i] = Held(r)[i + 1]
    <3>1. Held(r) # <<>>
      BY <1>1, <1>4, <1>6, EmptySeq
    <3>. QED  BY <1>4, <1>6, <3>1, HeadTailProperties
  <2>2. t \in Seq(Frame) /\ Len(t) = Size
    BY <1>1, <2>1
  <2>3. q.count = Size /\ q.get_ptr = Turn(r.get_ptr + 1) /\ r.set_ptr = r.get_ptr
    <3>1. r.set_ptr = r.get_ptr
      BY <1>1, <1>6 DEF Turn
    <3>. QED  BY <1>1, <1>3, <1>6, <3>1
  <2>4. ASSUME NEW i \in 1 .. Size
        PROVE  Held(q)[i] = t[i]
    <3>1. /\ Held(q)[i] = q.buf[Turn(Turn(r.get_ptr + 1) + i - 1)]
          /\ Turn(Turn(r.get_ptr + 1) + i - 1) \in Slot
      BY <1>2, <2>3, HeldType
    <3>2. CASE i = Size
      <4>1. Turn(Turn(r.get_ptr + 1) + i - 1) = r.set_ptr
        BY <1>1, <2>3, <3>2 DEF Turn
      <4>2. t[i] = f
        BY <1>1, <2>1, <3>2
      <4>. QED  BY <1>1, <1>3, <3>1, <4>1, <4>2
    <3>3. CASE i # Size
      <4>1. i \in 1 .. Size - 1 /\ i + 1 \in 1 .. r.count /\ (i + 1) - 1 = i
        BY <1>1, <1>6, <3>3
      <4>2. /\ Turn(Turn(r.get_ptr + 1) + i - 1) = Turn(r.get_ptr + (i + 1) - 1)
            /\ Turn(r.get_ptr + (i + 1) - 1) # r.set_ptr
        BY <1>1, <2>3, <4>1 DEF Turn
      <4>3. t[i] = Held(r)[i + 1]
        BY <2>1, <4>1
      <4>4. Held(r)[i + 1] = r.buf[Turn(r.get_ptr + (i + 1) - 1)]
        BY <4>1, HeldType
      <4>. QED  BY <1>1, <1>3, <3>1, <4>2, <4>3, <4>4
    <3>. QED  BY <3>2, <3>3
  <2>5. Held(q) = t
    <3>. HIDE DEF t
    <3>. QED  BY <1>4, <2>2, <2>3, <2>4, SeqEqual
  <2>. QED  BY <1>1, <1>6, <2>5 DEF q
<1>. QED  BY <1>1, <1>5, <1>6

\* Dequeuing one frame hands on the oldest, and keeps the others in order.
LEMMA DequeueHandsOnTheOldest ==
  ASSUME NEW r \in Ring, Shaped(r), r.count # 0
  PROVE  /\ Held(Dequeued(r, 1)) = Tail(Held(r))
         /\ Pushed(r, 1) = <<Head(Held(r))>>
         /\ Dequeued(r, 1).count = r.count - 1
<1>. DEFINE q == Dequeued(r, 1)
<1>1. /\ Size \in Nat \ {0} /\ r.buf \in [Slot -> Frame]
      /\ r.get_ptr \in 0 .. Size - 1 /\ r.count \in 1 .. Size
  BY RingAssumption DEF Ring, Slot
<1>2. Smaller(1, r.count) = 1 /\ FromTail(r, 1) = 1 /\ FromHead(r, 1) = 0
  BY <1>1 DEF Smaller, FromTail, FromHead
<1>3. q.buf = r.buf /\ q.count = r.count - 1 /\ q.get_ptr = Wrap(r.get_ptr + 1) + 0
  BY <1>1, <1>2 DEF Dequeued, Ring
<1>4. q.get_ptr = Turn(r.get_ptr + 1)
  BY <1>1, <1>3 DEF Wrap, Turn
<1>5. q \in Ring
  BY DequeuedShaped
<1>. HIDE DEF q
<1>6. /\ Held(r) \in Seq(Frame) /\ Len(Held(r)) = r.count
      /\ Held(q) \in Seq(Frame) /\ Len(Held(q)) = r.count - 1
  BY <1>3, <1>5, HeldType
<1>7. Held(r) # <<>>
  BY <1>1, <1>6, EmptySeq
<1>8. /\ Tail(Held(r)) \in Seq(Frame) /\ Len(Tail(Held(r))) = r.count - 1
      /\ \A i \in 1 .. r.count - 1 : Tail(Held(r))[i] = Held(r)[i + 1]
  BY <1>6, <1>7, HeadTailProperties
<1>9. ASSUME NEW i \in 1 .. r.count - 1
      PROVE  Held(q)[i] = Tail(Held(r))[i]
  <2>1. i + 1 \in 1 .. r.count /\ (i + 1) - 1 = i
    BY <1>1
  <2>2. Held(q)[i] = r.buf[Turn(Turn(r.get_ptr + 1) + i - 1)]
    BY <1>3, <1>4, <1>5, HeldType
  <2>3. Turn(Turn(r.get_ptr + 1) + i - 1) = Turn(r.get_ptr + (i + 1) - 1)
    BY <1>1 DEF Turn
  <2>4. Held(r)[i + 1] = r.buf[Turn(r.get_ptr + (i + 1) - 1)]
    BY <2>1, HeldType
  <2>. QED  BY <1>8, <2>2, <2>3, <2>4
<1>10. Held(q) = Tail(Held(r))
  BY <1>6, <1>8, <1>9, SeqEqual
<1>11. Pushed(r, 1) = <<Head(Held(r))>>
  <2>1. /\ Pushed(r, 1) = [i \in 1 .. 1 |-> r.buf[r.get_ptr + i - 1]]
    <3>1. \A i \in 1 .. 1 : i <= 1
      OBVIOUS
    <3>. QED  BY <1>2, <3>1 DEF Pushed
  <2>2. Held(r)[1] = r.buf[Turn(r.get_ptr + 1 - 1)] /\ r.buf[r.get_ptr] \in Frame
    BY <1>1, HeldType DEF Slot
  <2>3. Turn(r.get_ptr + 1 - 1) = r.get_ptr /\ r.get_ptr + 1 - 1 = r.get_ptr
    BY <1>1 DEF Turn
  <2>4. Head(Held(r)) = r.buf[r.get_ptr]
    BY <1>6, <1>7, <2>2, <2>3
  <2>5. [i \in 1 .. 1 |-> r.buf[r.get_ptr + i - 1]] = <<r.buf[r.get_ptr]>>
    BY <1>1, <2>2, <2>3
  <2>. QED  BY <2>1, <2>4, <2>5
<1>. QED  BY <1>3, <1>10, <1>11 DEF q

LEMMA NothingToDequeue ==
  ASSUME NEW r \in Ring, r.count = 0
  PROVE  Dequeued(r, 1) = r /\ Held(r) = <<>> /\ Len(Pushed(r, 1)) = 0
<1>1. Held(r) = <<>>
  BY HeldType, EmptySeq
<1>2. Len(Pushed(r, 1)) = 0
  BY PushedType DEF Smaller
<1>. QED  BY <1>1, <1>2 DEF Dequeued

LEMMA TailOfAppend ==
  ASSUME NEW s \in Seq(Frame), s # <<>>, NEW f \in Frame
  PROVE  Head(Append(s, f)) = Head(s) /\ Tail(Append(s, f)) = Append(Tail(s), f)
<1>1. Len(s) \in Nat \ {0}
  BY EmptySeq
<1>2. Append(s, f) \in Seq(Frame) /\ Len(Append(s, f)) = Len(s) + 1
  BY <1>1
<1>3. Append(s, f) # <<>>
  BY <1>1, <1>2, EmptySeq
<1>4. /\ Tail(s) \in Seq(Frame) /\ Len(Tail(s)) = Len(s) - 1
      /\ \A i \in 1 .. Len(Tail(s)) : Tail(s)[i] = s[i + 1]
  BY HeadTailProperties
<1>5. /\ Tail(Append(s, f)) \in Seq(Frame) /\ Len(Tail(Append(s, f))) = Len(s)
      /\ \A i \in 1 .. Len(s) : Tail(Append(s, f))[i] = Append(s, f)[i + 1]
  BY <1>1, <1>2, <1>3, HeadTailProperties
<1>6. Append(Tail(s), f) \in Seq(Frame) /\ Len(Append(Tail(s), f)) = Len(s)
  BY <1>1, <1>4
<1>7. ASSUME NEW i \in 1 .. Len(s)
      PROVE  Tail(Append(s, f))[i] = Append(Tail(s), f)[i]
  <2>1. Tail(Append(s, f))[i] = Append(s, f)[i + 1]
    BY <1>5
  <2>2. CASE i = Len(s)
    <3>1. Append(s, f)[i + 1] = f
      BY <1>1, <2>2
    <3>2. Append(Tail(s), f)[i] = f
      BY <1>1, <1>4, <2>2
    <3>. QED  BY <2>1, <3>1, <3>2
  <2>3. CASE i # Len(s)
    <3>1. i \in 1 .. Len(Tail(s)) /\ i + 1 \in 1 .. Len(s)
      <4>1. i \in 1 .. Len(s) - 1 /\ i + 1 \in 1 .. Len(s)
        BY <1>1, <2>3
      <4>. QED  BY <1>4, <4>1
    <3>2. Append(s, f)[i + 1] = s[i + 1]
      BY <3>1
    <3>3. Append(Tail(s), f)[i] = Tail(s)[i]
      BY <1>4, <3>1
    <3>. QED  BY <1>4, <2>1, <3>1, <3>2, <3>3
  <2>. QED  BY <2>2, <2>3
<1>8. Tail(Append(s, f)) = Append(Tail(s), f)
  BY <1>5, <1>6, <1>7, SeqEqual
<1>. QED  BY <1>1, <1>8

-----------------------------------------------------------------------------
(***************************************************************************)
(* The ring keeps the newest frames of every batch.                        *)
(***************************************************************************)
\* Slot by slot, counted from where the next frame is set: the first slots take
\* the samples and the others keep theirs.
LEMMA BatchEnqueued ==
  ASSUME NEW r \in Ring, NEW samples \in Seq(Frame), Len(samples) <= Size,
         NEW d \in 0 .. Size - 1
  PROVE  /\ Turn(r.set_ptr + d) \in Slot
         /\ Enqueued(r, samples).buf[Turn(r.set_ptr + d)] =
              IF d < Len(samples) THEN samples[d + 1] ELSE r.buf[Turn(r.set_ptr + d)]
<1>. DEFINE n    == Len(samples)
            set  == r.set_ptr
            tail == Smaller(n, Size - set)
            head == n - tail
            i    == Turn(set + d)
            q    == Enqueued(r, samples)
<1>1. Size \in Nat \ {0} /\ n \in 0 .. Size /\ set \in 0 .. Size - 1
  BY RingAssumption DEF Ring, Slot
<1>2. tail \in 0 .. n /\ (tail = n \/ tail = Size - set) /\ tail <= Size - set
  BY <1>1 DEF Smaller
<1>3. i \in Slot /\ (i = set + d \/ (set + d >= Size /\ i = set + d - Size))
  BY <1>1 DEF Turn, Slot
<1>4. q.buf[i] = CASE i < head -> samples[tail + i + 1]
                   [] i >= head /\ i \in set .. set + tail - 1 -> samples[i - set + 1]
                   [] OTHER -> r.buf[i]
  BY <1>3 DEF Enqueued
<1>5. head = n - tail
  OBVIOUS
<1>. HIDE DEF n, set, tail, head, i, q
<1>6. CASE i = set + d /\ d < tail
  <2>1. ~(i < head) /\ i >= head /\ i \in set .. set + tail - 1
        /\ i - set + 1 = d + 1 /\ d < n
    BY <1>1, <1>2, <1>3, <1>5, <1>6 DEF Slot
  <2>2. q.buf[i] = samples[i - set + 1]
    BY <1>4, <2>1
  <2>3. q.buf[i] = samples[d + 1]
    BY <2>1, <2>2, Zenon
  <2>. QED  BY <1>3, <2>1, <2>3 DEF n, set, i, q
<1>7. CASE i = set + d /\ d >= tail
  <2>1. ~(i < head) /\ i \notin set .. set + tail - 1 /\ ~(d < n)
    BY <1>1, <1>2, <1>3, <1>5, <1>7 DEF Slot
  <2>2. q.buf[i] = r.buf[i]
    BY <1>1, <1>2, <1>4, <1>5, <2>1
  <2>. QED  BY <1>3, <2>1, <2>2 DEF n, set, i, q
<1>8. CASE i = set + d - Size /\ d < n
  <2>1. tail = Size - set /\ i < head /\ ~(i >= head) /\ tail + i + 1 = d + 1
    BY <1>1, <1>2, <1>3, <1>5, <1>8 DEF Slot
  <2>2. q.buf[i] = samples[tail + i + 1]
    BY <1>4, <2>1
  <2>3. q.buf[i] = samples[d + 1]
    BY <2>1, <2>2, Zenon
  <2>. QED  BY <1>3, <1>8, <2>3 DEF n, set, i, q
<1>9. CASE i = set + d - Size /\ d >= n
  <2>1. ~(i < head) /\ i \notin set .. set + tail - 1 /\ ~(d < n)
    BY <1>1, <1>2, <1>3, <1>5, <1>9 DEF Slot
  <2>2. q.buf[i] = r.buf[i]
    BY <1>1, <1>2, <1>4, <1>5, <2>1
  <2>. QED  BY <1>3, <2>1, <2>2 DEF n, set, i, q
<1>. QED  BY <1>1, <1>2, <1>3, <1>6, <1>7, <1>8, <1>9

\* The newest frames of a sequence are its last ones, up to a ring of them.
LEMMA NewestElements ==
  ASSUME NEW s \in Seq(Frame), NEW len \in Nat, Len(s) = len,
         NEW k \in Nat, len <= Size => k = 0, ~(len <= Size) => k = len - Size
  PROVE  /\ Window!Newest(s) \in Seq(Frame) /\ Len(Window!Newest(s)) = len - k
         /\ \A i \in 1 .. len - k : Window!Newest(s)[i] = s[k + i]
<1>0. Size \in Nat \ {0} /\ Len(s) \in Nat /\ len = Len(s)
  BY RingAssumption
<1>1. CASE Len(s) <= Size
  <2>1. Window!Newest(s) = s
    BY <1>1 DEF Window!Newest
  <2>2. Len(s) = Len(s) - 0 /\ \A i \in 1 .. Len(s) - 0 : 0 + i = i
    BY <1>0
  <2>. QED  BY <1>1, <2>1, <2>2
<1>2. CASE ~(Len(s) <= Size)
  <2>. DEFINE m == Len(s) - Size + 1
              t == Window!Newest(s)
  <2>1. t = SubSeq(s, m, Len(s))
    BY <1>2 DEF Window!Newest
  <2>2. /\ m \in 1 .. Len(s) /\ m \in Int /\ Len(s) \in Int /\ m <= Len(s)
        /\ Len(s) - m + 1 = Size /\ Len(s) - (Len(s) - Size) = Size
        /\ \A i \in 1 .. Size : m + i - 1 = Len(s) - Size + i
    BY <1>0, <1>2
  <2>3. \A j \in m .. Len(s) : s[j] \in Frame
    <3>1. ASSUME NEW j \in m .. Len(s) PROVE j \in 1 .. Len(s)
      BY <1>0, <1>2
    <3>. QED  BY <3>1, ElementOfSeq
  <2>. HIDE DEF m, t
  <2>4. /\ t \in Seq(Frame)
        /\ Len(t) = IF m <= Len(s) THEN Len(s) - m + 1 ELSE 0
        /\ \A i \in 1 .. Len(s) - m + 1 : t[i] = s[m + i - 1]
    BY <2>1, <2>2, <2>3, SubSeqProperties
  <2>5. /\ t \in Seq(Frame) /\ Len(t) = Size
        /\ \A i \in 1 .. Size : t[i] = s[Len(s) - Size + i]
    BY <2>2, <2>4
  <2>. QED  BY <1>2, <2>2, <2>5 DEF t
<1>. QED  BY <1>1, <1>2

\* Where the i-th frame held after a batch of n frames is, counted from where the
\* batch starts: it is the (d + 1)-th frame of the batch, or it was held before.
LEMMA SlotAfterBatch ==
  ASSUME NEW r \in Ring, Shaped(r), NEW n \in 0 .. Size, NEW get \in 0 .. Size - 1,
         NEW len \in 0 .. Size,
         len = IF r.count + n >= Size THEN Size ELSE r.count + n,
         get = IF r.count + n >= Size THEN Turn(r.set_ptr + n) ELSE r.get_ptr,
         NEW i \in 1 .. len, NEW j \in Int, j = r.count + n - len + i
  PROVE  \E d \in 0 .. Size - 1 :
           /\ Turn(get + i - 1) = Turn(r.set_ptr + d)
           /\ \/ d < n /\ j = r.count + d + 1
              \/ /\ ~(d < n) /\ j \in 1 .. r.count
                 /\ Turn(r.set_ptr + d) = Turn(r.get_ptr + j - 1)
<1>1. /\ Size \in Nat \ {0} /\ r.count \in 0 .. Size
      /\ r.get_ptr \in 0 .. Size - 1 /\ r.set_ptr \in 0 .. Size - 1
      /\ r.set_ptr = IF r.get_ptr + r.count >= Size THEN r.get_ptr + r.count - Size
                     ELSE r.get_ptr + r.count
  <2>1. r.set_ptr = Turn(r.get_ptr + r.count)
    BY DEF Shaped
  <2>2. /\ Size \in Nat \ {0} /\ r.count \in 0 .. Size
        /\ r.get_ptr \in 0 .. Size - 1 /\ r.set_ptr \in 0 .. Size - 1
    BY RingAssumption DEF Ring, Slot
  <2>. QED  BY <2>1, <2>2 DEF Turn
<1>2. CASE j > r.count
  <2>. SUFFICES ASSUME NEW d \in Int, d = j - r.count - 1
                PROVE  /\ d \in 0 .. Size - 1 /\ d < n /\ j = r.count + d + 1
                       /\ Turn(get + i - 1) = Turn(r.set_ptr + d)
    BY <1>1, <1>2
  <2>1. d \in 0 .. Size - 1 /\ d < n /\ j = r.count + d + 1
    BY <1>1, <1>2
  <2>2. CASE r.count + n < Size
    BY <1>1, <2>1, <2>2, SMTT(30) DEF Turn
  <2>3. CASE r.count + n >= Size
    BY <1>1, <2>1, <2>3, SMTT(30) DEF Turn
  <2>. QED  BY <1>1, <2>1, <2>2, <2>3
<1>3. CASE ~(j > r.count)
  <2>. SUFFICES ASSUME NEW d \in Int, d = Size + j - r.count - 1
                PROVE  /\ d \in 0 .. Size - 1 /\ ~(d < n) /\ j \in 1 .. r.count
                       /\ Turn(get + i - 1) = Turn(r.set_ptr + d)
                       /\ Turn(r.set_ptr + d) = Turn(r.get_ptr + j - 1)
    BY <1>1, <1>3
  <2>1. d \in 0 .. Size - 1 /\ ~(d < n) /\ j \in 1 .. r.count
    BY <1>1, <1>3
  <2>2. Turn(r.set_ptr + d) = Turn(r.get_ptr + j - 1)
    BY <1>1, <2>1, SMTT(30) DEF Turn
  <2>3. CASE r.count + n < Size
    BY <1>1, <2>1, <2>2, <2>3, SMTT(30) DEF Turn
  <2>4. CASE r.count + n >= Size
    BY <1>1, <2>1, <2>2, <2>4, SMTT(30) DEF Turn
  <2>. QED  BY <1>1, <2>1, <2>2, <2>3, <2>4
<1>. QED  BY <1>1, <1>2, <1>3

\* After a batch the ring holds the newest of the frames it held and the batch.
LEMMA BatchKeepsTheNewest ==
  ASSUME NEW r \in Ring, Shaped(r), NEW samples \in Seq(Frame), Len(samples) <= Size
  PROVE  Held(Enqueued(r, samples)) = Window!Newest(Held(r) \o samples)
<1>0. SUFFICES ASSUME NEW n, n = Len(samples), NEW q, q = Enqueued(r, samples),
                     NEW s, s = Held(r) \o samples, NEW t, t = Window!Newest(s),
                     NEW k, k = IF r.count + n <= Size THEN 0 ELSE (r.count + n) - Size
              PROVE  Held(q) = t
  OBVIOUS
<1>1. /\ Size \in Nat \ {0} /\ n \in 0 .. Size /\ r.count \in 0 .. Size
      /\ r.get_ptr \in 0 .. Size - 1 /\ r.set_ptr = Turn(r.get_ptr + r.count)
      /\ r.set_ptr \in 0 .. Size - 1
  BY <1>0, RingAssumption DEF Ring, Slot, Shaped
<1>2. q \in Ring /\ q.get_ptr \in 0 .. Size - 1
  BY <1>0, EnqueuedShaped DEF Ring, Slot, Shaped
<1>3. /\ q.count = IF r.count + n >= Size THEN Size ELSE r.count + n
      /\ q.get_ptr = IF r.count + n >= Size THEN q.set_ptr ELSE r.get_ptr
  BY <1>0 DEF Enqueued
<1>4. q.set_ptr = Turn(r.set_ptr + n)
  BY <1>0, EnqueuedSet
<1>5. /\ Held(r) \in Seq(Frame) /\ Len(Held(r)) = r.count
      /\ Held(q) \in Seq(Frame) /\ Len(Held(q)) = q.count
  BY <1>2, HeldType
<1>6. /\ s \in Seq(Frame) /\ Len(s) = r.count + n
      /\ \A j \in 1 .. r.count + n :
           s[j] = IF j <= r.count THEN Held(r)[j] ELSE samples[j - r.count]
  <2>1. /\ s \in Seq(Frame) /\ Len(s) = Len(Held(r)) + Len(samples)
        /\ \A j \in 1 .. Len(Held(r)) + Len(samples) :
             s[j] = IF j <= Len(Held(r)) THEN Held(r)[j] ELSE samples[j - Len(Held(r))]
    BY <1>0, <1>5, ConcatProperties
  <2>. QED  BY <1>0, <1>5, <2>1, Zenon
<1>7. /\ t \in Seq(Frame) /\ Len(t) = (r.count + n) - k
      /\ \A i \in 1 .. (r.count + n) - k : t[i] = s[k + i]
  <2>1. /\ Window!Newest(s) \in Seq(Frame) /\ Len(Window!Newest(s)) = (r.count + n) - k
        /\ \A i \in 1 .. (r.count + n) - k : Window!Newest(s)[i] = s[k + i]
    <3>1. s \in Seq(Frame) /\ Len(s) = r.count + n
      BY <1>6
    <3>2. /\ r.count + n \in Nat /\ k \in Nat
          /\ r.count + n <= Size => k = 0
          /\ ~(r.count + n <= Size) => k = (r.count + n) - Size
      BY <1>0, <1>1
    <3>. QED  BY <3>1, <3>2, NewestElements, Zenon
  <2>. QED  BY <1>0, <2>1, Zenon
<1>8. q.count = (r.count + n) - k /\ k \in Nat
  <2>1. CASE r.count + n <= Size
    BY <1>0, <1>1, <1>3, <2>1
  <2>2. CASE ~(r.count + n <= Size)
    BY <1>0, <1>1, <1>3, <2>2
  <2>. QED  BY <2>1, <2>2
<1>9. ASSUME NEW i \in 1 .. q.count
      PROVE  Held(q)[i] = t[i]
  <2>0. SUFFICES ASSUME NEW j \in Int, j = r.count + n - q.count + i
                PROVE  Held(q)[i] = t[i]
    BY <1>1, <1>2 DEF Ring
  <2>1. PICK d \in 0 .. Size - 1 :
           /\ Turn(q.get_ptr + i - 1) = Turn(r.set_ptr + d)
           /\ \/ d < n /\ j = r.count + d + 1
              \/ /\ ~(d < n) /\ j \in 1 .. r.count
                 /\ Turn(r.set_ptr + d) = Turn(r.get_ptr + j - 1)
    <3>1. q.count \in 0 .. Size
      BY <1>2 DEF Ring
    <3>2. q.get_ptr = IF r.count + n >= Size THEN Turn(r.set_ptr + n) ELSE r.get_ptr
      BY <1>3, <1>4
    <3>3. q.count = IF r.count + n >= Size THEN Size ELSE r.count + n
      BY <1>3
    <3>4. n \in 0 .. Size /\ q.get_ptr \in 0 .. Size - 1
      BY <1>1, <1>2
    <3>. QED  BY <2>0, <3>1, <3>2, <3>3, <3>4, SlotAfterBatch, ZenonT(30)
  <2>2. t[i] = s[j]
    <3>1. i \in 1 .. (r.count + n) - k /\ j = k + i
      BY <1>1, <1>8, <2>0
    <3>. QED  BY <1>7, <3>1
  <2>3. Held(q)[i] = q.buf[Turn(r.set_ptr + d)]
    BY <1>2, <2>1, HeldType
  <2>4. q.buf[Turn(r.set_ptr + d)] =
          IF d < n THEN samples[d + 1] ELSE r.buf[Turn(r.set_ptr + d)]
    BY <1>0, BatchEnqueued
  <2>5. CASE d < n
    <3>1. j \in 1 .. r.count + n /\ ~(j <= r.count) /\ j - r.count = d + 1
      BY <1>1, <2>1, <2>5
    <3>2. s[j] = samples[d + 1]
      BY <1>6, <3>1
    <3>. QED  BY <2>2, <2>3, <2>4, <2>5, <3>2, Zenon
  <2>6. CASE ~(d < n)
    <3>1. /\ j \in 1 .. r.count /\ j \in 1 .. r.count + n /\ j <= r.count
          /\ Turn(r.set_ptr + d) = Turn(r.get_ptr + j - 1)
      BY <1>1, <2>1, <2>6
    <3>2. s[j] = Held(r)[j]
      BY <1>6, <3>1
    <3>3. Held(r)[j] = r.buf[Turn(r.get_ptr + j - 1)]
      BY <3>1, HeldType
    <3>. QED  BY <2>2, <2>3, <2>4, <2>6, <3>1, <3>2, <3>3, Zenon
  <2>. QED  BY <2>5, <2>6
<1>. QED  BY <1>5, <1>7, <1>8, <1>9, SeqEqual

\* Dequeuing hands on the oldest frames in order, and keeps the others.
LEMMA DequeueHandsOnInOrder ==
  ASSUME NEW r \in Ring, Shaped(r), NEW n \in Nat, NEW m, m = Smaller(n, r.count)
  PROVE  /\ Held(Dequeued(r, n)) = SubSeq(Held(r), m + 1, Len(Held(r)))
         /\ Pushed(r, n) = SubSeq(Held(r), 1, m)
<1>. DEFINE q == Dequeued(r, n)
            h == Held(r)
            p == Pushed(r, n)
<1>1. /\ Size \in Nat \ {0} /\ r.get_ptr \in 0 .. Size - 1
      /\ r.count \in 0 .. Size /\ m \in 0 .. r.count
  BY RingAssumption DEF Ring, Slot, Smaller
<1>2. h \in Seq(Frame) /\ Len(h) = r.count
  BY HeldType
<1>3. /\ q \in Ring /\ q.buf = r.buf /\ q.count = r.count - m
      /\ m = 0 \/ q.get_ptr = Turn(r.get_ptr + m)
      /\ m = 0 => q.get_ptr = r.get_ptr
  <2>1. q \in Ring
    BY DequeuedShaped
  <2>2. CASE r.count = 0 \/ n = 0
    <3>1. q = r /\ m = 0 /\ r.count = r.count - m
      BY <1>1, <2>2 DEF Dequeued, Smaller
    <3>. QED  BY <3>1
  <2>3. CASE ~(r.count = 0 \/ n = 0)
    <3>1. m \in 1 .. r.count
      BY <1>1, <2>3 DEF Smaller
    <3>2. /\ q.buf = r.buf /\ q.count = r.count - m
          /\ q.get_ptr = Wrap(r.get_ptr + FromTail(r, n)) + FromHead(r, n)
      BY <2>3 DEF Dequeued, Ring
    <3>3. q.get_ptr = Turn(r.get_ptr + m)
      BY <1>1, <3>1, <3>2 DEF FromTail, FromHead, Wrap, Turn, Smaller
    <3>. QED  BY <2>1, <3>1, <3>2, <3>3
  <2>. QED  BY <2>2, <2>3
<1>4. /\ p \in Seq(Frame) /\ Len(p) = m
      /\ \A i \in 1 .. m : p[i] = r.buf[Turn(r.get_ptr + i - 1)]
  <2>1. p \in Seq(Frame) /\ Len(p) = m
    BY PushedType
  <2>2. ASSUME NEW i \in 1 .. m
        PROVE  p[i] = r.buf[Turn(r.get_ptr + i - 1)]
    <3>1. p[i] = IF i <= FromTail(r, n) THEN r.buf[r.get_ptr + i - 1]
                 ELSE r.buf[i - FromTail(r, n) - 1]
      BY DEF Pushed
    <3>2. FromTail(r, n) = Smaller(m, Size - r.get_ptr)
      BY DEF FromTail
    <3>3. CASE i <= FromTail(r, n)
      <4>1. Turn(r.get_ptr + i - 1) = r.get_ptr + i - 1
        BY <1>1, <3>2, <3>3 DEF Turn, Smaller
      <4>. QED  BY <3>1, <3>3, <4>1, Zenon
    <3>4. CASE ~(i <= FromTail(r, n))
      <4>1. Turn(r.get_ptr + i - 1) = i - FromTail(r, n) - 1
        BY <1>1, <3>2, <3>4 DEF Turn, Smaller
      <4>. QED  BY <3>1, <3>4, <4>1, Zenon
    <3>. QED  BY <3>3, <3>4
  <2>. QED  BY <2>1, <2>2
<1>5. \A j \in 1 .. r.count : h[j] = r.buf[Turn(r.get_ptr + j - 1)] /\ h[j] \in Frame
  BY <1>2, HeldType, ElementOfSeq
<1>6. /\ Held(q) \in Seq(Frame) /\ Len(Held(q)) = r.count - m
      /\ \A i \in 1 .. r.count - m : Held(q)[i] = r.buf[Turn(q.get_ptr + i - 1)]
  BY <1>3, HeldType
<1>. HIDE DEF q, h, p
<1>7. p = SubSeq(h, 1, m)
  <2>. DEFINE v == SubSeq(h, 1, m)
  <2>1. \A j \in 1 .. m : h[j] \in Frame
    BY <1>1, <1>5
  <2>2. /\ v \in Seq(Frame) /\ Len(v) = IF 1 <= m THEN m - 1 + 1 ELSE 0
        /\ \A i \in 1 .. m - 1 + 1 : v[i] = h[1 + i - 1]
    <3>1. m \in Int /\ 1 \in Int
      BY <1>1
    <3>. QED  BY <2>1, <3>1, SubSeqProperties
  <2>. HIDE DEF v
  <2>3. Len(v) = m /\ \A i \in 1 .. m : v[i] = h[i]
    BY <1>1, <2>2
  <2>4. \A i \in 1 .. m : p[i] = v[i]
    BY <1>1, <1>4, <1>5, <2>3
  <2>5. p = v
    BY <1>4, <2>2, <2>3, <2>4, SeqEqual
  <2>. QED  BY <2>5 DEF v
<1>8. Held(q) = SubSeq(h, m + 1, Len(h))
  <2>. DEFINE u == SubSeq(h, m + 1, Len(h))
  <2>1. /\ u \in Seq(Frame) /\ Len(u) = r.count - m
        /\ \A i \in 1 .. r.count - m : u[i] = h[m + i]
    <3>1. \A j \in m + 1 .. Len(h) : h[j] \in Frame
      BY <1>1, <1>2, <1>5
    <3>2. /\ u \in Seq(Frame)
          /\ Len(u) = IF m + 1 <= Len(h) THEN Len(h) - (m + 1) + 1 ELSE 0
          /\ \A i \in 1 .. Len(h) - (m + 1) + 1 : u[i] = h[(m + 1) + i - 1]
      <4>1. m + 1 \in Int /\ Len(h) \in Int
        BY <1>1, <1>2
      <4>. QED  BY <3>1, <4>1, SubSeqProperties
    <3>. HIDE DEF u
    <3>3. Len(h) - (m + 1) + 1 = r.count - m /\ Len(u) = r.count - m
      BY <1>1, <1>2, <3>2
    <3>4. ASSUME NEW i \in 1 .. r.count - m PROVE (m + 1) + i - 1 = m + i
      BY <1>1
    <3>. QED  BY <3>2, <3>3, <3>4
  <2>. HIDE DEF u
  <2>2. ASSUME NEW i \in 1 .. r.count - m
        PROVE  Held(q)[i] = u[i]
    <3>1. m + i \in 1 .. r.count
      BY <1>1
    <3>2. Turn(q.get_ptr + i - 1) = Turn(r.get_ptr + (m + i) - 1)
      <4>1. CASE m = 0
        BY <1>1, <1>3, <4>1 DEF Turn
      <4>2. CASE m # 0
        BY <1>1, <1>3, <4>2 DEF Turn
      <4>. QED  BY <4>1, <4>2
    <3>3. h[m + i] = r.buf[Turn(r.get_ptr + (m + i) - 1)]
      BY <1>5, <3>1
    <3>. QED  BY <1>6, <2>1, <3>2, <3>3, Zenon
  <2>3. Held(q) = u
    BY <1>6, <2>1, <2>2, SeqEqual
  <2>. QED  BY <2>3 DEF u
<1>. QED  BY <1>7, <1>8 DEF q, h, p

\* "The latest audio samples", and "oldest data will be overwritten": for every
\* size of ring and every sequence of calls with up to a ring of frames each, the
\* ring holds the newest frames it was given and hands them on oldest first.
THEOREM RingKeepsTheNewest == RingSpec => KeepsTheNewest
<1>1. RingInit => Window!Init
  <2>1. SUFFICES ASSUME RingInit PROVE Held(EmptyRing) = <<>>
    BY <2>1 DEF RingInit, Window!Init
  <2>2. EmptyRing \in Ring /\ EmptyRing.count = 0
    BY EmptyRingShaped DEF EmptyRing
  <2>. QED  BY <2>2, NothingToDequeue
<1>2. RingTypeOK /\ RingShape /\ [RingNext]_ringVars => [Window!Next]_(Window!vars)
  <2>. SUFFICES ASSUME RingTypeOK, RingShape, [RingNext]_ringVars
                PROVE  [Window!Next]_(Window!vars)
    OBVIOUS
  <2>1. ring \in Ring /\ Shaped(ring) /\ Size \in Nat \ {0}
    BY RingAssumption DEF RingTypeOK, RingShape
  <2>2. ASSUME NEW samples \in Batch, Enqueue(samples)
        PROVE  \E b \in Window!BoundedSeq(Frame, Size) : Window!Put(b)
    <3>1. samples \in Seq(Frame) /\ Len(samples) <= Size
      BY RingAssumption
    <3>2. samples \in Window!BoundedSeq(Frame, Size)
      <4>1. Len(samples) \in 0 .. Size /\ samples \in [1 .. Len(samples) -> Frame]
        BY <2>1, <3>1
      <4>. QED  BY <4>1 DEF Window!BoundedSeq, Window!SeqOf
    <3>3. Held(Enqueued(ring, samples)) = Window!Newest(Held(ring) \o samples)
      BY <2>1, <3>1, BatchKeepsTheNewest
    <3>4. Held(ring') = Window!Newest(Held(ring) \o samples) /\ sent' = <<>>
      BY <2>2, <3>3, Zenon DEF Enqueue
    <3>. QED  BY <3>2, <3>4, Zenon DEF Window!Put
  <2>3. ASSUME NEW n \in 0 .. Size + 1, Dequeue(n)
        PROVE  Window!Get(n)
    <3>. DEFINE m == Smaller(n, ring.count)
    <3>1. n \in Nat
      BY <2>1
    <3>2. /\ Held(Dequeued(ring, n)) = SubSeq(Held(ring), m + 1, Len(Held(ring)))
          /\ Pushed(ring, n) = SubSeq(Held(ring), 1, m)
      BY <2>1, <3>1, DequeueHandsOnInOrder
    <3>3. m = IF n < Len(Held(ring)) THEN n ELSE Len(Held(ring))
      <4>1. Len(Held(ring)) = ring.count
        BY <2>1, HeldType
      <4>. QED  BY <4>1, Zenon DEF Smaller
    <3>. HIDE DEF m
    <3>4. /\ Held(ring') = SubSeq(Held(ring), m + 1, Len(Held(ring)))
          /\ sent' = SubSeq(Held(ring), 1, m)
      BY <2>3, <3>2, Zenon DEF Dequeue
    <3>. QED  BY <3>3, <3>4 DEF Window!Get
  <2>4. CASE UNCHANGED ringVars
    <3>1. Held(ring') = Held(ring) /\ sent' = sent
      BY <2>4 DEF ringVars
    <3>. QED  BY <3>1 DEF Window!vars
  <2>. QED  BY <2>2, <2>3, <2>4 DEF RingNext, Window!Next
<1>. QED  BY <1>1, <1>2, RingInvariant, PTL DEF RingSpec, KeepsTheNewest, Window!Spec

-----------------------------------------------------------------------------
(***************************************************************************)
(* The audio path implements the delay line.                               *)
(***************************************************************************)
\* The ring stays well formed on the path too, whenever the power is switched.
THEOREM PathIsShaped == PathSpec => []PathInv
<1>1. PathInit => PathInv
  BY EmptyRingShaped DEF PathInit, RingInit, PathInv, RingTypeOK, RingShape
<1>2. PathInv /\ [PathNext]_pathVars => PathInv'
  <2>. SUFFICES ASSUME PathInv, [PathNext]_pathVars
                PROVE  PathInv'
    OBVIOUS
  <2>. USE DEF PathInv, RingTypeOK, RingShape
  <2>0. \A f \in Frame : <<f>> \in Seq(Frame) /\ Len(<<f>>) <= Size
    BY RingAssumption
  <2>1. ASSUME NEW frame \in Frame, OutputFull(frame)
        PROVE  PathInv'
    <3>1. 1 \in Nat /\ <<frame>> \in Seq(Frame)
      OBVIOUS
    <3>2. /\ Dequeued(ring, 1) \in Ring /\ Shaped(Dequeued(ring, 1))
          /\ Pushed(ring, 1) \in Seq(Frame)
      BY <3>1, DequeuedShaped, PushedType
    <3>3. /\ Enqueued(Dequeued(ring, 1), <<frame>>) \in Ring
          /\ Shaped(Enqueued(Dequeued(ring, 1), <<frame>>))
      BY <2>0, <3>2, EnqueuedShaped
    <3>. QED  BY <2>1, <3>1, <3>2, <3>3 DEF OutputFull
  <2>2. ASSUME NEW frame \in Frame, OutputLow(frame)
        PROVE  PathInv'
    <3>1. /\ Enqueued(ring, <<frame>>) \in Ring
          /\ Shaped(Enqueued(ring, <<frame>>))
      BY <2>0, EnqueuedShaped
    <3>. QED  BY <2>2, <3>1 DEF OutputLow
  <2>3. CASE PowerChanges
    BY <2>3 DEF PowerChanges
  <2>4. CASE UNCHANGED pathVars
    BY <2>4 DEF pathVars
  <2>. QED  BY <2>1, <2>2, <2>3, <2>4 DEF PathNext
<1>. QED  BY <1>1, <1>2, PTL DEF PathSpec

\* However often and whenever the power is switched, and for every size of ring,
\* the engine hears each frame once and in order, but for the oldest that a long
\* sleep overwrites.
THEOREM PathImplementsDelayLine == PathSpec => ImplementsDelayLine
<1>1. PathInit => Line!Init
  <2>1. SUFFICES ASSUME PathInit PROVE Held(EmptyRing) = <<>>
    BY <2>1 DEF PathInit, RingInit, Line!Init
  <2>2. EmptyRing \in Ring /\ EmptyRing.count = 0
    BY EmptyRingShaped DEF EmptyRing
  <2>. QED  BY <2>2, NothingToDequeue
<1>2. PathInv /\ [PathNext]_pathVars => [Line!Next]_(Line!vars)
  <2>. SUFFICES ASSUME PathInv, [PathNext]_pathVars
                PROVE  [Line!Next]_(Line!vars)
    OBVIOUS
  <2>1. ring \in Ring /\ Shaped(ring) /\ ring.count \in 0 .. Size /\ Size \in Nat \ {0}
    BY RingAssumption DEF PathInv, RingTypeOK, RingShape, Ring
  <2>2. Held(ring) \in Seq(Frame) /\ Len(Held(ring)) = ring.count
    BY <2>1, HeldType
  <2>3. ASSUME NEW frame \in Frame, OutputFull(frame)
        PROVE  Line!Pass(frame)
    <3>1. CASE ring.count # 0
      <4>1. /\ Held(Dequeued(ring, 1)) = Tail(Held(ring))
            /\ Pushed(ring, 1) = <<Head(Held(ring))>>
            /\ Dequeued(ring, 1).count = ring.count - 1
        BY <2>1, <3>1, DequeueHandsOnTheOldest
      <4>2. /\ ring' = Enqueued(Dequeued(ring, 1), <<frame>>)
            /\ sent' = <<Head(Held(ring))>>
        BY <2>3, <4>1 DEF OutputFull
      <4>3. Dequeued(ring, 1) \in Ring /\ Shaped(Dequeued(ring, 1))
        <5>1. 1 \in Nat
          OBVIOUS
        <5>. QED  BY <2>1, <5>1, DequeuedShaped
      <4>4. Dequeued(ring, 1).count < Size
        BY <2>1, <4>1
      <4>5. Held(Enqueued(Dequeued(ring, 1), <<frame>>))
              = Append(Tail(Held(ring)), frame)
        BY <4>1, <4>3, <4>4, EnqueueKeepsTheNewest
      <4>6. Held(ring') = Append(Tail(Held(ring)), frame)
        BY <4>2, <4>5, Zenon
      <4>7. Held(ring) # <<>>
        BY <2>1, <2>2, <3>1, EmptySeq
      <4>8. /\ Head(Append(Held(ring), frame)) = Head(Held(ring))
            /\ Tail(Append(Held(ring), frame)) = Append(Tail(Held(ring)), frame)
        BY <2>2, <4>7, TailOfAppend
      <4>. QED  BY <2>3, <4>2, <4>6, <4>8 DEF OutputFull, Line!Pass
    <3>2. CASE ring.count = 0
      <4>1. Dequeued(ring, 1) = ring /\ Held(ring) = <<>> /\ Len(Pushed(ring, 1)) # 1
        BY <2>1, <3>2, NothingToDequeue
      <4>2. ring' = ring /\ sent' = <<frame>>
        BY <2>3, <4>1 DEF OutputFull
      <4>3. Held(ring') = <<>>
        BY <4>1, <4>2, Zenon
      <4>4. /\ Head(Append(Held(ring), frame)) = frame
            /\ Tail(Append(Held(ring), frame)) = <<>>
        BY <4>1
      <4>. QED  BY <2>3, <4>2, <4>3, <4>4 DEF OutputFull, Line!Pass
    <3>. QED  BY <3>1, <3>2
  <2>4. ASSUME NEW frame \in Frame, OutputLow(frame)
        PROVE  Line!Hold(frame)
    <3>1. Held(Enqueued(ring, <<frame>>)) =
            IF ring.count < Size THEN Append(Held(ring), frame)
            ELSE Append(Tail(Held(ring)), frame)
      BY <2>1, EnqueueKeepsTheNewest
    <3>2. Held(ring') = IF Len(Held(ring)) < Size THEN Append(Held(ring), frame)
                        ELSE Append(Tail(Held(ring)), frame)
      BY <2>2, <2>4, <3>1, Zenon DEF OutputLow
    <3>3. power_state' = power_state /\ power_state # "FULL" /\ sent' = <<>>
      BY <2>4 DEF OutputLow
    <3>. QED  BY <3>2, <3>3 DEF Line!Hold
  <2>5. CASE PowerChanges
    <3>1. Held(ring') = Held(ring) /\ sent' = sent
      BY <2>5 DEF PowerChanges
    <3>2. (power_state' = "FULL") = ~(power_state = "FULL")
      BY <2>5 DEF PowerChanges
    <3>. QED  BY <3>1, <3>2 DEF Line!Next, Line!Switch
  <2>6. CASE UNCHANGED pathVars
    <3>1. Held(ring') = Held(ring) /\ sent' = sent /\ power_state' = power_state
      BY <2>6 DEF pathVars
    <3>. QED  BY <3>1 DEF Line!vars
  <2>. QED  BY <2>3, <2>4, <2>5, <2>6 DEF PathNext, Line!Next
<1>. QED  BY <1>1, <1>2, PathIsShaped, PTL DEF PathSpec, ImplementsDelayLine, Line!Spec
=============================================================================
