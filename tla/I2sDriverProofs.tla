-------------------------- MODULE I2sDriverProofs --------------------------
(***************************************************************************)
(* Theorems about the I2S driver, for rings and words of every size, any   *)
(* blocks and counts, and every interleaving of the thread, the interrupt  *)
(* and the two callers.                                                    *)
(***************************************************************************)
EXTENDS I2sDriver, SequenceTheorems, TLAPS

-----------------------------------------------------------------------------
(***************************************************************************)
(* A ring                                                                  *)
(***************************************************************************)
IsSize(size) == size \in Nat \ {0} /\ Wrap \in Nat /\ size < Wrap

\* The write index is as far ahead of the read index as the totals say.
Shaped(b, size) ==
  /\ b \in Buffer(size)
  /\ Unread(b) <= size
  /\ b.write_index = Turn(b.read_index + Unread(b), size)

\* The slots behind those held contain the items already.
Ready(b, size, items) ==
  \A i \in 1 .. Len(items) : b.buf[Turn(b.write_index + i - 1, size)] = items[i]

LEMMA Indices ==
  ASSUME NEW size, IsSize(size), NEW b, Shaped(b, size)
  PROVE  /\ size \in Nat \ {0} /\ Wrap \in Nat /\ size < Wrap
         /\ b.write_index \in 0 .. size - 1 /\ b.read_index \in 0 .. size - 1
         /\ b.total_written \in 0 .. Wrap - 1 /\ b.total_read \in 0 .. Wrap - 1
         /\ b.buf \in [0 .. size - 1 -> Sample] /\ b.required \in 0 .. size
         /\ Unread(b) \in 0 .. size
         /\ b.write_index = Turn(b.read_index + Unread(b), size)
  BY DEF IsSize, Shaped, Buffer, Unread, Back

\* Going round in two parts, or in one.
LEMMA Turns ==
  ASSUME NEW size \in Nat \ {0}, NEW i \in 0 .. size - 1, NEW m \in Nat, NEW n \in Nat,
         m + n <= size
  PROVE  /\ Turn(i + m, size) \in 0 .. size - 1
         /\ Turn(Turn(i + m, size) + n, size) = Turn(i + m + n, size)
         /\ Turn(i + m, size) \in Int
         /\ n \in 1 .. size => Turn(Turn(i + m, size) + n - 1, size) = Turn(i + m + n - 1, size)
  BY DEF Turn

\* How far a slot that is held lies from the write index, going round; and a slot
\* behind those held, seen from the write index.
LEMMA Slots ==
  ASSUME NEW size \in Nat \ {0}, NEW r \in 0 .. size - 1, NEW u \in 0 .. size,
         NEW k \in 1 .. size
  PROVE  /\ Turn(r + k - 1, size) \in 0 .. size - 1
         /\ k <= u => Back(Turn(r + k - 1, size) - Turn(r + u, size), size) = size - u + k - 1
         /\ k > u => Turn(r + k - 1, size) = Turn(Turn(r + u, size) + (k - u) - 1, size)
<1>1. Turn(r + k - 1, size) \in 0 .. size - 1
  BY DEF Turn
<1>2. ASSUME k <= u
      PROVE  Back(Turn(r + k - 1, size) - Turn(r + u, size), size) = size - u + k - 1
  BY <1>2 DEF Turn, Back
<1>3. ASSUME k > u
      PROVE  Turn(r + k - 1, size) = Turn(Turn(r + u, size) + (k - u) - 1, size)
  BY <1>3 DEF Turn
<1>. QED  BY <1>1, <1>2, <1>3

\* The distance of two totals, after either has moved.
LEMMA WriterAdvances ==
  ASSUME NEW w \in 0 .. Wrap - 1, NEW r \in 0 .. Wrap - 1, NEW n \in Nat, Wrap \in Nat,
         Back(w - r, Wrap) + n < Wrap
  PROVE  /\ Turn(w + n, Wrap) \in 0 .. Wrap - 1
         /\ Back(Turn(w + n, Wrap) - r, Wrap) = Back(w - r, Wrap) + n
  BY DEF Turn, Back

LEMMA ReaderAdvances ==
  ASSUME NEW w \in 0 .. Wrap - 1, NEW r \in 0 .. Wrap - 1, NEW n \in Nat, Wrap \in Nat,
         n <= Back(w - r, Wrap)
  PROVE  /\ Turn(r + n, Wrap) \in 0 .. Wrap - 1
         /\ Back(w - Turn(r + n, Wrap), Wrap) = Back(w - r, Wrap) - n
  BY DEF Turn, Back

LEMMA EmptyShaped ==
  ASSUME NEW size, IsSize(size)
  PROVE  /\ Shaped(EmptyBuffer(size), size) /\ Unread(EmptyBuffer(size)) = 0
         /\ EmptyBuffer(size).required = 0 /\ Held(EmptyBuffer(size), size) = <<>>
<1>. DEFINE e == EmptyBuffer(size)
<1>1. Unread(e) = 0 /\ e.required = 0 /\ e \in Buffer(size)
  BY DriverAssumption DEF IsSize, EmptyBuffer, Unread, Back, Buffer
<1>2. e.write_index = 0 /\ e.read_index = 0
  BY DEF EmptyBuffer
<1>3. Shaped(e, size)
  BY <1>1, <1>2 DEF Shaped, Turn, IsSize
<1>4. Held(e, size) = <<>>
  BY <1>1 DEF Held, Oldest
<1>. QED  BY <1>1, <1>3, <1>4

LEMMA OldestType ==
  ASSUME NEW size, IsSize(size), NEW b, Shaped(b, size), NEW n \in 0 .. size
  PROVE  Oldest(b, size, n) \in Seq(Sample) /\ Len(Oldest(b, size, n)) = n
<1>1. ASSUME NEW i \in 1 .. n PROVE b.buf[Turn(b.read_index + i - 1, size)] \in Sample
  <2>1. /\ size \in Nat \ {0} /\ b.read_index \in 0 .. size - 1 /\ size \in 0 .. size
        /\ i \in 1 .. size /\ b.buf \in [0 .. size - 1 -> Sample]
    BY Indices
  <2>. QED  BY <2>1, Slots
<1>2. n \in Nat
  BY DEF IsSize
<1>. DEFINE s == [i \in 1 .. n |-> b.buf[Turn(b.read_index + i - 1, size)]]
<1>3. s \in [1 .. n -> Sample]
  BY <1>1
<1>4. s \in Seq(Sample) /\ Len(s) = n
  BY <1>2, <1>3
<1>. QED  BY <1>4 DEF Oldest

\* The request of a caller leaves the contents alone.
LEMMA RequestKeeps ==
  ASSUME NEW size, IsSize(size), NEW b, Shaped(b, size), NEW n \in 0 .. size
  PROVE  LET c == [b EXCEPT !.required = n]
         IN  /\ Shaped(c, size) /\ Unread(c) = Unread(b) /\ c.required = n
             /\ c.buf = b.buf /\ c.write_index = b.write_index
             /\ c.read_index = b.read_index
             /\ \A k : Oldest(c, size, k) = Oldest(b, size, k)
<1>. DEFINE c == [b EXCEPT !.required = n]
<1>1. /\ c \in Buffer(size) /\ c.required = n /\ c.buf = b.buf
      /\ c.write_index = b.write_index /\ c.read_index = b.read_index
      /\ c.total_written = b.total_written /\ c.total_read = b.total_read
  BY DEF Shaped, Buffer
<1>. HIDE DEF c
<1>2. Unread(c) = Unread(b) /\ \A k : Oldest(c, size, k) = Oldest(b, size, k)
  BY <1>1 DEF Unread, Oldest
<1>3. Shaped(c, size)
  BY <1>1, <1>2 DEF Shaped
<1>4. /\ Shaped(c, size) /\ Unread(c) = Unread(b) /\ c.required = n
      /\ c.buf = b.buf /\ c.write_index = b.write_index
      /\ c.read_index = b.read_index
      /\ \A k : Oldest(c, size, k) = Oldest(b, size, k)
  BY <1>1, <1>2, <1>3
<1>. QED  BY <1>4 DEF c

\* What is copied behind the samples held does not touch them.
LEMMA FilledKeeps ==
  ASSUME NEW size, IsSize(size), NEW b, Shaped(b, size),
         NEW items \in Seq(Sample), Len(items) <= size - Unread(b)
  PROVE  LET c == Filled(b, size, items)
         IN  /\ Shaped(c, size) /\ Unread(c) = Unread(b) /\ c.required = b.required
             /\ Ready(c, size, items)
             /\ \A n \in 0 .. Unread(b) : Oldest(c, size, n) = Oldest(b, size, n)
<1>. DEFINE c == Filled(b, size, items)
            offset(i) == Back(i - b.write_index, size)
            slot(i) == IF offset(i) < Len(items) THEN items[offset(i) + 1] ELSE b.buf[i]
<1>1. c = [b EXCEPT !.buf = [i \in 0 .. size - 1 |-> slot(i)]]
  BY DEF Filled
<1>2. Len(items) \in Nat
  OBVIOUS
<1>3. ASSUME NEW i \in 0 .. size - 1
      PROVE  slot(i) \in Sample
  <2>1. offset(i) \in Nat
    BY Indices DEF Back
  <2>2. CASE offset(i) < Len(items)
    BY <1>2, <2>1, <2>2
  <2>3. CASE ~(offset(i) < Len(items))
    BY <2>3, Indices
  <2>. QED  BY <2>2, <2>3
<1>. HIDE DEF slot
<1>4. /\ c \in Buffer(size) /\ c.required = b.required
      /\ c.buf = [i \in 0 .. size - 1 |-> slot(i)]
      /\ c.write_index = b.write_index /\ c.read_index = b.read_index
      /\ c.total_written = b.total_written /\ c.total_read = b.total_read
  BY <1>1, <1>3 DEF Shaped, Buffer
<1>. HIDE DEF c
<1>5. Unread(c) = Unread(b) /\ Shaped(c, size)
  BY <1>4 DEF Unread, Shaped
<1>6. Ready(c, size, items)
  <2>. SUFFICES ASSUME NEW i \in 1 .. Len(items)
                PROVE  c.buf[Turn(b.write_index + i - 1, size)] = items[i]
    BY <1>4 DEF Ready
  <2>. DEFINE j == Turn(b.write_index + i - 1, size)
  <2>1. j \in 0 .. size - 1 /\ offset(j) = i - 1
    BY <1>2, Indices DEF Turn, Back
  <2>. QED  BY <1>2, <1>4, <2>1 DEF slot
<1>7. ASSUME NEW n \in 0 .. Unread(b) PROVE Oldest(c, size, n) = Oldest(b, size, n)
  <2>1. ASSUME NEW i \in 1 .. n
        PROVE  c.buf[Turn(c.read_index + i - 1, size)] = b.buf[Turn(b.read_index + i - 1, size)]
    <3>. DEFINE j == Turn(b.read_index + i - 1, size)
    <3>0. /\ size \in Nat \ {0} /\ b.read_index \in 0 .. size - 1
          /\ b.write_index = Turn(b.read_index + Unread(b), size)
          /\ Unread(b) \in 0 .. size /\ i \in 1 .. Unread(b)
      BY Indices
    <3>1. j \in 0 .. size - 1 /\ ~(offset(j) < Len(items))
      <4>1. i \in 1 .. size
        BY <3>0
      <4>2. j \in 0 .. size - 1 /\ offset(j) = size - Unread(b) + i - 1
        <5>1. offset(j) = Back(j - Turn(b.read_index + Unread(b), size), size)
          BY <3>0
        <5>2. i <= Unread(b)
          BY <3>0
        <5>3. /\ Turn(b.read_index + i - 1, size) \in 0 .. size - 1
              /\ Back(Turn(b.read_index + i - 1, size)
                        - Turn(b.read_index + Unread(b), size), size)
                   = size - Unread(b) + i - 1
          BY <3>0, <4>1, <5>2, Slots, Zenon
        <5>. QED  BY <5>1, <5>3, Zenon
      <4>. HIDE DEF j, offset
      <4>. QED  BY <1>2, <3>0, <4>2
    <3>. QED  BY <1>4, <3>1 DEF slot
  <2>. QED  BY <2>1 DEF Oldest
<1>8. /\ Shaped(c, size) /\ Unread(c) = Unread(b) /\ c.required = b.required
      /\ Ready(c, size, items)
      /\ \A n \in 0 .. Unread(b) : Oldest(c, size, n) = Oldest(b, size, n)
  BY <1>4, <1>5, <1>6, <1>7
<1>. QED  BY <1>8 DEF c

\* Publishing appends what was copied.
LEMMA WrittenAppends ==
  ASSUME NEW size, IsSize(size), NEW b, Shaped(b, size),
         NEW items \in Seq(Sample), Len(items) <= size - Unread(b), Ready(b, size, items)
  PROVE  LET c == Written(b, size, Len(items))
         IN  /\ Shaped(c, size) /\ Unread(c) = Unread(b) + Len(items)
             /\ c.required = b.required
             /\ Held(c, size) = Held(b, size) \o items
             /\ \A n \in 0 .. Unread(b) : Oldest(c, size, n) = Oldest(b, size, n)
<1>. DEFINE m == Len(items)
            c == Written(b, size, m)
<1>1. m \in 0 .. size - Unread(b)
  BY Indices
<1>2. /\ c.buf = b.buf /\ c.read_index = b.read_index /\ c.required = b.required
      /\ c.total_read = b.total_read
      /\ c.write_index = Turn(b.write_index + m, size)
      /\ c.total_written = Turn(b.total_written + m, Wrap)
  BY DEF Written, Shaped, Buffer
<1>3. /\ c.write_index \in 0 .. size - 1 /\ c.total_written \in 0 .. Wrap - 1
      /\ Unread(c) = Unread(b) + m
  <2>1. /\ size \in Nat \ {0} /\ b.write_index \in 0 .. size - 1 /\ m \in Nat
        /\ b.total_written \in 0 .. Wrap - 1 /\ b.total_read \in 0 .. Wrap - 1
        /\ Wrap \in Nat /\ Unread(b) + m < Wrap /\ 0 + m <= size
    BY <1>1, Indices
  <2>. HIDE DEF c, m
  <2>2. c.write_index \in 0 .. size - 1
    BY <1>2, <2>1 DEF Turn
  <2>3. /\ Unread(b) = Back(b.total_written - b.total_read, Wrap)
        /\ Unread(c) = Back(Turn(b.total_written + m, Wrap) - b.total_read, Wrap)
    BY <1>2 DEF Unread
  <2>4. /\ Turn(b.total_written + m, Wrap) \in 0 .. Wrap - 1
        /\ Back(Turn(b.total_written + m, Wrap) - b.total_read, Wrap)
             = Back(b.total_written - b.total_read, Wrap) + m
    <3>1. Back(b.total_written - b.total_read, Wrap) + m < Wrap
      BY <2>1, <2>3
    <3>. QED  BY <2>1, <3>1, WriterAdvances, Zenon
  <2>. QED  BY <1>2, <2>2, <2>3, <2>4
<1>4. c \in Buffer(size)
  BY <1>2, <1>3 DEF Written, Shaped, Buffer
<1>. HIDE DEF c
<1>5. c.write_index = Turn(c.read_index + Unread(c), size)
  <2>1. /\ size \in Nat \ {0} /\ b.read_index \in 0 .. size - 1 /\ m \in Nat
        /\ Unread(b) \in Nat /\ Unread(b) + m <= size
        /\ b.write_index = Turn(b.read_index + Unread(b), size)
    BY <1>1, Indices
  <2>. HIDE DEF m
  <2>2. c.write_index = Turn(b.read_index + Unread(b) + m, size)
    BY <1>2, <2>1, Turns
  <2>. QED  BY <1>2, <1>3, <2>1, <2>2
<1>6. Shaped(c, size)
  BY <1>1, <1>3, <1>4, <1>5, Indices DEF Shaped
<1>7. \A n \in 0 .. Unread(b) : Oldest(c, size, n) = Oldest(b, size, n)
  BY <1>2 DEF Oldest
<1>8. Held(c, size) = Held(b, size) \o items
  <2>1. /\ Held(b, size) \in Seq(Sample) /\ Len(Held(b, size)) = Unread(b)
        /\ Held(c, size) \in Seq(Sample) /\ Len(Held(c, size)) = Unread(b) + m
    BY <1>3, <1>6, OldestType, Indices DEF Held
  <2>2. ASSUME NEW i \in 1 .. Unread(b) + m
        PROVE  Held(c, size)[i] = (Held(b, size) \o items)[i]
    <3>1. Held(c, size)[i] = b.buf[Turn(b.read_index + i - 1, size)]
      BY <1>2, <1>3 DEF Held, Oldest
    <3>2. CASE i <= Unread(b)
      <4>1. Held(b, size)[i] = b.buf[Turn(b.read_index + i - 1, size)]
        BY <3>2, Indices DEF Held, Oldest
      <4>. QED  BY <2>1, <3>1, <3>2, <4>1, Indices
    <3>3. CASE i > Unread(b)
      <4>. DEFINE k == i - Unread(b)
      <4>0. /\ size \in Nat \ {0} /\ b.read_index \in 0 .. size - 1
            /\ b.write_index = Turn(b.read_index + Unread(b), size)
            /\ Unread(b) \in 0 .. size /\ m \in 0 .. size - Unread(b)
        BY <1>1, Indices
      <4>1. k \in 1 .. m /\ Turn(b.read_index + i - 1, size) = Turn(b.write_index + k - 1, size)
        <5>1. i \in 1 .. size /\ k \in 1 .. m
          BY <3>3, <4>0
        <5>2. Turn(b.read_index + i - 1, size) = Turn(b.write_index + k - 1, size)
          <6>1. Turn(b.read_index + i - 1, size)
                  = Turn(Turn(b.read_index + Unread(b), size) + (i - Unread(b)) - 1, size)
            BY <3>3, <4>0, <5>1, Slots, Zenon
          <6>. QED  BY <4>0, <6>1
        <5>. QED  BY <5>1, <5>2
      <4>2. items[k] = b.buf[Turn(b.write_index + k - 1, size)]
        BY <4>1 DEF Ready
      <4>3. (Held(b, size) \o items)[i] = items[k]
        <5>1. i \in Len(Held(b, size)) + 1 .. Len(Held(b, size)) + Len(items)
              /\ k = i - Len(Held(b, size))
          BY <2>1, <3>3, <4>0
        <5>. HIDE DEF k
        <5>. QED  BY <2>1, <5>1, ConcatProperties
      <4>. QED  BY <3>1, <4>1, <4>2, <4>3
    <3>4. i <= Unread(b) \/ i > Unread(b)
      BY <1>1, Indices
    <3>. QED  BY <3>2, <3>3, <3>4, Zenon
  <2>3. Held(b, size) \o items \in Seq(Sample)
        /\ Len(Held(b, size) \o items) = Unread(b) + m
    BY <2>1
  <2>. QED  BY <2>1, <2>2, <2>3, SeqEqual
<1>9. /\ Shaped(c, size) /\ Unread(c) = Unread(b) + m /\ c.required = b.required
      /\ Held(c, size) = Held(b, size) \o items
      /\ \A n \in 0 .. Unread(b) : Oldest(c, size, n) = Oldest(b, size, n)
  BY <1>2, <1>3, <1>6, <1>7, <1>8
<1>. QED  BY <1>9 DEF c

\* Releasing takes the oldest samples away.
LEMMA ReleasedTakes ==
  ASSUME NEW size, IsSize(size), NEW b, Shaped(b, size), NEW n \in 0 .. Unread(b)
  PROVE  LET c == Released(b, size, n)
         IN  /\ Shaped(c, size) /\ Unread(c) = Unread(b) - n /\ c.required = b.required
             /\ c.buf = b.buf /\ c.write_index = b.write_index
             /\ Oldest(b, size, n) = SubSeq(Held(b, size), 1, n)
             /\ Held(c, size) = SubSeq(Held(b, size), n + 1, Unread(b))
<1>. DEFINE c == Released(b, size, n)
<1>2. /\ c.buf = b.buf /\ c.write_index = b.write_index /\ c.required = b.required
      /\ c.total_written = b.total_written
      /\ c.read_index = Turn(b.read_index + n, size)
      /\ c.total_read = Turn(b.total_read + n, Wrap)
  BY DEF Released, Shaped, Buffer
<1>3. /\ c.read_index \in 0 .. size - 1 /\ c.total_read \in 0 .. Wrap - 1
      /\ Unread(c) = Unread(b) - n
  <2>1. /\ size \in Nat \ {0} /\ b.read_index \in 0 .. size - 1 /\ n \in Nat /\ n <= size
        /\ b.total_written \in 0 .. Wrap - 1 /\ b.total_read \in 0 .. Wrap - 1
        /\ Wrap \in Nat /\ n <= Unread(b)
    BY Indices
  <2>. HIDE DEF c
  <2>2. c.read_index \in 0 .. size - 1
    BY <1>2, <2>1 DEF Turn
  <2>3. /\ Unread(b) = Back(b.total_written - b.total_read, Wrap)
        /\ Unread(c) = Back(b.total_written - Turn(b.total_read + n, Wrap), Wrap)
    BY <1>2 DEF Unread
  <2>4. /\ Turn(b.total_read + n, Wrap) \in 0 .. Wrap - 1
        /\ Back(b.total_written - Turn(b.total_read + n, Wrap), Wrap)
             = Back(b.total_written - b.total_read, Wrap) - n
    <3>1. n <= Back(b.total_written - b.total_read, Wrap)
      BY <2>1, <2>3
    <3>. QED  BY <2>1, <3>1, ReaderAdvances, Zenon
  <2>. QED  BY <1>2, <2>2, <2>3, <2>4
<1>4. c \in Buffer(size)
  BY <1>2, <1>3 DEF Released, Shaped, Buffer
<1>. HIDE DEF c
<1>5. c.write_index = Turn(c.read_index + Unread(c), size)
  <2>1. /\ size \in Nat \ {0} /\ b.read_index \in 0 .. size - 1
        /\ n \in Nat /\ Unread(b) - n \in Nat /\ n + (Unread(b) - n) = Unread(b)
        /\ Unread(b) <= size
        /\ b.write_index = Turn(b.read_index + Unread(b), size)
    BY Indices
  <2>2. Turn(Turn(b.read_index + n, size) + (Unread(b) - n), size)
          = Turn(b.read_index + n + (Unread(b) - n), size)
    BY <2>1, Turns, ZenonT(40)
  <2>3. b.read_index + n + (Unread(b) - n) = b.read_index + Unread(b)
    BY <2>1
  <2>. QED  BY <1>2, <1>3, <2>1, <2>2, <2>3
<1>6. Shaped(c, size)
  BY <1>3, <1>4, <1>5, Indices DEF Shaped
<1>7. /\ Held(b, size) \in Seq(Sample) /\ Len(Held(b, size)) = Unread(b)
      /\ Held(c, size) \in Seq(Sample) /\ Len(Held(c, size)) = Unread(b) - n
      /\ Oldest(b, size, n) \in Seq(Sample) /\ Len(Oldest(b, size, n)) = n
  BY <1>3, <1>6, OldestType, Indices DEF Held
<1>8. Oldest(b, size, n) = SubSeq(Held(b, size), 1, n)
  <2>1. \A i \in 1 .. n : Oldest(b, size, n)[i] = Held(b, size)[i]
    BY Indices DEF Held, Oldest
  <2>. QED  BY <1>7, <2>1, SubSeqProperties, SeqEqual, Indices
<1>9. Held(c, size) = SubSeq(Held(b, size), n + 1, Unread(b))
  <2>1. ASSUME NEW i \in 1 .. Unread(b) - n
        PROVE  Held(c, size)[i] = Held(b, size)[i + n]
    <3>1. Held(c, size)[i] = b.buf[Turn(Turn(b.read_index + n, size) + i - 1, size)]
      BY <1>2, <1>3 DEF Held, Oldest
    <3>2. Held(b, size)[i + n] = b.buf[Turn(b.read_index + (i + n) - 1, size)]
      BY Indices DEF Held, Oldest
    <3>3. Turn(Turn(b.read_index + n, size) + i - 1, size)
            = Turn(b.read_index + (i + n) - 1, size)
      BY Indices, SMTT(20) DEF Turn
    <3>. QED  BY <3>1, <3>2, <3>3
  <2>. DEFINE s == SubSeq(Held(b, size), n + 1, Unread(b))
  <2>2. s \in Seq(Sample) /\ Len(s) = Unread(b) - n
        /\ \A i \in 1 .. Unread(b) - n : s[i] = Held(b, size)[i + n]
    BY <1>7, Indices, SubSeqProperties
  <2>. QED  BY <1>7, <2>1, <2>2, SeqEqual
<1>10. /\ Shaped(c, size) /\ Unread(c) = Unread(b) - n /\ c.required = b.required
       /\ c.buf = b.buf /\ c.write_index = b.write_index
       /\ Oldest(b, size, n) = SubSeq(Held(b, size), 1, n)
       /\ Held(c, size) = SubSeq(Held(b, size), n + 1, Unread(b))
  BY <1>2, <1>3, <1>6, <1>8, <1>9
<1>. QED  BY <1>10 DEF c

-----------------------------------------------------------------------------
(***************************************************************************)
(* The sending side                                                        *)
(***************************************************************************)
SendShape ==
  /\ okay_to_send \in BOOLEAN /\ tx \in TxPoint
  /\ Shaped(send, SendSize)
  /\ samples \in Seq(Sample) /\ line \in Seq(Sample) /\ frame \in Seq(Sample)
  /\ tx = "idle" => samples = <<>>
  /\ tx # "idle" => Len(samples) \in 1 .. SendSize

\* The data of a block and of a frame that are between two steps.
SendData ==
  /\ tx \in {"copy", "publish"} => Len(samples) <= SendSize - Unread(send)
  /\ tx = "publish" => Ready(send, SendSize, samples)
  /\ port = "fetched" => Unread(send) >= 1 /\ frame = Oldest(send, SendSize, 1)

\* The wake-up is in one place: asked for, on its way, or given.
SendWake ==
  /\ send_sem \in {0, 1} /\ isr_byte \subseteq Resume
  /\ tx # "get" => send.required = 0 /\ "SEND" \notin isr_byte /\ send_sem = 0
  /\ tx = "get" =>
       \/ send.required = Len(samples) /\ "SEND" \notin isr_byte /\ send_sem = 0
       \/ /\ send.required = 0 /\ Len(samples) <= SendSize - Unread(send)
          /\ "SEND" \in isr_byte <=> send_sem = 0

SendInv == SendShape /\ SendData /\ SendWake

LEMMA SendIsSize == IsSize(SendSize)
  BY DriverAssumption DEF IsSize

LEMMA SendStart == DriverInit => SendInv
<1>. SUFFICES ASSUME DriverInit PROVE SendInv
  OBVIOUS
<1>1. Shaped(send, SendSize) /\ send.required = 0
  BY EmptyShaped, SendIsSize DEF DriverInit
<1>2. <<>> \in Seq(Sample) /\ <<Zero>> \in Seq(Sample)
  BY DriverAssumption
<1>. QED
  BY <1>1, <1>2 DEF DriverInit, SendInv, SendShape, SendData, SendWake, TxPoint

\* What the other side does leaves this one alone.
LEMMA SendKept ==
  ASSUME SendInv, UNCHANGED sendVars, isr_byte' \subseteq Resume,
         "SEND" \in isr_byte' <=> "SEND" \in isr_byte,
         port' = port \/ port' # "fetched"
  PROVE  SendInv'
  BY DEF SendInv, SendShape, SendData, SendWake, sendVars

\* A change of the request leaves the ring alone.
LEMMA SendAsked ==
  ASSUME SendInv, NEW n \in 0 .. SendSize, send' = [send EXCEPT !.required = n]
  PROVE  /\ Shaped(send, SendSize)' /\ Unread(send') = Unread(send)
         /\ send'.required = n
         /\ \A k : Oldest(send', SendSize, k) = Oldest(send, SendSize, k)
         /\ Ready(send, SendSize, samples) => Ready(send', SendSize, samples)
  BY SendIsSize, RequestKeeps DEF SendInv, SendShape, Ready

LEMMA SendTask ==
  ASSUME SendInv, TxTask \/ \E block \in Blocks : Tx(block)
  PROVE  SendInv'
<1>. USE DEF SendInv
<1>1. CASE \E block \in Blocks : Tx(block)
  <2>. PICK block \in Blocks : Tx(block)
    BY <1>1
  <2>1. block \in Seq(Sample) /\ Len(block) \in 1 .. SendSize
    BY DriverAssumption
  <2>. QED
    BY <2>1 DEF Tx, recvVars, SendShape, SendData, SendWake, TxPoint
<1>2. CASE TxCheck
  BY <1>2, Indices, SendIsSize
  DEF TxCheck, SendStep, recvVars, SendShape, SendData, SendWake, TxPoint
<1>3. CASE TxRequire
  <2>1. Len(samples) \in 0 .. SendSize /\ send' = [send EXCEPT !.required = Len(samples)]
    BY <1>3, DriverAssumption DEF TxRequire, SendStep, SendShape
  <2>2. /\ Shaped(send, SendSize)' /\ Unread(send') = Unread(send)
        /\ send'.required = Len(samples)
        /\ \A k : Oldest(send', SendSize, k) = Oldest(send, SendSize, k)
    BY <2>1, SendAsked
  <2>. QED
    BY <1>3, <2>2 DEF TxRequire, SendStep, recvVars, SendShape, SendData, SendWake, TxPoint
<1>4. CASE TxResume
  BY <1>4, Indices, SendIsSize
  DEF TxResume, SendStep, recvVars, SendShape, SendData, SendWake, TxPoint
<1>5. CASE TxCopy
  <2>1. /\ tx = "copy" /\ tx' = "publish" /\ send' = Filled(send, SendSize, samples)
        /\ UNCHANGED <<samples, okay_to_send, frame, line, send_sem, isr_byte, port>>
    BY <1>5 DEF TxCopy, SendStep
  <2>2. /\ samples \in Seq(Sample) /\ Len(samples) <= SendSize - Unread(send)
        /\ Shaped(send, SendSize)
    BY <2>1 DEF SendShape, SendData
  <2>3. /\ Shaped(send', SendSize) /\ Unread(send') = Unread(send)
        /\ send'.required = send.required /\ Ready(send', SendSize, samples)
        /\ \A n \in 0 .. Unread(send) : Oldest(send', SendSize, n) = Oldest(send, SendSize, n)
    BY <2>1, <2>2, FilledKeeps, SendIsSize
  <2>4. SendShape'
    BY <2>1, <2>3 DEF SendShape, TxPoint
  <2>5. SendData'
    BY <2>1, <2>2, <2>3, Indices, SendIsSize DEF SendData
  <2>6. SendWake'
    BY <2>1, <2>3 DEF SendWake
  <2>. QED  BY <2>4, <2>5, <2>6
<1>6. CASE TxPublish
  <2>1. /\ tx = "publish" /\ tx' = "idle" /\ samples' = <<>>
        /\ send' = Written(send, SendSize, Len(samples))
        /\ UNCHANGED <<okay_to_send, frame, line, send_sem, isr_byte, port>>
    BY <1>6 DEF TxPublish, SendStep
  <2>2. /\ samples \in Seq(Sample) /\ Len(samples) <= SendSize - Unread(send)
        /\ Shaped(send, SendSize) /\ Ready(send, SendSize, samples)
    BY <2>1 DEF SendShape, SendData
  <2>3. /\ Shaped(send', SendSize) /\ Unread(send') = Unread(send) + Len(samples)
        /\ send'.required = send.required
        /\ \A n \in 0 .. Unread(send) : Oldest(send', SendSize, n) = Oldest(send, SendSize, n)
    BY <2>1, <2>2, WrittenAppends, SendIsSize
  <2>4. SendShape'
    BY <2>1, <2>3 DEF SendShape, TxPoint
  <2>5. SendData'
    BY <2>1, <2>2, <2>3, Indices, SendIsSize DEF SendData
  <2>6. SendWake'
    BY <2>1, <2>3 DEF SendWake
  <2>. QED  BY <2>4, <2>5, <2>6
<1>. QED  BY <1>1, <1>2, <1>3, <1>4, <1>5, <1>6 DEF TxTask

LEMMA SendThread ==
  ASSUME SendInv, isr_cmd \subseteq {"RECV"}, Fetch \/ SendZeros \/ FetchRelease \/ WakeTx
  PROVE  SendInv'
<1>. USE DEF SendInv
<1>0. <<Zero>> \in Seq(Sample) /\ <<>> \in Seq(Sample) /\ SendSize \in Nat \ {0}
  BY DriverAssumption
<1>1. CASE Fetch
  <2>1. /\ Unread(send) >= 1 /\ port' = "fetched" /\ frame' = Oldest(send, SendSize, 1)
        /\ UNCHANGED <<send, line, isr_byte, tx, samples, send_sem, okay_to_send>>
    BY <1>1 DEF Fetch, ThreadSend
  <2>2. frame' \in Seq(Sample)
    BY <1>0, <2>1, OldestType, SendIsSize DEF SendShape
  <2>. QED  BY <2>1, <2>2 DEF SendShape, SendData, SendWake
<1>2. CASE SendZeros
  BY <1>0, <1>2 DEF SendZeros, ThreadSend, SendShape, SendData, SendWake
<1>3. CASE FetchRelease
  <2>1. /\ port = "fetched" /\ port' = "wake_tx" /\ send' = Released(send, SendSize, 1)
        /\ line' = frame /\ frame' = <<>>
        /\ UNCHANGED <<isr_byte, tx, samples, send_sem, okay_to_send>>
    BY <1>3 DEF FetchRelease, ThreadSend
  <2>2. 1 \in 0 .. Unread(send) /\ Unread(send) \in Nat
    BY <2>1, Indices, SendIsSize DEF SendShape, SendData
  <2>3. /\ Shaped(send', SendSize) /\ Unread(send') = Unread(send) - 1
        /\ send'.required = send.required
        /\ send'.buf = send.buf /\ send'.write_index = send.write_index
    BY <2>1, <2>2, ReleasedTakes, SendIsSize DEF SendShape
  <2>4. SendShape'
    BY <1>0, <2>1, <2>3 DEF SendShape
  <2>5. Ready(send, SendSize, samples) => Ready(send', SendSize, samples)
    BY <2>3 DEF Ready
  <2>6. Len(samples) <= SendSize - Unread(send) => Len(samples) <= SendSize - Unread(send')
    BY <1>0, <2>2, <2>3 DEF SendShape
  <2>7. SendData'
    BY <2>1, <2>5, <2>6 DEF SendData
  <2>8. SendWake'
    BY <2>1, <2>3, <2>6 DEF SendWake
  <2>. QED  BY <2>4, <2>7, <2>8
<1>4. CASE WakeTx
  <2>1. /\ port' = "receive" /\ send' = IF RoomAsked THEN Cleared(send) ELSE send
        /\ isr_byte' = isr_byte \cup isr_cmd \cup (IF RoomAsked THEN {"SEND"} ELSE {})
        /\ UNCHANGED <<frame, line, tx, samples, send_sem, okay_to_send>>
    BY <1>4 DEF WakeTx, ThreadSend
  <2>2. "SEND" \notin isr_cmd /\ isr_byte' \subseteq Resume
    BY <2>1 DEF SendWake, Resume
  <2>3. CASE RoomAsked
    <3>1. 0 \in 0 .. SendSize /\ send' = [send EXCEPT !.required = 0]
      BY <1>0, <2>1, <2>3 DEF Cleared
    <3>2. /\ Shaped(send, SendSize)' /\ Unread(send') = Unread(send)
          /\ send'.required = 0
          /\ \A k : Oldest(send', SendSize, k) = Oldest(send, SendSize, k)
          /\ Ready(send, SendSize, samples) => Ready(send', SendSize, samples)
      BY <3>1, SendAsked
    <3>3. SendShape' /\ SendData'
      BY <2>1, <3>2 DEF SendShape, SendData
    <3>4. /\ tx = "get" /\ send.required = Len(samples) /\ send_sem = 0
          /\ Len(samples) <= SendSize - Unread(send)
      BY <2>3 DEF RoomAsked, SendWake, SendShape
    <3>5. SendWake'
      BY <2>1, <2>2, <2>3, <3>2, <3>4 DEF SendWake
    <3>. QED  BY <3>3, <3>5
  <2>4. CASE ~RoomAsked
    BY <2>1, <2>2, <2>4 DEF SendShape, SendData, SendWake
  <2>. QED  BY <2>3, <2>4
<1>. QED  BY <1>1, <1>2, <1>3, <1>4

LEMMA SendNext ==
  ASSUME SendInv, isr_cmd \subseteq {"RECV"}, [Next]_driverVars
  PROVE  SendInv'
<1>1. isr_byte \subseteq Resume
  BY DEF SendInv, SendWake
<1>2. CASE TxTask \/ \E block \in Blocks : Tx(block)
  BY <1>2, SendTask
<1>3. CASE Fetch \/ SendZeros \/ FetchRelease \/ WakeTx
  BY <1>3, SendThread
<1>4. CASE \E okay \in BOOLEAN : SetOkay(okay)
  BY <1>4 DEF SetOkay, SendInv, SendShape, SendData, SendWake
<1>5. CASE \E resume \in Resume : Interrupt(resume)
  <2>. PICK resume \in Resume : Interrupt(resume)
    BY <1>5
  <2>1. CASE resume = "SEND"
    BY <2>1 DEF Interrupt, SendInv, SendShape, SendData, SendWake, Resume
  <2>2. CASE resume = "RECV"
    BY <2>2, SendKept, <1>1 DEF Interrupt, sendVars
  <2>. QED  BY <2>1, <2>2 DEF Resume
<1>6. CASE (\E s \in Sample : Hear(s)) \/ Overrun \/ Store \/ StorePublish \/ WakeRx
  BY <1>6, <1>1, SendKept DEF Hear, Overrun, Store, StorePublish, WakeRx, ThreadRecv
<1>7. CASE RxTask \/ \E n \in Counts : Rx(n)
  <2>1. UNCHANGED <<sendVars, isr_byte, port>>
    BY <1>7 DEF RxTask, Rx, RxCheck, RxRequire, RxResume, RxCopy, RxRelease, RecvStep
  <2>. QED  BY <1>1, <2>1, SendKept
<1>8. CASE UNCHANGED driverVars
  BY <1>8, <1>1, SendKept DEF driverVars
<1>. QED
  BY <1>2, <1>3, <1>4, <1>5, <1>6, <1>7, <1>8 DEF Next, Caller, Thread

-----------------------------------------------------------------------------
(***************************************************************************)
(* The receiving side                                                      *)
(***************************************************************************)
RecvShape ==
  /\ rx \in RxPoint /\ port \in PortPoint
  /\ Shaped(recv, RecvSize)
  /\ heard \in Seq(Sample) /\ copied \in Seq(Sample) /\ received \in Seq(Sample)
  /\ rx = "idle" => wanted = 0
  /\ rx # "idle" => wanted \in Counts

RecvData ==
  /\ rx \in {"copy", "release"} => wanted <= Unread(recv)
  /\ rx = "release" => copied = Oldest(recv, RecvSize, wanted)
  /\ rx # "release" => copied = <<>>
  /\ port \in {"store", "stored"} => Len(heard) = 1
  /\ port \notin {"store", "stored"} => heard = <<>>
  /\ port = "stored" => Len(heard) <= RecvSize - Unread(recv) /\ Ready(recv, RecvSize, heard)

\* The bit that wakes the receiver is on its way in one place of the two.
RecvWake ==
  /\ recv_sem \in {0, 1} /\ isr_cmd \subseteq {"RECV"}
  /\ ~("RECV" \in isr_cmd /\ "RECV" \in isr_byte)
  /\ rx # "get" => recv.required = 0 /\ "RECV" \notin isr_byte \cup isr_cmd /\ recv_sem = 0
  /\ rx = "get" =>
       \/ recv.required = wanted /\ "RECV" \notin isr_byte \cup isr_cmd /\ recv_sem = 0
       \/ /\ recv.required = 0 /\ wanted <= Unread(recv)
          /\ "RECV" \in isr_byte \cup isr_cmd <=> recv_sem = 0

RecvInv == RecvShape /\ RecvData /\ RecvWake

LEMMA RecvIsSize == IsSize(RecvSize)
  BY DriverAssumption DEF IsSize

LEMMA RecvStart == DriverInit => RecvInv
<1>. SUFFICES ASSUME DriverInit PROVE RecvInv
  OBVIOUS
<1>1. Shaped(recv, RecvSize) /\ recv.required = 0
  BY EmptyShaped, RecvIsSize DEF DriverInit
<1>. QED
  BY <1>1 DEF DriverInit, RecvInv, RecvShape, RecvData, RecvWake, RxPoint, PortPoint

LEMMA RecvKept ==
  ASSUME RecvInv, UNCHANGED recvVars, isr_cmd' \subseteq {"RECV"}, port' \in PortPoint,
         "RECV" \in isr_byte' \cup isr_cmd' <=> "RECV" \in isr_byte \cup isr_cmd,
         ~("RECV" \in isr_cmd' /\ "RECV" \in isr_byte'),
         port' = port
           \/ (port \notin {"store", "stored"} /\ port' \notin {"store", "stored"})
  PROVE  RecvInv'
  BY DEF RecvInv, RecvShape, RecvData, RecvWake, recvVars

LEMMA RecvAsked ==
  ASSUME RecvInv, NEW n \in 0 .. RecvSize, recv' = [recv EXCEPT !.required = n]
  PROVE  /\ Shaped(recv, RecvSize)' /\ Unread(recv') = Unread(recv)
         /\ recv'.required = n
         /\ \A k : Oldest(recv', RecvSize, k) = Oldest(recv, RecvSize, k)
         /\ Ready(recv, RecvSize, heard) => Ready(recv', RecvSize, heard)
  BY RecvIsSize, RequestKeeps DEF RecvInv, RecvShape, Ready

LEMMA Counting == RecvSize \in Nat \ {0} /\ \A n \in Counts : n \in 1 .. RecvSize
  BY DriverAssumption

LEMMA RecvTask ==
  ASSUME RecvInv, RxTask \/ \E n \in Counts : Rx(n)
  PROVE  RecvInv'
<1>. USE DEF RecvInv
<1>0. <<>> \in Seq(Sample) /\ Unread(recv) \in 0 .. RecvSize
  BY Indices, RecvIsSize DEF RecvShape
<1>1. CASE \E n \in Counts : Rx(n)
  BY <1>0, <1>1 DEF Rx, sendVars, RecvShape, RecvData, RecvWake, RxPoint
<1>2. CASE RxCheck
  BY <1>0, <1>2, Counting
  DEF RxCheck, RecvStep, sendVars, RecvShape, RecvData, RecvWake, RxPoint
<1>3. CASE RxRequire
  <2>1. wanted \in 0 .. RecvSize /\ recv' = [recv EXCEPT !.required = wanted]
    BY <1>3, Counting DEF RxRequire, RecvStep, RecvShape
  <2>2. /\ Shaped(recv, RecvSize)' /\ Unread(recv') = Unread(recv)
        /\ recv'.required = wanted
        /\ \A k : Oldest(recv', RecvSize, k) = Oldest(recv, RecvSize, k)
        /\ Ready(recv, RecvSize, heard) => Ready(recv', RecvSize, heard)
    BY <2>1, RecvAsked
  <2>. QED
    BY <1>3, <2>2 DEF RxRequire, RecvStep, sendVars, RecvShape, RecvData, RecvWake, RxPoint
<1>4. CASE RxResume
  BY <1>4 DEF RxResume, RecvStep, sendVars, RecvShape, RecvData, RecvWake, RxPoint
<1>5. CASE RxCopy
  <2>1. /\ rx = "copy" /\ rx' = "release" /\ copied' = Oldest(recv, RecvSize, wanted)
        /\ UNCHANGED <<recv, heard, wanted, received, recv_sem, isr_cmd, isr_byte, port>>
    BY <1>5 DEF RxCopy, RecvStep
  <2>2. wanted \in 0 .. RecvSize
    BY <2>1, Counting DEF RecvShape
  <2>3. copied' \in Seq(Sample)
    BY <2>1, <2>2, OldestType, RecvIsSize DEF RecvShape
  <2>. QED  BY <2>1, <2>3 DEF RecvShape, RecvData, RecvWake, RxPoint
<1>6. CASE RxRelease
  <2>1. /\ rx = "release" /\ rx' = "idle" /\ recv' = Released(recv, RecvSize, wanted)
        /\ received' = copied /\ copied' = <<>> /\ wanted' = 0
        /\ UNCHANGED <<heard, recv_sem, isr_cmd, isr_byte, port>>
    BY <1>6 DEF RxRelease, RecvStep
  <2>2. wanted \in 0 .. Unread(recv)
    BY <1>0, <2>1, Counting DEF RecvShape, RecvData
  <2>3. /\ Shaped(recv', RecvSize) /\ Unread(recv') = Unread(recv) - wanted
        /\ recv'.required = recv.required
        /\ recv'.buf = recv.buf /\ recv'.write_index = recv.write_index
    BY <2>1, <2>2, ReleasedTakes, RecvIsSize DEF RecvShape
  <2>4. Ready(recv, RecvSize, heard) => Ready(recv', RecvSize, heard)
    BY <2>3 DEF Ready
  <2>5. Len(heard) \in Nat
    BY DEF RecvShape
  <2>6. RecvData'
    BY <1>0, <2>1, <2>2, <2>3, <2>4, <2>5, Counting DEF RecvData
  <2>. QED  BY <1>0, <2>1, <2>3, <2>6 DEF RecvShape, RecvWake, RxPoint
<1>. QED  BY <1>1, <1>2, <1>3, <1>4, <1>5, <1>6 DEF RxTask

LEMMA RecvThread ==
  ASSUME RecvInv, (\E s \in Sample : Hear(s)) \/ Overrun \/ Store \/ StorePublish \/ WakeRx
  PROVE  RecvInv'
<1>. USE DEF RecvInv
<1>0. /\ <<>> \in Seq(Sample) /\ Unread(recv) \in 0 .. RecvSize
      /\ RecvSize \in Nat /\ wanted \in 0 .. RecvSize
  BY Indices, RecvIsSize, Counting DEF RecvShape
<1>1. CASE \E s \in Sample : Hear(s)
  <2>. PICK s \in Sample : Hear(s)
    BY <1>1
  <2>1. <<s>> \in Seq(Sample) /\ Len(<<s>>) = 1
    OBVIOUS
  <2>. QED  BY <2>1 DEF Hear, ThreadRecv, RecvShape, RecvData, RecvWake, PortPoint
<1>2. CASE Overrun
  BY <1>0, <1>2 DEF Overrun, ThreadRecv, RecvShape, RecvData, RecvWake, PortPoint
<1>3. CASE Store
  <2>1. /\ port = "store" /\ port' = "stored" /\ RecvSize - Unread(recv) >= 1
        /\ recv' = Filled(recv, RecvSize, heard)
        /\ UNCHANGED <<heard, isr_cmd, rx, wanted, copied, received, recv_sem, isr_byte>>
    BY <1>3 DEF Store, ThreadRecv
  <2>2. /\ heard \in Seq(Sample) /\ Len(heard) = 1 /\ Shaped(recv, RecvSize)
        /\ Len(heard) <= RecvSize - Unread(recv)
    BY <1>0, <2>1 DEF RecvShape, RecvData
  <2>3. /\ Shaped(recv', RecvSize) /\ Unread(recv') = Unread(recv)
        /\ recv'.required = recv.required /\ Ready(recv', RecvSize, heard)
        /\ \A n \in 0 .. Unread(recv) : Oldest(recv', RecvSize, n) = Oldest(recv, RecvSize, n)
    BY <2>1, <2>2, FilledKeeps, RecvIsSize
  <2>4. RecvShape'
    BY <2>1, <2>3 DEF RecvShape, PortPoint
  <2>5. RecvData'
    BY <1>0, <2>1, <2>2, <2>3 DEF RecvData
  <2>6. RecvWake'
    BY <2>1, <2>3 DEF RecvWake
  <2>. QED  BY <2>4, <2>5, <2>6
<1>4. CASE StorePublish
  <2>1. /\ port = "stored" /\ port' = "wake_rx" /\ recv' = Written(recv, RecvSize, 1)
        /\ heard' = <<>>
        /\ UNCHANGED <<isr_cmd, rx, wanted, copied, received, recv_sem, isr_byte>>
    BY <1>4 DEF StorePublish, ThreadRecv
  <2>2. /\ heard \in Seq(Sample) /\ Len(heard) = 1 /\ Shaped(recv, RecvSize)
        /\ Len(heard) <= RecvSize - Unread(recv) /\ Ready(recv, RecvSize, heard)
    BY <2>1 DEF RecvShape, RecvData
  <2>3. /\ Shaped(recv', RecvSize) /\ Unread(recv') = Unread(recv) + 1
        /\ recv'.required = recv.required
        /\ \A n \in 0 .. Unread(recv) : Oldest(recv', RecvSize, n) = Oldest(recv, RecvSize, n)
    <3>1. recv' = Written(recv, RecvSize, Len(heard))
      BY <2>1, <2>2
    <3>2. /\ Shaped(recv', RecvSize) /\ Unread(recv') = Unread(recv) + Len(heard)
          /\ recv'.required = recv.required
          /\ \A n \in 0 .. Unread(recv) : Oldest(recv', RecvSize, n) = Oldest(recv, RecvSize, n)
      BY <2>2, <3>1, WrittenAppends, RecvIsSize
    <3>. QED  BY <2>2, <3>2
  <2>4. RecvShape'
    BY <1>0, <2>1, <2>3 DEF RecvShape, PortPoint
  <2>5. RecvData'
    BY <1>0, <2>1, <2>3 DEF RecvData
  <2>6. RecvWake'
    BY <1>0, <2>1, <2>3 DEF RecvWake
  <2>. QED  BY <2>4, <2>5, <2>6
<1>5. CASE WakeRx
  <2>1. /\ port = "wake_rx" /\ port' = "send"
        /\ UNCHANGED <<heard, rx, wanted, copied, received, recv_sem, isr_byte>>
        /\ IF recv.required > 0 /\ Unread(recv) >= recv.required
           THEN recv' = Cleared(recv) /\ isr_cmd' = isr_cmd \cup {"RECV"}
           ELSE UNCHANGED <<recv, isr_cmd>>
    BY <1>5 DEF WakeRx, ThreadRecv
  <2>2. CASE recv.required > 0 /\ Unread(recv) >= recv.required
    <3>1. 0 \in 0 .. RecvSize /\ recv' = [recv EXCEPT !.required = 0]
      BY <1>0, <2>1, <2>2 DEF Cleared
    <3>2. /\ Shaped(recv, RecvSize)' /\ Unread(recv') = Unread(recv)
          /\ recv'.required = 0
          /\ \A k : Oldest(recv', RecvSize, k) = Oldest(recv, RecvSize, k)
      BY <3>1, RecvAsked
    <3>3. RecvShape' /\ RecvData'
      BY <2>1, <3>2 DEF RecvShape, RecvData, PortPoint
    <3>4. /\ rx = "get" /\ recv.required = wanted /\ recv_sem = 0
          /\ "RECV" \notin isr_byte
      BY <2>2 DEF RecvWake
    <3>5. RecvWake'
      BY <2>1, <2>2, <3>2, <3>4 DEF RecvWake
    <3>. QED  BY <3>3, <3>5
  <2>3. CASE ~(recv.required > 0 /\ Unread(recv) >= recv.required)
    BY <2>1, <2>3 DEF RecvShape, RecvData, RecvWake, PortPoint
  <2>. QED  BY <2>2, <2>3
<1>. QED  BY <1>1, <1>2, <1>3, <1>4, <1>5

LEMMA RecvNext ==
  ASSUME RecvInv, [Next]_driverVars
  PROVE  RecvInv'
<1>0. isr_cmd \subseteq {"RECV"} /\ port \in PortPoint
      /\ ~("RECV" \in isr_cmd /\ "RECV" \in isr_byte)
  BY DEF RecvInv, RecvWake, RecvShape
<1>1. CASE RxTask \/ \E n \in Counts : Rx(n)
  BY <1>1, RecvTask
<1>2. CASE (\E s \in Sample : Hear(s)) \/ Overrun \/ Store \/ StorePublish \/ WakeRx
  BY <1>2, RecvThread
<1>3. CASE \E resume \in Resume : Interrupt(resume)
  <2>. PICK resume \in Resume : Interrupt(resume)
    BY <1>3
  <2>1. CASE resume = "RECV"
    BY <2>1, <1>0 DEF Interrupt, RecvInv, RecvShape, RecvData, RecvWake
  <2>2. CASE resume = "SEND"
    BY <2>2, RecvKept, <1>0 DEF Interrupt, recvVars
  <2>. QED  BY <2>1, <2>2 DEF Resume
<1>4. CASE Fetch \/ SendZeros \/ FetchRelease
  BY <1>4, <1>0, RecvKept DEF Fetch, SendZeros, FetchRelease, ThreadSend, PortPoint
<1>5. CASE WakeTx
  BY <1>5, <1>0, RecvKept DEF WakeTx, ThreadSend, PortPoint
<1>6. CASE TxTask \/ \E block \in Blocks : Tx(block)
  <2>1. UNCHANGED <<recvVars, isr_cmd, isr_byte, port>>
    BY <1>6 DEF TxTask, Tx, TxCheck, TxRequire, TxResume, TxCopy, TxPublish, SendStep
  <2>. QED  BY <1>0, <2>1, RecvKept
<1>7. CASE \E okay \in BOOLEAN : SetOkay(okay)
  BY <1>7, <1>0, RecvKept DEF SetOkay
<1>8. CASE UNCHANGED driverVars
  BY <1>8, <1>0, RecvKept DEF driverVars
<1>. QED
  BY <1>1, <1>2, <1>3, <1>4, <1>5, <1>6, <1>7, <1>8 DEF Next, Caller, Thread

-----------------------------------------------------------------------------
DriverInv == SendInv /\ RecvInv

LEMMA DriverSafe == Spec => []DriverInv
<1>1. DriverInit => DriverInv
  BY SendStart, RecvStart DEF DriverInv
<1>2. DriverInv /\ [Next]_driverVars => DriverInv'
  BY SendNext, RecvNext DEF DriverInv, RecvInv, RecvWake
<1>. QED  BY <1>1, <1>2, PTL DEF Spec

\* Every variable keeps its type, the indices of both rings stay inside them and
\* their totals inside a word (rtos_i2s.h: send_buffer, recv_buffer).
THEOREM DriverTyping == Spec => []TypeOK
<1>1. DriverInv => TypeOK
  <2>. SUFFICES ASSUME DriverInv PROVE TypeOK
    OBVIOUS
  <2>. USE DEF DriverInv, SendInv, RecvInv
  <2>1. send \in Buffer(SendSize) /\ recv \in Buffer(RecvSize)
    BY DEF SendShape, RecvShape, Shaped
  <2>2. wanted \in Counts \cup {0}
    BY DEF RecvShape
  <2>. QED
    BY <2>1, <2>2 DEF TypeOK, SendShape, SendWake, RecvShape, RecvWake
<1>. QED  BY <1>1, DriverSafe, PTL

\* A wake-up goes only to the call that waits for it, and nothing is left of it
\* (rtos_i2s.c: i2s_send and i2s_receive, rtos_i2s_isr).
THEOREM WakeUpsAreUsed == Spec => []NoSpareWakeUp
<1>1. DriverInv => NoSpareWakeUp
  BY DEF DriverInv, SendInv, RecvInv, SendWake, RecvWake, NoSpareWakeUp
<1>. QED  BY <1>1, DriverSafe, PTL

\* A call never overwrites a frame that was not sent, nor returns one that was not
\* received, whatever the thread does after the call has looked at the ring.
THEOREM CallsStayInside == Spec => []NeverPastTheOther
<1>1. DriverInv => NeverPastTheOther
  BY DEF DriverInv, SendInv, RecvInv, SendData, RecvData, NeverPastTheOther
<1>. QED  BY <1>1, DriverSafe, PTL

-----------------------------------------------------------------------------
(***************************************************************************)
(* Each ring implements a queue                                            *)
(***************************************************************************)
LEMMA SendQueueInit == DriverInit => SendQueue!Init
  BY EmptyShaped, SendIsSize DEF DriverInit, SendQueue!Init

LEMMA SendQueueNext ==
  ASSUME SendInv, [Next]_driverVars
  PROVE  [SendQueue!Next]_(SendQueue!vars)
<1>. USE DEF SendInv
<1>0. /\ Shaped(send, SendSize) /\ samples \in Seq(Sample)
      /\ Held(send, SendSize) \in Seq(Sample)
      /\ Len(Held(send, SendSize)) = Unread(send) /\ Unread(send) \in 0 .. SendSize
  BY OldestType, Indices, SendIsSize DEF SendShape, Held
<1>1. CASE UNCHANGED <<send, samples, line>>
  BY <1>1 DEF SendQueue!vars, Held, Unread, Oldest
<1>2. CASE \E block \in Blocks : Tx(block)
  <2>. PICK block \in Blocks : Tx(block)
    BY <1>2
  <2>1. /\ tx = "idle" /\ samples' = block /\ UNCHANGED <<send, line>>
        /\ block \in Seq(Sample)
    BY DriverAssumption DEF Tx
  <2>2. SendQueue!Give
    BY <2>1 DEF SendQueue!Give, SendShape, Held, Unread, Oldest
  <2>. QED  BY <2>2 DEF SendQueue!Next
<1>3. CASE TxRequire
  <2>1. /\ send' = [send EXCEPT !.required = Len(samples)] /\ UNCHANGED <<samples, line>>
        /\ Len(samples) \in 0 .. SendSize
    BY <1>3, DriverAssumption DEF TxRequire, SendStep, SendShape
  <2>2. Held(send, SendSize)' = Held(send, SendSize)
    BY <2>1, SendAsked DEF Held
  <2>. QED  BY <2>1, <2>2 DEF SendQueue!vars
<1>4. CASE TxCopy
  <2>1. /\ send' = Filled(send, SendSize, samples) /\ UNCHANGED <<samples, line>>
        /\ Len(samples) <= SendSize - Unread(send)
    BY <1>4 DEF TxCopy, SendStep, SendData
  <2>2. /\ Unread(send') = Unread(send)
        /\ \A n \in 0 .. Unread(send) : Oldest(send', SendSize, n) = Oldest(send, SendSize, n)
    BY <1>0, <2>1, FilledKeeps, SendIsSize
  <2>3. Held(send, SendSize)' = Held(send, SendSize)
    BY <1>0, <2>2 DEF Held
  <2>. QED  BY <2>1, <2>3 DEF SendQueue!vars
<1>5. CASE TxPublish
  <2>1. /\ send' = Written(send, SendSize, Len(samples)) /\ samples' = <<>> /\ line' = line
        /\ Len(samples) <= SendSize - Unread(send) /\ Ready(send, SendSize, samples)
    BY <1>5 DEF TxPublish, SendStep, SendData
  <2>2. Held(send', SendSize) = Held(send, SendSize) \o samples
    BY <1>0, <2>1, WrittenAppends, SendIsSize
  <2>3. Len(Held(send, SendSize)) + Len(samples) <= SendSize
    BY <1>0, <2>1, DriverAssumption
  <2>4. SendQueue!Put
    BY <2>1, <2>2, <2>3 DEF SendQueue!Put, SendQueue!Room
  <2>. QED  BY <2>4 DEF SendQueue!Next
<1>6. CASE SendZeros
  <2>1. line' = <<Zero>> /\ UNCHANGED <<send, samples>>
    BY <1>6 DEF SendZeros, ThreadSend
  <2>2. SendQueue!TakeNothing
    BY <2>1 DEF SendQueue!TakeNothing, Held, Unread, Oldest
  <2>. QED  BY <2>2 DEF SendQueue!Next
<1>7. CASE FetchRelease
  <2>1. /\ send' = Released(send, SendSize, 1) /\ line' = Oldest(send, SendSize, 1)
        /\ Unread(send) >= 1 /\ samples' = samples
    BY <1>7 DEF FetchRelease, ThreadSend, SendData
  <2>2. PICK n \in 1 .. Unread(send) : n = 1
    BY <1>0, <2>1
  <2>3. n \in 0 .. Unread(send) /\ send' = Released(send, SendSize, n)
        /\ line' = Oldest(send, SendSize, n)
    BY <2>1, <2>2
  <2>4. /\ line' = SubSeq(Held(send, SendSize), 1, n)
        /\ Held(send', SendSize) = SubSeq(Held(send, SendSize), n + 1, Unread(send))
    BY <1>0, <2>3, ReleasedTakes, SendIsSize, ZenonT(40)
  <2>5. SendQueue!Take
    BY <1>0, <2>1, <2>2, <2>4 DEF SendQueue!Take
  <2>. QED  BY <2>5 DEF SendQueue!Next
<1>8. CASE WakeTx
  <2>1. /\ send' = IF RoomAsked THEN Cleared(send) ELSE send
        /\ UNCHANGED <<samples, line>>
    BY <1>8 DEF WakeTx, ThreadSend
  <2>2. CASE RoomAsked
    <3>1. 0 \in 0 .. SendSize /\ send' = [send EXCEPT !.required = 0]
      BY <2>1, <2>2, DriverAssumption DEF Cleared
    <3>2. Held(send, SendSize)' = Held(send, SendSize)
      BY <3>1, SendAsked DEF Held
    <3>. QED  BY <2>1, <3>2 DEF SendQueue!vars
  <2>3. CASE ~RoomAsked
    BY <1>1, <2>1, <2>3
  <2>. QED  BY <2>2, <2>3
<1>9. CASE TxCheck \/ TxResume \/ \E okay \in BOOLEAN : SetOkay(okay)
  BY <1>1, <1>9 DEF TxCheck, TxResume, SetOkay, SendStep
<1>10. CASE Fetch \/ \E resume \in Resume : Interrupt(resume)
  BY <1>1, <1>10 DEF Fetch, ThreadSend, Interrupt
<1>11. CASE (\E s \in Sample : Hear(s)) \/ Overrun \/ Store \/ StorePublish \/ WakeRx
  BY <1>1, <1>11
  DEF Hear, Overrun, Store, StorePublish, WakeRx, ThreadRecv, sendVars
<1>12. CASE RxTask \/ \E n \in Counts : Rx(n)
  BY <1>1, <1>12
  DEF RxTask, Rx, RxCheck, RxRequire, RxResume, RxCopy, RxRelease, RecvStep, sendVars
<1>13. CASE UNCHANGED driverVars
  BY <1>1, <1>13 DEF driverVars, sendVars
<1>. QED
  BY <1>2, <1>3, <1>4, <1>5, <1>6, <1>7, <1>8, <1>9, <1>10, <1>11, <1>12, <1>13
  DEF Next, Caller, TxTask, Thread

\* What the application sends leaves over I2S complete, in order and once, with
\* zeros only in between (rtos_i2s.c: i2s_local_tx and i2s_send).
THEOREM SendRingIsAQueue == Spec => ImplementsSendQueue
<1>1. DriverInit => SendQueue!Init
  BY SendQueueInit
<1>2. DriverInv /\ [Next]_driverVars => [SendQueue!Next]_(SendQueue!vars)
  BY SendQueueNext DEF DriverInv
<1>. QED
  BY <1>1, <1>2, DriverSafe, PTL DEF Spec, ImplementsSendQueue, SendQueue!Spec

LEMMA RecvQueueInit == DriverInit => RecvQueue!Init
  BY EmptyShaped, RecvIsSize DEF DriverInit, RecvQueue!Init

LEMMA RecvQueueNext ==
  ASSUME RecvInv, [Next]_driverVars
  PROVE  [RecvQueue!Next]_(RecvQueue!vars)
<1>. USE DEF RecvInv
<1>0. /\ Shaped(recv, RecvSize) /\ heard \in Seq(Sample)
      /\ Held(recv, RecvSize) \in Seq(Sample)
      /\ Len(Held(recv, RecvSize)) = Unread(recv) /\ Unread(recv) \in 0 .. RecvSize
      /\ RecvSize \in Nat \ {0}
  BY OldestType, Indices, RecvIsSize DEF RecvShape, Held
<1>1. CASE UNCHANGED <<recv, heard, received>>
  BY <1>1 DEF RecvQueue!vars, Held, Unread, Oldest
<1>2. CASE \E s \in Sample : Hear(s)
  <2>. PICK s \in Sample : Hear(s)
    BY <1>2
  <2>1. /\ heard = <<>> /\ heard' = <<s>> /\ UNCHANGED <<recv, received>>
        /\ <<s>> \in Seq(Sample)
    BY DEF Hear, ThreadRecv, RecvData
  <2>2. RecvQueue!Give
    BY <2>1 DEF RecvQueue!Give, Held, Unread, Oldest
  <2>. QED  BY <2>2 DEF RecvQueue!Next
<1>3. CASE Overrun
  <2>1. /\ heard' = <<>> /\ UNCHANGED <<recv, received>>
        /\ RecvSize - Unread(recv) < 1 /\ Len(heard) = 1
    BY <1>3 DEF Overrun, ThreadRecv, RecvData
  <2>2. ~(Len(Held(recv, RecvSize)) + Len(heard) <= RecvSize)
    BY <1>0, <2>1
  <2>3. RecvQueue!Drop
    BY <2>1, <2>2 DEF RecvQueue!Drop, RecvQueue!Room, Held, Unread, Oldest
  <2>. QED  BY <2>3 DEF RecvQueue!Next
<1>4. CASE Store
  <2>1. /\ recv' = Filled(recv, RecvSize, heard) /\ UNCHANGED <<heard, received>>
        /\ Len(heard) <= RecvSize - Unread(recv)
    BY <1>0, <1>4 DEF Store, ThreadRecv, RecvData
  <2>2. /\ Unread(recv') = Unread(recv)
        /\ \A n \in 0 .. Unread(recv) : Oldest(recv', RecvSize, n) = Oldest(recv, RecvSize, n)
    BY <1>0, <2>1, FilledKeeps, RecvIsSize
  <2>3. Held(recv, RecvSize)' = Held(recv, RecvSize)
    BY <1>0, <2>2 DEF Held
  <2>. QED  BY <2>1, <2>3 DEF RecvQueue!vars
<1>5. CASE StorePublish
  <2>1. /\ recv' = Written(recv, RecvSize, Len(heard)) /\ heard' = <<>> /\ received' = received
        /\ Len(heard) <= RecvSize - Unread(recv) /\ Ready(recv, RecvSize, heard)
    BY <1>5 DEF StorePublish, ThreadRecv, RecvData
  <2>2. Held(recv', RecvSize) = Held(recv, RecvSize) \o heard
    BY <1>0, <2>1, WrittenAppends, RecvIsSize
  <2>3. Len(Held(recv, RecvSize)) + Len(heard) <= RecvSize
    BY <1>0, <2>1
  <2>4. RecvQueue!Put
    BY <2>1, <2>2, <2>3 DEF RecvQueue!Put, RecvQueue!Room
  <2>. QED  BY <2>4 DEF RecvQueue!Next
<1>6. CASE \E n \in Counts : Rx(n)
  <2>1. received' = <<>> /\ UNCHANGED <<recv, heard>>
    BY <1>6 DEF Rx
  <2>2. RecvQueue!TakeNothing
    BY <2>1 DEF RecvQueue!TakeNothing, Held, Unread, Oldest
  <2>. QED  BY <2>2 DEF RecvQueue!Next
<1>7. CASE RxRequire
  <2>1. /\ recv' = [recv EXCEPT !.required = wanted] /\ UNCHANGED <<heard, received>>
        /\ wanted \in 0 .. RecvSize
    BY <1>7, Counting DEF RxRequire, RecvStep, RecvShape
  <2>2. Held(recv, RecvSize)' = Held(recv, RecvSize)
    BY <2>1, RecvAsked DEF Held
  <2>. QED  BY <2>1, <2>2 DEF RecvQueue!vars
<1>8. CASE RxRelease
  <2>1. /\ recv' = Released(recv, RecvSize, wanted) /\ heard' = heard
        /\ received' = Oldest(recv, RecvSize, wanted)
        /\ wanted \in Counts /\ wanted <= Unread(recv)
    BY <1>8 DEF RxRelease, RecvStep, RecvShape, RecvData
  <2>2. wanted \in 0 .. Unread(recv) /\ wanted \in 1 .. Unread(recv)
    BY <1>0, <2>1, Counting
  <2>3. /\ received' = SubSeq(Held(recv, RecvSize), 1, wanted)
        /\ Held(recv', RecvSize) = SubSeq(Held(recv, RecvSize), wanted + 1, Unread(recv))
    BY <1>0, <2>1, <2>2, ReleasedTakes, RecvIsSize, ZenonT(40)
  <2>4. RecvQueue!Take
    BY <1>0, <2>1, <2>2, <2>3 DEF RecvQueue!Take
  <2>. QED  BY <2>4 DEF RecvQueue!Next
<1>9. CASE WakeRx
  <2>1. /\ UNCHANGED <<heard, received>>
        /\ recv' = Cleared(recv) \/ recv' = recv
    BY <1>9 DEF WakeRx, ThreadRecv
  <2>2. CASE recv' = Cleared(recv)
    <3>1. 0 \in 0 .. RecvSize /\ recv' = [recv EXCEPT !.required = 0]
      BY <1>0, <2>2 DEF Cleared
    <3>2. Held(recv, RecvSize)' = Held(recv, RecvSize)
      BY <3>1, RecvAsked DEF Held
    <3>. QED  BY <2>1, <3>2 DEF RecvQueue!vars
  <2>3. CASE recv' = recv
    BY <1>1, <2>1, <2>3
  <2>. QED  BY <2>1, <2>2, <2>3
<1>10. CASE RxCheck \/ RxResume \/ RxCopy
  BY <1>1, <1>10 DEF RxCheck, RxResume, RxCopy, RecvStep
<1>11. CASE TxTask \/ \E block \in Blocks : Tx(block)
  BY <1>1, <1>11
  DEF TxTask, Tx, TxCheck, TxRequire, TxResume, TxCopy, TxPublish, SendStep, recvVars
<1>12. CASE Fetch \/ SendZeros \/ FetchRelease \/ WakeTx
  BY <1>1, <1>12 DEF Fetch, SendZeros, FetchRelease, WakeTx, ThreadSend, recvVars
<1>13. CASE (\E okay \in BOOLEAN : SetOkay(okay)) \/ \E resume \in Resume : Interrupt(resume)
  BY <1>1, <1>13 DEF SetOkay, Interrupt, recvVars
<1>14. CASE UNCHANGED driverVars
  BY <1>1, <1>14 DEF driverVars, recvVars
<1>. QED
  BY <1>2, <1>3, <1>4, <1>5, <1>6, <1>7, <1>8, <1>9, <1>10, <1>11, <1>12, <1>13, <1>14
  DEF Next, Caller, RxTask, Thread

\* What comes in over I2S reaches rtos_i2s_rx complete, in order and once, and a
\* frame is dropped only when the ring is full (rtos_i2s.c: i2s_receive, i2s_local_rx).
THEOREM RecvRingIsAQueue == Spec => ImplementsRecvQueue
<1>1. DriverInit => RecvQueue!Init
  BY RecvQueueInit
<1>2. DriverInv /\ [Next]_driverVars => [RecvQueue!Next]_(RecvQueue!vars)
  BY RecvQueueNext DEF DriverInv
<1>. QED
  BY <1>1, <1>2, DriverSafe, PTL DEF Spec, ImplementsRecvQueue, RecvQueue!Spec

-----------------------------------------------------------------------------
(***************************************************************************)
(* What the two wake-ups rest on                                           *)
(***************************************************************************)
\* The steps of the thread until i2s_receive has looked at the receiver's request,
\* and until i2s_send has at the sender's.
ToWakeRx ==
  CASE port = "wake_rx" -> 1 [] port = "stored" -> 2 [] port = "store" -> 3
    [] port = "receive" -> 4 [] port = "wake_tx" -> 5 [] port = "fetched" -> 6
    [] OTHER -> 7
ToWakeTx ==
  CASE port = "wake_tx" -> 1 [] port = "fetched" -> 2 [] port = "send" -> 3
    [] port = "wake_rx" -> 4 [] port = "stored" -> 5 [] port = "store" -> 6
    [] OTHER -> 7

\* The frames that a waiting receiver still misses, and the frames that must leave
\* before a waiting sender has its room.
MissingRx == IF wanted > Unread(recv) THEN wanted - Unread(recv) ELSE 0
MissingTx ==
  IF Len(samples) > SendSize - Unread(send) THEN Len(samples) - (SendSize - Unread(send)) ELSE 0
TurnsRx == IF port = "wake_rx" \/ MissingRx = 0 THEN MissingRx ELSE MissingRx - 1
TurnsTx == IF port = "wake_tx" \/ MissingTx = 0 THEN MissingTx ELSE MissingTx - 1

\* The steps until a waiting call has its semaphore and takes it, at most, and who
\* takes the next of them.
RxLeft ==
  IF recv_sem = 1 THEN 1 ELSE IF "RECV" \in isr_byte THEN 2
  ELSE IF "RECV" \in isr_cmd THEN 2 + ToWakeTx ELSE 9 + 7 * TurnsRx + ToWakeRx
TxLeft ==
  IF send_sem = 1 THEN 1 ELSE IF "SEND" \in isr_byte THEN 2
  ELSE 2 + 7 * TurnsTx + ToWakeTx
ReceiverTurn ==
  IF recv_sem = 1 THEN RxTask ELSE IF "RECV" \in isr_byte THEN Interrupt("RECV") ELSE Thread
SenderTurn ==
  IF send_sem = 1 THEN TxTask ELSE IF "SEND" \in isr_byte THEN Interrupt("SEND") ELSE Thread

\* Every turn brings a waiting call nearer to its semaphore, and no other step
\* takes it away from it; but a frame of zeros that the application has asked for.
ReceiverComesNearer ==
  rx = "get" =>
    \/ rx' = "copy"
    \/ rx' = "get" /\ RxLeft' < RxLeft
    \/ rx' = "get" /\ RxLeft' = RxLeft /\ ~ReceiverTurn
SenderComesNearer ==
  tx = "get" =>
    \/ tx' = "copy"
    \/ tx' = "get" /\ TxLeft' < TxLeft
    \/ tx' = "get" /\ TxLeft' = TxLeft /\ ~SenderTurn
    \/ tx' = "get" /\ SendZeros /\ ~okay_to_send

LEMMA ToWakeRange ==
  ASSUME port \in PortPoint
  PROVE  ToWakeRx \in 1 .. 7 /\ ToWakeTx \in 1 .. 7
  BY DEF ToWakeRx, ToWakeTx, PortPoint

\* Counting in rounds of seven steps.
LEMMA Rounds ==
  ASSUME NEW k \in Int, NEW t \in Nat, NEW a \in 1 .. 7, NEW b \in 1 .. 7
  PROVE  /\ b < a => k + 7 * t + b < k + 7 * t + a
         /\ k + 7 * (t - 1) + 7 < k + 7 * t + a
         /\ 2 + b < 9 + 7 * t + a
         /\ b < a => 2 + b < 2 + a
  OBVIOUS

\* The thread goes round.
LEMMA ThreadGoesRound ==
  ASSUME Thread
  PROVE  /\ port \in PortPoint /\ port' \in PortPoint /\ port' # port
         /\ port # "wake_rx" => ToWakeRx' < ToWakeRx
         /\ port = "wake_rx" => ToWakeRx = 1 /\ ToWakeRx' = 7
         /\ port # "wake_tx" => ToWakeTx' < ToWakeTx
         /\ port = "wake_tx" => ToWakeTx = 1 /\ ToWakeTx' = 7
<1>1. \/ port = "receive" /\ port' = "store"
      \/ port = "store" /\ port' \in {"stored", "wake_rx"}
      \/ port = "stored" /\ port' = "wake_rx"
      \/ port = "wake_rx" /\ port' = "send"
      \/ port = "send" /\ port' \in {"fetched", "wake_tx"}
      \/ port = "fetched" /\ port' = "wake_tx"
      \/ port = "wake_tx" /\ port' = "receive"
  BY DEF Thread, Hear, Overrun, Store, StorePublish, WakeRx, Fetch, SendZeros, FetchRelease,
         WakeTx, ThreadRecv, ThreadSend
<1>. QED  BY <1>1 DEF ToWakeRx, ToWakeTx, PortPoint

LEMMA RxBounds ==
  ASSUME RecvInv, rx = "get"
  PROVE  /\ wanted \in 1 .. RecvSize /\ Unread(recv) \in 0 .. RecvSize
         /\ RecvSize \in Nat \ {0} /\ recv_sem \in {0, 1} /\ port \in PortPoint
         /\ MissingRx \in 0 .. RecvSize /\ TurnsRx \in 0 .. RecvSize
         /\ RxLeft \in 1 .. 7 * RecvSize + 16
<1>1. /\ wanted \in 1 .. RecvSize /\ Unread(recv) \in 0 .. RecvSize
      /\ RecvSize \in Nat \ {0} /\ recv_sem \in {0, 1} /\ port \in PortPoint
  BY Indices, RecvIsSize, Counting DEF RecvInv, RecvShape, RecvWake
<1>2. MissingRx \in 0 .. RecvSize /\ TurnsRx \in 0 .. RecvSize
  BY <1>1 DEF MissingRx, TurnsRx
<1>3. ToWakeRx \in 1 .. 7 /\ ToWakeTx \in 1 .. 7
  BY <1>1, ToWakeRange
<1>. QED  BY <1>1, <1>2, <1>3 DEF RxLeft

\* What a turn of the thread means for a receiver whose request stands.
LEMMA RequestCountsDown ==
  ASSUME RecvInv, Thread, rx = "get",
         recv.required = wanted, "RECV" \notin isr_byte \cup isr_cmd, recv_sem = 0
  PROVE  RxLeft' < RxLeft
<1>1. /\ wanted \in 1 .. RecvSize /\ Unread(recv) \in 0 .. RecvSize
      /\ RecvSize \in Nat \ {0} /\ port \in PortPoint
      /\ MissingRx \in 0 .. RecvSize /\ TurnsRx \in 0 .. RecvSize
  BY RxBounds
<1>2. ToWakeRx \in 1 .. 7 /\ ToWakeRx' \in 1 .. 7 /\ ToWakeTx' \in 1 .. 7
  BY ThreadGoesRound, ToWakeRange DEF ToWakeRx, ToWakeTx
<1>3. RxLeft = 9 + 7 * TurnsRx + ToWakeRx
  BY DEF RxLeft
<1>a. port # "wake_rx" => ToWakeRx' < ToWakeRx
  BY ThreadGoesRound
<1>b. port = "wake_rx" => ToWakeRx = 1 /\ ToWakeRx' = 7
  BY ThreadGoesRound
<1>c. ASSUME RxLeft' = 9 + 7 * TurnsRx' + ToWakeRx', TurnsRx' = TurnsRx, port # "wake_rx"
      PROVE  RxLeft' < RxLeft
  <2>1. ToWakeRx' < ToWakeRx
    BY <1>a, <1>c
  <2>2. RxLeft' = 9 + 7 * TurnsRx + ToWakeRx'
    BY <1>c
  <2>3. TurnsRx \in Nat /\ 9 \in Int
    BY <1>1
  <2>4. 9 + 7 * TurnsRx + ToWakeRx' < 9 + 7 * TurnsRx + ToWakeRx
    BY <1>2, <2>1, <2>3, Rounds, Zenon
  <2>. QED  BY <1>3, <2>2, <2>4, Zenon
<1>4. ASSUME UNCHANGED recvVars, isr_cmd' = isr_cmd, port # "wake_rx", port' # "wake_rx",
             isr_byte' \subseteq isr_byte \cup isr_cmd \cup {"SEND"}
      PROVE  RxLeft' < RxLeft
  <2>1. RxLeft' = 9 + 7 * TurnsRx' + ToWakeRx' /\ TurnsRx' = TurnsRx
    BY <1>4 DEF RxLeft, TurnsRx, MissingRx, recvVars
  <2>. QED  BY <1>4, <1>c, <2>1
<1>5. CASE \E s \in Sample : Hear(s)
  <2>1. /\ port = "receive" /\ port' = "store"
        /\ UNCHANGED <<recv, rx, wanted, recv_sem, isr_cmd, isr_byte>>
    BY <1>5 DEF Hear, ThreadRecv
  <2>2. RxLeft' = 9 + 7 * TurnsRx' + ToWakeRx' /\ TurnsRx' = TurnsRx
    BY <2>1 DEF RxLeft, TurnsRx, MissingRx
  <2>. QED  BY <1>c, <2>1, <2>2
<1>6. CASE Overrun
  <2>1. /\ port = "store" /\ port' = "wake_rx" /\ Unread(recv) >= wanted
        /\ UNCHANGED <<recv, rx, wanted, recv_sem, isr_cmd, isr_byte>>
    BY <1>1, <1>6 DEF Overrun, ThreadRecv
  <2>2. RxLeft' = 9 + 7 * TurnsRx' + ToWakeRx' /\ TurnsRx' = TurnsRx
    BY <1>1, <2>1 DEF RxLeft, TurnsRx, MissingRx
  <2>. QED  BY <1>c, <2>1, <2>2
<1>7. CASE Store
  <2>1. /\ port = "store" /\ port' = "stored" /\ RecvSize - Unread(recv) >= 1
        /\ recv' = Filled(recv, RecvSize, heard)
        /\ UNCHANGED <<rx, wanted, recv_sem, isr_cmd, isr_byte>>
    BY <1>7 DEF Store, ThreadRecv
  <2>2. Unread(recv') = Unread(recv)
    BY <2>1 DEF Filled, Unread
  <2>3. RxLeft' = 9 + 7 * TurnsRx' + ToWakeRx' /\ TurnsRx' = TurnsRx
    BY <2>1, <2>2 DEF RxLeft, TurnsRx, MissingRx
  <2>. QED  BY <1>c, <2>1, <2>3
<1>8. CASE StorePublish
  <2>1. /\ port = "stored" /\ port' = "wake_rx" /\ recv' = Written(recv, RecvSize, 1)
        /\ UNCHANGED <<rx, wanted, recv_sem, isr_cmd, isr_byte>>
    BY <1>8 DEF StorePublish, ThreadRecv
  <2>2. Unread(recv') = Unread(recv) + 1
    <3>1. /\ heard \in Seq(Sample) /\ Len(heard) = 1 /\ Shaped(recv, RecvSize)
          /\ Len(heard) <= RecvSize - Unread(recv) /\ Ready(recv, RecvSize, heard)
      BY <2>1 DEF RecvInv, RecvShape, RecvData
    <3>2. recv' = Written(recv, RecvSize, Len(heard))
      BY <2>1, <3>1
    <3>3. Unread(recv') = Unread(recv) + Len(heard)
      BY <3>1, <3>2, WrittenAppends, RecvIsSize
    <3>. QED  BY <3>1, <3>3
  <2>3. RxLeft' = 9 + 7 * TurnsRx' + ToWakeRx' /\ TurnsRx' = TurnsRx
    BY <1>1, <2>1, <2>2 DEF RxLeft, TurnsRx, MissingRx
  <2>. QED  BY <1>c, <2>1, <2>3
<1>9. CASE WakeRx
  <2>1. /\ port = "wake_rx" /\ port' = "send"
        /\ UNCHANGED <<rx, wanted, recv_sem, isr_byte>>
        /\ IF recv.required > 0 /\ Unread(recv) >= recv.required
           THEN recv' = Cleared(recv) /\ isr_cmd' = isr_cmd \cup {"RECV"}
           ELSE UNCHANGED <<recv, isr_cmd>>
    BY <1>9 DEF WakeRx, ThreadRecv
  <2>2. CASE Unread(recv) >= wanted
    <3>1. "RECV" \in isr_cmd' /\ "RECV" \notin isr_byte' /\ recv_sem' = 0
      BY <1>1, <2>1, <2>2
    <3>2. RxLeft' = 2 + ToWakeTx'
      BY <3>1 DEF RxLeft
    <3>3. TurnsRx \in Nat /\ 9 \in Int
      BY <1>1
    <3>4. 2 + ToWakeTx' < 9 + 7 * TurnsRx + ToWakeRx
      BY <1>2, <3>3, Rounds, Zenon
    <3>. QED  BY <1>3, <3>2, <3>4, Zenon
  <2>3. CASE ~(Unread(recv) >= wanted)
    <3>1. UNCHANGED <<recv, isr_cmd>>
      BY <2>1, <2>3
    <3>2. RxLeft' = 9 + 7 * TurnsRx' + ToWakeRx' /\ TurnsRx' = TurnsRx - 1
      BY <1>1, <2>1, <2>3, <3>1 DEF RxLeft, TurnsRx, MissingRx
    <3>3. TurnsRx \in Nat /\ 9 \in Int
      BY <1>1
    <3>4. 9 + 7 * (TurnsRx - 1) + 7 < 9 + 7 * TurnsRx + ToWakeRx
      BY <1>2, <3>3, Rounds, Zenon
    <3>5. RxLeft' = 9 + 7 * (TurnsRx - 1) + 7
      BY <1>b, <2>1, <3>2
    <3>. QED  BY <1>3, <3>4, <3>5, Zenon
  <2>. QED  BY <2>2, <2>3
<1>10. CASE Fetch \/ SendZeros \/ FetchRelease
  BY <1>4, <1>10 DEF Fetch, SendZeros, FetchRelease, ThreadSend
<1>11. CASE WakeTx
  <2>1. /\ port = "wake_tx" /\ port' = "receive" /\ UNCHANGED recvVars /\ isr_cmd' = {}
        /\ isr_byte' = isr_byte \cup isr_cmd \cup (IF RoomAsked THEN {"SEND"} ELSE {})
    BY <1>11 DEF WakeTx, ThreadSend
  <2>2. "RECV" \notin isr_byte' \cup isr_cmd'
    BY <2>1
  <2>3. RxLeft' = 9 + 7 * TurnsRx' + ToWakeRx' /\ TurnsRx' = TurnsRx
    BY <2>1, <2>2 DEF RxLeft, TurnsRx, MissingRx, recvVars
  <2>. QED  BY <1>c, <2>1, <2>3
<1>. QED  BY <1>5, <1>6, <1>7, <1>8, <1>9, <1>10, <1>11 DEF Thread

LEMMA ReceiverStep ==
  ASSUME DriverInv, [Next]_driverVars PROVE ReceiverComesNearer
<1>. SUFFICES ASSUME rx = "get" PROVE ReceiverComesNearer
  BY DEF ReceiverComesNearer
<1>0. RecvInv /\ recv_sem \in {0, 1} /\ RxLeft \in Nat
      /\ ("RECV" \in isr_byte \cup isr_cmd => recv_sem = 0)
  BY RxBounds DEF DriverInv, RecvInv, RecvWake
<1>1. ReceiverTurn =>
        \/ recv_sem = 1 /\ rx' # rx
        \/ recv_sem = 0 /\ "RECV" \in isr_byte /\ "RECV" \notin isr_byte'
        \/ recv_sem = 0 /\ "RECV" \notin isr_byte /\ port' # port
  BY <1>0, ThreadGoesRound
     DEF ReceiverTurn, RxTask, RxCheck, RxRequire, RxResume, RxCopy, RxRelease, RecvStep,
         Interrupt
<1>2. CASE RxTask \/ \E n \in Counts : Rx(n)
  BY <1>2 DEF Rx, RxTask, RxCheck, RxRequire, RxResume, RxCopy, RxRelease, RecvStep,
              ReceiverComesNearer
<1>3. ASSUME UNCHANGED <<recvVars, isr_cmd, port>>,
             "RECV" \in isr_byte' <=> "RECV" \in isr_byte
      PROVE  ReceiverComesNearer
  <2>1. RxLeft' = RxLeft
    BY <1>3 DEF RxLeft, TurnsRx, MissingRx, ToWakeRx, ToWakeTx, recvVars
  <2>. QED  BY <1>0, <1>1, <1>3, <2>1 DEF ReceiverComesNearer, recvVars
<1>4. CASE \E resume \in Resume : Interrupt(resume)
  <2>. PICK resume \in Resume : Interrupt(resume)
    BY <1>4
  <2>1. CASE resume = "RECV"
    <3>1. rx' = "get" /\ RxLeft = 2 /\ RxLeft' = 1
      BY <1>0, <2>1 DEF Interrupt, RxLeft
    <3>. QED  BY <3>1 DEF ReceiverComesNearer
  <2>2. CASE resume = "SEND"
    BY <1>3, <2>2 DEF Interrupt, recvVars
  <2>. QED  BY <2>1, <2>2 DEF Resume
<1>5. CASE Thread
  <2>0. rx' = "get" /\ recv_sem' = recv_sem /\ ("RECV" \in isr_byte => "RECV" \in isr_byte')
    BY <1>5 DEF Thread, Hear, Overrun, Store, StorePublish, WakeRx, Fetch, SendZeros,
                FetchRelease, WakeTx, ThreadRecv, ThreadSend, recvVars
  <2>1. CASE recv_sem = 1
    <3>1. RxLeft = 1 /\ RxLeft' = 1
      BY <2>0, <2>1 DEF RxLeft
    <3>. QED  BY <1>1, <2>0, <2>1, <3>1 DEF ReceiverComesNearer
  <2>2. CASE recv_sem = 0 /\ "RECV" \in isr_byte
    <3>1. RxLeft = 2 /\ RxLeft' = 2
      BY <2>0, <2>2 DEF RxLeft
    <3>. QED  BY <1>1, <2>0, <2>2, <3>1 DEF ReceiverComesNearer
  <2>3. CASE recv_sem = 0 /\ "RECV" \notin isr_byte /\ "RECV" \in isr_cmd
    <3>1. RxLeft = 2 + ToWakeTx /\ ToWakeTx \in 1 .. 7 /\ ToWakeTx' \in 1 .. 7
      BY <1>5, <2>3, ThreadGoesRound, ToWakeRange DEF RxLeft, ToWakeTx
    <3>2. CASE WakeTx
      <4>1. "RECV" \in isr_byte'
        BY <2>3, <3>2 DEF WakeTx
      <4>2. RxLeft' = 2
        BY <2>0, <2>3, <4>1 DEF RxLeft
      <4>. QED  BY <2>0, <3>1, <4>2 DEF ReceiverComesNearer
    <3>3. CASE ~WakeTx
      <4>1. isr_byte' = isr_byte /\ "RECV" \in isr_cmd' /\ port # "wake_tx"
        BY <1>5, <2>3, <3>3
           DEF Thread, Hear, Overrun, Store, StorePublish, WakeRx, Fetch, SendZeros,
               FetchRelease, ThreadRecv, ThreadSend
      <4>2. RxLeft' = 2 + ToWakeTx'
        BY <2>0, <2>3, <4>1 DEF RxLeft
      <4>3. ToWakeTx' < ToWakeTx
        BY <1>5, <4>1, ThreadGoesRound
      <4>4. 2 + ToWakeTx' < 2 + ToWakeTx
        <5>. 0 \in Int /\ 0 \in Nat
          OBVIOUS
        <5>. QED  BY <3>1, <4>3, Rounds, Zenon
      <4>5. RxLeft' < RxLeft
        BY <3>1, <4>2, <4>4, Zenon
      <4>. QED  BY <2>0, <4>5 DEF ReceiverComesNearer
    <3>. QED  BY <3>2, <3>3
  <2>4. CASE recv_sem = 0 /\ "RECV" \notin isr_byte \cup isr_cmd
    <3>1. recv.required = wanted
      BY <1>0, <2>4 DEF RecvInv, RecvWake
    <3>2. RxLeft' < RxLeft
      BY <1>0, <1>5, <2>4, <3>1, RequestCountsDown
    <3>. QED  BY <2>0, <3>2 DEF ReceiverComesNearer
  <2>. QED  BY <1>0, <2>1, <2>2, <2>3, <2>4
<1>6. CASE TxTask \/ \E block \in Blocks : Tx(block)
  BY <1>3, <1>6 DEF TxTask, Tx, TxCheck, TxRequire, TxResume, TxCopy, TxPublish, SendStep
<1>7. CASE \E okay \in BOOLEAN : SetOkay(okay)
  BY <1>3, <1>7 DEF SetOkay
<1>8. CASE UNCHANGED driverVars
  BY <1>3, <1>8 DEF driverVars
<1>. QED  BY <1>2, <1>4, <1>5, <1>6, <1>7, <1>8 DEF Next, Caller

LEMMA TxBounds ==
  ASSUME SendInv, tx = "get", port \in PortPoint
  PROVE  /\ Len(samples) \in 1 .. SendSize /\ Unread(send) \in 0 .. SendSize
         /\ SendSize \in Nat \ {0} /\ send_sem \in {0, 1}
         /\ MissingTx \in 0 .. SendSize /\ TurnsTx \in 0 .. SendSize
         /\ TxLeft \in 1 .. 7 * SendSize + 9
<1>1. /\ Len(samples) \in 1 .. SendSize /\ Unread(send) \in 0 .. SendSize
      /\ SendSize \in Nat \ {0} /\ send_sem \in {0, 1}
  BY Indices, SendIsSize, DriverAssumption DEF SendInv, SendShape, SendWake
<1>2. MissingTx \in 0 .. SendSize /\ TurnsTx \in 0 .. SendSize
  BY <1>1 DEF MissingTx, TurnsTx
<1>3. ToWakeTx \in 1 .. 7
  BY ToWakeRange
<1>. QED  BY <1>1, <1>2, <1>3 DEF TxLeft

\* What a turn of the thread means for a sender whose request stands, unless the
\* application has stopped the port.
LEMMA RoomCountsDown ==
  ASSUME DriverInv, Thread, tx = "get", send.required = Len(samples),
         "SEND" \notin isr_byte, send_sem = 0, ~(SendZeros /\ ~okay_to_send)
  PROVE  TxLeft' < TxLeft
<1>1. /\ Len(samples) \in 1 .. SendSize /\ Unread(send) \in 0 .. SendSize
      /\ SendSize \in Nat \ {0} /\ MissingTx \in 0 .. SendSize /\ TurnsTx \in 0 .. SendSize
  BY TxBounds, ThreadGoesRound DEF DriverInv
<1>2. ToWakeTx \in 1 .. 7 /\ ToWakeTx' \in 1 .. 7 /\ TurnsTx \in Nat /\ 2 \in Int
  BY <1>1, ThreadGoesRound, ToWakeRange DEF ToWakeTx
<1>3. TxLeft = 2 + 7 * TurnsTx + ToWakeTx
  BY DEF TxLeft
<1>4. ASSUME TxLeft' = 2 + 7 * TurnsTx' + ToWakeTx', TurnsTx' = TurnsTx, port # "wake_tx"
      PROVE  TxLeft' < TxLeft
  <2>1. ToWakeTx' < ToWakeTx
    BY <1>4, ThreadGoesRound
  <2>2. 2 + 7 * TurnsTx + ToWakeTx' < 2 + 7 * TurnsTx + ToWakeTx
    BY <1>2, <2>1, Rounds, Zenon
  <2>. QED  BY <1>3, <1>4, <2>2, Zenon
<1>5. CASE (\E s \in Sample : Hear(s)) \/ Overrun \/ Store \/ StorePublish \/ WakeRx
  <2>1. /\ UNCHANGED <<send, samples, send_sem, isr_byte>>
        /\ port # "wake_tx" /\ port' # "wake_tx"
    BY <1>5 DEF Hear, Overrun, Store, StorePublish, WakeRx, ThreadRecv, sendVars
  <2>2. TxLeft' = 2 + 7 * TurnsTx' + ToWakeTx' /\ TurnsTx' = TurnsTx
    BY <2>1 DEF TxLeft, TurnsTx, MissingTx
  <2>. QED  BY <1>4, <2>1, <2>2
<1>6. CASE Fetch
  <2>1. /\ UNCHANGED <<send, samples, send_sem, isr_byte>>
        /\ port = "send" /\ port' = "fetched"
    BY <1>6 DEF Fetch, ThreadSend
  <2>2. TxLeft' = 2 + 7 * TurnsTx' + ToWakeTx' /\ TurnsTx' = TurnsTx
    BY <2>1 DEF TxLeft, TurnsTx, MissingTx
  <2>. QED  BY <1>4, <2>1, <2>2
<1>7. CASE SendZeros
  <2>1. /\ UNCHANGED <<send, samples, send_sem, isr_byte>>
        /\ port = "send" /\ port' = "wake_tx" /\ Unread(send) = 0
    BY <1>1, <1>7 DEF SendZeros, ThreadSend
  <2>2. TxLeft' = 2 + 7 * TurnsTx' + ToWakeTx' /\ TurnsTx' = TurnsTx
    BY <1>1, <2>1 DEF TxLeft, TurnsTx, MissingTx
  <2>. QED  BY <1>4, <2>1, <2>2
<1>8. CASE FetchRelease
  <2>1. /\ port = "fetched" /\ port' = "wake_tx" /\ send' = Released(send, SendSize, 1)
        /\ UNCHANGED <<samples, send_sem, isr_byte>>
    BY <1>8 DEF FetchRelease, ThreadSend
  <2>2. Shaped(send, SendSize) /\ 1 \in 0 .. Unread(send)
    BY <1>1, <2>1 DEF DriverInv, SendInv, SendShape, SendData
  <2>3. Unread(send') = Unread(send) - 1
    BY <2>1, <2>2, ReleasedTakes, SendIsSize
  <2>4. TxLeft' = 2 + 7 * TurnsTx' + ToWakeTx'
    BY <2>1 DEF TxLeft
  <2>5. MissingTx' = IF MissingTx = 0 THEN 0 ELSE MissingTx - 1
    BY <1>1, <2>1, <2>3 DEF MissingTx
  <2>6. TurnsTx' = TurnsTx
    BY <1>1, <2>1, <2>5 DEF TurnsTx
  <2>. QED  BY <1>4, <2>1, <2>4, <2>6
<1>9. CASE WakeTx
  <2>1. /\ port = "wake_tx" /\ port' = "receive" /\ UNCHANGED <<samples, send_sem>>
        /\ send' = IF RoomAsked THEN Cleared(send) ELSE send
        /\ isr_byte' = isr_byte \cup isr_cmd \cup (IF RoomAsked THEN {"SEND"} ELSE {})
    BY <1>9 DEF WakeTx, ThreadSend
  <2>2. CASE RoomAsked
    <3>1. TxLeft' = 2
      BY <2>1, <2>2 DEF TxLeft
    <3>. QED  BY <1>2, <1>3, <3>1
  <2>3. CASE ~RoomAsked
    <3>1. "SEND" \notin isr_byte' /\ send' = send
      BY <2>1, <2>3 DEF DriverInv, RecvInv, RecvWake
    <3>2. Len(samples) > SendSize - Unread(send)
      BY <1>1, <2>3 DEF RoomAsked
    <3>3. TxLeft' = 2 + 7 * TurnsTx' + ToWakeTx' /\ TurnsTx' = TurnsTx - 1 /\ ToWakeTx' = 7
      BY <1>1, <2>1, <3>1, <3>2, ThreadGoesRound DEF TxLeft, TurnsTx, MissingTx
    <3>4. 2 + 7 * (TurnsTx - 1) + 7 < 2 + 7 * TurnsTx + ToWakeTx
      BY <1>2, Rounds, Zenon
    <3>. QED  BY <1>3, <3>3, <3>4, Zenon
  <2>. QED  BY <2>2, <2>3
<1>. QED  BY <1>5, <1>6, <1>7, <1>8, <1>9 DEF Thread

LEMMA SenderStep ==
  ASSUME DriverInv, [Next]_driverVars PROVE SenderComesNearer
<1>. SUFFICES ASSUME tx = "get" PROVE SenderComesNearer
  BY DEF SenderComesNearer
<1>0. /\ SendInv /\ send_sem \in {0, 1} /\ ("SEND" \in isr_byte => send_sem = 0)
      /\ isr_cmd \subseteq {"RECV"}
  BY DEF DriverInv, SendInv, SendWake, RecvInv, RecvWake
<1>1. SenderTurn =>
        \/ send_sem = 1 /\ tx' # tx
        \/ send_sem = 0 /\ "SEND" \in isr_byte /\ "SEND" \notin isr_byte'
        \/ send_sem = 0 /\ "SEND" \notin isr_byte /\ port' # port
  BY <1>0, ThreadGoesRound
     DEF SenderTurn, TxTask, TxCheck, TxRequire, TxResume, TxCopy, TxPublish, SendStep,
         Interrupt
<1>2. CASE TxTask \/ \E block \in Blocks : Tx(block)
  BY <1>2 DEF Tx, TxTask, TxCheck, TxRequire, TxResume, TxCopy, TxPublish, SendStep,
              SenderComesNearer
<1>3. ASSUME UNCHANGED <<send, samples, tx, send_sem, port>>,
             "SEND" \in isr_byte' <=> "SEND" \in isr_byte
      PROVE  SenderComesNearer
  <2>1. TxLeft' = TxLeft
    BY <1>3 DEF TxLeft, TurnsTx, MissingTx, ToWakeTx
  <2>. QED  BY <1>0, <1>1, <1>3, <2>1 DEF SenderComesNearer
<1>4. CASE \E resume \in Resume : Interrupt(resume)
  <2>. PICK resume \in Resume : Interrupt(resume)
    BY <1>4
  <2>1. CASE resume = "SEND"
    <3>1. tx' = "get" /\ TxLeft = 2 /\ TxLeft' = 1
      BY <1>0, <2>1 DEF Interrupt, TxLeft
    <3>. QED  BY <3>1 DEF SenderComesNearer
  <2>2. CASE resume = "RECV"
    BY <1>3, <2>2 DEF Interrupt
  <2>. QED  BY <2>1, <2>2 DEF Resume
<1>5. CASE Thread
  <2>0. tx' = "get" /\ send_sem' = send_sem /\ ("SEND" \in isr_byte => "SEND" \in isr_byte')
    BY <1>5 DEF Thread, Hear, Overrun, Store, StorePublish, WakeRx, Fetch, SendZeros,
                FetchRelease, WakeTx, ThreadRecv, ThreadSend, sendVars
  <2>1. CASE send_sem = 1
    <3>1. TxLeft = 1 /\ TxLeft' = 1
      BY <2>0, <2>1 DEF TxLeft
    <3>. QED  BY <1>1, <2>0, <2>1, <3>1 DEF SenderComesNearer
  <2>2. CASE send_sem = 0 /\ "SEND" \in isr_byte
    <3>1. TxLeft = 2 /\ TxLeft' = 2
      BY <2>0, <2>2 DEF TxLeft
    <3>. QED  BY <1>1, <2>0, <2>2, <3>1 DEF SenderComesNearer
  <2>3. CASE send_sem = 0 /\ "SEND" \notin isr_byte /\ ~(SendZeros /\ ~okay_to_send)
    <3>1. send.required = Len(samples)
      BY <1>0, <2>3 DEF SendInv, SendWake
    <3>2. TxLeft' < TxLeft
      BY <1>5, <2>3, <3>1, RoomCountsDown
    <3>. QED  BY <2>0, <3>2 DEF SenderComesNearer
  <2>. QED  BY <1>0, <2>0, <2>1, <2>2, <2>3 DEF SenderComesNearer
<1>6. CASE RxTask \/ \E n \in Counts : Rx(n)
  BY <1>3, <1>6 DEF RxTask, Rx, RxCheck, RxRequire, RxResume, RxCopy, RxRelease, RecvStep,
                    sendVars
<1>7. CASE \E okay \in BOOLEAN : SetOkay(okay)
  BY <1>3, <1>7 DEF SetOkay
<1>8. CASE UNCHANGED driverVars
  BY <1>3, <1>8 DEF driverVars, sendVars
<1>. QED  BY <1>2, <1>4, <1>5, <1>6, <1>7, <1>8 DEF Next, Caller

\* A call of rtos_i2s_rx that waits gets its semaphore after at most 7 * RecvSize + 16
\* steps of the thread, the interrupt and itself: its request is never overlooked,
\* whatever the thread was doing when it was made.
THEOREM ReceiversAreServed ==
  Spec => /\ [](rx = "get" => RxLeft \in 1 .. 7 * RecvSize + 16)
          /\ [][ReceiverComesNearer]_driverVars
<1>1. DriverInv => (rx = "get" => RxLeft \in 1 .. 7 * RecvSize + 16)
  BY RxBounds DEF DriverInv
<1>2. DriverInv /\ [Next]_driverVars => [ReceiverComesNearer]_driverVars
  BY ReceiverStep
<1>. QED  BY <1>1, <1>2, DriverSafe, PTL DEF Spec

\* A call of rtos_i2s_tx that waits gets its semaphore after at most 7 * SendSize + 9
\* steps of the thread, the interrupt and itself in which the application lets the
\* port send.
THEOREM SendersAreServed ==
  Spec => /\ [](tx = "get" => TxLeft \in 1 .. 7 * SendSize + 9)
          /\ [][SenderComesNearer]_driverVars
<1>1. DriverInv => (tx = "get" => TxLeft \in 1 .. 7 * SendSize + 9)
  BY TxBounds DEF DriverInv, RecvInv, RecvShape
<1>2. DriverInv /\ [Next]_driverVars => [SenderComesNearer]_driverVars
  BY SenderStep
<1>. QED  BY <1>1, <1>2, DriverSafe, PTL DEF Spec
=============================================================================
