-------------------------------- MODULE AudioProofs ----------------------------
(***************************************************************************)
(* The ring that carries the audio between threads, for every capacity,    *)
(* every set of samples and chunks and every bound: the inductive          *)
(* invariant, the absence of overlap between the two threads, the          *)
(* refinement of AudioFifo, and what the acquire loads of RingBufferOrder  *)
(* make of them.  Then the codec that makes the audio, of any              *)
(* configuration the code can be given: its layers fit together, its two   *)
(* quantizers make the same codes and sums, and a stream is the whole.     *)
(***************************************************************************)
EXTENDS RingBufferOrder, CodecStream, FiniteSetTheorems, SequenceTheorems, WellFoundedInduction, TLAPS

-----------------------------------------------------------------------------
(* Cells: positions less than one turn of the ring apart differ. *)

LEMMA MultipleAtLeast ==
  ASSUME NEW K \in Nat \ {0}, NEW d \in Int, d >= 1
  PROVE  K * d >= K
<1>1. K * d = K * (d - 1) + K
  OBVIOUS
<1>2. K * (d - 1) >= 0
  OBVIOUS
<1> QED
  BY <1>1, <1>2

LEMMA ModDistinct ==
  ASSUME NEW K \in Nat \ {0}, NEW a \in Nat, NEW b \in Nat, a < b, b < a + K
  PROVE  a % K # b % K
<1> DEFINE p == a \div K
           q == b \div K
<1>1. a % K \in 0..(K-1) /\ a = K * p + (a % K) /\ p \in Int
  OBVIOUS
<1>2. b % K \in 0..(K-1) /\ b = K * q + (b % K) /\ q \in Int
  OBVIOUS
<1>3. SUFFICES ASSUME a % K = b % K PROVE FALSE
  OBVIOUS
<1> HIDE DEF p, q
<1>4. b - a = K * q - K * p
  BY <1>1, <1>2, <1>3
<1>5. K * q - K * p = K * (q - p)
  BY <1>1, <1>2
<1>6. CASE q - p >= 1
  <2>1. K * (q - p) >= K
    BY <1>1, <1>2, <1>6, MultipleAtLeast
  <2> QED
    BY <2>1, <1>4, <1>5, <1>1, <1>2
<1>7. CASE q - p <= 0
  <2>1. K * (q - p) <= 0
    BY <1>7, <1>1, <1>2
  <2> QED
    BY <2>1, <1>4, <1>5, <1>1, <1>2
<1> QED
  BY <1>6, <1>7, <1>1, <1>2

LEMMA CellType ==
  ASSUME NEW pos \in Nat
  PROVE  Cell(pos) \in 0..KCapacity-1
BY RingAssumption DEF Cell

LEMMA CellDistinct ==
  ASSUME NEW a \in Nat, NEW b \in Nat, a # b, a < b + KCapacity, b < a + KCapacity
  PROVE  Cell(a) # Cell(b)
<1>1. CASE a < b
  BY <1>1, ModDistinct, RingAssumption DEF Cell
<1>2. CASE b < a
  BY <1>2, ModDistinct, RingAssumption DEF Cell
<1> QED
  BY <1>1, <1>2

-----------------------------------------------------------------------------
(* The inductive invariant. *)

LEMMA InitIInv == Init => IInv
<1> SUFFICES ASSUME Init PROVE IInv
  OBVIOUS
<1> USE RingAssumption
<1>1. TypeOK
  BY DEF Init, TypeOK
<1>2. WindowOK
  BY DEF Init, WindowOK
<1>3. ProducerOK /\ ConsumerOK
  BY DEF Init, ProducerOK, ConsumerOK
<1> QED
  BY <1>1, <1>2, <1>3 DEF IInv

LEMMA TypeStep == TypeOK /\ WindowOK /\ ProducerOK /\ ConsumerOK /\ [Next]_vars => TypeOK'
<1> SUFFICES ASSUME TypeOK, WindowOK, ProducerOK, ConsumerOK, [Next]_vars
             PROVE  TypeOK'
  OBVIOUS
<1> USE RingAssumption DEF TypeOK
<1>1. ASSUME NEW cap \in Capacities, SetVirtualCapacity(cap) PROVE TypeOK'
  BY <1>1 DEF SetVirtualCapacity, Clamped, producerVars, consumerVars
<1>2. CASE Reset
  BY <1>2 DEF Reset, producerVars, consumerVars
<1>3. ASSUME NEW chunk \in Chunks, WriteBegin(chunk) PROVE TypeOK'
  BY <1>3 DEF WriteBegin, Available, shared, consumerVars
<1>4. CASE WriteRefuse
  BY <1>4 DEF WriteRefuse, shared, consumerVars
<1>5. CASE WriteAccept
  BY <1>5 DEF WriteAccept, shared, consumerVars
<1>6. CASE WriteSample
  <2>1. data[copied + 1] \in Samples
    BY <1>6 DEF WriteSample, ProducerOK
  <2>2. buffer' \in [0..KCapacity-1 -> Samples]
    BY <1>6, <2>1 DEF WriteSample
  <2> QED
    BY <1>6, <2>2 DEF WriteSample, consumerVars
<1>7. CASE WritePublish
  BY <1>7 DEF WritePublish, consumerVars
<1>8. ASSUME NEW n \in Counts, ReadBegin(n) PROVE TypeOK'
  <2>1. ToRead(n) \in Nat
    BY DEF ToRead, Available, WindowOK
  <2> QED
    BY <1>8, <2>1 DEF ReadBegin, shared, producerVars
<1>9. CASE ReadSample
  <2>1. buffer[Cell(readPos + Len(dest))] \in Samples
    <3>1. readPos + Len(dest) \in Nat
      OBVIOUS
    <3> QED
      BY <3>1, CellType
  <2> QED
    BY <1>9, <2>1 DEF ReadSample, shared, producerVars
<1>10. CASE ReadPublish
  <2>1. Padded(dest, count) \in Seq(Samples)
    BY DEF Padded
  <2> QED
    BY <1>10, <2>1 DEF ReadPublish, producerVars
<1>11. CASE DrainBegin
  BY <1>11 DEF DrainBegin, shared, producerVars
<1>12. CASE DrainPublish
  BY <1>12 DEF DrainPublish, producerVars
<1>13. CASE UNCHANGED vars
  BY <1>13 DEF vars, shared, producerVars, consumerVars
<1> QED
  BY <1>1, <1>2, <1>3, <1>4, <1>5, <1>6, <1>7, <1>8, <1>9, <1>10, <1>11, <1>12,
     <1>13 DEF Next

\* write() stores a sample into a cell that holds nothing published, nothing
\* the call has stored before, and nothing the reader is copying.
LEMMA StoreIsFresh ==
  ASSUME IInv, producer = "copy", copied < Len(data)
  PROVE  /\ writePos + copied \in Nat
         /\ \A pos \in readPos..writePos-1 :
              Cell(pos) # Cell(writePos + copied)
         /\ \A i \in 0..copied-1 :
              Cell(writePos + i) # Cell(writePos + copied)
<1> USE RingAssumption DEF IInv, TypeOK, WindowOK, ProducerOK
<1>1. writePos + copied \in Nat /\ writePos + copied < readPos + KCapacity
  OBVIOUS
<1>2. ASSUME NEW pos \in readPos..writePos-1
      PROVE  Cell(pos) # Cell(writePos + copied)
  <2>1. pos \in Nat /\ pos < writePos + copied /\ writePos + copied < pos + KCapacity
    BY <1>1
  <2> QED
    BY <1>1, <2>1, CellDistinct
<1>3. ASSUME NEW i \in 0..copied-1
      PROVE  Cell(writePos + i) # Cell(writePos + copied)
  <2>1. /\ writePos + i \in Nat
        /\ writePos + i < writePos + copied
        /\ writePos + copied < (writePos + i) + KCapacity
    BY <1>1
  <2> QED
    BY <1>1, <2>1, CellDistinct
<1> QED
  BY <1>1, <1>2, <1>3

LEMMA WriteSampleStep == IInv /\ WriteSample => ProducerOK' /\ ConsumerOK'
<1> SUFFICES ASSUME IInv, WriteSample PROVE ProducerOK' /\ ConsumerOK'
  OBVIOUS
<1> USE RingAssumption
<1>1. producer = "copy" /\ copied < Len(data)
  BY DEF WriteSample
<1>2. /\ writePos + copied \in Nat
      /\ \A pos \in readPos..writePos-1 : Cell(pos) # Cell(writePos + copied)
      /\ \A i \in 0..copied-1 : Cell(writePos + i) # Cell(writePos + copied)
  BY <1>1, StoreIsFresh
<1>3. /\ buffer \in [0..KCapacity-1 -> Samples]
      /\ Cell(writePos + copied) \in 0..KCapacity-1
      /\ buffer' = [buffer EXCEPT ![Cell(writePos + copied)] = data[copied + 1]]
      /\ copied' = copied + 1
      /\ UNCHANGED <<writePos, readPos, producer, data, consumer, count, target, dest>>
  BY <1>2, CellType DEF IInv, TypeOK, WriteSample, consumerVars
<1>4. \A c \in 0..KCapacity-1 :
        c # Cell(writePos + copied) => buffer'[c] = buffer[c]
  BY <1>3
<1>5. ProducerOK'
  <2>1. ASSUME NEW i \in 0..copied
        PROVE  buffer'[Cell(writePos + i)] = data[i + 1]
    <3>1. CASE i = copied
      BY <3>1, <1>3
    <3>2. CASE i \in 0..copied-1
      <4>1. writePos + i \in Nat
        BY <3>2 DEF IInv, TypeOK
      <4>2. Cell(writePos + i) \in 0..KCapacity-1
        BY <4>1, CellType
      <4>3. buffer[Cell(writePos + i)] = data[i + 1]
        BY <1>1, <3>2 DEF IInv, ProducerOK
      <4> QED
        BY <4>2, <4>3, <1>2, <1>4, <3>2
    <3> QED
      BY <3>1, <3>2 DEF IInv, TypeOK
  <2>2. producer' = "copy" /\ copied' <= Len(data) /\ copied' - 1 = copied
    BY <1>1, <1>3 DEF IInv, TypeOK
  <2> QED
    BY <2>1, <2>2, <1>3, <1>1 DEF IInv, ProducerOK
<1>6. ConsumerOK'
  <2>1. ASSUME consumer = "copy", NEW i \in 1..Len(dest)
        PROVE  dest[i] = buffer'[Cell(readPos + i - 1)]
    <3>1. readPos + i - 1 \in readPos..writePos-1 /\ readPos + i - 1 \in Nat
      BY <2>1 DEF IInv, TypeOK, ConsumerOK
    <3>2. Cell(readPos + i - 1) \in 0..KCapacity-1
      BY <3>1, CellType
    <3>3. dest[i] = buffer[Cell(readPos + i - 1)]
      BY <2>1 DEF IInv, ConsumerOK
    <3> QED
      BY <3>1, <3>2, <3>3, <1>2, <1>4
  <2> QED
    BY <2>1, <1>3 DEF IInv, ConsumerOK
<1> QED
  BY <1>5, <1>6

LEMMA ReadSampleStep == IInv /\ ReadSample => ConsumerOK'
<1> SUFFICES ASSUME IInv, ReadSample PROVE ConsumerOK'
  OBVIOUS
<1>1. /\ consumer = "copy" /\ readPos + Len(dest) < target
      /\ dest' = Append(dest, buffer[Cell(readPos + Len(dest))])
      /\ UNCHANGED <<buffer, writePos, readPos, consumer, count, target>>
  BY DEF ReadSample, shared
<1>2. dest \in Seq(Samples) /\ Len(dest') = Len(dest) + 1
  BY <1>1 DEF IInv, TypeOK
<1>3. ASSUME NEW i \in 1..Len(dest')
      PROVE  dest'[i] = buffer[Cell(readPos + i - 1)]
  <2>1. CASE i = Len(dest) + 1
    <3>1. readPos + i - 1 = readPos + Len(dest)
      BY <2>1, <1>2 DEF IInv, TypeOK
    <3> QED
      BY <3>1, <2>1, <1>1, <1>2
  <2>2. CASE i \in 1..Len(dest)
    BY <2>2, <1>1, <1>2 DEF IInv, ConsumerOK
  <2> QED
    BY <2>1, <2>2, <1>2
<1> QED
  BY <1>1, <1>2, <1>3 DEF IInv, TypeOK, ConsumerOK

LEMMA StepIInv == IInv /\ [Next]_vars => IInv'
<1> SUFFICES ASSUME IInv, [Next]_vars PROVE IInv'
  OBVIOUS
<1> USE RingAssumption DEF IInv
<1>1. TypeOK'
  BY TypeStep
<1>2. WindowOK' /\ ProducerOK' /\ ConsumerOK'
  <2>1. ASSUME NEW cap \in Capacities, SetVirtualCapacity(cap)
                 PROVE WindowOK' /\ ProducerOK' /\ ConsumerOK'
    BY <2>1 DEF SetVirtualCapacity, producerVars, consumerVars, WindowOK,
                ProducerOK, ConsumerOK, Available
  <2>2. CASE Reset
    BY <2>2 DEF Reset, producerVars, consumerVars, WindowOK, ProducerOK,
                ConsumerOK, TypeOK
  <2>3. ASSUME NEW chunk \in Chunks, WriteBegin(chunk)
                 PROVE WindowOK' /\ ProducerOK' /\ ConsumerOK'
    BY <2>3 DEF WriteBegin, shared, consumerVars, WindowOK, ProducerOK,
                ConsumerOK, Available, TypeOK
  <2>4. CASE WriteRefuse
    BY <2>4 DEF WriteRefuse, shared, consumerVars, WindowOK, ProducerOK, ConsumerOK
  <2>5. CASE WriteAccept
    <3>1. writePos + Len(data) <= readPos + KCapacity
      BY <2>5 DEF WriteAccept, FreeSpace, Available, TypeOK, WindowOK, ProducerOK
    <3> QED
      BY <2>5, <3>1 DEF WriteAccept, shared, consumerVars, WindowOK, ProducerOK,
                        ConsumerOK, TypeOK
  <2>6. CASE WriteSample
    BY <2>6, WriteSampleStep DEF WriteSample, WindowOK
  <2>7. CASE WritePublish
    BY <2>7 DEF WritePublish, consumerVars, WindowOK, ProducerOK, ConsumerOK, TypeOK
  <2>8. ASSUME NEW n \in Counts, ReadBegin(n)
                 PROVE WindowOK' /\ ProducerOK' /\ ConsumerOK'
    <3>1. ToRead(n) \in 0..n /\ readPos + ToRead(n) <= writePos
      BY DEF ToRead, Available, WindowOK, TypeOK
    <3> QED
      BY <2>8, <3>1 DEF ReadBegin, shared, producerVars, WindowOK, ProducerOK,
                        ConsumerOK, TypeOK, Available
  <2>9. CASE ReadSample
    <3>1. WindowOK' /\ ProducerOK'
      BY <2>9 DEF ReadSample, shared, producerVars, WindowOK, ProducerOK, Available
    <3> QED
      BY <3>1, <2>9, ReadSampleStep
  <2>10. CASE ReadPublish
    BY <2>10 DEF ReadPublish, producerVars, WindowOK, ProducerOK, ConsumerOK,
                 TypeOK, Available
  <2>11. CASE DrainBegin
    BY <2>11 DEF DrainBegin, shared, producerVars, WindowOK, ProducerOK,
                 ConsumerOK, TypeOK, Available
  <2>12. CASE DrainPublish
    BY <2>12 DEF DrainPublish, producerVars, WindowOK, ProducerOK, ConsumerOK,
                 TypeOK, Available
  <2>13. CASE UNCHANGED vars
    BY <2>13 DEF vars, shared, producerVars, consumerVars, WindowOK, ProducerOK,
                 ConsumerOK, Available
  <2> QED
    BY <2>1, <2>2, <2>3, <2>4, <2>5, <2>6, <2>7, <2>8, <2>9, <2>10, <2>11,
       <2>12, <2>13 DEF Next
<1> QED
  BY <1>1, <1>2

\* The cursors, the call in progress on each side and the cells stay
\* consistent under every interleaving of write(), read(), drain(),
\* set_virtual_capacity() and a quiet reset().
THEOREM InvariantHolds == Spec => []IInv
<1>1. Init => IInv
  BY InitIInv
<1>2. IInv /\ [Next]_vars => IInv'
  BY StepIInv
<1> QED
  BY <1>1, <1>2, PTL DEF Spec

\* No write() of the inference thread stores into a cell whose sample the audio
\* callback has not released.
THEOREM OverlapNever == Spec => []NoOverlap
<1>1. IInv => NoOverlap
  <2> SUFFICES ASSUME IInv, producer = "copy",
                      NEW i \in copied..Len(data)-1,
                      NEW pos \in readPos..writePos-1
               PROVE  Cell(writePos + i) # Cell(pos)
    BY DEF NoOverlap, CellsBeingWritten, CellsUnread
  <2>1. /\ writePos + i \in Nat /\ pos \in Nat
        /\ pos < writePos + i /\ writePos + i < pos + KCapacity
    BY RingAssumption DEF IInv, TypeOK, WindowOK, ProducerOK
  <2> QED
    BY <2>1, CellDistinct, RingAssumption
<1> QED
  BY <1>1, InvariantHolds, PTL

-----------------------------------------------------------------------------
(* The refinement of AudioFifo. *)

LEMMA FunctionIsSeq ==
  ASSUME NEW S, NEW n \in Nat, NEW f \in [1..n -> S]
  PROVE  f \in Seq(S) /\ Len(f) = n
OBVIOUS

LEMMA WindowType ==
  ASSUME NEW b \in [0..KCapacity-1 -> Samples], NEW r \in Nat, NEW w \in Nat, r <= w
  PROVE  /\ Window(b, r, w) \in Seq(Samples)
         /\ Len(Window(b, r, w)) = w - r
         /\ \A i \in 1..(w - r) : Window(b, r, w)[i] = b[Cell(r + i - 1)]
<1>1. w - r \in Nat
  OBVIOUS
<1>2. ASSUME NEW i \in 1..(w - r)
      PROVE  b[Cell(r + i - 1)] \in Samples
  <2>1. r + i - 1 \in Nat
    OBVIOUS
  <2> QED
    BY <2>1, CellType
<1>3. Window(b, r, w) \in [1..(w - r) -> Samples]
  BY <1>2 DEF Window
<1>4. \A i \in 1..(w - r) : Window(b, r, w)[i] = b[Cell(r + i - 1)]
  BY DEF Window
<1> QED
  BY <1>1, <1>3, <1>4, FunctionIsSeq

\* Growing a window by cells that hold s appends s.
LEMMA WindowAppend ==
  ASSUME NEW b \in [0..KCapacity-1 -> Samples], NEW r \in Nat, NEW w \in Nat, NEW e \in Nat,
         r <= w, w <= e, NEW s \in Seq(Samples), Len(s) = e - w
  PROVE  (\A i \in 0..(e - w) - 1 : b[Cell(w + i)] = s[i + 1])
           => Window(b, r, e) = Window(b, r, w) \o s
<1>0. SUFFICES ASSUME \A i \in 0..(e - w) - 1 : b[Cell(w + i)] = s[i + 1]
               PROVE  Window(b, r, e) = Window(b, r, w) \o s
  OBVIOUS
<1> DEFINE old == Window(b, r, w)
           new == Window(b, r, e)
<1>1. /\ old \in Seq(Samples) /\ Len(old) = w - r
      /\ \A i \in 1..(w - r) : old[i] = b[Cell(r + i - 1)]
  BY WindowType
<1>2. /\ new \in Seq(Samples) /\ Len(new) = e - r
      /\ \A i \in 1..(e - r) : new[i] = b[Cell(r + i - 1)]
  <2>1. r <= e
    OBVIOUS
  <2> QED
    BY <2>1, WindowType
<1> HIDE DEF old, new
<1>3. /\ old \o s \in Seq(Samples) /\ Len(old \o s) = e - r
      /\ \A i \in 1..(e - r) :
           (old \o s)[i] = IF i <= w - r THEN old[i] ELSE s[i - (w - r)]
  <2>1. /\ old \o s \in Seq(Samples) /\ Len(old \o s) = Len(old) + Len(s)
        /\ \A i \in 1..Len(old) + Len(s) :
             (old \o s)[i] = IF i <= Len(old) THEN old[i] ELSE s[i - Len(old)]
    BY <1>1, ConcatProperties
  <2>2. Len(old) = w - r /\ Len(old) + Len(s) = e - r
    BY <1>1
  <2> QED
    BY <2>1, <2>2
<1>4. ASSUME NEW i \in 1..(e - r)
      PROVE  new[i] = (old \o s)[i]
  <2>1. CASE i <= w - r
    <3>1. i \in 1..(w - r) /\ (old \o s)[i] = old[i]
      BY <2>1, <1>3
    <3> QED
      BY <3>1, <1>1, <1>2
  <2>2. CASE i > w - r
    <3>1. PICK j \in 0..(e - w) - 1 : j = i - (w - r) - 1
      BY <2>2
    <3>2. r + i - 1 = w + j /\ i - (w - r) = j + 1
      BY <3>1
    <3>3. (old \o s)[i] = s[j + 1]
      BY <3>2, <2>2, <1>3
    <3>4. b[Cell(w + j)] = s[j + 1]
      BY <1>0
    <3> QED
      BY <3>2, <3>3, <3>4, <1>2
  <2>3. i <= w - r \/ i > w - r
    OBVIOUS
  <2> QED
    BY <2>1, <2>2, <2>3, Zenon
<1> QED
  BY <1>2, <1>3, <1>4, SeqEqual DEF old, new

\* A window splits at every position m inside it.
LEMMA WindowSplit ==
  ASSUME NEW b \in [0..KCapacity-1 -> Samples], NEW r \in Nat, NEW m \in Nat, NEW w \in Nat,
         r <= m, m <= w
  PROVE  /\ Window(b, r, m) = SubSeq(Window(b, r, w), 1, m - r)
         /\ Window(b, m, w) = SubSeq(Window(b, r, w), m - r + 1, w - r)
<1> DEFINE all == Window(b, r, w)
           front == Window(b, r, m)
           back == Window(b, m, w)
<1>1. /\ all \in Seq(Samples) /\ Len(all) = w - r
      /\ \A i \in 1..(w - r) : all[i] = b[Cell(r + i - 1)]
  <2>1. r <= w
    OBVIOUS
  <2> QED
    BY <2>1, WindowType
<1>2. /\ front \in Seq(Samples) /\ Len(front) = m - r
      /\ \A i \in 1..(m - r) : front[i] = b[Cell(r + i - 1)]
  BY WindowType
<1>3. /\ back \in Seq(Samples) /\ Len(back) = w - m
      /\ \A i \in 1..(w - m) : back[i] = b[Cell(m + i - 1)]
  BY WindowType
<1> HIDE DEF all, front, back
<1>4. front = SubSeq(all, 1, m - r)
  <2> DEFINE sub == SubSeq(all, 1, m - r)
  <2>1. sub \in Seq(Samples) /\ Len(sub) = m - r /\ \A i \in 1..(m - r) : sub[i] = all[i]
    BY <1>1
  <2> HIDE DEF sub
  <2>2. \A i \in 1..(m - r) : front[i] = sub[i]
    BY <2>1, <1>1, <1>2
  <2>3. front = sub
    BY <2>1, <2>2, <1>2, SeqEqual
  <2> QED
    BY <2>3 DEF sub
<1>5. back = SubSeq(all, m - r + 1, w - r)
  <2> DEFINE sub == SubSeq(all, m - r + 1, w - r)
  <2>1. /\ sub \in Seq(Samples) /\ Len(sub) = w - m
        /\ \A i \in 1..(w - m) : sub[i] = all[m - r + i]
    BY <1>1
  <2> HIDE DEF sub
  <2>2. ASSUME NEW i \in 1..(w - m) PROVE back[i] = sub[i]
    <3>1. m - r + i \in 1..(w - r) /\ r + (m - r + i) - 1 = m + i - 1
      OBVIOUS
    <3> QED
      BY <3>1, <2>1, <1>1, <1>3
  <2>3. back = sub
    BY <2>1, <2>2, <1>3, SeqEqual
  <2> QED
    BY <2>3 DEF sub
<1> QED
  BY <1>4, <1>5 DEF all, front, back

LEMMA QueueType ==
  IInv => /\ Queue \in Seq(Samples)
          /\ Len(Queue) = writePos - readPos
          /\ \A i \in 1..(writePos - readPos) : Queue[i] = buffer[Cell(readPos + i - 1)]
BY WindowType DEF Queue, IInv, TypeOK, WindowOK

\* Equal cells and cursors, equal queue.
LEMMA QueueUnchanged ==
  ASSUME UNCHANGED <<buffer, writePos, readPos>>
  PROVE  Queue' = Queue
BY DEF Queue, Window

LEMMA WriteSampleQueue ==
  ASSUME IInv, WriteSample
  PROVE  Queue' = Queue
<1>1. /\ producer = "copy" /\ copied < Len(data)
      /\ buffer' = [buffer EXCEPT ![Cell(writePos + copied)] = data[copied + 1]]
      /\ UNCHANGED <<writePos, readPos>>
  BY DEF WriteSample
<1>2. ASSUME NEW i \in 1..(writePos - readPos)
      PROVE  buffer'[Cell(readPos + i - 1)] = buffer[Cell(readPos + i - 1)]
  <2>1. readPos + i - 1 \in readPos..writePos-1 /\ readPos + i - 1 \in Nat
    BY DEF IInv, TypeOK, WindowOK
  <2>2. Cell(readPos + i - 1) # Cell(writePos + copied)
    BY <2>1, <1>1, StoreIsFresh
  <2>3. Cell(readPos + i - 1) \in 0..KCapacity-1
    BY <2>1, CellType
  <2> QED
    BY <2>2, <2>3, <1>1 DEF IInv, TypeOK
<1> QED
  BY <1>1, <1>2 DEF Queue, Window

\* Publishing writePos appends the whole chunk.
LEMMA WritePublishPuts ==
  ASSUME IInv, WritePublish
  PROVE  data \in Chunks /\ Fifo!Put(data)
<1>1. /\ producer = "copy" /\ copied = Len(data)
      /\ writePos' = writePos + Len(data)
      /\ UNCHANGED <<buffer, readPos, heard>>
  BY DEF WritePublish, consumerVars
<1>2. /\ data \in Chunks /\ data \in Seq(Samples) /\ Len(data) \in Nat
      /\ writePos + Len(data) <= readPos + KCapacity
      /\ \A i \in 0..Len(data)-1 : buffer[Cell(writePos + i)] = data[i + 1]
      /\ readPos \in Nat /\ writePos \in Nat /\ readPos <= writePos
      /\ buffer \in [0..KCapacity-1 -> Samples]
  BY <1>1 DEF IInv, TypeOK, WindowOK, ProducerOK
<1>3. Queue' = Queue \o data
  <2>1. /\ writePos' \in Nat /\ writePos <= writePos' /\ Len(data) = writePos' - writePos
        /\ \A i \in 0..(writePos' - writePos) - 1 : buffer[Cell(writePos + i)] = data[i + 1]
    BY <1>1, <1>2
  <2> DEFINE e == writePos'
  <2> HIDE DEF e
  <2>2. Window(buffer, readPos, e) = Window(buffer, readPos, writePos) \o data
    <3>1. /\ e \in Nat /\ writePos <= e /\ Len(data) = e - writePos
          /\ \A i \in 0..(e - writePos) - 1 : buffer[Cell(writePos + i)] = data[i + 1]
      BY <2>1 DEF e
    <3>2. /\ readPos \in Nat /\ writePos \in Nat /\ readPos <= writePos
          /\ data \in Seq(Samples) /\ buffer \in [0..KCapacity-1 -> Samples]
      BY <1>2
    <3> QED
      BY <3>1, <3>2, WindowAppend
  <2> QED
    BY <1>1, <2>2 DEF Queue, e
<1>4. Len(Queue) + Len(data) <= KCapacity
  BY <1>2, QueueType, RingAssumption
<1> QED
  BY <1>1, <1>2, <1>3, <1>4 DEF Fifo!Put

\* Publishing readPos takes the samples that were copied out.
LEMMA ReadPublishTakes ==
  ASSUME IInv, ReadPublish
  PROVE  \E n \in Counts : \E k \in 0..n : Fifo!Take(n, k)
<1> DEFINE k == target - readPos
<1>1. /\ consumer = "copy" /\ Len(dest) = k
      /\ heard' = Padded(dest, count)
      /\ readPos' = target
      /\ UNCHANGED <<buffer, writePos>>
  BY DEF ReadPublish, IInv, TypeOK
<1>2. /\ count \in Counts /\ k \in 0..count
      /\ readPos \in Nat /\ target \in Nat /\ writePos \in Nat
      /\ readPos <= target /\ target <= writePos
      /\ dest \in Seq(Samples)
      /\ \A i \in 1..Len(dest) : dest[i] = buffer[Cell(readPos + i - 1)]
      /\ buffer \in [0..KCapacity-1 -> Samples]
  BY <1>1 DEF IInv, TypeOK, WindowOK, ConsumerOK
<1>3. /\ Window(buffer, readPos, target) = SubSeq(Queue, 1, k)
      /\ Window(buffer, target, writePos) = SubSeq(Queue, k + 1, Len(Queue))
  <2>1. Len(Queue) = writePos - readPos /\ k + 1 = target - readPos + 1
    BY QueueType
  <2>2. /\ Window(buffer, readPos, target) = SubSeq(Queue, 1, target - readPos)
        /\ Window(buffer, target, writePos)
             = SubSeq(Queue, target - readPos + 1, writePos - readPos)
    BY <1>2, WindowSplit DEF Queue
  <2> QED
    BY <2>1, <2>2
<1>4. Queue' = SubSeq(Queue, k + 1, Len(Queue))
  BY <1>1, <1>3 DEF Queue
<1>5. dest = SubSeq(Queue, 1, k)
  <2> DEFINE front == Window(buffer, readPos, target)
  <2>1. /\ front \in Seq(Samples) /\ Len(front) = k
        /\ \A i \in 1..k : front[i] = buffer[Cell(readPos + i - 1)]
    BY <1>2, WindowType
  <2> HIDE DEF front
  <2>2. dest = front
    BY <2>1, <1>1, <1>2, SeqEqual
  <2> QED
    BY <2>2, <1>3 DEF front
<1>6. heard' = Fifo!Padded(SubSeq(Queue, 1, k), count)
  BY <1>1, <1>5 DEF Padded, Fifo!Padded
<1>7. k <= Len(Queue)
  BY <1>2, QueueType
<1> HIDE DEF k
<1> QED
  BY <1>2, <1>4, <1>6, <1>7 DEF Fifo!Take

\* drain() drops a prefix, reset() everything.
LEMMA Drops ==
  ASSUME IInv, DrainPublish \/ Reset
  PROVE  \E k \in 0..Len(Queue) : Fifo!Drop(k)
<1>0. /\ readPos \in Nat /\ writePos \in Nat /\ readPos <= writePos
      /\ buffer \in [0..KCapacity-1 -> Samples]
  BY DEF IInv, TypeOK, WindowOK
<1>1. CASE DrainPublish
  <2>1. /\ readPos' = target /\ UNCHANGED <<buffer, writePos, heard>>
        /\ target \in Nat /\ readPos <= target /\ target <= writePos
    BY <1>1 DEF DrainPublish, IInv, TypeOK, ConsumerOK
  <2> DEFINE k == target - readPos
  <2>2. k \in 0..Len(Queue)
    BY <2>1, <1>0, QueueType
  <2>3. Queue' = SubSeq(Queue, k + 1, Len(Queue))
    <3>1. Window(buffer, target, writePos)
            = SubSeq(Queue, target - readPos + 1, writePos - readPos)
      BY <2>1, <1>0, WindowSplit DEF Queue
    <3>2. Queue' = Window(buffer, target, writePos) /\ Len(Queue) = writePos - readPos
      BY <2>1, QueueType DEF Queue
    <3> QED
      BY <3>1, <3>2
  <2> HIDE DEF k
  <2> QED
    BY <2>1, <2>2, <2>3 DEF Fifo!Drop
<1>2. CASE Reset
  <2>1. readPos' = 0 /\ writePos' = 0 /\ UNCHANGED heard
    BY <1>2 DEF Reset, consumerVars
  <2> DEFINE n == Len(Queue)
  <2>2. n \in Nat /\ Queue \in Seq(Samples)
    BY <1>0, QueueType
  <2>3. Queue' = <<>>
    BY <2>1 DEF Queue, Window
  <2>4. SubSeq(Queue, n + 1, n) = <<>>
    BY <2>2
  <2> QED
    BY <2>1, <2>2, <2>3, <2>4 DEF Fifo!Drop
<1> QED
  BY <1>1, <1>2

\* The ring of ring_buffer.h implements the bounded FIFO: for every capacity,
\* chunk and read size, the audio callback gets the inference thread's samples
\* once, in order and uncorrupted, whatever the interleaving, the capacity
\* changes, the drains and the quiet resets.
THEOREM Refinement == Spec => FifoSpec
<1>1. Init => Fifo!Init
  <2> SUFFICES ASSUME Init PROVE Fifo!Init
    OBVIOUS
  <2>1. Queue = <<>>
    BY DEF Init, Queue, Window
  <2> QED
    BY <2>1 DEF Init, Fifo!Init
<1>2. IInv /\ [Next]_vars => [Fifo!Next]_(Fifo!vars)
  <2> SUFFICES ASSUME IInv, [Next]_vars PROVE [Fifo!Next]_(Fifo!vars)
    OBVIOUS
  <2> DEFINE Same == Queue' = Queue /\ heard' = heard
  <2>1. ASSUME NEW cap \in Capacities, SetVirtualCapacity(cap) PROVE Same
    BY <2>1, QueueUnchanged DEF SetVirtualCapacity, consumerVars
  <2>2. ASSUME NEW chunk \in Chunks, WriteBegin(chunk) PROVE Same
    BY <2>2, QueueUnchanged DEF WriteBegin, shared, consumerVars
  <2>3. ASSUME WriteRefuse \/ WriteAccept PROVE Same
    BY <2>3, QueueUnchanged DEF WriteRefuse, WriteAccept, shared, consumerVars
  <2>4. ASSUME WriteSample PROVE Same
    BY <2>4, WriteSampleQueue DEF WriteSample, consumerVars
  <2>5. ASSUME NEW n \in Counts, ReadBegin(n) PROVE Same
    BY <2>5, QueueUnchanged DEF ReadBegin, shared
  <2>6. ASSUME ReadSample \/ DrainBegin PROVE Same
    BY <2>6, QueueUnchanged DEF ReadSample, DrainBegin, shared
  <2>7. ASSUME UNCHANGED vars PROVE Same
    BY <2>7, QueueUnchanged DEF vars, shared, consumerVars
  <2>8. CASE WritePublish
    BY <2>8, WritePublishPuts DEF Fifo!Next
  <2>9. CASE ReadPublish
    BY <2>9, ReadPublishTakes DEF Fifo!Next
  <2>10. CASE DrainPublish \/ Reset
    BY <2>10, Drops DEF Fifo!Next
  <2>11. CASE Same
    BY <2>11 DEF Fifo!vars
  <2> HIDE DEF Same
  <2> QED
    BY <2>1, <2>2, <2>3, <2>4, <2>5, <2>6, <2>7, <2>8, <2>9, <2>10, <2>11 DEF Next
<1> QED
  BY <1>1, <1>2, InvariantHolds, PTL DEF Spec, FifoSpec, Fifo!Spec

-----------------------------------------------------------------------------
(* Memory orders. *)

\* RingBufferOrder only watches: its steps are RingBuffer's.
LEMMA OrderStep == [OrderNext]_<<vars, orderVars>> => [Next]_vars
BY DEF OrderNext, OrderReset, OrderWriteBegin, OrderReadBegin, OrderDrainBegin, Next, vars,
       orderVars, shared, producerVars, consumerVars

\* So the invariant of RingBuffer holds with the memory orders in view.
LEMMA OrderInvariant == OrderSpec => []IInv
<1>1. OrderInit => IInv
  BY InitIInv DEF OrderInit
<1>2. IInv /\ [OrderNext]_<<vars, orderVars>> => IInv'
  BY StepIInv, OrderStep
<1> QED
  BY <1>1, <1>2, PTL DEF OrderSpec

\* What the consumer knows to be stored was published, and what a read() or
\* drain() in progress is to consume is among it.
OrderInv ==
  /\ knownWritten \in Nat /\ knownWritten <= writePos
  /\ consumer # "idle" => target <= knownWritten

LEMMA OrderInvStep ==
  IInv /\ OrderInv /\ [OrderNext]_<<vars, orderVars>> => OrderInv'
<1> SUFFICES ASSUME IInv, OrderInv, [OrderNext]_<<vars, orderVars>> PROVE OrderInv'
  OBVIOUS
<1> USE DEF OrderInv
<1>0. TypeOK /\ WindowOK /\ ProducerOK
  BY DEF IInv
<1>1. CASE OrderReset
  BY <1>1 DEF OrderReset, Reset, consumerVars
<1>2. ASSUME NEW chunk \in Chunks, OrderWriteBegin(chunk) PROVE OrderInv'
  BY <1>2 DEF OrderWriteBegin, WriteBegin, shared, consumerVars
<1>3. ASSUME NEW n \in Counts, OrderReadBegin(n) PROVE OrderInv'
  <2>1. ToRead(n) <= writePos - readPos
    BY <1>0, RingAssumption DEF ToRead, Available, TypeOK, WindowOK
  <2>2. readPos + ToRead(n) <= writePos
    BY <1>0, <2>1, RingAssumption DEF TypeOK, ToRead, Available
  <2> QED
    BY <1>0, <1>3, <2>2 DEF OrderReadBegin, ReadBegin, LoadWritePos, AcquireLoad, TypeOK, shared
<1>4. CASE OrderDrainBegin
  BY <1>0, <1>4 DEF OrderDrainBegin, DrainBegin, LoadWritePos, AcquireLoad, TypeOK, shared
<1>5. CASE WritePublish /\ UNCHANGED orderVars
  <2>1. Len(data) \in Nat
    BY <1>0 DEF TypeOK
  <2> QED
    BY <1>0, <1>5, <2>1 DEF WritePublish, orderVars, consumerVars, TypeOK
<1>6. CASE /\ \/ \E cap \in Capacities : SetVirtualCapacity(cap)
              \/ WriteRefuse \/ WriteAccept \/ WriteSample
              \/ ReadSample \/ ReadPublish \/ DrainPublish
           /\ UNCHANGED orderVars
  BY <1>6 DEF SetVirtualCapacity, WriteRefuse, WriteAccept, WriteSample, ReadSample,
    ReadPublish, DrainPublish, orderVars, shared, producerVars, consumerVars
<1>7. CASE UNCHANGED <<vars, orderVars>>
  BY <1>7 DEF vars, orderVars, shared, consumerVars
<1> QED
  BY <1>1, <1>2, <1>3, <1>4, <1>5, <1>6, <1>7 DEF OrderNext

\* Every sample read() copies was stored before it in the order of the C++
\* memory model: the acquire load of write_pos_ in available() is enough, for
\* every capacity, chunk and read size, and whatever the other accesses are.
THEOREM ConsumerIsSynchronized == OrderSpec => []ConsumerSynchronized
<1>1. OrderInit => OrderInv
  BY RingAssumption DEF OrderInit, Init, OrderInv
<1>2. IInv /\ OrderInv /\ [OrderNext]_<<vars, orderVars>> => OrderInv'
  BY OrderInvStep
<1>3. OrderInv => ConsumerSynchronized
  BY DEF OrderInv, ConsumerSynchronized
<1> QED
  BY <1>1, <1>2, <1>3, OrderInvariant, PTL DEF OrderSpec

--------------------------------------------------------------------------------
(* The codec.  Recursion over 0 .. n, and lists.                            *)

LEMMA LeastOf ==
  ASSUME NEW U, U \subseteq Nat, U # {}
  PROVE  \E m \in U : \A k \in U : ~(k < m)
<1>1. \E m \in U : \A k \in U : ~(<<k, m>> \in OpToRel(<, Nat))
  BY NatLessThanWellFounded, WFMin
<1> QED BY <1>1 DEF OpToRel

LEMMA SetInduction ==
  ASSUME NEW N \in Nat, NEW T, 0 \in T, \A n \in 0 .. N - 1 : n \in T => n + 1 \in T
  PROVE  \A n \in 0 .. N : n \in T
<1> DEFINE U == (0 .. N) \ T
<1> SUFFICES ASSUME U # {} PROVE FALSE
  OBVIOUS
<1>1. U \subseteq Nat
  OBVIOUS
<1> HIDE DEF U
<1>2. PICK m \in U : \A k \in U : ~(k < m)
  BY <1>1, LeastOf
<1> USE DEF U
<1>3. m # 0 /\ m - 1 \in 0 .. N - 1
  BY <1>2
<1>4. m - 1 \in T
  BY <1>2, <1>3
<1> QED BY <1>2, <1>3, <1>4

\* f with one value more.
Longer(f, n, y) == [i \in 0 .. n + 1 |-> IF i <= n THEN f[i] ELSE y]

LEMMA LongerIs ==
  ASSUME NEW n \in Nat, NEW f, NEW y
  PROVE  LET g == Longer(f, n, y)
         IN /\ g[0] = f[0] /\ \A i \in 1 .. n : g[i] = f[i] /\ g[i - 1] = f[i - 1]
            /\ g[n + 1] = y /\ g[n] = f[n]
            /\ \A i \in 1 .. n + 1 : i \in 1 .. n \/ i = n + 1
BY DEF Longer

\* f[n] is the sum of the first n elements of s.
SumChain(f, s, n) == f[0] = 0 /\ \A i \in 1 .. n : f[i] = f[i - 1] + s[i]
SumTo(f, s, n) == f = [i \in 0 .. n |-> IF i = 0 THEN 0 ELSE f[i - 1] + s[i]]

LEMMA SumExists ==
  ASSUME NEW s, NEW N \in Nat
  PROVE  /\ \E f : SumTo(f, s, N)
         /\ \A f : SumTo(f, s, N) => SumChain(f, s, N)
         /\ \A f, g : SumChain(f, s, N) /\ SumChain(g, s, N) => \A n \in 0 .. N : f[n] = g[n]
<1> DEFINE T == {n \in 0 .. N : \E f : SumChain(f, s, n)}
<1>1. 0 \in T
  <2> DEFINE h == [i \in 0 .. 0 |-> 0]
  <2>1. SumChain(h, s, 0)
    BY DEF SumChain
  <2> HIDE DEF h
  <2> QED BY <2>1
<1>2. ASSUME NEW n \in 0 .. N - 1, n \in T PROVE n + 1 \in T
  <2>1. PICK f : SumChain(f, s, n)
    BY <1>2
  <2> DEFINE y == f[n] + s[n + 1]
             g == Longer(f, n, y)
  <2> HIDE DEF y
  <2>2. /\ g[0] = f[0] /\ \A i \in 1 .. n : g[i] = f[i] /\ g[i - 1] = f[i - 1]
        /\ g[n + 1] = y /\ g[n] = f[n] /\ n + 1 - 1 = n
        /\ \A i \in 1 .. n + 1 : i \in 1 .. n \/ i = n + 1
    BY LongerIs
  <2> HIDE DEF g
  <2>3. ASSUME NEW i \in 1 .. n + 1 PROVE g[i] = g[i - 1] + s[i]
    <3>1. CASE i \in 1 .. n
      BY <2>1, <2>2, <3>1 DEF SumChain
    <3>2. CASE i = n + 1
      BY <2>2, <3>2 DEF y
    <3> QED BY <2>2, <3>1, <3>2
  <2>4. SumChain(g, s, n + 1)
    BY <2>1, <2>2, <2>3 DEF SumChain
  <2> QED BY <2>4
<1> HIDE DEF T
<1>3. N \in T
  BY <1>1, <1>2, SetInduction
<1>4. PICK f : SumChain(f, s, N)
  BY <1>3 DEF T
<1> DEFINE h == [i \in 0 .. N |-> f[i]]
<1>5. \A i \in 0 .. N : h[i] = f[i] /\ (i # 0 => i \in 1 .. N /\ h[i - 1] = f[i - 1])
  OBVIOUS
<1>6. \A i \in 0 .. N : h[i] = IF i = 0 THEN 0 ELSE h[i - 1] + s[i]
  BY <1>4, <1>5 DEF SumChain
<1>7. h = [i \in 0 .. N |-> h[i]]
  OBVIOUS
<1> HIDE DEF h
<1>8. SumTo(h, s, N)
  BY <1>6, <1>7 DEF SumTo
<1>9. ASSUME NEW g, SumTo(g, s, N) PROVE SumChain(g, s, N)
  <2>1. \A i \in 0 .. N : g[i] = IF i = 0 THEN 0 ELSE g[i - 1] + s[i]
    BY <1>9 DEF SumTo
  <2> QED BY <2>1 DEF SumChain
<1>10. ASSUME NEW g, NEW k, SumChain(g, s, N), SumChain(k, s, N) PROVE \A n \in 0 .. N : g[n] = k[n]
  <2> DEFINE U == {n \in 0 .. N : g[n] = k[n]}
  <2>1. 0 \in U
    BY <1>10 DEF SumChain
  <2>2. ASSUME NEW n \in 0 .. N - 1, n \in U PROVE n + 1 \in U
    <3>1. n + 1 \in 1 .. N /\ n + 1 \in 0 .. N /\ n + 1 - 1 = n /\ g[n] = k[n]
      BY <2>2
    <3>2. g[n + 1] = g[(n + 1) - 1] + s[(n + 1)] /\ k[n + 1] = k[(n + 1) - 1] + s[(n + 1)]
      BY <1>10, <3>1 DEF SumChain
    <3> QED BY <3>1, <3>2
  <2> HIDE DEF U
  <2>3. \A n \in 0 .. N : n \in U
    BY <2>1, <2>2, SetInduction
  <2> QED BY <2>3 DEF U
<1> QED BY <1>8, <1>9, <1>10

LEMMA SumIs ==
  ASSUME NEW s, Len(s) \in Nat
  PROVE  /\ \E f : SumChain(f, s, Len(s))
         /\ \A f : SumChain(f, s, Len(s)) => SumOf(s) = f[Len(s)]
<1> DEFINE w == CHOOSE f : SumTo(f, s, Len(s))
<1>1. SumTo(w, s, Len(s))
  <2>1. \E f : SumTo(f, s, Len(s))
    BY SumExists
  <2> QED BY <2>1
<1>2. SumOf(s) = w[Len(s)]
  BY DEF SumOf, SumTo
<1> HIDE DEF w
<1>3. SumChain(w, s, Len(s))
  BY <1>1, SumExists
<1>4. ASSUME NEW f, SumChain(f, s, Len(s)) PROVE f[Len(s)] = w[Len(s)]
  <2>1. Len(s) \in 0 .. Len(s)
    OBVIOUS
  <2> DEFINE N == Len(s)
  <2>2. N \in Nat /\ SumChain(f, s, N) /\ SumChain(w, s, N)
    BY <1>3, <1>4
  <2> HIDE DEF N
  <2>3. \A n \in 0 .. N : f[n] = w[n]
    BY <2>2, SumExists, Z3
  <2> QED BY <2>1, <2>3 DEF N
<1> QED BY <1>2, <1>3, <1>4


\* f[n] is the product of the first n elements of s.
ProductChain(f, s, n) == f[0] = 1 /\ \A i \in 1 .. n : f[i] = f[i - 1] * s[i]
ProductTo(f, s, n) == f = [i \in 0 .. n |-> IF i = 0 THEN 1 ELSE f[i - 1] * s[i]]

LEMMA ProductExists ==
  ASSUME NEW s, NEW N \in Nat
  PROVE  /\ \E f : ProductTo(f, s, N)
         /\ \A f : ProductTo(f, s, N) => ProductChain(f, s, N)
         /\ \A f, g : ProductChain(f, s, N) /\ ProductChain(g, s, N) => \A n \in 0 .. N : f[n] = g[n]
<1> DEFINE T == {n \in 0 .. N : \E f : ProductChain(f, s, n)}
<1>1. 0 \in T
  <2> DEFINE h == [i \in 0 .. 0 |-> 1]
  <2>1. ProductChain(h, s, 0)
    BY DEF ProductChain
  <2> HIDE DEF h
  <2> QED BY <2>1
<1>2. ASSUME NEW n \in 0 .. N - 1, n \in T PROVE n + 1 \in T
  <2>1. PICK f : ProductChain(f, s, n)
    BY <1>2
  <2> DEFINE y == f[n] * s[n + 1]
             g == Longer(f, n, y)
  <2> HIDE DEF y
  <2>2. /\ g[0] = f[0] /\ \A i \in 1 .. n : g[i] = f[i] /\ g[i - 1] = f[i - 1]
        /\ g[n + 1] = y /\ g[n] = f[n] /\ n + 1 - 1 = n
        /\ \A i \in 1 .. n + 1 : i \in 1 .. n \/ i = n + 1
    BY LongerIs
  <2> HIDE DEF g
  <2>3. ASSUME NEW i \in 1 .. n + 1 PROVE g[i] = g[i - 1] * s[i]
    <3>1. CASE i \in 1 .. n
      BY <2>1, <2>2, <3>1 DEF ProductChain
    <3>2. CASE i = n + 1
      BY <2>2, <3>2 DEF y
    <3> QED BY <2>2, <3>1, <3>2
  <2>4. ProductChain(g, s, n + 1)
    BY <2>1, <2>2, <2>3 DEF ProductChain
  <2> QED BY <2>4
<1> HIDE DEF T
<1>3. N \in T
  BY <1>1, <1>2, SetInduction
<1>4. PICK f : ProductChain(f, s, N)
  BY <1>3 DEF T
<1> DEFINE h == [i \in 0 .. N |-> f[i]]
<1>5. \A i \in 0 .. N : h[i] = f[i] /\ (i # 0 => i \in 1 .. N /\ h[i - 1] = f[i - 1])
  OBVIOUS
<1>6. \A i \in 0 .. N : h[i] = IF i = 0 THEN 1 ELSE h[i - 1] * s[i]
  BY <1>4, <1>5 DEF ProductChain
<1>7. h = [i \in 0 .. N |-> h[i]]
  OBVIOUS
<1> HIDE DEF h
<1>8. ProductTo(h, s, N)
  BY <1>6, <1>7 DEF ProductTo
<1>9. ASSUME NEW g, ProductTo(g, s, N) PROVE ProductChain(g, s, N)
  <2>1. \A i \in 0 .. N : g[i] = IF i = 0 THEN 1 ELSE g[i - 1] * s[i]
    BY <1>9 DEF ProductTo
  <2> QED BY <2>1 DEF ProductChain
<1>10. ASSUME NEW g, NEW k, ProductChain(g, s, N), ProductChain(k, s, N) PROVE \A n \in 0 .. N : g[n] = k[n]
  <2> DEFINE U == {n \in 0 .. N : g[n] = k[n]}
  <2>1. 0 \in U
    BY <1>10 DEF ProductChain
  <2>2. ASSUME NEW n \in 0 .. N - 1, n \in U PROVE n + 1 \in U
    <3>1. n + 1 \in 1 .. N /\ n + 1 \in 0 .. N /\ n + 1 - 1 = n /\ g[n] = k[n]
      BY <2>2
    <3>2. g[n + 1] = g[(n + 1) - 1] * s[(n + 1)] /\ k[n + 1] = k[(n + 1) - 1] * s[(n + 1)]
      BY <1>10, <3>1 DEF ProductChain
    <3> QED BY <3>1, <3>2
  <2> HIDE DEF U
  <2>3. \A n \in 0 .. N : n \in U
    BY <2>1, <2>2, SetInduction
  <2> QED BY <2>3 DEF U
<1> QED BY <1>8, <1>9, <1>10

LEMMA ProductIs ==
  ASSUME NEW s, Len(s) \in Nat
  PROVE  /\ \E f : ProductChain(f, s, Len(s))
         /\ \A f : ProductChain(f, s, Len(s)) => ProductOf(s) = f[Len(s)]
<1> DEFINE w == CHOOSE f : ProductTo(f, s, Len(s))
<1>1. ProductTo(w, s, Len(s))
  <2>1. \E f : ProductTo(f, s, Len(s))
    BY ProductExists
  <2> QED BY <2>1
<1>2. ProductOf(s) = w[Len(s)]
  BY DEF ProductOf, ProductTo
<1> HIDE DEF w
<1>3. ProductChain(w, s, Len(s))
  BY <1>1, ProductExists
<1>4. ASSUME NEW f, ProductChain(f, s, Len(s)) PROVE f[Len(s)] = w[Len(s)]
  <2>1. Len(s) \in 0 .. Len(s)
    OBVIOUS
  <2> DEFINE N == Len(s)
  <2>2. N \in Nat /\ ProductChain(f, s, N) /\ ProductChain(w, s, N)
    BY <1>3, <1>4
  <2> HIDE DEF N
  <2>3. \A n \in 0 .. N : f[n] = w[n]
    BY <2>2, ProductExists, Z3
  <2> QED BY <2>1, <2>3 DEF N
<1> QED BY <1>2, <1>3, <1>4


\* f[n] is the shape after n plain layers.
ThroughChain(f, layers, s, n) == f[0] = s /\ \A i \in 1 .. n : f[i] = ShapeOf(layers[i], f[i - 1])
ThroughTo(f, layers, s, n) == f = [i \in 0 .. n |-> IF i = 0 THEN s ELSE ShapeOf(layers[i], f[i - 1])]

LEMMA ThroughExists ==
  ASSUME NEW layers, NEW s, NEW N \in Nat
  PROVE  /\ \E f : ThroughTo(f, layers, s, N)
         /\ \A f : ThroughTo(f, layers, s, N) => ThroughChain(f, layers, s, N)
         /\ \A f, g : ThroughChain(f, layers, s, N) /\ ThroughChain(g, layers, s, N) => \A n \in 0 .. N : f[n] = g[n]
<1> DEFINE T == {n \in 0 .. N : \E f : ThroughChain(f, layers, s, n)}
<1>1. 0 \in T
  <2> DEFINE h == [i \in 0 .. 0 |-> s]
  <2>1. ThroughChain(h, layers, s, 0)
    BY DEF ThroughChain
  <2> HIDE DEF h
  <2> QED BY <2>1
<1>2. ASSUME NEW n \in 0 .. N - 1, n \in T PROVE n + 1 \in T
  <2>1. PICK f : ThroughChain(f, layers, s, n)
    BY <1>2
  <2> DEFINE y == ShapeOf(layers[n + 1], f[n])
             g == Longer(f, n, y)
  <2> HIDE DEF y
  <2>2. /\ g[0] = f[0] /\ \A i \in 1 .. n : g[i] = f[i] /\ g[i - 1] = f[i - 1]
        /\ g[n + 1] = y /\ g[n] = f[n] /\ n + 1 - 1 = n
        /\ \A i \in 1 .. n + 1 : i \in 1 .. n \/ i = n + 1
    BY LongerIs
  <2> HIDE DEF g
  <2>3. ASSUME NEW i \in 1 .. n + 1 PROVE g[i] = ShapeOf(layers[i], g[i - 1])
    <3>1. CASE i \in 1 .. n
      BY <2>1, <2>2, <3>1 DEF ThroughChain
    <3>2. CASE i = n + 1
      BY <2>2, <3>2 DEF y
    <3> QED BY <2>2, <3>1, <3>2
  <2>4. ThroughChain(g, layers, s, n + 1)
    BY <2>1, <2>2, <2>3 DEF ThroughChain
  <2> QED BY <2>4
<1> HIDE DEF T
<1>3. N \in T
  BY <1>1, <1>2, SetInduction
<1>4. PICK f : ThroughChain(f, layers, s, N)
  BY <1>3 DEF T
<1> DEFINE h == [i \in 0 .. N |-> f[i]]
<1>5. \A i \in 0 .. N : h[i] = f[i] /\ (i # 0 => i \in 1 .. N /\ h[i - 1] = f[i - 1])
  OBVIOUS
<1>6. \A i \in 0 .. N : h[i] = IF i = 0 THEN s ELSE ShapeOf(layers[i], h[i - 1])
  BY <1>4, <1>5 DEF ThroughChain
<1>7. h = [i \in 0 .. N |-> h[i]]
  OBVIOUS
<1> HIDE DEF h
<1>8. ThroughTo(h, layers, s, N)
  BY <1>6, <1>7 DEF ThroughTo
<1>9. ASSUME NEW g, ThroughTo(g, layers, s, N) PROVE ThroughChain(g, layers, s, N)
  <2>1. \A i \in 0 .. N : g[i] = IF i = 0 THEN s ELSE ShapeOf(layers[i], g[i - 1])
    BY <1>9 DEF ThroughTo
  <2> QED BY <2>1 DEF ThroughChain
<1>10. ASSUME NEW g, NEW k, ThroughChain(g, layers, s, N), ThroughChain(k, layers, s, N) PROVE \A n \in 0 .. N : g[n] = k[n]
  <2> DEFINE U == {n \in 0 .. N : g[n] = k[n]}
  <2>1. 0 \in U
    BY <1>10 DEF ThroughChain
  <2>2. ASSUME NEW n \in 0 .. N - 1, n \in U PROVE n + 1 \in U
    <3>1. n + 1 \in 1 .. N /\ n + 1 \in 0 .. N /\ n + 1 - 1 = n /\ g[n] = k[n]
      BY <2>2
    <3>2. g[n + 1] = ShapeOf(layers[(n + 1)], g[(n + 1) - 1]) /\ k[n + 1] = ShapeOf(layers[(n + 1)], k[(n + 1) - 1])
      BY <1>10, <3>1 DEF ThroughChain
    <3> QED BY <3>1, <3>2
  <2> HIDE DEF U
  <2>3. \A n \in 0 .. N : n \in U
    BY <2>1, <2>2, SetInduction
  <2> QED BY <2>3 DEF U
<1> QED BY <1>8, <1>9, <1>10

LEMMA ThroughIs ==
  ASSUME NEW layers, NEW s, Len(layers) \in Nat
  PROVE  /\ \E f : ThroughChain(f, layers, s, Len(layers))
         /\ \A f : ThroughChain(f, layers, s, Len(layers)) => ShapeThrough(layers, s) = f[Len(layers)]
<1> DEFINE w == CHOOSE f : ThroughTo(f, layers, s, Len(layers))
<1>1. ThroughTo(w, layers, s, Len(layers))
  <2>1. \E f : ThroughTo(f, layers, s, Len(layers))
    BY ThroughExists
  <2> QED BY <2>1
<1>2. ShapeThrough(layers, s) = w[Len(layers)]
  BY DEF ShapeThrough, ThroughTo
<1> HIDE DEF w
<1>3. ThroughChain(w, layers, s, Len(layers))
  BY <1>1, ThroughExists
<1>4. ASSUME NEW f, ThroughChain(f, layers, s, Len(layers)) PROVE f[Len(layers)] = w[Len(layers)]
  <2>1. Len(layers) \in 0 .. Len(layers)
    OBVIOUS
  <2> DEFINE N == Len(layers)
  <2>2. N \in Nat /\ ThroughChain(f, layers, s, N) /\ ThroughChain(w, layers, s, N)
    BY <1>3, <1>4
  <2> HIDE DEF N
  <2>3. \A n \in 0 .. N : f[n] = w[n]
    BY <2>2, ThroughExists, Z3
  <2> QED BY <2>1, <2>3 DEF N
<1> QED BY <1>2, <1>3, <1>4


\* f[n] is the shape after n layers or residuals.
BlocksChain(f, layers, s, n) == f[0] = s /\ \A i \in 1 .. n : f[i] = ShapeOfBlock(layers[i], f[i - 1])
BlocksTo(f, layers, s, n) == f = [i \in 0 .. n |-> IF i = 0 THEN s ELSE ShapeOfBlock(layers[i], f[i - 1])]

LEMMA BlocksExists ==
  ASSUME NEW layers, NEW s, NEW N \in Nat
  PROVE  /\ \E f : BlocksTo(f, layers, s, N)
         /\ \A f : BlocksTo(f, layers, s, N) => BlocksChain(f, layers, s, N)
         /\ \A f, g : BlocksChain(f, layers, s, N) /\ BlocksChain(g, layers, s, N) => \A n \in 0 .. N : f[n] = g[n]
<1> DEFINE T == {n \in 0 .. N : \E f : BlocksChain(f, layers, s, n)}
<1>1. 0 \in T
  <2> DEFINE h == [i \in 0 .. 0 |-> s]
  <2>1. BlocksChain(h, layers, s, 0)
    BY DEF BlocksChain
  <2> HIDE DEF h
  <2> QED BY <2>1
<1>2. ASSUME NEW n \in 0 .. N - 1, n \in T PROVE n + 1 \in T
  <2>1. PICK f : BlocksChain(f, layers, s, n)
    BY <1>2
  <2> DEFINE y == ShapeOfBlock(layers[n + 1], f[n])
             g == Longer(f, n, y)
  <2> HIDE DEF y
  <2>2. /\ g[0] = f[0] /\ \A i \in 1 .. n : g[i] = f[i] /\ g[i - 1] = f[i - 1]
        /\ g[n + 1] = y /\ g[n] = f[n] /\ n + 1 - 1 = n
        /\ \A i \in 1 .. n + 1 : i \in 1 .. n \/ i = n + 1
    BY LongerIs
  <2> HIDE DEF g
  <2>3. ASSUME NEW i \in 1 .. n + 1 PROVE g[i] = ShapeOfBlock(layers[i], g[i - 1])
    <3>1. CASE i \in 1 .. n
      BY <2>1, <2>2, <3>1 DEF BlocksChain
    <3>2. CASE i = n + 1
      BY <2>2, <3>2 DEF y
    <3> QED BY <2>2, <3>1, <3>2
  <2>4. BlocksChain(g, layers, s, n + 1)
    BY <2>1, <2>2, <2>3 DEF BlocksChain
  <2> QED BY <2>4
<1> HIDE DEF T
<1>3. N \in T
  BY <1>1, <1>2, SetInduction
<1>4. PICK f : BlocksChain(f, layers, s, N)
  BY <1>3 DEF T
<1> DEFINE h == [i \in 0 .. N |-> f[i]]
<1>5. \A i \in 0 .. N : h[i] = f[i] /\ (i # 0 => i \in 1 .. N /\ h[i - 1] = f[i - 1])
  OBVIOUS
<1>6. \A i \in 0 .. N : h[i] = IF i = 0 THEN s ELSE ShapeOfBlock(layers[i], h[i - 1])
  BY <1>4, <1>5 DEF BlocksChain
<1>7. h = [i \in 0 .. N |-> h[i]]
  OBVIOUS
<1> HIDE DEF h
<1>8. BlocksTo(h, layers, s, N)
  BY <1>6, <1>7 DEF BlocksTo
<1>9. ASSUME NEW g, BlocksTo(g, layers, s, N) PROVE BlocksChain(g, layers, s, N)
  <2>1. \A i \in 0 .. N : g[i] = IF i = 0 THEN s ELSE ShapeOfBlock(layers[i], g[i - 1])
    BY <1>9 DEF BlocksTo
  <2> QED BY <2>1 DEF BlocksChain
<1>10. ASSUME NEW g, NEW k, BlocksChain(g, layers, s, N), BlocksChain(k, layers, s, N) PROVE \A n \in 0 .. N : g[n] = k[n]
  <2> DEFINE U == {n \in 0 .. N : g[n] = k[n]}
  <2>1. 0 \in U
    BY <1>10 DEF BlocksChain
  <2>2. ASSUME NEW n \in 0 .. N - 1, n \in U PROVE n + 1 \in U
    <3>1. n + 1 \in 1 .. N /\ n + 1 \in 0 .. N /\ n + 1 - 1 = n /\ g[n] = k[n]
      BY <2>2
    <3>2. g[n + 1] = ShapeOfBlock(layers[(n + 1)], g[(n + 1) - 1]) /\ k[n + 1] = ShapeOfBlock(layers[(n + 1)], k[(n + 1) - 1])
      BY <1>10, <3>1 DEF BlocksChain
    <3> QED BY <3>1, <3>2
  <2> HIDE DEF U
  <2>3. \A n \in 0 .. N : n \in U
    BY <2>1, <2>2, SetInduction
  <2> QED BY <2>3 DEF U
<1> QED BY <1>8, <1>9, <1>10

LEMMA BlocksIs ==
  ASSUME NEW layers, NEW s, Len(layers) \in Nat
  PROVE  /\ \E f : BlocksChain(f, layers, s, Len(layers))
         /\ \A f : BlocksChain(f, layers, s, Len(layers)) => ShapeOfBlocks(layers, s) = f[Len(layers)]
<1> DEFINE w == CHOOSE f : BlocksTo(f, layers, s, Len(layers))
<1>1. BlocksTo(w, layers, s, Len(layers))
  <2>1. \E f : BlocksTo(f, layers, s, Len(layers))
    BY BlocksExists
  <2> QED BY <2>1
<1>2. ShapeOfBlocks(layers, s) = w[Len(layers)]
  BY DEF ShapeOfBlocks, BlocksTo
<1> HIDE DEF w
<1>3. BlocksChain(w, layers, s, Len(layers))
  BY <1>1, BlocksExists
<1>4. ASSUME NEW f, BlocksChain(f, layers, s, Len(layers)) PROVE f[Len(layers)] = w[Len(layers)]
  <2>1. Len(layers) \in 0 .. Len(layers)
    OBVIOUS
  <2> DEFINE N == Len(layers)
  <2>2. N \in Nat /\ BlocksChain(f, layers, s, N) /\ BlocksChain(w, layers, s, N)
    BY <1>3, <1>4
  <2> HIDE DEF N
  <2>3. \A n \in 0 .. N : f[n] = w[n]
    BY <2>2, BlocksExists, Z3
  <2> QED BY <2>1, <2>3 DEF N
<1> QED BY <1>2, <1>3, <1>4


\* f[n] is the shape after n layers of any kind.
AfterChain(f, layers, s, n) == f[0] = s /\ \A i \in 1 .. n : f[i] = ShapeOfLayer(layers[i], f[i - 1])
AfterTo(f, layers, s, n) == f = [i \in 0 .. n |-> IF i = 0 THEN s ELSE ShapeOfLayer(layers[i], f[i - 1])]

LEMMA AfterExists ==
  ASSUME NEW layers, NEW s, NEW N \in Nat
  PROVE  /\ \E f : AfterTo(f, layers, s, N)
         /\ \A f : AfterTo(f, layers, s, N) => AfterChain(f, layers, s, N)
         /\ \A f, g : AfterChain(f, layers, s, N) /\ AfterChain(g, layers, s, N) => \A n \in 0 .. N : f[n] = g[n]
<1> DEFINE T == {n \in 0 .. N : \E f : AfterChain(f, layers, s, n)}
<1>1. 0 \in T
  <2> DEFINE h == [i \in 0 .. 0 |-> s]
  <2>1. AfterChain(h, layers, s, 0)
    BY DEF AfterChain
  <2> HIDE DEF h
  <2> QED BY <2>1
<1>2. ASSUME NEW n \in 0 .. N - 1, n \in T PROVE n + 1 \in T
  <2>1. PICK f : AfterChain(f, layers, s, n)
    BY <1>2
  <2> DEFINE y == ShapeOfLayer(layers[n + 1], f[n])
             g == Longer(f, n, y)
  <2> HIDE DEF y
  <2>2. /\ g[0] = f[0] /\ \A i \in 1 .. n : g[i] = f[i] /\ g[i - 1] = f[i - 1]
        /\ g[n + 1] = y /\ g[n] = f[n] /\ n + 1 - 1 = n
        /\ \A i \in 1 .. n + 1 : i \in 1 .. n \/ i = n + 1
    BY LongerIs
  <2> HIDE DEF g
  <2>3. ASSUME NEW i \in 1 .. n + 1 PROVE g[i] = ShapeOfLayer(layers[i], g[i - 1])
    <3>1. CASE i \in 1 .. n
      BY <2>1, <2>2, <3>1 DEF AfterChain
    <3>2. CASE i = n + 1
      BY <2>2, <3>2 DEF y
    <3> QED BY <2>2, <3>1, <3>2
  <2>4. AfterChain(g, layers, s, n + 1)
    BY <2>1, <2>2, <2>3 DEF AfterChain
  <2> QED BY <2>4
<1> HIDE DEF T
<1>3. N \in T
  BY <1>1, <1>2, SetInduction
<1>4. PICK f : AfterChain(f, layers, s, N)
  BY <1>3 DEF T
<1> DEFINE h == [i \in 0 .. N |-> f[i]]
<1>5. \A i \in 0 .. N : h[i] = f[i] /\ (i # 0 => i \in 1 .. N /\ h[i - 1] = f[i - 1])
  OBVIOUS
<1>6. \A i \in 0 .. N : h[i] = IF i = 0 THEN s ELSE ShapeOfLayer(layers[i], h[i - 1])
  BY <1>4, <1>5 DEF AfterChain
<1>7. h = [i \in 0 .. N |-> h[i]]
  OBVIOUS
<1> HIDE DEF h
<1>8. AfterTo(h, layers, s, N)
  BY <1>6, <1>7 DEF AfterTo
<1>9. ASSUME NEW g, AfterTo(g, layers, s, N) PROVE AfterChain(g, layers, s, N)
  <2>1. \A i \in 0 .. N : g[i] = IF i = 0 THEN s ELSE ShapeOfLayer(layers[i], g[i - 1])
    BY <1>9 DEF AfterTo
  <2> QED BY <2>1 DEF AfterChain
<1>10. ASSUME NEW g, NEW k, AfterChain(g, layers, s, N), AfterChain(k, layers, s, N) PROVE \A n \in 0 .. N : g[n] = k[n]
  <2> DEFINE U == {n \in 0 .. N : g[n] = k[n]}
  <2>1. 0 \in U
    BY <1>10 DEF AfterChain
  <2>2. ASSUME NEW n \in 0 .. N - 1, n \in U PROVE n + 1 \in U
    <3>1. n + 1 \in 1 .. N /\ n + 1 \in 0 .. N /\ n + 1 - 1 = n /\ g[n] = k[n]
      BY <2>2
    <3>2. g[n + 1] = ShapeOfLayer(layers[(n + 1)], g[(n + 1) - 1]) /\ k[n + 1] = ShapeOfLayer(layers[(n + 1)], k[(n + 1) - 1])
      BY <1>10, <3>1 DEF AfterChain
    <3> QED BY <3>1, <3>2
  <2> HIDE DEF U
  <2>3. \A n \in 0 .. N : n \in U
    BY <2>1, <2>2, SetInduction
  <2> QED BY <2>3 DEF U
<1> QED BY <1>8, <1>9, <1>10

LEMMA AfterIs ==
  ASSUME NEW layers, NEW s, Len(layers) \in Nat
  PROVE  /\ \E f : AfterChain(f, layers, s, Len(layers))
         /\ \A f : AfterChain(f, layers, s, Len(layers)) => ShapeAfter(layers, s) = f[Len(layers)]
<1> DEFINE w == CHOOSE f : AfterTo(f, layers, s, Len(layers))
<1>1. AfterTo(w, layers, s, Len(layers))
  <2>1. \E f : AfterTo(f, layers, s, Len(layers))
    BY AfterExists
  <2> QED BY <2>1
<1>2. ShapeAfter(layers, s) = w[Len(layers)]
  BY DEF ShapeAfter, AfterTo
<1> HIDE DEF w
<1>3. AfterChain(w, layers, s, Len(layers))
  BY <1>1, AfterExists
<1>4. ASSUME NEW f, AfterChain(f, layers, s, Len(layers)) PROVE f[Len(layers)] = w[Len(layers)]
  <2>1. Len(layers) \in 0 .. Len(layers)
    OBVIOUS
  <2> DEFINE N == Len(layers)
  <2>2. N \in Nat /\ AfterChain(f, layers, s, N) /\ AfterChain(w, layers, s, N)
    BY <1>3, <1>4
  <2> HIDE DEF N
  <2>3. \A n \in 0 .. N : f[n] = w[n]
    BY <2>2, AfterExists, Z3
  <2> QED BY <2>1, <2>3 DEF N
<1> QED BY <1>2, <1>3, <1>4


\* f[n] is the length after n layers.
LengthChain(f, layers, s, n) == f[0] = s /\ \A i \in 1 .. n : f[i] = LengthAfter(layers[i], f[i - 1])
LengthTo(f, layers, s, n) == f = [i \in 0 .. n |-> IF i = 0 THEN s ELSE LengthAfter(layers[i], f[i - 1])]

LEMMA LengthExists ==
  ASSUME NEW layers, NEW s, NEW N \in Nat
  PROVE  /\ \E f : LengthTo(f, layers, s, N)
         /\ \A f : LengthTo(f, layers, s, N) => LengthChain(f, layers, s, N)
         /\ \A f, g : LengthChain(f, layers, s, N) /\ LengthChain(g, layers, s, N) => \A n \in 0 .. N : f[n] = g[n]
<1> DEFINE T == {n \in 0 .. N : \E f : LengthChain(f, layers, s, n)}
<1>1. 0 \in T
  <2> DEFINE h == [i \in 0 .. 0 |-> s]
  <2>1. LengthChain(h, layers, s, 0)
    BY DEF LengthChain
  <2> HIDE DEF h
  <2> QED BY <2>1
<1>2. ASSUME NEW n \in 0 .. N - 1, n \in T PROVE n + 1 \in T
  <2>1. PICK f : LengthChain(f, layers, s, n)
    BY <1>2
  <2> DEFINE y == LengthAfter(layers[n + 1], f[n])
             g == Longer(f, n, y)
  <2> HIDE DEF y
  <2>2. /\ g[0] = f[0] /\ \A i \in 1 .. n : g[i] = f[i] /\ g[i - 1] = f[i - 1]
        /\ g[n + 1] = y /\ g[n] = f[n] /\ n + 1 - 1 = n
        /\ \A i \in 1 .. n + 1 : i \in 1 .. n \/ i = n + 1
    BY LongerIs
  <2> HIDE DEF g
  <2>3. ASSUME NEW i \in 1 .. n + 1 PROVE g[i] = LengthAfter(layers[i], g[i - 1])
    <3>1. CASE i \in 1 .. n
      BY <2>1, <2>2, <3>1 DEF LengthChain
    <3>2. CASE i = n + 1
      BY <2>2, <3>2 DEF y
    <3> QED BY <2>2, <3>1, <3>2
  <2>4. LengthChain(g, layers, s, n + 1)
    BY <2>1, <2>2, <2>3 DEF LengthChain
  <2> QED BY <2>4
<1> HIDE DEF T
<1>3. N \in T
  BY <1>1, <1>2, SetInduction
<1>4. PICK f : LengthChain(f, layers, s, N)
  BY <1>3 DEF T
<1> DEFINE h == [i \in 0 .. N |-> f[i]]
<1>5. \A i \in 0 .. N : h[i] = f[i] /\ (i # 0 => i \in 1 .. N /\ h[i - 1] = f[i - 1])
  OBVIOUS
<1>6. \A i \in 0 .. N : h[i] = IF i = 0 THEN s ELSE LengthAfter(layers[i], h[i - 1])
  BY <1>4, <1>5 DEF LengthChain
<1>7. h = [i \in 0 .. N |-> h[i]]
  OBVIOUS
<1> HIDE DEF h
<1>8. LengthTo(h, layers, s, N)
  BY <1>6, <1>7 DEF LengthTo
<1>9. ASSUME NEW g, LengthTo(g, layers, s, N) PROVE LengthChain(g, layers, s, N)
  <2>1. \A i \in 0 .. N : g[i] = IF i = 0 THEN s ELSE LengthAfter(layers[i], g[i - 1])
    BY <1>9 DEF LengthTo
  <2> QED BY <2>1 DEF LengthChain
<1>10. ASSUME NEW g, NEW k, LengthChain(g, layers, s, N), LengthChain(k, layers, s, N) PROVE \A n \in 0 .. N : g[n] = k[n]
  <2> DEFINE U == {n \in 0 .. N : g[n] = k[n]}
  <2>1. 0 \in U
    BY <1>10 DEF LengthChain
  <2>2. ASSUME NEW n \in 0 .. N - 1, n \in U PROVE n + 1 \in U
    <3>1. n + 1 \in 1 .. N /\ n + 1 \in 0 .. N /\ n + 1 - 1 = n /\ g[n] = k[n]
      BY <2>2
    <3>2. g[n + 1] = LengthAfter(layers[(n + 1)], g[(n + 1) - 1]) /\ k[n + 1] = LengthAfter(layers[(n + 1)], k[(n + 1) - 1])
      BY <1>10, <3>1 DEF LengthChain
    <3> QED BY <3>1, <3>2
  <2> HIDE DEF U
  <2>3. \A n \in 0 .. N : n \in U
    BY <2>1, <2>2, SetInduction
  <2> QED BY <2>3 DEF U
<1> QED BY <1>8, <1>9, <1>10

LEMMA LengthIs ==
  ASSUME NEW layers, NEW s, Len(layers) \in Nat
  PROVE  /\ \E f : LengthChain(f, layers, s, Len(layers))
         /\ \A f : LengthChain(f, layers, s, Len(layers)) => LengthThrough(layers, s) = f[Len(layers)]
<1> DEFINE w == CHOOSE f : LengthTo(f, layers, s, Len(layers))
<1>1. LengthTo(w, layers, s, Len(layers))
  <2>1. \E f : LengthTo(f, layers, s, Len(layers))
    BY LengthExists
  <2> QED BY <2>1
<1>2. LengthThrough(layers, s) = w[Len(layers)]
  BY DEF LengthThrough, LengthTo
<1> HIDE DEF w
<1>3. LengthChain(w, layers, s, Len(layers))
  BY <1>1, LengthExists
<1>4. ASSUME NEW f, LengthChain(f, layers, s, Len(layers)) PROVE f[Len(layers)] = w[Len(layers)]
  <2>1. Len(layers) \in 0 .. Len(layers)
    OBVIOUS
  <2> DEFINE N == Len(layers)
  <2>2. N \in Nat /\ LengthChain(f, layers, s, N) /\ LengthChain(w, layers, s, N)
    BY <1>3, <1>4
  <2> HIDE DEF N
  <2>3. \A n \in 0 .. N : f[n] = w[n]
    BY <2>2, LengthExists, Z3
  <2> QED BY <2>1, <2>3 DEF N
<1> QED BY <1>2, <1>3, <1>4


\* f[n] is the encoder after n levels.
EncoderChain(f, c, lat, n) == f[0] = EncoderInput(c, lat) /\ \A i \in 1 .. n : f[i] = EncoderLevel(c, f[i - 1], i)
EncoderTo(f, c, lat, n) == f = [i \in 0 .. n |-> IF i = 0 THEN EncoderInput(c, lat) ELSE EncoderLevel(c, f[i - 1], i)]

LEMMA EncoderExists ==
  ASSUME NEW c, NEW lat, NEW N \in Nat
  PROVE  /\ \E f : EncoderTo(f, c, lat, N)
         /\ \A f : EncoderTo(f, c, lat, N) => EncoderChain(f, c, lat, N)
         /\ \A f, g : EncoderChain(f, c, lat, N) /\ EncoderChain(g, c, lat, N) => \A n \in 0 .. N : f[n] = g[n]
<1> DEFINE T == {n \in 0 .. N : \E f : EncoderChain(f, c, lat, n)}
<1>1. 0 \in T
  <2> DEFINE h == [i \in 0 .. 0 |-> EncoderInput(c, lat)]
  <2>1. EncoderChain(h, c, lat, 0)
    BY DEF EncoderChain
  <2> HIDE DEF h
  <2> QED BY <2>1
<1>2. ASSUME NEW n \in 0 .. N - 1, n \in T PROVE n + 1 \in T
  <2>1. PICK f : EncoderChain(f, c, lat, n)
    BY <1>2
  <2> DEFINE y == EncoderLevel(c, f[n], n + 1)
             g == Longer(f, n, y)
  <2> HIDE DEF y
  <2>2. /\ g[0] = f[0] /\ \A i \in 1 .. n : g[i] = f[i] /\ g[i - 1] = f[i - 1]
        /\ g[n + 1] = y /\ g[n] = f[n] /\ n + 1 - 1 = n
        /\ \A i \in 1 .. n + 1 : i \in 1 .. n \/ i = n + 1
    BY LongerIs
  <2> HIDE DEF g
  <2>3. ASSUME NEW i \in 1 .. n + 1 PROVE g[i] = EncoderLevel(c, g[i - 1], i)
    <3>1. CASE i \in 1 .. n
      BY <2>1, <2>2, <3>1 DEF EncoderChain
    <3>2. CASE i = n + 1
      BY <2>2, <3>2 DEF y
    <3> QED BY <2>2, <3>1, <3>2
  <2>4. EncoderChain(g, c, lat, n + 1)
    BY <2>1, <2>2, <2>3 DEF EncoderChain
  <2> QED BY <2>4
<1> HIDE DEF T
<1>3. N \in T
  BY <1>1, <1>2, SetInduction
<1>4. PICK f : EncoderChain(f, c, lat, N)
  BY <1>3 DEF T
<1> DEFINE h == [i \in 0 .. N |-> f[i]]
<1>5. \A i \in 0 .. N : h[i] = f[i] /\ (i # 0 => i \in 1 .. N /\ h[i - 1] = f[i - 1])
  OBVIOUS
<1>6. \A i \in 0 .. N : h[i] = IF i = 0 THEN EncoderInput(c, lat) ELSE EncoderLevel(c, h[i - 1], i)
  BY <1>4, <1>5 DEF EncoderChain
<1>7. h = [i \in 0 .. N |-> h[i]]
  OBVIOUS
<1> HIDE DEF h
<1>8. EncoderTo(h, c, lat, N)
  BY <1>6, <1>7 DEF EncoderTo
<1>9. ASSUME NEW g, EncoderTo(g, c, lat, N) PROVE EncoderChain(g, c, lat, N)
  <2>1. \A i \in 0 .. N : g[i] = IF i = 0 THEN EncoderInput(c, lat) ELSE EncoderLevel(c, g[i - 1], i)
    BY <1>9 DEF EncoderTo
  <2> QED BY <2>1 DEF EncoderChain
<1>10. ASSUME NEW g, NEW k, EncoderChain(g, c, lat, N), EncoderChain(k, c, lat, N) PROVE \A n \in 0 .. N : g[n] = k[n]
  <2> DEFINE U == {n \in 0 .. N : g[n] = k[n]}
  <2>1. 0 \in U
    BY <1>10 DEF EncoderChain
  <2>2. ASSUME NEW n \in 0 .. N - 1, n \in U PROVE n + 1 \in U
    <3>1. n + 1 \in 1 .. N /\ n + 1 \in 0 .. N /\ n + 1 - 1 = n /\ g[n] = k[n]
      BY <2>2
    <3>2. g[n + 1] = EncoderLevel(c, g[(n + 1) - 1], (n + 1)) /\ k[n + 1] = EncoderLevel(c, k[(n + 1) - 1], (n + 1))
      BY <1>10, <3>1 DEF EncoderChain
    <3> QED BY <3>1, <3>2
  <2> HIDE DEF U
  <2>3. \A n \in 0 .. N : n \in U
    BY <2>1, <2>2, SetInduction
  <2> QED BY <2>3 DEF U
<1> QED BY <1>8, <1>9, <1>10

LEMMA EncoderIs ==
  ASSUME NEW c, NEW lat, Len(c.ratios) \in Nat
  PROVE  /\ \E f : EncoderChain(f, c, lat, Len(c.ratios))
         /\ \A f : EncoderChain(f, c, lat, Len(c.ratios)) => EncoderLevels(c, lat) = f[Len(c.ratios)]
<1> DEFINE w == CHOOSE f : EncoderTo(f, c, lat, Len(c.ratios))
<1>1. EncoderTo(w, c, lat, Len(c.ratios))
  <2>1. \E f : EncoderTo(f, c, lat, Len(c.ratios))
    BY EncoderExists
  <2> QED BY <2>1
<1>2. EncoderLevels(c, lat) = w[Len(c.ratios)]
  BY DEF EncoderLevels, EncoderTo
<1> HIDE DEF w
<1>3. EncoderChain(w, c, lat, Len(c.ratios))
  BY <1>1, EncoderExists
<1>4. ASSUME NEW f, EncoderChain(f, c, lat, Len(c.ratios)) PROVE f[Len(c.ratios)] = w[Len(c.ratios)]
  <2>1. Len(c.ratios) \in 0 .. Len(c.ratios)
    OBVIOUS
  <2> DEFINE N == Len(c.ratios)
  <2>2. N \in Nat /\ EncoderChain(f, c, lat, N) /\ EncoderChain(w, c, lat, N)
    BY <1>3, <1>4
  <2> HIDE DEF N
  <2>3. \A n \in 0 .. N : f[n] = w[n]
    BY <2>2, EncoderExists, Z3
  <2> QED BY <2>1, <2>3 DEF N
<1> QED BY <1>2, <1>3, <1>4


\* f[n] is the decoder after n levels.
DecoderStep(c, acc, n) == DecoderLevel(c, acc, Len(c.ratios) + 1 - n)
DecoderChain(f, c, start, n) == f[0] = start /\ \A i \in 1 .. n : f[i] = DecoderStep(c, f[i - 1], i)
DecoderTo(f, c, start, n) == f = [i \in 0 .. n |-> IF i = 0 THEN start ELSE DecoderStep(c, f[i - 1], i)]

LEMMA DecoderExists ==
  ASSUME NEW c, NEW start, NEW N \in Nat
  PROVE  /\ \E f : DecoderTo(f, c, start, N)
         /\ \A f : DecoderTo(f, c, start, N) => DecoderChain(f, c, start, N)
         /\ \A f, g : DecoderChain(f, c, start, N) /\ DecoderChain(g, c, start, N) => \A n \in 0 .. N : f[n] = g[n]
<1> DEFINE T == {n \in 0 .. N : \E f : DecoderChain(f, c, start, n)}
<1>1. 0 \in T
  <2> DEFINE h == [i \in 0 .. 0 |-> start]
  <2>1. DecoderChain(h, c, start, 0)
    BY DEF DecoderChain
  <2> HIDE DEF h
  <2> QED BY <2>1
<1>2. ASSUME NEW n \in 0 .. N - 1, n \in T PROVE n + 1 \in T
  <2>1. PICK f : DecoderChain(f, c, start, n)
    BY <1>2
  <2> DEFINE y == DecoderStep(c, f[n], n + 1)
             g == Longer(f, n, y)
  <2> HIDE DEF y
  <2>2. /\ g[0] = f[0] /\ \A i \in 1 .. n : g[i] = f[i] /\ g[i - 1] = f[i - 1]
        /\ g[n + 1] = y /\ g[n] = f[n] /\ n + 1 - 1 = n
        /\ \A i \in 1 .. n + 1 : i \in 1 .. n \/ i = n + 1
    BY LongerIs
  <2> HIDE DEF g
  <2>3. ASSUME NEW i \in 1 .. n + 1 PROVE g[i] = DecoderStep(c, g[i - 1], i)
    <3>1. CASE i \in 1 .. n
      BY <2>1, <2>2, <3>1 DEF DecoderChain
    <3>2. CASE i = n + 1
      BY <2>2, <3>2 DEF y
    <3> QED BY <2>2, <3>1, <3>2
  <2>4. DecoderChain(g, c, start, n + 1)
    BY <2>1, <2>2, <2>3 DEF DecoderChain
  <2> QED BY <2>4
<1> HIDE DEF T
<1>3. N \in T
  BY <1>1, <1>2, SetInduction
<1>4. PICK f : DecoderChain(f, c, start, N)
  BY <1>3 DEF T
<1> DEFINE h == [i \in 0 .. N |-> f[i]]
<1>5. \A i \in 0 .. N : h[i] = f[i] /\ (i # 0 => i \in 1 .. N /\ h[i - 1] = f[i - 1])
  OBVIOUS
<1>6. \A i \in 0 .. N : h[i] = IF i = 0 THEN start ELSE DecoderStep(c, h[i - 1], i)
  BY <1>4, <1>5 DEF DecoderChain
<1>7. h = [i \in 0 .. N |-> h[i]]
  OBVIOUS
<1> HIDE DEF h
<1>8. DecoderTo(h, c, start, N)
  BY <1>6, <1>7 DEF DecoderTo
<1>9. ASSUME NEW g, DecoderTo(g, c, start, N) PROVE DecoderChain(g, c, start, N)
  <2>1. \A i \in 0 .. N : g[i] = IF i = 0 THEN start ELSE DecoderStep(c, g[i - 1], i)
    BY <1>9 DEF DecoderTo
  <2> QED BY <2>1 DEF DecoderChain
<1>10. ASSUME NEW g, NEW k, DecoderChain(g, c, start, N), DecoderChain(k, c, start, N) PROVE \A n \in 0 .. N : g[n] = k[n]
  <2> DEFINE U == {n \in 0 .. N : g[n] = k[n]}
  <2>1. 0 \in U
    BY <1>10 DEF DecoderChain
  <2>2. ASSUME NEW n \in 0 .. N - 1, n \in U PROVE n + 1 \in U
    <3>1. n + 1 \in 1 .. N /\ n + 1 \in 0 .. N /\ n + 1 - 1 = n /\ g[n] = k[n]
      BY <2>2
    <3>2. g[n + 1] = DecoderStep(c, g[(n + 1) - 1], (n + 1)) /\ k[n + 1] = DecoderStep(c, k[(n + 1) - 1], (n + 1))
      BY <1>10, <3>1 DEF DecoderChain
    <3> QED BY <3>1, <3>2
  <2> HIDE DEF U
  <2>3. \A n \in 0 .. N : n \in U
    BY <2>1, <2>2, SetInduction
  <2> QED BY <2>3 DEF U
<1> QED BY <1>8, <1>9, <1>10

LEMMA DecoderIs ==
  ASSUME NEW c, NEW start, Len(c.ratios) \in Nat
  PROVE  /\ \E f : DecoderChain(f, c, start, Len(c.ratios))
         /\ \A f : DecoderChain(f, c, start, Len(c.ratios)) => DecoderLevels(c, start) = f[Len(c.ratios)]
<1> DEFINE w == CHOOSE f : DecoderTo(f, c, start, Len(c.ratios))
<1>1. DecoderTo(w, c, start, Len(c.ratios))
  <2>1. \E f : DecoderTo(f, c, start, Len(c.ratios))
    BY DecoderExists
  <2> QED BY <2>1
<1>2. DecoderLevels(c, start) = w[Len(c.ratios)]
  BY DEF DecoderLevels, DecoderTo, DecoderStep
<1> HIDE DEF w
<1>3. DecoderChain(w, c, start, Len(c.ratios))
  BY <1>1, DecoderExists
<1>4. ASSUME NEW f, DecoderChain(f, c, start, Len(c.ratios)) PROVE f[Len(c.ratios)] = w[Len(c.ratios)]
  <2>1. Len(c.ratios) \in 0 .. Len(c.ratios)
    OBVIOUS
  <2> DEFINE N == Len(c.ratios)
  <2>2. N \in Nat /\ DecoderChain(f, c, start, N) /\ DecoderChain(w, c, start, N)
    BY <1>3, <1>4
  <2> HIDE DEF N
  <2>3. \A n \in 0 .. N : f[n] = w[n]
    BY <2>2, DecoderExists, Z3
  <2> QED BY <2>1, <2>3 DEF N
<1> QED BY <1>2, <1>3, <1>4


\* f[n] is what n quantizers have made.
GreedyChain(f, q, x, n) == f[0] = [codes |-> <<>>, residual |-> x] /\ \A i \in 1 .. n : f[i] = TakenNearest(f[i - 1], q.books[i])
GreedyTo(f, q, x, n) == f = [i \in 0 .. n |-> IF i = 0 THEN [codes |-> <<>>, residual |-> x] ELSE TakenNearest(f[i - 1], q.books[i])]

LEMMA GreedyExists ==
  ASSUME NEW q, NEW x, NEW N \in Nat
  PROVE  /\ \E f : GreedyTo(f, q, x, N)
         /\ \A f : GreedyTo(f, q, x, N) => GreedyChain(f, q, x, N)
         /\ \A f, g : GreedyChain(f, q, x, N) /\ GreedyChain(g, q, x, N) => \A n \in 0 .. N : f[n] = g[n]
<1> DEFINE T == {n \in 0 .. N : \E f : GreedyChain(f, q, x, n)}
<1>1. 0 \in T
  <2> DEFINE h == [i \in 0 .. 0 |-> [codes |-> <<>>, residual |-> x]]
  <2>1. GreedyChain(h, q, x, 0)
    BY DEF GreedyChain
  <2> HIDE DEF h
  <2> QED BY <2>1
<1>2. ASSUME NEW n \in 0 .. N - 1, n \in T PROVE n + 1 \in T
  <2>1. PICK f : GreedyChain(f, q, x, n)
    BY <1>2
  <2> DEFINE y == TakenNearest(f[n], q.books[n + 1])
             g == Longer(f, n, y)
  <2> HIDE DEF y
  <2>2. /\ g[0] = f[0] /\ \A i \in 1 .. n : g[i] = f[i] /\ g[i - 1] = f[i - 1]
        /\ g[n + 1] = y /\ g[n] = f[n] /\ n + 1 - 1 = n
        /\ \A i \in 1 .. n + 1 : i \in 1 .. n \/ i = n + 1
    BY LongerIs
  <2> HIDE DEF g
  <2>3. ASSUME NEW i \in 1 .. n + 1 PROVE g[i] = TakenNearest(g[i - 1], q.books[i])
    <3>1. CASE i \in 1 .. n
      BY <2>1, <2>2, <3>1 DEF GreedyChain
    <3>2. CASE i = n + 1
      BY <2>2, <3>2 DEF y
    <3> QED BY <2>2, <3>1, <3>2
  <2>4. GreedyChain(g, q, x, n + 1)
    BY <2>1, <2>2, <2>3 DEF GreedyChain
  <2> QED BY <2>4
<1> HIDE DEF T
<1>3. N \in T
  BY <1>1, <1>2, SetInduction
<1>4. PICK f : GreedyChain(f, q, x, N)
  BY <1>3 DEF T
<1> DEFINE h == [i \in 0 .. N |-> f[i]]
<1>5. \A i \in 0 .. N : h[i] = f[i] /\ (i # 0 => i \in 1 .. N /\ h[i - 1] = f[i - 1])
  OBVIOUS
<1>6. \A i \in 0 .. N : h[i] = IF i = 0 THEN [codes |-> <<>>, residual |-> x] ELSE TakenNearest(h[i - 1], q.books[i])
  BY <1>4, <1>5 DEF GreedyChain
<1>7. h = [i \in 0 .. N |-> h[i]]
  OBVIOUS
<1> HIDE DEF h
<1>8. GreedyTo(h, q, x, N)
  BY <1>6, <1>7 DEF GreedyTo
<1>9. ASSUME NEW g, GreedyTo(g, q, x, N) PROVE GreedyChain(g, q, x, N)
  <2>1. \A i \in 0 .. N : g[i] = IF i = 0 THEN [codes |-> <<>>, residual |-> x] ELSE TakenNearest(g[i - 1], q.books[i])
    BY <1>9 DEF GreedyTo
  <2> QED BY <2>1 DEF GreedyChain
<1>10. ASSUME NEW g, NEW k, GreedyChain(g, q, x, N), GreedyChain(k, q, x, N) PROVE \A n \in 0 .. N : g[n] = k[n]
  <2> DEFINE U == {n \in 0 .. N : g[n] = k[n]}
  <2>1. 0 \in U
    BY <1>10 DEF GreedyChain
  <2>2. ASSUME NEW n \in 0 .. N - 1, n \in U PROVE n + 1 \in U
    <3>1. n + 1 \in 1 .. N /\ n + 1 \in 0 .. N /\ n + 1 - 1 = n /\ g[n] = k[n]
      BY <2>2
    <3>2. g[n + 1] = TakenNearest(g[(n + 1) - 1], q.books[(n + 1)]) /\ k[n + 1] = TakenNearest(k[(n + 1) - 1], q.books[(n + 1)])
      BY <1>10, <3>1 DEF GreedyChain
    <3> QED BY <3>1, <3>2
  <2> HIDE DEF U
  <2>3. \A n \in 0 .. N : n \in U
    BY <2>1, <2>2, SetInduction
  <2> QED BY <2>3 DEF U
<1> QED BY <1>8, <1>9, <1>10

LEMMA GreedyIs ==
  ASSUME NEW q, NEW x, NEW m, m \in Nat
  PROVE  /\ \E f : GreedyChain(f, q, x, m)
         /\ \A f : GreedyChain(f, q, x, m) => Greedy(q, x, m) = f[m].codes
<1> DEFINE w == CHOOSE f : GreedyTo(f, q, x, m)
<1>1. GreedyTo(w, q, x, m)
  <2>1. \E f : GreedyTo(f, q, x, m)
    BY GreedyExists
  <2> QED BY <2>1
<1>2. Greedy(q, x, m) = w[m].codes
  BY DEF Greedy, GreedyTo
<1> HIDE DEF w
<1>3. GreedyChain(w, q, x, m)
  BY <1>1, GreedyExists
<1>4. ASSUME NEW f, GreedyChain(f, q, x, m) PROVE f[m] = w[m]
  <2>1. m \in 0 .. m
    OBVIOUS
  <2> DEFINE N == m
  <2>2. N \in Nat /\ GreedyChain(f, q, x, N) /\ GreedyChain(w, q, x, N)
    BY <1>3, <1>4
  <2> HIDE DEF N
  <2>3. \A n \in 0 .. N : f[n] = w[n]
    BY <2>2, GreedyExists, Z3
  <2> QED BY <2>1, <2>3 DEF N
<1> QED BY <1>2, <1>3, <1>4


\* The same in the JAX quantizer.
JaxGreedyChain(f, q, x, n) == f[0] = [codes |-> <<>>, sum |-> 0, residual |-> x] /\ \A i \in 1 .. n : f[i] = JaxTakenNearest(f[i - 1], q.books[i])
JaxGreedyTo(f, q, x, n) == f = [i \in 0 .. n |-> IF i = 0 THEN [codes |-> <<>>, sum |-> 0, residual |-> x] ELSE JaxTakenNearest(f[i - 1], q.books[i])]

LEMMA JaxGreedyExists ==
  ASSUME NEW q, NEW x, NEW N \in Nat
  PROVE  /\ \E f : JaxGreedyTo(f, q, x, N)
         /\ \A f : JaxGreedyTo(f, q, x, N) => JaxGreedyChain(f, q, x, N)
         /\ \A f, g : JaxGreedyChain(f, q, x, N) /\ JaxGreedyChain(g, q, x, N) => \A n \in 0 .. N : f[n] = g[n]
<1> DEFINE T == {n \in 0 .. N : \E f : JaxGreedyChain(f, q, x, n)}
<1>1. 0 \in T
  <2> DEFINE h == [i \in 0 .. 0 |-> [codes |-> <<>>, sum |-> 0, residual |-> x]]
  <2>1. JaxGreedyChain(h, q, x, 0)
    BY DEF JaxGreedyChain
  <2> HIDE DEF h
  <2> QED BY <2>1
<1>2. ASSUME NEW n \in 0 .. N - 1, n \in T PROVE n + 1 \in T
  <2>1. PICK f : JaxGreedyChain(f, q, x, n)
    BY <1>2
  <2> DEFINE y == JaxTakenNearest(f[n], q.books[n + 1])
             g == Longer(f, n, y)
  <2> HIDE DEF y
  <2>2. /\ g[0] = f[0] /\ \A i \in 1 .. n : g[i] = f[i] /\ g[i - 1] = f[i - 1]
        /\ g[n + 1] = y /\ g[n] = f[n] /\ n + 1 - 1 = n
        /\ \A i \in 1 .. n + 1 : i \in 1 .. n \/ i = n + 1
    BY LongerIs
  <2> HIDE DEF g
  <2>3. ASSUME NEW i \in 1 .. n + 1 PROVE g[i] = JaxTakenNearest(g[i - 1], q.books[i])
    <3>1. CASE i \in 1 .. n
      BY <2>1, <2>2, <3>1 DEF JaxGreedyChain
    <3>2. CASE i = n + 1
      BY <2>2, <3>2 DEF y
    <3> QED BY <2>2, <3>1, <3>2
  <2>4. JaxGreedyChain(g, q, x, n + 1)
    BY <2>1, <2>2, <2>3 DEF JaxGreedyChain
  <2> QED BY <2>4
<1> HIDE DEF T
<1>3. N \in T
  BY <1>1, <1>2, SetInduction
<1>4. PICK f : JaxGreedyChain(f, q, x, N)
  BY <1>3 DEF T
<1> DEFINE h == [i \in 0 .. N |-> f[i]]
<1>5. \A i \in 0 .. N : h[i] = f[i] /\ (i # 0 => i \in 1 .. N /\ h[i - 1] = f[i - 1])
  OBVIOUS
<1>6. \A i \in 0 .. N : h[i] = IF i = 0 THEN [codes |-> <<>>, sum |-> 0, residual |-> x] ELSE JaxTakenNearest(h[i - 1], q.books[i])
  BY <1>4, <1>5 DEF JaxGreedyChain
<1>7. h = [i \in 0 .. N |-> h[i]]
  OBVIOUS
<1> HIDE DEF h
<1>8. JaxGreedyTo(h, q, x, N)
  BY <1>6, <1>7 DEF JaxGreedyTo
<1>9. ASSUME NEW g, JaxGreedyTo(g, q, x, N) PROVE JaxGreedyChain(g, q, x, N)
  <2>1. \A i \in 0 .. N : g[i] = IF i = 0 THEN [codes |-> <<>>, sum |-> 0, residual |-> x] ELSE JaxTakenNearest(g[i - 1], q.books[i])
    BY <1>9 DEF JaxGreedyTo
  <2> QED BY <2>1 DEF JaxGreedyChain
<1>10. ASSUME NEW g, NEW k, JaxGreedyChain(g, q, x, N), JaxGreedyChain(k, q, x, N) PROVE \A n \in 0 .. N : g[n] = k[n]
  <2> DEFINE U == {n \in 0 .. N : g[n] = k[n]}
  <2>1. 0 \in U
    BY <1>10 DEF JaxGreedyChain
  <2>2. ASSUME NEW n \in 0 .. N - 1, n \in U PROVE n + 1 \in U
    <3>1. n + 1 \in 1 .. N /\ n + 1 \in 0 .. N /\ n + 1 - 1 = n /\ g[n] = k[n]
      BY <2>2
    <3>2. g[n + 1] = JaxTakenNearest(g[(n + 1) - 1], q.books[(n + 1)]) /\ k[n + 1] = JaxTakenNearest(k[(n + 1) - 1], q.books[(n + 1)])
      BY <1>10, <3>1 DEF JaxGreedyChain
    <3> QED BY <3>1, <3>2
  <2> HIDE DEF U
  <2>3. \A n \in 0 .. N : n \in U
    BY <2>1, <2>2, SetInduction
  <2> QED BY <2>3 DEF U
<1> QED BY <1>8, <1>9, <1>10

LEMMA JaxGreedyIs ==
  ASSUME NEW q, NEW x, NEW m, m \in Nat
  PROVE  /\ \E f : JaxGreedyChain(f, q, x, m)
         /\ \A f : JaxGreedyChain(f, q, x, m) => JaxGreedy(q, x, m) = f[m]
<1> DEFINE w == CHOOSE f : JaxGreedyTo(f, q, x, m)
<1>1. JaxGreedyTo(w, q, x, m)
  <2>1. \E f : JaxGreedyTo(f, q, x, m)
    BY JaxGreedyExists
  <2> QED BY <2>1
<1>2. JaxGreedy(q, x, m) = w[m]
  BY DEF JaxGreedy, JaxGreedyTo
<1> HIDE DEF w
<1>3. JaxGreedyChain(w, q, x, m)
  BY <1>1, JaxGreedyExists
<1>4. ASSUME NEW f, JaxGreedyChain(f, q, x, m) PROVE f[m] = w[m]
  <2>1. m \in 0 .. m
    OBVIOUS
  <2> DEFINE N == m
  <2>2. N \in Nat /\ JaxGreedyChain(f, q, x, N) /\ JaxGreedyChain(w, q, x, N)
    BY <1>3, <1>4
  <2> HIDE DEF N
  <2>3. \A n \in 0 .. N : f[n] = w[n]
    BY <2>2, JaxGreedyExists, Z3
  <2> QED BY <2>1, <2>3 DEF N
<1> QED BY <1>2, <1>3, <1>4


--------------------------------------------------------------------------------
(* Sums.                                                                   *)

\* s is a sequence, of anything.
List(s) == Len(s) \in Nat /\ s = [i \in 1 .. Len(s) |-> s[i]]
Total(z, n) == SumOf([i \in 1 .. n |-> z[i]])

LEMMA AppendIs ==
  ASSUME NEW s, List(s), NEW x
  PROVE  /\ Append(s, x) = [i \in 1 .. Len(s) + 1 |-> IF i <= Len(s) THEN s[i] ELSE x]
         /\ Len(Append(s, x)) = Len(s) + 1 /\ List(Append(s, x))
<1> DEFINE n == Len(s)  S == {s[i] : i \in 1 .. n} \cup {x}
           e == [i \in 1 .. n + 1 |-> IF i <= n THEN s[i] ELSE x]
<1>0. n \in Nat /\ s = [i \in 1 .. n |-> s[i]]
  BY DEF List
<1> HIDE DEF n
<1>1. s \in [1 .. n -> S]
  BY <1>0
<1>2. s \in Seq(S) /\ Len(s) = n /\ x \in S
  BY <1>0, <1>1 DEF n
<1>3. Append(s, x) \in Seq(S) /\ Len(Append(s, x)) = n + 1 /\ Append(s, x)[n + 1] = x
      /\ \A i \in 1 .. n : Append(s, x)[i] = s[i]
  BY <1>2
<1>4. e \in Seq(S) /\ Len(e) = n + 1
  <2>1. e \in [1 .. n + 1 -> S]
    BY <1>0
  <2> HIDE DEF e
  <2> QED BY <1>0, <2>1
<1>5. \A i \in 1 .. n + 1 : e[i] = Append(s, x)[i]
  <2>1. \A i \in 1 .. n + 1 : i \in 1 .. n \/ i = n + 1
    BY <1>0
  <2>2. \A i \in 1 .. n : i \in 1 .. n + 1 /\ i <= n
    BY <1>0
  <2>3. n + 1 \in 1 .. n + 1 /\ ~(n + 1 <= n)
    BY <1>0
  <2> QED BY <1>3, <2>1, <2>2, <2>3
<1>6. e = [i \in 1 .. n + 1 |-> e[i]]
  OBVIOUS
<1> HIDE DEF e, S
<1>7. Append(s, x) = e
  BY <1>3, <1>4, <1>5
<1> QED BY <1>2, <1>3, <1>4, <1>6, <1>7 DEF e, n, List

LEMMA SumStep ==
  ASSUME NEW z, NEW n \in Nat, \A i \in 1 .. n : z[i] \in Int
  PROVE  \A m \in 0 .. n :
           /\ Total(z, 0) = 0 /\ Total(z, m) \in Int
           /\ m > 0 => Total(z, m) = Total(z, m - 1) + z[m]
<1>1. PICK f : SumChain(f, z, n)
  <2>1. \E f : SumTo(f, z, n)
    BY SumExists
  <2> QED BY <2>1, SumExists
<1>2. ASSUME NEW m \in 0 .. n PROVE Total(z, m) = f[m]
  <2> DEFINE s == [i \in 1 .. m |-> z[i]]
  <2>1. Len(s) = m /\ \A i \in 1 .. m : s[i] = z[i] /\ i \in 1 .. n
    OBVIOUS
  <2> HIDE DEF s
  <2>2. SumChain(f, s, Len(s)) /\ Len(s) \in Nat
    BY <1>1, <2>1 DEF SumChain
  <2>3. SumOf(s) = f[Len(s)]
    BY <2>2, SumIs
  <2> QED BY <2>1, <2>3 DEF Total, s
<1> DEFINE T == {m \in 0 .. n : f[m] \in Int}
<1>3. \A m \in 0 .. n : m \in T
  <2>1. 0 \in T
    BY <1>1 DEF SumChain
  <2>2. ASSUME NEW m \in 0 .. n - 1, m \in T PROVE m + 1 \in T
    <3>1. m + 1 \in 1 .. n /\ m + 1 - 1 = m
      OBVIOUS
    <3> QED BY <1>1, <2>2, <3>1 DEF SumChain
  <2> HIDE DEF T
  <2> QED BY <2>1, <2>2, SetInduction
<1>4. ASSUME NEW m \in 0 .. n, m > 0 PROVE Total(z, m) = Total(z, m - 1) + z[m]
  <2>1. m \in 1 .. n /\ m - 1 \in 0 .. n
    BY <1>4
  <2> QED BY <1>1, <1>2, <2>1 DEF SumChain
<1> QED BY <1>1, <1>2, <1>3, <1>4 DEF SumChain

LEMMA SumSame ==
  ASSUME NEW y, NEW z, NEW n \in Nat, \A i \in 1 .. n : y[i] = z[i]
  PROVE  Total(y, n) = Total(z, n)
<1>1. [i \in 1 .. n |-> y[i]] = [i \in 1 .. n |-> z[i]]
  OBVIOUS
<1> QED BY <1>1 DEF Total

\* What is 0 after the first m elements adds up to those.
LEMMA SumPadded ==
  ASSUME NEW y, NEW z, NEW n \in Nat, NEW m \in 0 .. n, \A i \in 1 .. m : z[i] \in Int,
         \A i \in 1 .. n : y[i] = IF i <= m THEN z[i] ELSE 0
  PROVE  Total(y, n) = Total(z, m)
<1>1. \A i \in 1 .. n : y[i] \in Int
  <2>1. \A i \in 1 .. n : i <= m => i \in 1 .. m
    OBVIOUS
  <2> QED BY <2>1
<1>2. \A k \in 0 .. n : Total(y, 0) = 0 /\ Total(y, k) \in Int /\ (k > 0 => Total(y, k) = Total(y, k - 1) + y[k])
  BY <1>1, SumStep
<1>3. Total(y, m) = Total(z, m)
  <2>1. m \in Nat /\ \A i \in 1 .. m : i \in 1 .. n /\ i <= m
    OBVIOUS
  <2>2. \A i \in 1 .. m : y[i] = z[i]
    BY <2>1
  <2> QED BY <2>1, <2>2, SumSame
<1> DEFINE T == {j \in 0 .. n - m : Total(y, m + j) = Total(y, m)}
<1>4. 0 \in T /\ n - m \in Nat
  OBVIOUS
<1>5. ASSUME NEW j \in 0 .. n - m - 1, j \in T PROVE j + 1 \in T
  <2>1. m + j + 1 \in 0 .. n /\ m + j + 1 \in 1 .. n /\ m + j + 1 > 0 /\ m + j + 1 - 1 = m + j /\ ~(m + j + 1 <= m)
        /\ m + (j + 1) = m + j + 1 /\ m + j \in 0 .. n /\ j + 1 \in 0 .. n - m
    OBVIOUS
  <2>2. Total(y, m + j + 1) = Total(y, m + j) + y[m + j + 1] /\ Total(y, m + j) \in Int
    BY <1>2, <2>1
  <2>3. y[m + j + 1] = 0
    BY <2>1
  <2>4. Total(y, m + (j + 1)) = Total(y, m)
    BY <1>5, <2>1, <2>2, <2>3
  <2> QED BY <2>1, <2>4
<1>6. n - m \in T
  <2> HIDE DEF T
  <2>1. \A j \in 0 .. n - m : j \in T
    BY <1>4, <1>5, SetInduction
  <2> QED BY <1>4, <2>1
<1> QED BY <1>3, <1>6

\* One element that is not 0.
LEMMA SumOneHot ==
  ASSUME NEW y, NEW n \in Nat, NEW k \in 1 .. n, NEW v \in Int,
         \A i \in 1 .. n : y[i] = IF i = k THEN v ELSE 0
  PROVE  Total(y, n) = v
<1>1. \A j \in 0 .. n : Total(y, 0) = 0 /\ Total(y, j) \in Int /\ (j > 0 => Total(y, j) = Total(y, j - 1) + y[j])
  <2>1. \A i \in 1 .. n : y[i] \in Int
    OBVIOUS
  <2> QED BY <2>1, SumStep
<1> DEFINE T == {j \in 0 .. n : Total(y, j) = IF j < k THEN 0 ELSE v}
<1>2. 0 \in T
  BY <1>1
<1>3. ASSUME NEW j \in 0 .. n - 1, j \in T PROVE j + 1 \in T
  <2>1. j + 1 \in 0 .. n /\ j + 1 \in 1 .. n /\ j + 1 > 0 /\ j + 1 - 1 = j
    OBVIOUS
  <2>2. Total(y, j + 1) = Total(y, j) + y[j + 1]
    BY <1>1, <2>1
  <2>3. y[j + 1] = IF j + 1 = k THEN v ELSE 0
    BY <2>1
  <2> QED BY <1>3, <2>1, <2>2, <2>3
<1>4. n \in T
  <2> HIDE DEF T
  <2>1. \A j \in 0 .. n : j \in T
    BY <1>2, <1>3, SetInduction
  <2> QED BY <2>1
<1> QED BY <1>4

--------------------------------------------------------------------------------
(* The quantizer.                                                          *)

\* Nearest() and JaxNearest() are one embedding: the distances differ by the
\* norm of the input.
LEMMA NearestIs ==
  ASSUME NEW book \in Seq(Int), Len(book) > 0, NEW x \in Int
  PROVE  Nearest(book, x) \in 1 .. Len(book) /\ JaxNearest(book, x) = Nearest(book, x)
<1> DEFINE K == Len(book)  D(n) == Distance(x, book[n])  J(n) == JaxDistance(x, book[n])
           Best(k, n) == \A m \in 1 .. k : D(n) < D(m) \/ (D(n) = D(m) /\ n <= m)
           T == {k \in 0 .. K - 1 : \E n \in 1 .. k + 1 : Best(k + 1, n)}
<1>1. K \in Nat \ {0} /\ DOMAIN book = 1 .. K /\ \A n \in 1 .. K : book[n] \in Int
  OBVIOUS
<1>2. ASSUME NEW a \in Int PROVE Distance(x, a) = x * x + JaxDistance(x, a) /\ JaxDistance(x, a) \in Int /\ x * x \in Int
  <2>1. (x - a) * (x - a) = x * x + (a * a - 2 * x * a)
    OBVIOUS
  <2> QED BY <2>1 DEF Distance, JaxDistance
<1>3. ASSUME NEW n \in 1 .. K PROVE D(n) = x * x + J(n) /\ J(n) \in Int /\ D(n) \in Int /\ x * x \in Int
  <2>1. D(n) = x * x + J(n) /\ J(n) \in Int /\ x * x \in Int
    BY <1>1, <1>2, Zenon
  <2> DEFINE xx == x * x
  <2> HIDE DEF D, J, xx
  <2>2. D(n) = xx + J(n) /\ J(n) \in Int /\ xx \in Int
    BY <2>1 DEF xx
  <2> QED BY <2>1, <2>2
<1>4. \A n \in 1 .. K, m \in 1 .. K : (D(n) < D(m) <=> J(n) < J(m)) /\ (D(n) = D(m) <=> J(n) = J(m))
  <2> HIDE DEF D, J
  <2> QED BY <1>3
<1> HIDE DEF K
<1>5. \E n \in 1 .. K : Best(K, n)
  <2>0. K - 1 \in Nat /\ K - 1 + 1 = K
    BY <1>1
  <2>d. \A n \in 1 .. K : D(n) \in Int
    BY <1>3
  <2> HIDE DEF D
  <2>1. 0 \in T
    <3>1. Best(1, 1)
      OBVIOUS
    <3> QED BY <2>0, <3>1
  <2>2. ASSUME NEW k \in 0 .. K - 1 - 1, k \in T PROVE k + 1 \in T
    <3>0. k + 1 \in 0 .. K - 1 /\ k + 1 + 1 = k + 2 /\ k + 2 \in 1 .. K /\ k \in Nat /\ K \in Nat
      BY <1>1
    <3>1. PICK n \in 1 .. k + 1 : Best(k + 1, n)
      BY <2>2
    <3>2. n \in 1 .. K /\ n \in 1 .. k + 2 /\ n <= k + 2 /\ D(n) \in Int /\ D(k + 2) \in Int
      BY <2>d, <3>0
    <3>3. \A m \in 1 .. k + 2 : m \in 1 .. k + 1 \/ m = k + 2
      BY <3>0
    <3>4. CASE D(k + 2) < D(n)
      <4>1. Best(k + 2, k + 2)
        <5>1. \A m \in 1 .. k + 1 : m \in 1 .. K /\ D(n) <= D(m) /\ D(m) \in Int
          BY <2>d, <3>0, <3>1, <3>2
        <5> QED BY <3>2, <3>3, <3>4, <5>1
      <4> QED BY <3>0, <4>1
    <3>5. CASE ~(D(k + 2) < D(n))
      <4>1. Best(k + 2, n)
        BY <3>1, <3>2, <3>3, <3>5
      <4> QED BY <3>0, <3>2, <4>1
    <3> QED BY <3>4, <3>5
  <2>3. K - 1 \in T
    <3> HIDE DEF T
    <3>1. \A k \in 0 .. K - 1 : k \in T
      BY <2>0, <2>1, <2>2, SetInduction
    <3> QED BY <2>0, <3>1
  <2> QED BY <2>0, <2>3
<1>6. ASSUME NEW n \in 1 .. K, NEW m \in 1 .. K, Best(K, n), Best(K, m) PROVE n = m
  <2>1. D(n) \in Int /\ D(m) \in Int /\ n \in Int /\ m \in Int
    BY <1>3
  <2> HIDE DEF D
  <2> QED BY <1>6, <2>1
<1>7. \E n \in 1 .. K : \A m \in 1 .. K : J(n) < J(m) \/ (J(n) = J(m) /\ n <= m)
  <2> HIDE DEF D, J
  <2> QED BY <1>4, <1>5
<1> DEFINE a == Nearest(book, x)  b == JaxNearest(book, x)
<1>8. a \in 1 .. K /\ Best(K, a)
  BY <1>1, <1>5 DEF Nearest
<1>9. b \in 1 .. K /\ \A m \in 1 .. K : J(b) < J(m) \/ (J(b) = J(m) /\ b <= m)
  BY <1>1, <1>7 DEF JaxNearest
<1> HIDE DEF a, b
<1>10. Best(K, b)
  <2> HIDE DEF D, J
  <2> QED BY <1>4, <1>9
<1> QED BY <1>6, <1>8, <1>9, <1>10 DEF a, b, K

Firsts(C, n) == [i \in 1 .. n |-> C[i]]
\* The embeddings of the codes C, and the codes with offsets.
Values(q, C) == [i \in 1 .. Len(q.books) |-> q.books[i][C[i] + 1]]
Spread(q, C) == [i \in 1 .. Len(q.books) |-> IF q.unique THEN C[i] + (i - 1) * Size(q) ELSE C[i]]
CodesType(q) == [1 .. Len(q.books) -> 0 .. Size(q) - 1]
\* C is what the quantizers of both backends make of x, one after the other.
Greedily(q, x, C) ==
  /\ C \in CodesType(q)
  /\ \A n \in 0 .. Len(q.books) :
       /\ Greedy(q, x, n) = Firsts(C, n)
       /\ JaxGreedy(q, x, n).codes = Firsts(C, n)
       /\ JaxGreedy(q, x, n).sum = Total(Values(q, C), n)

LEMMA GreedyCodes ==
  ASSUME NEW q, QuantizerConfig(q), NEW x \in Int
  PROVE  \E C : Greedily(q, x, C)
<1> DEFINE K == Len(q.books)  S == Size(q)
<1>1. /\ K \in Nat \ {0} /\ S \in Nat \ {0} /\ DOMAIN q.books = 1 .. K
      /\ \A i \in 1 .. K : q.books[i] \in Seq(Int) /\ Len(q.books[i]) = S
  BY EmptySeq DEF QuantizerConfig, Size
<1> HIDE DEF K, S
<1>2. ASSUME NEW i \in 1 .. K, NEW y \in Int
      PROVE  /\ Nearest(q.books[i], y) \in 1 .. S /\ JaxNearest(q.books[i], y) = Nearest(q.books[i], y)
             /\ q.books[i][Nearest(q.books[i], y)] \in Int
  <2> DEFINE b == q.books[i]
  <2>1. b \in Seq(Int) /\ Len(b) = S /\ Len(b) > 0
    BY <1>1
  <2> HIDE DEF b
  <2>2. Nearest(b, y) \in 1 .. S /\ JaxNearest(b, y) = Nearest(b, y)
    BY <2>1, NearestIs
  <2>3. b[Nearest(b, y)] \in Int
    BY <2>1, <2>2
  <2> QED BY <2>2, <2>3 DEF b
<1>3. PICK f : GreedyChain(f, q, x, K)
  BY <1>1, GreedyIs
<1>4. PICK g : JaxGreedyChain(g, q, x, K)
  BY <1>1, JaxGreedyIs
<1> DEFINE C == [i \in 1 .. K |-> Nearest(q.books[i], f[i - 1].residual) - 1]
           z == [i \in 1 .. K |-> q.books[i][C[i] + 1]]
           Part(n) == [i \in 1 .. n |-> C[i]]
           T == {n \in 0 .. K : /\ f[n].residual \in Int /\ f[n].codes = Part(n) /\ g[n].codes = Part(n)
                                /\ g[n].residual = f[n].residual /\ g[n].sum = Total(z, n)
                                /\ \A i \in 1 .. n : C[i] \in 0 .. S - 1 /\ z[i] \in Int}
<1>5. 0 \in T
  <2>1. f[0] = [codes |-> <<>>, residual |-> x] /\ g[0] = [codes |-> <<>>, sum |-> 0, residual |-> x]
    BY <1>3, <1>4 DEF GreedyChain, JaxGreedyChain
  <2>2. Total(z, 0) = 0
    <3> DEFINE w == z
    <3>1. 0 \in Nat /\ 0 \in 0 .. 0 /\ \A i \in 1 .. 0 : w[i] \in Int
      OBVIOUS
    <3> HIDE DEF w
    <3>2. Total(w, 0) = 0
      BY <3>1, SumStep
    <3> QED BY <3>2 DEF w
  <2>3. Part(0) = <<>>
    OBVIOUS
  <2> HIDE DEF Part, z, C
  <2> QED BY <1>1, <2>1, <2>2, <2>3
<1>6. ASSUME NEW n \in 0 .. K - 1, n \in T PROVE n + 1 \in T
  <2> DEFINE k == n + 1  book == q.books[k]  y == f[n].residual  c == Nearest(book, y)
  <2>1. k \in 1 .. K /\ k - 1 = n /\ k \in 0 .. K /\ n \in Nat /\ k \in Nat
    BY <1>1
  <2>2. /\ y \in Int /\ f[n].codes = Part(n) /\ g[n].codes = Part(n) /\ g[n].residual = y /\ g[n].sum = Total(z, n)
        /\ \A i \in 1 .. n : C[i] \in 0 .. S - 1 /\ z[i] \in Int
    BY <1>6
  <2>3. c \in 1 .. S /\ JaxNearest(book, y) = c /\ book[c] \in Int
    BY <1>2, <2>1, <2>2
  <2>4. f[k] = Taken(f[n], book, c)
    BY <1>3, <2>1 DEF GreedyChain, TakenNearest
  <2>5. g[k] = JaxTaken(g[n], QuantizedAs(book, c))
    <3>1. g[k] = JaxTakenNearest(g[n], book)
      BY <1>4, <2>1 DEF JaxGreedyChain
    <3> QED BY <2>2, <2>3, <3>1 DEF JaxTakenNearest, JaxQuantize
  <2>6. C[k] = c - 1 /\ z[k] = book[c]
    <3>1. C[k] = c - 1
      BY <2>1
    <3>2. z[k] = book[C[k] + 1]
      BY <2>1
    <3> HIDE DEF C, c
    <3> QED BY <2>3, <3>1, <3>2
  <2> HIDE DEF C, z, c, k, book, y
  <2>7. Append(Part(n), c - 1) = Part(k)
    <3>1. List(Part(n)) /\ Len(Part(n)) = n
      BY <2>1 DEF List
    <3>2. Append(Part(n), c - 1) = [i \in 1 .. n + 1 |-> IF i <= n THEN Part(n)[i] ELSE c - 1]
      BY <3>1, AppendIs
    <3>3. \A i \in 1 .. n + 1 : (IF i <= n THEN Part(n)[i] ELSE c - 1) = C[i]
      <4>1. \A i \in 1 .. n + 1 : i <= n => i \in 1 .. n
        BY <2>1
      <4>2. \A i \in 1 .. n + 1 : ~(i <= n) => i = k
        BY <2>1 DEF k
      <4> QED BY <2>6, <4>1, <4>2
    <3> QED BY <3>2, <3>3 DEF k
  <2>8. f[k].residual = y - book[c] /\ f[k].codes = Append(Part(n), c - 1)
    BY <2>2, <2>4 DEF Taken, y
  <2>9. g[k].residual = y - book[c] /\ g[k].codes = Append(Part(n), c - 1) /\ g[k].sum = Total(z, n) + book[c]
    BY <2>2, <2>5 DEF JaxTaken, QuantizedAs
  <2>10. \A i \in 1 .. k : C[i] \in 0 .. S - 1 /\ z[i] \in Int
    <3>1. \A i \in 1 .. k : i \in 1 .. n \/ i = k
      BY <2>1 DEF k
    <3>2. c - 1 \in 0 .. S - 1
      BY <1>1, <2>3
    <3> QED BY <2>2, <2>3, <2>6, <3>1, <3>2
  <2>11. Total(z, k) = Total(z, n) + book[c]
    <3>1. k \in 0 .. k /\ k > 0
      BY <2>1 DEF k
    <3> QED BY <2>1, <2>6, <2>10, <3>1, SumStep
  <2> HIDE DEF Part
  <2>12. f[k].residual \in Int
    BY <2>2, <2>3, <2>8
  <2> QED BY <2>1, <2>7, <2>8, <2>9, <2>10, <2>11, <2>12 DEF k
<1>7. \A n \in 0 .. K : n \in T
  <2> HIDE DEF T
  <2> QED BY <1>1, <1>5, <1>6, SetInduction
<1>8. C \in [1 .. K -> 0 .. S - 1]
  <2>1. K \in 0 .. K
    BY <1>1
  <2>2. \A i \in 1 .. K : C[i] \in 0 .. S - 1
    BY <1>7, <2>1
  <2> QED BY <2>2
<1>9. ASSUME NEW n \in 0 .. K PROVE Greedy(q, x, n) = f[n].codes /\ JaxGreedy(q, x, n) = g[n]
  <2>1. n \in Nat /\ \A i \in 1 .. n : i \in 1 .. K
    BY <1>1
  <2>2. GreedyChain(f, q, x, n) /\ JaxGreedyChain(g, q, x, n)
    BY <1>3, <1>4, <2>1 DEF GreedyChain, JaxGreedyChain
  <2> QED BY <2>1, <2>2, GreedyIs, JaxGreedyIs
<1>10. \A n \in 0 .. K : /\ Greedy(q, x, n) = Part(n) /\ JaxGreedy(q, x, n).codes = Part(n)
                         /\ JaxGreedy(q, x, n).sum = Total(z, n)
  BY <1>7, <1>9
<1>11. (\A n : Part(n) = Firsts(C, n)) /\ z = Values(q, C)
  BY DEF Firsts, Values, K
<1> HIDE DEF C, z, Part
<1>12. Greedily(q, x, C)
  BY <1>8, <1>10, <1>11 DEF Greedily, CodesType, K, S
<1> QED BY <1>12
LEMMA RemainderIs ==
  ASSUME NEW S \in Nat \ {0}, NEW a \in 0 .. S - 1, NEW k \in Int, NEW n \in Int, n = S * k + a
  PROVE  n % S = a /\ n \div S = k
<1> DEFINE p == n \div S  r == n % S
<1>1. r \in 0 .. S - 1 /\ n = S * p + r /\ p \in Int
  OBVIOUS
<1> HIDE DEF p, r
<1> DEFINE d == p - k
<1>2. S * d = a - r /\ d \in Int
  <2>1. S * (p - k) = S * p - S * k /\ S * p \in Int /\ S * k \in Int
    BY <1>1
  <2> QED BY <1>1, <2>1
<1>3. d = 0
  <2> HIDE DEF d
  <2>1. a - r < S /\ -S < a - r /\ S \in Int /\ d \in Int /\ S > 0
    BY <1>1, <1>2
  <2>2. CASE d >= 1
    <3>1. S * d >= S
      BY <2>1, <2>2
    <3> QED BY <1>2, <2>1, <3>1
  <2>3. CASE d <= -1
    <3>1. S * d <= -S
      BY <2>1, <2>3
    <3> QED BY <1>2, <2>1, <3>1
  <2> QED BY <2>1, <2>2, <2>3
<1>4. p = k
  BY <1>1, <1>3
<1>5. r = a
  BY <1>1, <1>4
<1> QED BY <1>4, <1>5 DEF p, r

LEMMA OffsetRemoved ==
  ASSUME NEW S \in Nat \ {0}, NEW a \in 0 .. S - 1, NEW k \in Nat
  PROVE  (a + k * S) % S = a
<1>1. a + k * S \in Int /\ a + k * S = S * k + a
  OBVIOUS
<1> QED BY <1>1, RemainderIs

\* Codes with offsets, and the codes within a book again.
LEMMA OffsetsComeOff ==
  ASSUME NEW q, QuantizerConfig(q), NEW C, C \in CodesType(q), NEW n \in 0 .. Len(q.books)
  PROVE  /\ WithOffsets(q, Firsts(C, n)) = Firsts(Spread(q, C), n)
         /\ WithinBook(q, Firsts(Spread(q, C), n)) = Firsts(C, n)
<1> DEFINE K == Len(q.books)  S == Size(q)  p == [i \in 1 .. n |-> C[i]]  w == WithOffsets(q, p)
           W == [i \in 1 .. K |-> IF q.unique THEN C[i] + (i - 1) * S ELSE C[i]]
<1>1. K \in Nat \ {0} /\ S \in Nat \ {0} /\ n \in Nat /\ \A i \in 1 .. n : i \in 1 .. K
  BY EmptySeq DEF QuantizerConfig, Size
<1> HIDE DEF K, S
<1>2. DOMAIN p = 1 .. n /\ \A i \in 1 .. n : p[i] = C[i] /\ W[i] = IF q.unique THEN p[i] + (i - 1) * S ELSE p[i]
  BY <1>1
<1>3. w = [i \in 1 .. n |-> W[i]]
  <2>1. CASE q.unique
    <3>1. w = [i \in 1 .. n |-> p[i] + (i - 1) * S]
      BY <1>2, <2>1 DEF WithOffsets, S
    <3> HIDE DEF w, p, W
    <3> QED BY <1>2, <2>1, <3>1
  <2>2. CASE ~q.unique
    <3>1. w = p
      BY <2>2 DEF WithOffsets
    <3>2. p = [i \in 1 .. n |-> p[i]]
      OBVIOUS
    <3> HIDE DEF w, p, W
    <3> QED BY <1>2, <2>2, <3>1, <3>2
  <2> QED BY <2>1, <2>2
<1>4. \A i \in 1 .. n : (IF q.unique THEN W[i] % S ELSE W[i]) = C[i]
  <2> SUFFICES ASSUME NEW i \in 1 .. n PROVE (IF q.unique THEN W[i] % S ELSE W[i]) = C[i]
    OBVIOUS
  <2>1. i - 1 \in Nat /\ C[i] \in 0 .. S - 1
    BY <1>1 DEF K, S, CodesType
  <2>2. (C[i] + (i - 1) * S) % S = C[i]
    BY <1>1, <2>1, OffsetRemoved
  <2>3. W[i] = IF q.unique THEN C[i] + (i - 1) * S ELSE C[i]
    BY <1>2
  <2> HIDE DEF W
  <2> QED BY <2>2, <2>3
<1>5. WithinBook(q, w) = p
  <2> HIDE DEF W, p
  <2>1. DOMAIN w = 1 .. n /\ \A i \in 1 .. n : w[i] = W[i]
    BY <1>3
  <2> HIDE DEF w
  <2> QED BY <1>4, <2>1 DEF WithinBook, S, p
<1>6. p = Firsts(C, n) /\ W = Spread(q, C) /\ [i \in 1 .. n |-> W[i]] = Firsts(W, n)
  BY DEF Firsts, Spread, K, S
<1> HIDE DEF W
<1> QED BY <1>3, <1>5, <1>6

\* Codes decoded by look-up, and by one-hot codes padded to all the quantizers.
LEMMA DecodedIs ==
  ASSUME NEW q, QuantizerConfig(q), NEW C, C \in CodesType(q), NEW n \in 0 .. Len(q.books)
  PROVE  /\ Decoded(q, Firsts(C, n), TRUE) = Total(Values(q, C), n)
         /\ Decoded(q, Firsts(C, n), FALSE) = Total(Values(q, C), n)
<1> DEFINE K == Len(q.books)  S == Size(q)  p == [i \in 1 .. n |-> C[i]]
           z == [i \in 1 .. K |-> q.books[i][C[i] + 1]]
           Hot(i) == [m \in 1 .. S |-> (IF i \in DOMAIN p /\ m - 1 = p[i] THEN 1 ELSE 0)]
           Row(i) == [m \in 1 .. S |-> Hot(i)[m] * q.books[i][m]]
           y == [i \in 1 .. K |-> SumOf(Row(i))]
<1>1. /\ K \in Nat \ {0} /\ S \in Nat \ {0} /\ DOMAIN q.books = 1 .. K /\ n \in Nat
      /\ \A i \in 1 .. K : q.books[i] \in Seq(Int) /\ Len(q.books[i]) = S
      /\ \A i \in 1 .. n : i \in 1 .. K
  BY EmptySeq DEF QuantizerConfig, Size
<1>2. DOMAIN p = 1 .. n /\ \A i \in 1 .. n : p[i] = C[i] /\ C[i] \in 0 .. S - 1 /\ z[i] = q.books[i][p[i] + 1]
  BY <1>1 DEF CodesType
<1>a. p = Firsts(C, n) /\ z = Values(q, C)
  BY DEF Firsts, Values
<1>3. ASSUME NEW i \in 1 .. K, NEW m \in 1 .. S PROVE q.books[i][m] \in Int
  <2> DEFINE b == q.books[i]
  <2>1. b \in Seq(Int) /\ Len(b) = S
    BY <1>1
  <2> HIDE DEF b
  <2>2. b[m] \in Int
    BY <1>1, <2>1
  <2> QED BY <2>2 DEF b
<1> HIDE DEF K, S, p
<1>4. Decoded(q, p, TRUE) = Total(z, n)
  <2>1. [i \in DOMAIN p |-> q.books[i][p[i] + 1]] = [i \in 1 .. n |-> z[i]]
    <3> HIDE DEF z
    <3> QED BY <1>2
  <2> HIDE DEF z
  <2> QED BY <2>1 DEF Decoded, Total
<1>5. Decoded(q, p, FALSE) = SumOf(y)
  <2>1. [i \in DOMAIN q.books |-> SumOf(Row(i))] = y
    BY <1>1
  <2> HIDE DEF y
  <2> QED BY <2>1 DEF Decoded, S
<1>6. ASSUME NEW i \in 1 .. K PROVE y[i] = IF i <= n THEN z[i] ELSE 0
  <2> DEFINE r == Row(i)
  <2>1. y[i] = Total(r, S)
    <3>1. r = [m \in 1 .. S |-> r[m]]
      OBVIOUS
    <3>2. y[i] = SumOf(r)
      OBVIOUS
    <3> HIDE DEF r, y
    <3> QED BY <3>1, <3>2 DEF Total
  <2>2. \A m \in 1 .. S : r[m] = (IF i \in DOMAIN p /\ m - 1 = p[i] THEN 1 ELSE 0) * q.books[i][m]
    OBVIOUS
  <2>3. CASE i <= n
    <3> DEFINE k == p[i] + 1
    <3>0. i \in 1 .. n
      BY <2>3
    <3>1. k \in 1 .. S /\ z[i] = q.books[i][k] /\ i \in DOMAIN p /\ p[i] \in Int
      <4>1. p[i] \in 0 .. S - 1 /\ i \in DOMAIN p /\ z[i] = q.books[i][k]
        <5> HIDE DEF z
        <5> QED BY <1>2, <3>0
      <4> HIDE DEF z
      <4> QED BY <1>1, <4>1
    <3>2. \A m \in 1 .. S : m - 1 = p[i] <=> m = k
      BY <3>1
    <3> HIDE DEF k, r, z
    <3>3. \A m \in 1 .. S : r[m] = IF m = k THEN z[i] ELSE 0
      <4>1. ASSUME NEW m \in 1 .. S PROVE r[m] = IF m = k THEN z[i] ELSE 0
        <5>1. q.books[i][m] \in Int
          BY <1>3
        <5> QED BY <2>2, <3>1, <3>2, <5>1
      <4> QED BY <4>1
    <3>4. z[i] \in Int
      BY <1>3, <3>1
    <3>5. Total(r, S) = z[i]
      BY <1>1, <3>1, <3>3, <3>4, SumOneHot
    <3> HIDE DEF y
    <3> QED BY <2>1, <2>3, <3>5
  <2>4. CASE ~(i <= n)
    <3>1. i \notin DOMAIN p
      BY <1>2, <2>4
    <3> DEFINE e == <<>>
    <3>2. \A m \in 1 .. S : r[m] = IF m <= 0 THEN e[m] ELSE 0
      <4>1. ASSUME NEW m \in 1 .. S PROVE r[m] = 0 /\ ~(m <= 0)
        <5>1. q.books[i][m] \in Int
          BY <1>3
        <5> HIDE DEF r
        <5> QED BY <2>2, <3>1, <5>1
      <4> QED BY <4>1
    <3> HIDE DEF r
    <3>3. S \in Nat /\ 0 \in 0 .. S /\ \A m \in 1 .. 0 : e[m] \in Int
      BY <1>1
    <3>4. Total(r, S) = Total(e, 0)
      BY <3>2, <3>3, SumPadded
    <3>5. Total(e, 0) = 0
      <4>1. 0 \in Nat /\ 0 \in 0 .. 0 /\ \A m \in 1 .. 0 : e[m] \in Int
        OBVIOUS
      <4> HIDE DEF e
      <4> QED BY <4>1, SumStep
    <3> HIDE DEF y
    <3> QED BY <2>1, <2>4, <3>4, <3>5
  <2> QED BY <2>3, <2>4
<1>7. SumOf(y) = Total(y, K)
  <2>1. y = [i \in 1 .. K |-> y[i]]
    OBVIOUS
  <2> HIDE DEF y
  <2> QED BY <2>1 DEF Total
<1>8. \A i \in 1 .. n : z[i] \in Int
  <2> SUFFICES ASSUME NEW i \in 1 .. n PROVE z[i] \in Int
    OBVIOUS
  <2>1. p[i] \in 0 .. S - 1 /\ i \in 1 .. K /\ z[i] = q.books[i][p[i] + 1]
    <3> HIDE DEF z
    <3> QED BY <1>1, <1>2
  <2> HIDE DEF z
  <2>2. p[i] + 1 \in 1 .. S
    BY <1>1, <2>1
  <2> QED BY <1>3, <2>1, <2>2
<1>9. Total(y, K) = Total(z, n)
  <2>1. n \in 0 .. K
    BY DEF K
  <2> HIDE DEF y, z, Row, Hot
  <2>2. K \in Nat
    BY <1>1
  <2>3. \A i \in 1 .. K : y[i] = IF i <= n THEN z[i] ELSE 0
    BY <1>6
  <2> HIDE DEF K
  <2> QED BY <1>8, <2>1, <2>2, <2>3, SumPadded
<1> HIDE DEF z, y
<1> QED BY <1>4, <1>5, <1>7, <1>9, <1>a

\* What QuantizersAgree says of one quantizer.
LEMMA QuantizerAgrees ==
  ASSUME NEW q, QuantizerConfig(q), QuantizerMakes(q), NEW x \in Int
  PROVE  LET fine == EmbeddingsToCodes(q, x, Len(q.books))
         IN /\ \A n \in 1 .. NumExpectedInputCodes(q) :
                 LET coarse == EmbeddingsToCodes(q, x, n) IN
                 /\ coarse = SubSeq(fine, 1, n)
                 /\ Accepted(q, coarse)
                 /\ CodesToEmbeddings(q, coarse, TRUE) = JaxCodesToEmbeddings(q, coarse, FALSE)
            /\ fine = JaxEmbeddingsToCodes(q, x, Len(q.books))
            /\ q.truncation = Unset => CodesToEmbeddings(q, fine, TRUE) = JaxQuantized(q, x)
<1> DEFINE K == Len(q.books)  S == Size(q)  fine == EmbeddingsToCodes(q, x, K)
<1>1. K \in Nat \ {0} /\ S \in Nat \ {0} /\ DOMAIN q.books = 1 .. K
  BY EmptySeq DEF QuantizerConfig, Size
<1>2. NumExpectedInputCodes(q) \in 0 .. K /\ NumExpectedInputCodes(q) \in Nat
  BY <1>1 DEF QuantizerMakes, NumExpectedInputCodes, QuantizerConfig
<1>3. PICK C : Greedily(q, x, C)
  BY GreedyCodes
<1> DEFINE W == Spread(q, C)  z == Values(q, C)  Part(n) == Firsts(C, n)  Out(n) == Firsts(W, n)
<1>4. ASSUME NEW n \in 1 .. K PROVE EmbeddingsToCodes(q, x, n) = Out(n) /\ WithinBook(q, Out(n)) = Part(n)
  <2>1. n \notin {Unset, 0} /\ n \in 0 .. K
    BY <1>1 DEF Unset
  <2>2. EmbeddingsToCodes(q, x, n) = WithOffsets(q, Part(n))
    BY <1>3, <2>1 DEF EmbeddingsToCodes, Greedily
  <2>3. WithOffsets(q, Part(n)) = Out(n) /\ WithinBook(q, Out(n)) = Part(n)
    BY <1>3, <2>1, OffsetsComeOff DEF Greedily
  <2> QED BY <2>2, <2>3
<1>5. ASSUME NEW n \in 1 .. K PROVE /\ CodesToEmbeddings(q, Out(n), TRUE) = Total(z, n)
                                    /\ CodesToEmbeddings(q, Out(n), FALSE) = Total(z, n)
  <2>1. n \in 0 .. K
    OBVIOUS
  <2>2. Decoded(q, Part(n), TRUE) = Total(z, n) /\ Decoded(q, Part(n), FALSE) = Total(z, n)
    BY <1>3, <2>1, DecodedIs DEF Greedily
  <2> HIDE DEF Out, Part, z
  <2> QED BY <1>4, <2>2 DEF CodesToEmbeddings
<1>e. /\ \A n : Out(n) = [i \in 1 .. n |-> W[i]] /\ Part(n) = [i \in 1 .. n |-> C[i]]
      /\ W = [i \in 1 .. K |-> IF q.unique THEN C[i] + (i - 1) * S ELSE C[i]]
  BY DEF Firsts, Spread
<1> HIDE DEF K, S
<1>6. fine = Out(K) /\ K \in 1 .. K /\ K \in 0 .. K
  <2>1. K \in 1 .. K /\ K \in 0 .. K
    BY <1>1
  <2> HIDE DEF Out
  <2> QED BY <1>4, <2>1
<1>7. ASSUME NEW n \in 1 .. NumExpectedInputCodes(q)
      PROVE  LET coarse == EmbeddingsToCodes(q, x, n) IN
             /\ coarse = SubSeq(fine, 1, n)
             /\ Accepted(q, coarse)
             /\ CodesToEmbeddings(q, coarse, TRUE) = JaxCodesToEmbeddings(q, coarse, FALSE)
  <2>1. n \in 1 .. K /\ n \in Nat /\ n <= NumExpectedInputCodes(q)
    BY <1>1, <1>2
  <2>2. EmbeddingsToCodes(q, x, n) = Out(n)
    BY <1>4, <2>1
  <2>3. Out(n) = SubSeq(Out(K), 1, n)
    <3>1. SubSeq(Out(K), 1, n) = [i \in 1 .. n |-> Out(K)[i]]
      <4> DEFINE o == Out(K)
      <4>1. \A m \in Nat : SubSeq(o, 1, m) = [i \in 1 .. m |-> o[i]]
        <5> HIDE DEF o
        <5>1. \A m \in Nat : \A i \in 1 .. m : 1 + i - 1 = i /\ 1 + m - 1 = m
          OBVIOUS
        <5> QED BY <5>1
      <4> HIDE DEF o
      <4>2. n \in Nat
        BY <2>1
      <4> QED BY <4>1, <4>2 DEF o
    <3> HIDE DEF W, Out
    <3>2. \A i \in 1 .. n : Out(K)[i] = W[i]
      <4>1. \A i \in 1 .. n : i \in 1 .. K
        BY <1>1, <2>1
      <4> QED BY <1>e, <4>1
    <3> QED BY <1>e, <3>1, <3>2
  <2>4. Len(Out(n)) = n
    <3> HIDE DEF Out
    <3> QED BY <1>e, <2>1
  <2> HIDE DEF Out, fine
  <2>5. Accepted(q, Out(n))
    BY <2>1, <2>4 DEF Accepted
  <2> QED BY <1>5, <1>6, <2>1, <2>2, <2>3, <2>5 DEF JaxCodesToEmbeddings
<1>8. fine = JaxEmbeddingsToCodes(q, x, K)
  <2>1. K # Unset
    BY <1>1 DEF Unset
  <2>2. JaxEmbeddingsToCodes(q, x, K) = JaxWithOffsets(q, Part(K))
    BY <1>3, <1>6, <2>1 DEF JaxEmbeddingsToCodes, K, Greedily
  <2> HIDE DEF W, Part, Out, fine
  <2>3. Len(Part(K)) = K
    BY <1>1, <1>e
  <2>4. Part(K)[1] = C[1] /\ \A i \in 1 .. K : Part(K)[i] = C[i]
    BY <1>1, <1>e
  <2>5. CASE ~q.unique
    <3>1. \A i \in 1 .. K : W[i] = C[i]
      BY <1>e, <2>5
    <3>2. Part(K) = Out(K)
      BY <1>e, <3>1
    <3> QED BY <1>6, <2>2, <2>5, <3>2 DEF JaxWithOffsets
  <2>6. CASE q.unique
    <3>1. JaxWithOffsets(q, Part(K)) = [i \in 1 .. K |-> Part(K)[IF K = 1 THEN 1 ELSE i] + (i - 1) * S]
      BY <1>1, <2>3, <2>6 DEF JaxWithOffsets, K, S
    <3>2. \A i \in 1 .. K : Part(K)[IF K = 1 THEN 1 ELSE i] = C[i]
      <4>1. \A i \in 1 .. K : K = 1 => i = 1
        BY <1>1
      <4> QED BY <2>4, <4>1
    <3>3. \A i \in 1 .. K : W[i] = C[i] + (i - 1) * S
      BY <1>e, <2>6
    <3> QED BY <1>6, <1>e, <2>2, <3>1, <3>2, <3>3
  <2> QED BY <2>5, <2>6
<1>9. CodesToEmbeddings(q, fine, TRUE) = JaxQuantized(q, x)
  <2>1. JaxQuantized(q, x) = Total(z, K)
    BY <1>3, <1>6 DEF JaxQuantized, K, Greedily
  <2> HIDE DEF fine, Out, z
  <2> QED BY <1>5, <1>6, <2>1
<1> QED BY <1>7, <1>8, <1>9 DEF K

--------------------------------------------------------------------------------
(* Lists of layers.                                                        *)

LEMMA ConcatIs ==
  ASSUME NEW a, NEW b, List(a), List(b)
  PROVE  /\ List(a \o b) /\ Len(a \o b) = Len(a) + Len(b)
         /\ \A i \in 1 .. Len(a) : (a \o b)[i] = a[i]
         /\ \A i \in 1 .. Len(b) : (a \o b)[Len(a) + i] = b[i]
         /\ \A i \in 1 .. Len(a \o b) : i \in 1 .. Len(a) \/ i - Len(a) \in 1 .. Len(b)
<1> DEFINE m == Len(a)  n == Len(b)  S == {a[i] : i \in 1 .. m} \cup {b[i] : i \in 1 .. n}
<1>1. m \in Nat /\ n \in Nat /\ a = [i \in 1 .. m |-> a[i]] /\ b = [i \in 1 .. n |-> b[i]]
  BY DEF List
<1> HIDE DEF m, n
<1>2. a \in [1 .. m -> S] /\ b \in [1 .. n -> S]
  BY <1>1
<1> HIDE DEF S
<1>3. a \in Seq(S) /\ b \in Seq(S)
  BY <1>1, <1>2
<1> DEFINE c == a \o b
<1>4. c \in Seq(S) /\ Len(c) = m + n /\ \A i \in 1 .. m + n : c[i] = IF i <= m THEN a[i] ELSE b[i - m]
  BY <1>3 DEF m, n
<1> HIDE DEF c
<1>5. List(c)
  BY <1>4 DEF List
<1>6. \A i \in 1 .. m : c[i] = a[i]
  <2>1. \A i \in 1 .. m : i \in 1 .. m + n /\ i <= m
    BY <1>1
  <2> QED BY <1>4, <2>1
<1>7. ASSUME NEW i \in 1 .. n PROVE c[m + i] = b[i]
  <2> DEFINE k == m + i
  <2>1. k \in 1 .. m + n /\ ~(k <= m) /\ k - m = i
    BY <1>1
  <2> HIDE DEF k
  <2>2. c[k] = b[k - m]
    BY <1>4, <2>1
  <2> QED BY <2>1, <2>2 DEF k
<1>8. \A i \in 1 .. Len(c) : i \in 1 .. m \/ i - m \in 1 .. n
  BY <1>1, <1>4
<1> QED BY <1>4, <1>5, <1>6, <1>7, <1>8 DEF c, m, n

\* Short lists.
LEMMA ListOf ==
  ASSUME NEW k, NEW l
  PROVE  /\ List(<<>>) /\ List(<<k>>) /\ List(<<k, l>>) /\ Len(<<>>) = 0 /\ Len(<<k>>) = 1 /\ Len(<<k, l>>) = 2
         /\ <<k>>[1] = k /\ <<k, l>>[1] = k /\ <<k, l>>[2] = l
BY DEF List

\* Where one is between layers: a shape, and how many times longer time is.
At(s, t) == [shape |-> s, time |-> t]
Onward(l, x, y) == x.shape # NoShape /\ y = At(ShapeOfLayer(l, x.shape), x.time * StrideOfLayer(l))
\* The layers take x to y.
Leads(layers, x, y) ==
  /\ List(layers)
  /\ \E f : f[0] = x /\ f[Len(layers)] = y /\ \A i \in 1 .. Len(layers) : Onward(layers[i], f[i - 1], f[i])
Plain(layers) == \A i \in 1 .. Len(layers) : layers[i].kind # "parallel"
\* The two ways through a residual make time as much shorter.
Paced(layers) ==
  \A i \in 1 .. Len(layers) : layers[i].kind = "residual" =>
    LengthAfter(Pool(<< StrideOf(layers[i]), 1 >>), 720) = LengthThrough(layers[i].short, 720)

LEMMA LeadsNone ==
  ASSUME NEW x
  PROVE  Leads(<<>>, x, x) /\ Plain(<<>>) /\ Paced(<<>>)
<1> DEFINE f == [i \in 0 .. 0 |-> x]  e == <<>>
<1>1. f[0] = x /\ 1 .. 0 = {}
  OBVIOUS
<1>2. List(e) /\ Len(e) = 0
  BY ListOf
<1> HIDE DEF f, e
<1> QED BY <1>1, <1>2 DEF Leads, Plain, Paced, e

LEMMA LeadsOne ==
  ASSUME NEW l, NEW x, NEW y, Onward(l, x, y)
  PROVE  Leads(<<l>>, x, y)
<1> DEFINE f == [i \in 0 .. 1 |-> IF i = 0 THEN x ELSE y]  s == <<l>>
<1>1. f[0] = x /\ f[1] = y /\ (\A i \in 1 .. 1 : i = 1) /\ 1 - 1 = 0
  OBVIOUS
<1>2. List(s) /\ Len(s) = 1 /\ s[1] = l
  BY ListOf
<1> HIDE DEF f, s
<1>3. \A i \in 1 .. Len(s) : Onward(s[i], f[i - 1], f[i])
  BY <1>1, <1>2
<1> QED BY <1>1, <1>2, <1>3 DEF Leads, s

LEMMA LeadsConcat ==
  ASSUME NEW a, NEW b, NEW x, NEW y, NEW z, Leads(a, x, y), Leads(b, y, z)
  PROVE  Leads(a \o b, x, z)
<1> DEFINE m == Len(a)  n == Len(b)  c == a \o b
<1>1. PICK f : f[0] = x /\ f[m] = y /\ \A i \in 1 .. m : Onward(a[i], f[i - 1], f[i])
  BY DEF Leads
<1>2. PICK g : g[0] = y /\ g[n] = z /\ \A i \in 1 .. n : Onward(b[i], g[i - 1], g[i])
  BY DEF Leads
<1>3. m \in Nat /\ n \in Nat
  BY DEF Leads, List
<1>4. /\ List(c) /\ Len(c) = m + n /\ \A i \in 1 .. m : c[i] = a[i]
      /\ \A i \in 1 .. n : c[m + i] = b[i]
      /\ \A i \in 1 .. Len(c) : i \in 1 .. m \/ i - m \in 1 .. n
  BY ConcatIs DEF Leads
<1> HIDE DEF m, n, c
<1> DEFINE h == [i \in 0 .. m + n |-> IF i <= m THEN f[i] ELSE g[i - m]]
<1>5. (\A i \in 0 .. m : h[i] = f[i]) /\ \A i \in 0 .. n : h[m + i] = g[i]
  <2>1. \A i \in 0 .. m : i \in 0 .. m + n /\ i <= m
    BY <1>3
  <2>2. \A i \in 0 .. n : m + i \in 0 .. m + n /\ m + i - m = i /\ (i # 0 => ~(m + i <= m)) /\ m + 0 = m /\ m <= m
    BY <1>3
  <2>3. ASSUME NEW i \in 0 .. n PROVE h[m + i] = g[i]
    <3>1. CASE i = 0
      <4>1. h[m] = f[m]
        BY <1>3
      <4> HIDE DEF h
      <4> QED BY <1>1, <1>2, <2>2, <3>1, <4>1
    <3>2. CASE i # 0
      <4> DEFINE k == m + i
      <4>1. k \in 0 .. m + n /\ ~(k <= m) /\ k - m = i
        BY <1>3, <3>2
      <4> HIDE DEF k
      <4>2. h[k] = g[k - m]
        BY <4>1
      <4> HIDE DEF h
      <4> QED BY <4>1, <4>2 DEF k
    <3> QED BY <3>1, <3>2
  <2> QED BY <2>1, <2>3
<1> HIDE DEF h
<1>6. ASSUME NEW i \in 1 .. Len(c) PROVE Onward(c[i], h[i - 1], h[i])
  <2>1. CASE i \in 1 .. m
    <3>1. i \in 0 .. m /\ i - 1 \in 0 .. m
      BY <1>3, <2>1
    <3>2. c[i] = a[i] /\ h[i] = f[i] /\ h[i - 1] = f[i - 1]
      BY <1>4, <1>5, <2>1, <3>1
    <3> QED BY <1>1, <2>1, <3>2
  <2>2. CASE i - m \in 1 .. n
    <3> DEFINE j == i - m
    <3>1. j \in 0 .. n /\ j - 1 \in 0 .. n /\ m + j = i /\ m + (j - 1) = i - 1
      BY <1>3, <2>2
    <3> HIDE DEF j
    <3>d. j \in 1 .. n
      BY <2>2 DEF j
    <3>e. c[m + j] = b[j] /\ h[m + j] = g[j] /\ h[m + (j - 1)] = g[j - 1]
      BY <1>4, <1>5, <3>1, <3>d
    <3>2. c[i] = b[j] /\ h[i] = g[j] /\ h[i - 1] = g[j - 1] /\ j \in 1 .. n
      BY <3>1, <3>d, <3>e
    <3> QED BY <1>2, <3>2
  <2> QED BY <1>4, <2>1, <2>2
<1>7. h[0] = x /\ h[Len(c)] = z
  <2>1. 0 \in 0 .. m /\ n \in 0 .. n
    BY <1>3
  <2> QED BY <1>1, <1>2, <1>4, <1>5, <2>1
<1> QED BY <1>4, <1>6, <1>7 DEF Leads, c

LEMMA KindsConcat ==
  ASSUME NEW a, NEW b, List(a), List(b)
  PROVE  (Plain(a) /\ Plain(b) => Plain(a \o b)) /\ (Paced(a) /\ Paced(b) => Paced(a \o b))
<1> DEFINE c == a \o b
<1>1. \A i \in 1 .. Len(c) : (\E j \in 1 .. Len(a) : c[i] = a[j]) \/ \E j \in 1 .. Len(b) : c[i] = b[j]
  <2> SUFFICES ASSUME NEW i \in 1 .. Len(c)
               PROVE  (\E j \in 1 .. Len(a) : c[i] = a[j]) \/ \E j \in 1 .. Len(b) : c[i] = b[j]
    OBVIOUS
  <2>1. Len(a) \in Nat /\ i \in Int
    BY ConcatIs DEF List
  <2>2. (i \in 1 .. Len(a) => c[i] = a[i]) /\ (i - Len(a) \in 1 .. Len(b) => c[Len(a) + (i - Len(a))] = b[i - Len(a)])
    BY ConcatIs
  <2>3. i \in 1 .. Len(a) \/ i - Len(a) \in 1 .. Len(b)
    BY ConcatIs
  <2> HIDE DEF c
  <2>4. Len(a) + (i - Len(a)) = i
    BY <2>1
  <2> QED BY <2>2, <2>3, <2>4
<1> HIDE DEF c
<1> QED BY <1>1 DEF Plain, Paced, c

\* What a list that leads from x to y gives.
LEMMA LeadsTo ==
  ASSUME NEW layers, NEW x, NEW y, Leads(layers, x, y)
  PROVE  ShapeAfter(layers, x.shape) = y.shape
<1> DEFINE n == Len(layers)
<1>1. PICK f : f[0] = x /\ f[n] = y /\ \A i \in 1 .. n : Onward(layers[i], f[i - 1], f[i])
  BY DEF Leads
<1>2. n \in Nat
  BY DEF Leads, List
<1> DEFINE g == [i \in 0 .. n |-> f[i].shape]
<1>3. \A i \in 0 .. n : g[i] = f[i].shape
  OBVIOUS
<1>4. 0 \in 0 .. n /\ n \in 0 .. n /\ \A i \in 1 .. n : i \in 0 .. n /\ i - 1 \in 0 .. n
  BY <1>2
<1> HIDE DEF g
<1>5. g[0] = x.shape
  BY <1>1, <1>3, <1>4
<1>6. ASSUME NEW i \in 1 .. n PROVE g[i] = ShapeOfLayer(layers[i], g[i - 1])
  <2>1. f[i] = At(ShapeOfLayer(layers[i], f[i - 1].shape), f[i - 1].time * StrideOfLayer(layers[i]))
    BY <1>1 DEF Onward
  <2>2. f[i].shape = ShapeOfLayer(layers[i], f[i - 1].shape)
    BY <2>1 DEF At
  <2> QED BY <1>3, <1>4, <2>2
<1>7. AfterChain(g, layers, x.shape, Len(layers))
  BY <1>5, <1>6 DEF AfterChain
<1>8. ShapeAfter(layers, x.shape) = g[Len(layers)]
  BY <1>2, <1>7, AfterIs
<1> QED BY <1>1, <1>3, <1>4, <1>8

LEMMA LeadsFor ==
  ASSUME NEW layers, NEW s, NEW y, Leads(layers, At(s, 1), y)
  PROVE  ProductOf([i \in DOMAIN layers |-> StrideOfLayer(layers[i])]) = y.time
<1> DEFINE n == Len(layers)  z == [i \in DOMAIN layers |-> StrideOfLayer(layers[i])]
<1>1. PICK f : f[0] = At(s, 1) /\ f[n] = y /\ \A i \in 1 .. n : Onward(layers[i], f[i - 1], f[i])
  BY DEF Leads
<1>2. n \in Nat /\ layers = [i \in 1 .. n |-> layers[i]]
  BY DEF Leads, List
<1>3. Len(z) = n /\ \A i \in 1 .. n : z[i] = StrideOfLayer(layers[i])
  <2>1. DOMAIN layers = 1 .. n
    BY <1>2
  <2> HIDE DEF n
  <2> QED BY <1>2, <2>1
<1> DEFINE g == [i \in 0 .. n |-> f[i].time]
<1>4. g[0] = 1
  BY <1>1, <1>2 DEF At
<1>5. ASSUME NEW i \in 1 .. n PROVE g[i] = g[i - 1] * z[i]
  <2>1. f[i] = At(ShapeOfLayer(layers[i], f[i - 1].shape), f[i - 1].time * StrideOfLayer(layers[i]))
    BY <1>1 DEF Onward
  <2>2. f[i].time = f[i - 1].time * StrideOfLayer(layers[i])
    BY <2>1 DEF At
  <2>3. i \in 0 .. n /\ i - 1 \in 0 .. n
    BY <1>2
  <2> HIDE DEF z, n
  <2> QED BY <1>3, <2>2, <2>3
<1>6. g[n] = y.time
  BY <1>1, <1>2
<1> HIDE DEF g, z
<1>7. ProductChain(g, z, Len(z))
  BY <1>3, <1>4, <1>5 DEF ProductChain
<1>8. ProductOf(z) = y.time
  BY <1>2, <1>3, <1>6, <1>7, ProductIs
<1> QED BY <1>8 DEF z

LEMMA LeadsPlainly ==
  ASSUME NEW layers, NEW s, NEW y, Leads(layers, At(s, 1), y), Plain(layers)
  PROVE  ShapeOfBlocks(layers, s) = y.shape /\ ProductOf(StridesOf(layers)) = y.time
<1> DEFINE n == Len(layers)
<1>1. PICK f : f[0] = At(s, 1) /\ f[n] = y /\ \A i \in 1 .. n : Onward(layers[i], f[i - 1], f[i])
  BY DEF Leads
<1>2. n \in Nat /\ DOMAIN layers = 1 .. n
  BY DEF Leads, List
<1> DEFINE g == [i \in 0 .. n |-> f[i].shape]
<1>3. g[0] = s /\ g[n] = y.shape
  BY <1>1, <1>2 DEF At
<1>4. ASSUME NEW i \in 1 .. n PROVE g[i] = ShapeOfBlock(layers[i], g[i - 1])
  <2>1. f[i] = At(ShapeOfLayer(layers[i], f[i - 1].shape), f[i - 1].time * StrideOfLayer(layers[i])) /\ f[i - 1].shape # NoShape
    BY <1>1 DEF Onward
  <2>2. f[i].shape = ShapeOfLayer(layers[i], f[i - 1].shape)
    BY <2>1 DEF At
  <2>3. i \in 0 .. n /\ i - 1 \in 0 .. n
    BY <1>2
  <2>4. ShapeOfLayer(layers[i], f[i - 1].shape) = ShapeOfBlock(layers[i], f[i - 1].shape)
    BY <2>1 DEF Plain, ShapeOfLayer
  <2> HIDE DEF n
  <2> QED BY <2>2, <2>3, <2>4
<1> HIDE DEF g
<1>5. BlocksChain(g, layers, s, Len(layers))
  BY <1>3, <1>4 DEF BlocksChain
<1>6. ShapeOfBlocks(layers, s) = y.shape
  BY <1>2, <1>3, <1>5, BlocksIs
<1>7. StridesOf(layers) = [i \in DOMAIN layers |-> StrideOfLayer(layers[i])]
  <2>1. \A i \in DOMAIN layers : StrideOfLayer(layers[i]) = StrideOf(layers[i])
    BY <1>2 DEF Plain, StrideOfLayer
  <2> QED BY <2>1 DEF StridesOf
<1>8. ProductOf(StridesOf(layers)) = y.time
  BY <1>7, LeadsFor
<1> QED BY <1>6, <1>8

\* Groups of channels side by side.
LEMMA ParallelLeads ==
  ASSUME NEW layers, NEW g \in Nat \ {0}, NEW k \in Nat, NEW j \in Nat, NEW b, NEW d, NEW p, NEW q,
         Plain(layers), Leads(layers, At(<< k, b >>, 1), At(<< j, d >>, q))
  PROVE  Leads(<< Parallel(layers, g) >>, At(<< g * k, b >>, p), At(<< g * j, d >>, p * q))
         /\ Paced(<< Parallel(layers, g) >>)
<1> DEFINE l == Parallel(layers, g)  s == << g * k, b >>
<1>1. l.kind = "parallel" /\ l.groups = g /\ l.layers = layers
  BY DEF Parallel
<1>2. s # NoShape /\ s[1] = g * k /\ s[2] = b
  BY DEF NoShape
<1>3. s[1] % g = 0 /\ s[1] \div g = k
  <2>1. g * k \in Int /\ g * k = g * k + 0 /\ 0 \in 0 .. g - 1 /\ k \in Int
    OBVIOUS
  <2> HIDE DEF s
  <2> QED BY <1>2, <2>1, RemainderIs
<1>4. ShapeOfBlocks(layers, << k, b >>) = << j, d >> /\ ProductOf(StridesOf(layers)) = q
  BY LeadsPlainly DEF At
<1>5. ShapeOfLayer(l, s) = << g * j, d >>
  <2>1. << j, d >> # NoShape
    BY DEF NoShape
  <2> HIDE DEF l, s
  <2> QED BY <1>1, <1>2, <1>3, <1>4, <2>1 DEF ShapeOfLayer, Together
<1>6. StrideOfLayer(l) = q
  BY <1>1, <1>4 DEF StrideOfLayer
<1> HIDE DEF l
<1>7. Onward(l, At(s, p), At(<< g * j, d >>, p * q))
  BY <1>2, <1>5, <1>6 DEF Onward, At
<1>8. Paced(<< l >>)
  <2>1. Len(<< l >>) = 1 /\ << l >>[1] = l /\ \A i \in 1 .. 1 : i = 1
    BY ListOf
  <2> QED BY <1>1, <2>1 DEF Paced
<1>9. Leads(<< l >>, At(s, p), At(<< g * j, d >>, p * q))
  BY <1>7, LeadsOne
<1> QED BY <1>8, <1>9 DEF l

--------------------------------------------------------------------------------
(* One layer.                                                              *)

LEMMA ProductShort ==
  ASSUME NEW z
  PROVE  (Len(z) = 1 /\ z[1] \in Int => ProductOf(z) = z[1])
         /\ (Len(z) = 2 /\ z[1] \in Int /\ z[2] \in Int => ProductOf(z) = z[1] * z[2])
<1>1. ASSUME Len(z) = 1, z[1] \in Int PROVE ProductOf(z) = z[1]
  <2>0. Len(z) \in Nat
    BY <1>1
  <2>1. PICK f : ProductChain(f, z, Len(z))
    BY <2>0, ProductIs
  <2>2. f[0] = 1 /\ f[1] = f[1 - 1] * z[1]
    BY <1>1, <2>1 DEF ProductChain
  <2>3. ProductOf(z) = f[1]
    BY <1>1, <2>0, <2>1, ProductIs
  <2> QED BY <1>1, <2>2, <2>3
<1>2. ASSUME Len(z) = 2, z[1] \in Int, z[2] \in Int PROVE ProductOf(z) = z[1] * z[2]
  <2>0. Len(z) \in Nat
    BY <1>2
  <2>1. PICK f : ProductChain(f, z, Len(z))
    BY <2>0, ProductIs
  <2>2. f[0] = 1 /\ f[1] = f[1 - 1] * z[1] /\ f[2] = f[2 - 1] * z[2]
    BY <1>2, <2>1 DEF ProductChain
  <2>3. ProductOf(z) = f[2]
    BY <1>2, <2>0, <2>1, ProductIs
  <2>4. f[1] = z[1]
    BY <1>2, <2>2
  <2> QED BY <1>2, <2>2, <2>3, <2>4
<1> QED BY <1>1, <1>2

LEMMA ThroughNone ==
  ASSUME NEW s
  PROVE  ShapeThrough(<<>>, s) = s
<1> DEFINE z == <<>>
<1>1. Len(z) = 0 /\ Len(z) \in Nat
  OBVIOUS
<1> HIDE DEF z
<1>2. PICK f : ThroughChain(f, z, s, Len(z))
  BY <1>1, ThroughIs
<1>3. ShapeThrough(z, s) = f[0]
  BY <1>1, <1>2, ThroughIs
<1> QED BY <1>2, <1>3 DEF ThroughChain, z

LEMMA ThroughOne ==
  ASSUME NEW a, NEW s
  PROVE  ShapeThrough(<<a>>, s) = ShapeOf(a, s)
<1> DEFINE z == <<a>>
<1>1. Len(z) = 1 /\ Len(z) \in Nat /\ z[1] = a
  BY ListOf
<1> HIDE DEF z
<1>2. PICK f : ThroughChain(f, z, s, Len(z))
  BY <1>1, ThroughIs
<1>3. ShapeThrough(z, s) = f[1]
  BY <1>1, <1>2, ThroughIs
<1>4. f[0] = s /\ f[1] = ShapeOf(z[1], f[1 - 1])
  BY <1>1, <1>2 DEF ThroughChain
<1> QED BY <1>1, <1>3, <1>4 DEF z

LEMMA ThroughTwo ==
  ASSUME NEW a, NEW b, NEW s
  PROVE  ShapeThrough(<<a, b>>, s) = ShapeOf(b, ShapeOf(a, s))
<1> DEFINE z == <<a, b>>
<1>1. Len(z) = 2 /\ Len(z) \in Nat /\ z[1] = a /\ z[2] = b
  BY ListOf
<1> HIDE DEF z
<1>2. PICK f : ThroughChain(f, z, s, Len(z))
  BY <1>1, ThroughIs
<1>3. ShapeThrough(z, s) = f[2]
  BY <1>1, <1>2, ThroughIs
<1>4. f[0] = s /\ f[1] = ShapeOf(z[1], f[1 - 1]) /\ f[2] = ShapeOf(z[2], f[2 - 1])
  BY <1>1, <1>2 DEF ThroughChain
<1> QED BY <1>1, <1>3, <1>4 DEF z

LEMMA LengthNone ==
  ASSUME NEW n
  PROVE  LengthThrough(<<>>, n) = n
<1> DEFINE z == <<>>
<1>1. Len(z) = 0 /\ Len(z) \in Nat
  OBVIOUS
<1> HIDE DEF z
<1>2. PICK f : LengthChain(f, z, n, Len(z))
  BY <1>1, LengthIs
<1>3. LengthThrough(z, n) = f[0]
  BY <1>1, <1>2, LengthIs
<1> QED BY <1>2, <1>3 DEF LengthChain, z

LEMMA LengthOne ==
  ASSUME NEW a, NEW n
  PROVE  LengthThrough(<<a>>, n) = LengthAfter(a, n)
<1> DEFINE z == <<a>>
<1>1. Len(z) = 1 /\ Len(z) \in Nat /\ z[1] = a
  BY ListOf
<1> HIDE DEF z
<1>2. PICK f : LengthChain(f, z, n, Len(z))
  BY <1>1, LengthIs
<1>3. LengthThrough(z, n) = f[1]
  BY <1>1, <1>2, LengthIs
<1>4. f[0] = n /\ f[1] = LengthAfter(z[1], f[1 - 1])
  BY <1>1, <1>2 DEF LengthChain
<1> QED BY <1>1, <1>3, <1>4 DEF z

LEMMA LengthTwo ==
  ASSUME NEW a, NEW b, NEW n
  PROVE  LengthThrough(<<a, b>>, n) = LengthAfter(b, LengthAfter(a, n))
<1> DEFINE z == <<a, b>>
<1>1. Len(z) = 2 /\ Len(z) \in Nat /\ z[1] = a /\ z[2] = b
  BY ListOf
<1> HIDE DEF z
<1>2. PICK f : LengthChain(f, z, n, Len(z))
  BY <1>1, LengthIs
<1>3. LengthThrough(z, n) = f[2]
  BY <1>1, <1>2, LengthIs
<1>4. f[0] = n /\ f[1] = LengthAfter(z[1], f[1 - 1]) /\ f[2] = LengthAfter(z[2], f[2 - 1])
  BY <1>1, <1>2 DEF LengthChain
<1> QED BY <1>1, <1>3, <1>4 DEF z

LEMMA SimpleLeads ==
  ASSUME NEW l, NEW s, NEW t, NEW v \in Int, NEW p, l.kind \notin {"parallel", "residual"}, s # NoShape,
         ShapeOf(l, s) = t, TimeStride(l) = v
  PROVE  Leads(<<l>>, At(s, p), At(t, p * v)) /\ Plain(<<l>>) /\ Paced(<<l>>)
<1> DEFINE z == <<l>>
<1>1. Len(z) = 1 /\ z[1] = l /\ (\A i \in 1 .. 1 : i = 1) /\ DOMAIN z = 1 .. 1
  BY ListOf
<1>2. StrideOfLayer(l) = v
  <2> DEFINE y == [j \in DOMAIN z |-> TimeStride(z[j])]
  <2>1. Len(y) = 1 /\ y[1] = v
    <3> HIDE DEF z
    <3> QED BY <1>1
  <2> HIDE DEF y
  <2>2. ProductOf(y) = v
    BY <2>1, ProductShort
  <2>3. BodyOf(l) = z
    BY DEF BodyOf
  <2> HIDE DEF z
  <2> QED BY <2>2, <2>3 DEF StrideOfLayer, StrideOf, y
<1>3. ShapeOfLayer(l, s) = t
  BY DEF ShapeOfLayer, ShapeOfBlock
<1>4. Onward(l, At(s, p), At(t, p * v))
  BY <1>2, <1>3 DEF Onward, At
<1>5. Leads(z, At(s, p), At(t, p * v))
  BY <1>4, LeadsOne
<1> HIDE DEF z
<1> QED BY <1>1, <1>5 DEF Plain, Paced, z

LEMMA ResidualLeads ==
  ASSUME NEW body, NEW short, NEW s, NEW t, NEW v, NEW p, s # NoShape,
         ShapeThrough(body, s) = t, ShapeThrough(short, s) = t, StrideOf(ResidualOf(body, short)) = v
  PROVE  /\ Leads(<< ResidualOf(body, short) >>, At(s, p), At(t, p * v))
         /\ Plain(<< ResidualOf(body, short) >>)
         /\ LengthAfter(Pool(<< v, 1 >>), 720) = LengthThrough(short, 720) => Paced(<< ResidualOf(body, short) >>)
<1> DEFINE l == ResidualOf(body, short)  z == << l >>
<1>1. Len(z) = 1 /\ z[1] = l /\ \A i \in 1 .. 1 : i = 1
  BY ListOf
<1>2. l.kind = "residual" /\ l.body = body /\ l.short = short
  BY DEF ResidualOf
<1>3. StrideOf(l) = v
  OBVIOUS
<1> HIDE DEF l
<1>4. ShapeOfLayer(l, s) = t
  BY <1>2 DEF ShapeOfLayer, ShapeOfBlock, Met
<1>5. StrideOfLayer(l) = v
  BY <1>2, <1>3 DEF StrideOfLayer
<1>6. Onward(l, At(s, p), At(t, p * v))
  BY <1>4, <1>5 DEF Onward, At
<1>7. Leads(z, At(s, p), At(t, p * v))
  BY <1>6, LeadsOne
<1> HIDE DEF z
<1>8. Plain(z) /\ (LengthAfter(Pool(<< v, 1 >>), 720) = LengthThrough(short, 720) => Paced(z))
  BY <1>1, <1>2, <1>3 DEF Plain, Paced
<1> QED BY <1>7, <1>8 DEF z, l

Positive == Nat \ {0}
\* l is a convolution, and b bins are m of its strides.
Fits(l, b, m) ==
  /\ l.kind = "conv" /\ l.strides[2] \in Positive /\ l.reach \in Positive
  /\ l.padded = Larger(l.reach - l.strides[2], 0)
  /\ m \in Positive /\ b = l.strides[2] * m

LEMMA FitsIs ==
  ASSUME NEW l, NEW ch, NEW b, NEW m, Fits(l, b, m)
  PROVE  << ch, b >> # NoShape /\ ShapeOf(l, << ch, b >>) = << l.filters, m >>
<1> DEFINE s == << ch, b >>  reach == l.reach  s2 == l.strides[2]
<1>1. s # NoShape /\ s[1] = ch /\ s[2] = b
  BY DEF NoShape
<1>2. l.kind = "conv" /\ reach \in Positive /\ s2 \in Positive /\ l.padded = Larger(reach - s2, 0) /\ m \in Positive /\ b = s2 * m
  BY DEF Fits
<1> HIDE DEF reach, s, s2
<1>3. b \in Positive /\ b >= s2 /\ b = s2 * (m - 1) + s2 /\ m - 1 \in Nat
  <2>1. b = s2 * (m - 1) + s2 /\ s2 * (m - 1) \in Nat /\ m - 1 \in Nat
    BY <1>2 DEF Positive
  <2> QED BY <1>2, <2>1 DEF Positive
<1>4. ~(b + l.padded < reach) /\ (b + l.padded - reach) \div s2 + 1 = m
  <2> DEFINE n == b + l.padded - reach  a == IF reach > s2 THEN 0 ELSE s2 - reach  k == m - 1
  <2>1. l.padded = (IF reach > s2 THEN reach - s2 ELSE 0) /\ reach \in Nat \ {0} /\ s2 \in Nat \ {0} /\ k \in Nat
    BY <1>2, <1>3 DEF Larger, Positive
  <2>2. b = s2 * k + s2 /\ b \in Nat /\ b >= s2 /\ s2 * k \in Int
    BY <1>2, <1>3 DEF Positive
  <2> DEFINE sk == s2 * k
  <2>3. n = sk + a /\ n \in Int /\ a \in 0 .. s2 - 1 /\ ~(b + l.padded < reach)
    <3> HIDE DEF sk, k
    <3>1. b = sk + s2 /\ sk \in Int
      BY <2>2 DEF sk
    <3> QED BY <2>1, <2>2, <3>1
  <2> HIDE DEF a, n, k
  <2>4. n \div s2 = k
    BY <2>1, <2>3, RemainderIs
  <2>5. n \div s2 + 1 = m
    BY <1>2, <2>4 DEF k, Positive
  <2> QED BY <2>3, <2>5 DEF n
<1>5. ShapeOf(l, s) = << l.filters, m >>
  BY <1>1, <1>2, <1>4 DEF ShapeOf, s2, reach
<1> QED BY <1>1, <1>5 DEF s

LEMMA ConvIs ==
  ASSUME NEW filters, NEW kernel, NEW strides, NEW padding, NEW dilation, kernel[2] \in Positive,
         strides[2] \in Positive, dilation[2] \in Positive
  PROVE  LET l == Conv2d(filters, kernel, strides, padding, dilation)
         IN /\ l.kind = "conv" /\ l.filters = filters /\ TimeStride(l) = strides[1]
            /\ \A n : LengthAfter(l, n) = n \div strides[1]
            /\ \A b, m : m \in Positive /\ b = strides[2] * m => Fits(l, b, m)
<1> DEFINE reach == (kernel[2] - 1) * dilation[2] + 1  l == Conv2d(filters, kernel, strides, padding, dilation)
<1>1. l.kind = "conv" /\ l.filters = filters /\ l.strides = strides /\ l.reach = reach
      /\ l.padded = Larger(reach - strides[2], 0)
  BY DEF Conv2d, ConvOf
<1>2. reach \in Positive
  <2> DEFINE k == kernel[2]  d == dilation[2]
  <2>1. k \in Nat \ {0} /\ d \in Nat \ {0}
    BY DEF Positive
  <2> HIDE DEF k, d
  <2>2. (k - 1) * d \in Nat
    BY <2>1
  <2> QED BY <2>2 DEF Positive, k, d
<1> HIDE DEF l, reach
<1>3. \A b, m : m \in Positive /\ b = strides[2] * m => Fits(l, b, m)
  BY <1>1, <1>2 DEF Fits
<1>4. TimeStride(l) = strides[1] /\ \A n : LengthAfter(l, n) = n \div strides[1]
  BY <1>1 DEF TimeStride, Shrinks, LengthAfter
<1> QED BY <1>1, <1>3, <1>4 DEF l

LEMMA OneByOneIs ==
  ASSUME NEW filters, NEW ch, NEW b \in Positive
  PROVE  /\ OneByOne(filters).kind = "conv" /\ TimeStride(OneByOne(filters)) = 1
         /\ << ch, b >> # NoShape /\ ShapeOf(OneByOne(filters), << ch, b >>) = << filters, b >>
         /\ \A n \in Int : LengthAfter(OneByOne(filters), n) = n
<1> DEFINE k == <<1, 1>>  l == Conv2d(filters, k, k, "causal", k)
<1>1. k[1] = 1 /\ k[2] = 1 /\ k[2] \in Positive /\ b = k[2] * b
  BY DEF Positive
<1>2. OneByOne(filters) = l
  BY DEF OneByOne
<1>3. \A n \in Int : n \div 1 = n
  OBVIOUS
<1> HIDE DEF k
<1>4. /\ l.kind = "conv" /\ l.filters = filters /\ TimeStride(l) = k[1]
      /\ \A n : LengthAfter(l, n) = n \div k[1]
      /\ \A a, m : m \in Positive /\ a = k[2] * m => Fits(l, a, m)
  BY <1>1, ConvIs
<1> HIDE DEF l
<1>5. Fits(l, b, b)
  BY <1>1, <1>4
<1>6. << ch, b >> # NoShape /\ ShapeOf(l, << ch, b >>) = << filters, b >>
  BY <1>4, <1>5, FitsIs
<1> QED BY <1>1, <1>2, <1>3, <1>4, <1>6

\* What two plain layers, or one, do to time.
LEMMA StrideOne ==
  ASSUME NEW a, NEW short, NEW v \in Int, TimeStride(a) = v
  PROVE  StrideOf(ResidualOf(<<a>>, short)) = v
<1> DEFINE l == ResidualOf(<<a>>, short)  z == <<a>>  y == [j \in DOMAIN z |-> TimeStride(z[j])]
<1>1. BodyOf(l) = z
  BY DEF BodyOf, ResidualOf
<1>2. Len(z) = 1 /\ z[1] = a /\ DOMAIN z = 1 .. 1
  BY ListOf
<1> HIDE DEF l, z
<1>3. Len(y) = 1 /\ y[1] = v
  BY <1>2
<1>4. StrideOf(l) = ProductOf(y)
  BY <1>1 DEF StrideOf
<1> HIDE DEF y
<1> QED BY <1>3, <1>4, ProductShort DEF l, z

LEMMA StrideTwo ==
  ASSUME NEW a, NEW b, NEW short, NEW v \in Int, NEW w \in Int, TimeStride(a) = v, TimeStride(b) = w
  PROVE  StrideOf(ResidualOf(<<a, b>>, short)) = v * w
<1> DEFINE l == ResidualOf(<<a, b>>, short)  z == <<a, b>>  y == [j \in DOMAIN z |-> TimeStride(z[j])]
<1>1. BodyOf(l) = z
  BY DEF BodyOf, ResidualOf
<1>2. Len(z) = 2 /\ z[1] = a /\ z[2] = b /\ DOMAIN z = 1 .. 2
  BY ListOf
<1> HIDE DEF l, z
<1>3. Len(y) = 2 /\ y[1] = v /\ y[2] = w
  BY <1>2
<1>4. StrideOf(l) = ProductOf(y)
  BY <1>1 DEF StrideOf
<1> HIDE DEF y
<1> QED BY <1>3, <1>4, ProductShort DEF l, z

LEMMA PairOf ==
  ASSUME NEW a, NEW b, NEW x, NEW y, List(x), List(y)
  PROVE  Len(x) = 1 /\ Len(y) = 1 /\ x[1] = a /\ y[1] = b => x \o y = <<a, b>>
<1>1. List(x \o y) /\ Len(x \o y) = Len(x) + Len(y)
      /\ (\A i \in 1 .. Len(x) : (x \o y)[i] = x[i]) /\ \A i \in 1 .. Len(y) : (x \o y)[Len(x) + i] = y[i]
  BY ConcatIs
<1> DEFINE c == x \o y
<1> HIDE DEF c
<1> HAVE Len(x) = 1 /\ Len(y) = 1 /\ x[1] = a /\ y[1] = b
<1>2. c = [i \in 1 .. 2 |-> c[i]] /\ c[1] = a /\ c[2] = b
  <2>1. 1 \in 1 .. 1 /\ 1 + 1 = 2
    OBVIOUS
  <2>2. c[1] = a /\ c[1 + 1] = b /\ List(c) /\ Len(c) = 1 + 1
    BY <1>1, <2>1 DEF c
  <2> QED BY <2>1, <2>2 DEF List
<1>3. c = <<a, b>>
  BY <1>2
<1> QED BY <1>3 DEF c

LEMMA PairIs ==
  ASSUME NEW a, NEW b
  PROVE  <<a>> \o <<b>> = <<a, b>>
<1> DEFINE x == <<a>>  y == <<b>>
<1>1. List(x) /\ List(y) /\ Len(x) = 1 /\ Len(y) = 1 /\ x[1] = a /\ y[1] = b
  BY ListOf
<1>2. x \o y = <<a, b>>
  <2> HIDE DEF x, y
  <2> QED BY <1>1, PairOf
<1> QED BY <1>2

\* Two plain layers after each other.
LEMMA PairLeads ==
  ASSUME NEW a, NEW b, NEW s, NEW t, NEW u, NEW v \in Int, NEW w \in Int, NEW p \in Int,
         a.kind \notin {"parallel", "residual"}, s # NoShape, ShapeOf(a, s) = t, TimeStride(a) = v,
         b.kind \notin {"parallel", "residual"}, t # NoShape, ShapeOf(b, t) = u, TimeStride(b) = w
  PROVE  Leads(<<a, b>>, At(s, p), At(u, p * (v * w))) /\ Plain(<<a, b>>) /\ Paced(<<a, b>>)
<1>1. Leads(<<a>>, At(s, p), At(t, p * v)) /\ Plain(<<a>>) /\ Paced(<<a>>)
  BY SimpleLeads
<1> DEFINE q == p * v
<1>2. Leads(<<b>>, At(t, q), At(u, q * w)) /\ Plain(<<b>>) /\ Paced(<<b>>)
  <2> HIDE DEF q
  <2> QED BY SimpleLeads
<1>3. q * w = p * (v * w)
  OBVIOUS
<1>4. <<a>> \o <<b>> = <<a, b>>
  BY PairIs
<1>5. List(<<a>>) /\ List(<<b>>)
  BY ListOf
<1> QED BY <1>1, <1>2, <1>3, <1>4, <1>5, LeadsConcat, KindsConcat

\* The unit of an encoder: bins become s2 times fewer, time s1 times shorter.
LEMMA EncoderUnit ==
  ASSUME NEW input, NEW output, NEW s1 \in Positive, NEW s2 \in Positive, NEW d1, NEW d2 \in Positive,
         NEW padding, NEW resnet \in BOOLEAN, NEW m \in Positive, NEW p \in Int
  PROVE  LET u == Conv2dResidualUnit(input, output, << s1, s2 >>, << d1, d2 >>, FALSE, padding, resnet)
         IN Leads(u, At(<< input, s2 * m >>, p), At(<< output, m >>, p * s1)) /\ Plain(u) /\ Paced(u)
<1> DEFINE st == << s1, s2 >>  b == s2 * m
           three == Conv2d(input, <<3, 3>>, <<1, 1>>, padding, << d1, d2 >>)
           resample == Conv2d(output, Resampling(st), st, padding, <<1, 1>>)
           pool == IF st # <<1, 1>> THEN <<Pool(st)>> ELSE <<>>
           one == IF input # output THEN <<OneByOne(output)>> ELSE <<>>
           short == pool \o one
           x == << input, b >>  z == << input, m >>  y == << output, m >>
           u == Conv2dResidualUnit(input, output, st, << d1, d2 >>, FALSE, padding, resnet)
<1>1. u = IF resnet THEN << ResidualOf(<< three, resample >>, short) >> ELSE << three, resample >>
  <2>1. UnitBody(input, output, st, << d1, d2 >>, FALSE, padding) = << three, resample >>
    BY DEF UnitBody, InOrder, PreActivatedConv2d
  <2>2. UnitShortcut(input, output, st, FALSE) = (pool \o one) \o <<>>
    BY DEF UnitShortcut
  <2>3. (pool \o one) \o <<>> = short
    OBVIOUS
  <2> HIDE DEF st, three, resample, pool, one, short
  <2> QED BY <2>1, <2>2, <2>3 DEF Conv2dResidualUnit, Unit
<1>p. /\ 1 \in Positive /\ 3 \in Positive /\ b \in Positive /\ b = 1 * b /\ m = 1 * m /\ b = s2 * m /\ s1 \in Int /\ 1 * s1 = s1
      /\ b >= s2 /\ b - s2 = s2 * (m - 1) + 0 /\ b - s2 \in Int /\ 0 \in 0 .. s2 - 1 /\ m - 1 \in Int /\ m - 1 + 1 = m
      /\ s2 \in Nat \ {0}
  <2>1. b \in Nat \ {0} /\ b - s2 = s2 * (m - 1) + 0 /\ s2 * (m - 1) \in Nat
    BY DEF Positive
  <2> HIDE DEF b
  <2> QED BY <2>1 DEF Positive
<1>2. three.kind = "conv" /\ TimeStride(three) = 1 /\ x # NoShape /\ ShapeOf(three, x) = x
  <2> DEFINE k == <<3, 3>>  i == <<1, 1>>  d == << d1, d2 >>
  <2>1. k[2] \in Positive /\ i[1] = 1 /\ i[2] \in Positive /\ d[2] \in Positive /\ b = i[2] * b
    BY <1>p
  <2> HIDE DEF k, i, d
  <2>2. /\ three.kind = "conv" /\ three.filters = input /\ TimeStride(three) = i[1]
        /\ \A a, n : n \in Positive /\ a = i[2] * n => Fits(three, a, n)
    <3>1. three = Conv2d(input, k, i, padding, d)
      BY DEF k, i, d
    <3> HIDE DEF three
    <3> QED BY <2>1, <3>1, ConvIs
  <2> HIDE DEF three, b
  <2>3. Fits(three, b, b)
    BY <1>p, <2>1, <2>2
  <2> QED BY <2>1, <2>2, <2>3, FitsIs
<1>3. resample.kind = "conv" /\ TimeStride(resample) = s1 /\ ShapeOf(resample, x) = y
  <2> DEFINE k == Resampling(st)  d == <<1, 1>>
  <2>1. st[1] = s1 /\ st[2] = s2 /\ st[2] \in Positive /\ d[2] \in Positive
    BY <1>p
  <2>2. k[2] \in Positive
    <3>1. Larger(3, 2 * s2) \in Positive
      BY DEF Larger, Positive
    <3> QED BY <3>1 DEF Resampling
  <2> HIDE DEF k, d, st
  <2>3. /\ resample.kind = "conv" /\ resample.filters = output /\ TimeStride(resample) = st[1]
        /\ \A a, n : n \in Positive /\ a = st[2] * n => Fits(resample, a, n)
    <3>1. resample = Conv2d(output, k, st, padding, d)
      BY DEF k, d
    <3> HIDE DEF resample
    <3> QED BY <2>1, <2>2, <3>1, ConvIs
  <2> HIDE DEF resample, b
  <2>4. Fits(resample, b, m)
    BY <1>p, <2>1, <2>3
  <2> QED BY <2>1, <2>3, <2>4, FitsIs
<1>k. three.kind \notin {"parallel", "residual"} /\ resample.kind \notin {"parallel", "residual"}
  <2> HIDE DEF three, resample
  <2> QED BY <1>2, <1>3
<1> HIDE DEF three, resample, u
<1>4. CASE ~resnet
  <2>1. Leads(<< three, resample >>, At(x, p), At(y, p * (1 * s1))) /\ Plain(<< three, resample >>) /\ Paced(<< three, resample >>)
    <3> HIDE DEF x, y
    <3> QED BY <1>2, <1>3, <1>k, <1>p, PairLeads
  <2> QED BY <1>1, <1>4, <1>p, <2>1 DEF u
<1>5. CASE resnet
  <2>1. StrideOf(ResidualOf(<< three, resample >>, short)) = s1
    <3> HIDE DEF short
    <3> QED BY <1>2, <1>3, <1>p, StrideTwo
  <2>2. ShapeThrough(<< three, resample >>, x) = y
    <3> HIDE DEF x, y
    <3> QED BY <1>2, <1>3, ThroughTwo
  <2>3. z # NoShape /\ ShapeOf(OneByOne(output), z) = y /\ \A n \in Int : LengthAfter(OneByOne(output), n) = n
    BY OneByOneIs
  <2>4. ShapeOf(Pool(st), x) = z /\ LengthAfter(Pool(st), 720) = 720 \div s1
    <3>1. x # NoShape /\ x[1] = input /\ x[2] = b /\ st[2] = s2 /\ st[1] = s1
      BY DEF NoShape
    <3>2. (b - s2) \div s2 + 1 = m
      <4> DEFINE n == b - s2  k == m - 1
      <4>1. n \in Int /\ n = s2 * k + 0 /\ k \in Int
        BY <1>p
      <4> HIDE DEF n, k
      <4>2. n \div s2 = k
        BY <1>p, <4>1, RemainderIs
      <4> QED BY <1>p, <4>2 DEF n, k
    <3> HIDE DEF x, b, st
    <3>3. ~(b < s2)
      BY <1>p DEF Positive
    <3>4. Pool(st).kind = "pool" /\ Pool(st).strides = st
      BY DEF Pool
    <3>5. ShapeOf(Pool(st), x) = z
      BY <3>1, <3>2, <3>3, <3>4 DEF ShapeOf
    <3> QED BY <3>1, <3>4, <3>5 DEF LengthAfter, Shrinks, TimeStride
  <2>5. LengthAfter(Pool(<< s1, 1 >>), 720) = 720 \div s1
    BY DEF LengthAfter, Shrinks, TimeStride, Pool
  <2>6. ShapeThrough(short, x) = y /\ LengthThrough(short, 720) = 720 \div s1
    <3>0. 720 \div s1 \in Int /\ 720 \div 1 = 720
      BY <1>p DEF Positive
    <3>1. CASE st # <<1, 1>> /\ input # output
      <4>1. short = << Pool(st), OneByOne(output) >>
        BY <3>1, PairIs
      <4> HIDE DEF short, st, x, y, z
      <4> QED BY <2>3, <2>4, <3>0, <4>1, ThroughTwo, LengthTwo
    <3>2. CASE st # <<1, 1>> /\ input = output
      <4>1. short = << Pool(st) >> /\ y = z
        BY <3>2
      <4> HIDE DEF short, st, x, y, z
      <4> QED BY <2>4, <4>1, ThroughOne, LengthOne
    <3>3. CASE st = <<1, 1>> /\ input # output
      <4>1. short = << OneByOne(output) >> /\ x = z /\ s1 = 1
        BY <1>p, <3>3
      <4> HIDE DEF short, st, x, y, z
      <4> QED BY <2>3, <3>0, <4>1, ThroughOne, LengthOne
    <3>4. CASE st = <<1, 1>> /\ input = output
      <4>1. short = <<>> /\ x = y /\ s1 = 1
        BY <1>p, <3>4
      <4> HIDE DEF short, st, x, y, z
      <4> QED BY <3>0, <4>1, ThroughNone, LengthNone
    <3> QED BY <3>1, <3>2, <3>3, <3>4
  <2> HIDE DEF short, st, x, y, z
  <2>7. Leads(<< ResidualOf(<< three, resample >>, short) >>, At(x, p), At(y, p * s1))
        /\ Plain(<< ResidualOf(<< three, resample >>, short) >>) /\ Paced(<< ResidualOf(<< three, resample >>, short) >>)
    BY <1>2, <2>1, <2>2, <2>5, <2>6, ResidualLeads
  <2> QED BY <1>1, <1>5, <2>7 DEF u, st, x, y
<1> QED BY <1>4, <1>5

\* The unit of a decoder: bins become s2 times more, time s1 times longer.  It
\* may be fed other channels than it was told, if its shortcut makes its own.
Meets(resnet, input, output, fed) == resnet /\ input = output => fed = input

LEMMA DecoderUnit ==
  ASSUME NEW input, NEW output, NEW fed, NEW s1 \in Positive, NEW s2 \in Positive, NEW d1, NEW d2 \in Positive,
         NEW padding \in {"same", "causal"}, NEW resnet \in BOOLEAN, NEW m \in Positive, NEW p \in Int,
         Meets(resnet, input, output, fed)
  PROVE  LET u == Conv2dResidualUnit(input, output, << s1, s2 >>, << d1, d2 >>, TRUE, padding, resnet)
         IN Leads(u, At(<< fed, m >>, p), At(<< output, m * s2 >>, p * s1)) /\ Plain(u)
<1> DEFINE st == << s1, s2 >>  b == m * s2
           three == Conv2d(output, <<3, 3>>, <<1, 1>>, padding, << d1, d2 >>)
           resample == IF st # <<1, 1>>
                       THEN [kind |-> "transpose", filters |-> output, kernel |-> Resampling(st), strides |-> st, time |-> padding]
                       ELSE Conv2d(output, Resampling(st), st, padding, <<1, 1>>)
           up == IF st # <<1, 1>> THEN <<Upsample(st)>> ELSE <<>>
           one == IF input # output THEN <<OneByOne(output)>> ELSE <<>>
           short == one \o up
           x == << fed, m >>  z == << output, m >>  y == << output, b >>
           u == Conv2dResidualUnit(input, output, st, << d1, d2 >>, TRUE, padding, resnet)
<1>1. u = IF resnet THEN << ResidualOf(<< resample, three >>, short) >> ELSE << resample, three >>
  <2>1. UnitBody(input, output, st, << d1, d2 >>, TRUE, padding) = << resample, three >>
    BY DEF UnitBody, InOrder, PreActivatedConv2d
  <2>2. UnitShortcut(input, output, st, TRUE) = (<<>> \o one) \o up
    BY DEF UnitShortcut
  <2>3. (<<>> \o one) \o up = short
    OBVIOUS
  <2> HIDE DEF st, three, resample, up, one, short
  <2> QED BY <2>1, <2>2, <2>3 DEF Conv2dResidualUnit, Unit
<1>p. /\ 1 \in Positive /\ 3 \in Positive /\ b \in Positive /\ b = 1 * b /\ m = 1 * m /\ b = m * s2 /\ s1 \in Int
      /\ s1 * 1 = s1 /\ s2 \in Int /\ m \in Int
  <2>1. b \in Nat \ {0}
    BY DEF Positive
  <2> HIDE DEF b
  <2> QED BY <2>1 DEF Positive, b
<1>2. three.kind = "conv" /\ TimeStride(three) = 1 /\ y # NoShape /\ ShapeOf(three, y) = y
  <2> DEFINE k == <<3, 3>>  i == <<1, 1>>  d == << d1, d2 >>
  <2>1. k[2] \in Positive /\ i[1] = 1 /\ i[2] \in Positive /\ d[2] \in Positive /\ b = i[2] * b
    BY <1>p
  <2> HIDE DEF k, i, d
  <2>2. /\ three.kind = "conv" /\ three.filters = output /\ TimeStride(three) = i[1]
        /\ \A a, n : n \in Positive /\ a = i[2] * n => Fits(three, a, n)
    <3>1. three = Conv2d(output, k, i, padding, d)
      BY DEF k, i, d
    <3> HIDE DEF three
    <3> QED BY <2>1, <3>1, ConvIs
  <2> HIDE DEF three, b
  <2>3. Fits(three, b, b)
    BY <1>p, <2>1, <2>2
  <2> QED BY <2>1, <2>2, <2>3, FitsIs
<1>3. resample.kind \in {"conv", "transpose"} /\ TimeStride(resample) = s1 /\ x # NoShape /\ ShapeOf(resample, x) = y
  <2> DEFINE k == Resampling(st)  d == <<1, 1>>
  <2>0. x # NoShape /\ x[2] = m
    BY DEF NoShape
  <2>1. st[1] = s1 /\ st[2] = s2 /\ st[2] \in Positive /\ d[2] \in Positive
    BY <1>p
  <2>2. k[2] \in Positive
    <3>1. Larger(3, 2 * s2) \in Positive
      BY DEF Larger, Positive
    <3> QED BY <3>1 DEF Resampling
  <2>3. CASE st # <<1, 1>>
    <3>1. resample.kind = "transpose" /\ resample.filters = output /\ resample.strides = st
      BY <2>3
    <3> HIDE DEF resample, st, x, b
    <3>2. ShapeOf(resample, x) = y
      BY <2>0, <2>1, <3>1, <1>p DEF ShapeOf
    <3> QED BY <2>0, <2>1, <3>1, <3>2 DEF TimeStride
  <2>4. CASE st = <<1, 1>>
    <3>1. b = m /\ s2 = 1
      BY <1>p, <2>4
    <3> HIDE DEF k, d
    <3>2. /\ resample.kind = "conv" /\ resample.filters = output /\ TimeStride(resample) = st[1]
          /\ \A a, n : n \in Positive /\ a = st[2] * n => Fits(resample, a, n)
      <4>1. resample = Conv2d(output, k, st, padding, d)
        BY <2>4 DEF k, d
      <4> HIDE DEF resample, st
      <4> QED BY <2>1, <2>2, <4>1, ConvIs
    <3> HIDE DEF resample, st, b
    <3>3. Fits(resample, m, m)
      BY <1>p, <2>1, <3>1, <3>2
    <3> QED BY <2>0, <2>1, <3>1, <3>2, <3>3, FitsIs
  <2> QED BY <2>3, <2>4
<1>k. three.kind \notin {"parallel", "residual"} /\ resample.kind \notin {"parallel", "residual"}
  <2> HIDE DEF three, resample
  <2> QED BY <1>2, <1>3
<1> HIDE DEF three, resample, u
<1>4. CASE ~resnet
  <2>1. Leads(<< resample, three >>, At(x, p), At(y, p * (s1 * 1))) /\ Plain(<< resample, three >>)
    <3> HIDE DEF x, y
    <3> QED BY <1>2, <1>3, <1>k, <1>p, PairLeads
  <2> QED BY <1>1, <1>4, <1>p, <2>1 DEF u
<1>5. CASE resnet
  <2>1. StrideOf(ResidualOf(<< resample, three >>, short)) = s1
    <3> HIDE DEF short
    <3> QED BY <1>2, <1>3, <1>p, StrideTwo
  <2>2. ShapeThrough(<< resample, three >>, x) = y
    <3> HIDE DEF x, y
    <3> QED BY <1>2, <1>3, ThroughTwo
  <2>3. z # NoShape /\ ShapeOf(OneByOne(output), x) = z
    BY OneByOneIs
  <2>4. ShapeOf(Upsample(st), z) = y
    <3>1. z # NoShape /\ z[1] = output /\ z[2] = m /\ st[2] = s2
      BY DEF NoShape
    <3>2. Upsample(st).kind = "upsample" /\ Upsample(st).strides = st
      BY DEF Upsample
    <3> HIDE DEF z, st
    <3> QED BY <3>1, <3>2 DEF ShapeOf
  <2>5. input = output => x = z
    BY <1>5 DEF Meets
  <2>6. ShapeThrough(short, x) = y
    <3>1. CASE st # <<1, 1>> /\ input # output
      <4>1. short = << OneByOne(output), Upsample(st) >>
        BY <3>1, PairIs
      <4> HIDE DEF short, st, x, y, z
      <4> QED BY <2>3, <2>4, <4>1, ThroughTwo
    <3>2. CASE st # <<1, 1>> /\ input = output
      <4>1. short = << Upsample(st) >>
        BY <3>2
      <4> HIDE DEF short, st, x, y, z
      <4> QED BY <2>4, <2>5, <3>2, <4>1, ThroughOne
    <3>3. CASE st = <<1, 1>> /\ input # output
      <4>1. short = << OneByOne(output) >> /\ y = z
        BY <1>p, <3>3
      <4> HIDE DEF short, st, x, y, z
      <4> QED BY <2>3, <4>1, ThroughOne
    <3>4. CASE st = <<1, 1>> /\ input = output
      <4>1. short = <<>> /\ z = y
        BY <1>p, <3>4
      <4> HIDE DEF short, st, x, y, z
      <4> QED BY <2>5, <3>4, <4>1, ThroughNone
    <3> QED BY <3>1, <3>2, <3>3, <3>4
  <2> HIDE DEF short, st, x, y, z
  <2>7. Leads(<< ResidualOf(<< resample, three >>, short) >>, At(x, p), At(y, p * s1))
        /\ Plain(<< ResidualOf(<< resample, three >>, short) >>)
    BY <1>3, <2>1, <2>2, <2>6, ResidualLeads
  <2> QED BY <1>1, <1>5, <2>7 DEF u, st, x, y
<1> QED BY <1>4, <1>5

\* u is the unit of a decoder with these numbers.
UpUnit(u, input, output, fed, s1, s2, d1, d2, padding, resnet) ==
  /\ s1 \in Positive /\ s2 \in Positive /\ d2 \in Positive /\ padding \in {"same", "causal"} /\ resnet \in BOOLEAN
  /\ Meets(resnet, input, output, fed)
  /\ u = Conv2dResidualUnit(input, output, << s1, s2 >>, << d1, d2 >>, TRUE, padding, resnet)

LEMMA UpUnitLeads ==
  ASSUME NEW u, NEW input, NEW output, NEW fed, NEW s1, NEW s2, NEW d1, NEW d2, NEW padding, NEW resnet,
         UpUnit(u, input, output, fed, s1, s2, d1, d2, padding, resnet), NEW m \in Positive, NEW p \in Int
  PROVE  Leads(u, At(<< fed, m >>, p), At(<< output, m * s2 >>, p * s1)) /\ Plain(u)
BY DecoderUnit DEF UpUnit

\* The layers that only pass on, or change, the shape.
LEMMA PassingLeads ==
  ASSUME NEW l, l.kind \in {"stft", "istft", "delay", "lookahead"}, NEW s, s # NoShape, NEW p \in Int
  PROVE  Leads(<<l>>, At(s, p), At(s, p)) /\ Plain(<<l>>) /\ Paced(<<l>>)
<1>1. ShapeOf(l, s) = s /\ TimeStride(l) = 1 /\ l.kind \notin {"parallel", "residual"}
  BY DEF ShapeOf, TimeStride
<1>2. p * 1 = p
  OBVIOUS
<1> QED BY <1>1, <1>2, SimpleLeads

LEMMA ConvLeads ==
  ASSUME NEW filters, NEW size \in Positive, NEW padding, NEW ch, NEW b \in Positive, NEW p \in Int
  PROVE  LET z == << Conv2d(filters, << size, size >>, <<1, 1>>, padding, <<1, 1>>) >>
         IN Leads(z, At(<< ch, b >>, p), At(<< filters, b >>, p)) /\ Plain(z) /\ Paced(z)
<1> DEFINE k == << size, size >>  i == <<1, 1>>  l == Conv2d(filters, k, i, padding, i)  s == << ch, b >>  t == << filters, b >>
<1>1. k[2] \in Positive /\ i[1] = 1 /\ i[2] \in Positive /\ b = i[2] * b /\ p * 1 = p
  BY DEF Positive
<1> HIDE DEF k, i
<1>2. /\ l.kind = "conv" /\ l.filters = filters /\ TimeStride(l) = i[1]
      /\ \A a, n : n \in Positive /\ a = i[2] * n => Fits(l, a, n)
  BY <1>1, ConvIs
<1> HIDE DEF l
<1>3. Fits(l, b, b)
  BY <1>1, <1>2
<1>4. s # NoShape /\ ShapeOf(l, s) = t
  BY <1>2, <1>3, FitsIs
<1> HIDE DEF s, t
<1>5. Leads(<<l>>, At(s, p), At(t, p * 1)) /\ Plain(<<l>>) /\ Paced(<<l>>)
  BY <1>1, <1>2, <1>4, SimpleLeads
<1> QED BY <1>1, <1>5 DEF l, k, i, s, t

\* The residual of 1x1 convolutions at either end of the codec.
LEMMA DenseLeads ==
  ASSUME NEW middle, NEW filters, NEW ch, NEW b \in Positive, NEW p \in Int
  PROVE  LET z == << ResidualOf(<<OneByOne(filters)>>, <<OneByOne(middle), OneByOne(filters)>>) >>
         IN Leads(z, At(<< ch, b >>, p), At(<< filters, b >>, p)) /\ Plain(z) /\ Paced(z)
<1> DEFINE a == OneByOne(filters)  m == OneByOne(middle)  s == << ch, b >>  u == << middle, b >>  t == << filters, b >>
           short == << m, a >>
<1>1. TimeStride(a) = 1 /\ s # NoShape /\ ShapeOf(a, s) = t /\ \A n \in Int : LengthAfter(a, n) = n
  BY OneByOneIs
<1>2. ShapeOf(m, s) = u /\ \A n \in Int : LengthAfter(m, n) = n
  BY OneByOneIs
<1>3. ShapeOf(a, u) = t
  BY OneByOneIs
<1> HIDE DEF a, m, s, u, t
<1>4. ShapeThrough(<<a>>, s) = t
  BY <1>1, ThroughOne
<1>5. ShapeThrough(short, s) = t /\ LengthThrough(short, 720) = 720
  BY <1>1, <1>2, <1>3, ThroughTwo, LengthTwo
<1>6. StrideOf(ResidualOf(<<a>>, short)) = 1
  BY <1>1, StrideOne
<1>7. LengthAfter(Pool(<<1, 1>>), 720) = 720
  <2>1. 720 \div 1 = 720
    OBVIOUS
  <2> QED BY <2>1 DEF LengthAfter, Shrinks, TimeStride, Pool
<1> HIDE DEF short
<1>8. Leads(<< ResidualOf(<<a>>, short) >>, At(s, p), At(t, p * 1)) /\ Plain(<< ResidualOf(<<a>>, short) >>)
      /\ Paced(<< ResidualOf(<<a>>, short) >>)
  BY <1>1, <1>4, <1>5, <1>6, <1>7, ResidualLeads
<1>9. p * 1 = p
  OBVIOUS
<1> QED BY <1>8, <1>9 DEF a, m, s, t, short

LEMMA FlattenLeads ==
  ASSUME NEW ch \in Nat, NEW b \in Nat, NEW p \in Int
  PROVE  Leads(<<Flatten>>, At(<< ch, b >>, p), At(<< ch * b, 1 >>, p)) /\ Plain(<<Flatten>>) /\ Paced(<<Flatten>>)
<1> DEFINE s == << ch, b >>  t == << ch * b, 1 >>
<1>1. s # NoShape /\ s[1] = ch /\ s[2] = b /\ p * 1 = p
  BY DEF NoShape
<1>2. Flatten.kind = "flatten"
  BY DEF Flatten
<1> HIDE DEF s
<1>3. ShapeOf(Flatten, s) = t /\ TimeStride(Flatten) = 1
  BY <1>1, <1>2 DEF ShapeOf, TimeStride
<1> HIDE DEF t
<1>4. Leads(<<Flatten>>, At(s, p), At(t, p * 1)) /\ Plain(<<Flatten>>) /\ Paced(<<Flatten>>)
  BY <1>1, <1>2, <1>3, SimpleLeads
<1> QED BY <1>1, <1>4 DEF s, t

LEMMA ReshapeLeads ==
  ASSUME NEW bins \in Nat, NEW channels \in Nat, NEW p \in Int
  PROVE  LET z == << Reshape(bins, channels) >>
         IN Leads(z, At(<< bins * channels, 1 >>, p), At(<< channels, bins >>, p)) /\ Plain(z)
<1> DEFINE s == << bins * channels, 1 >>  t == << channels, bins >>  l == Reshape(bins, channels)
<1>1. s # NoShape /\ s[1] * s[2] = bins * channels /\ p * 1 = p
  BY DEF NoShape
<1>2. l.kind = "reshape" /\ l.bins = bins /\ l.channels = channels
  BY DEF Reshape
<1> HIDE DEF s, l
<1>3. ShapeOf(l, s) = t /\ TimeStride(l) = 1
  BY <1>1, <1>2 DEF ShapeOf, TimeStride
<1> HIDE DEF t
<1>4. Leads(<<l>>, At(s, p), At(t, p * 1)) /\ Plain(<<l>>)
  BY <1>1, <1>2, <1>3, SimpleLeads
<1> QED BY <1>1, <1>4 DEF s, t, l

--------------------------------------------------------------------------------
(* The encoder.                                                            *)

\* What is left of a product after each of its factors.
EncoderSuffixes(Q, s) ==
  /\ Q[Len(s)] = 1 /\ \A n \in 0 .. Len(s) : Q[n] \in Positive
  /\ \A n \in 1 .. Len(s) : Q[n - 1] = Q[n] * s[n]
  /\ Q[0] = ProductOf(s)

LEMMA SuffixesExist ==
  ASSUME NEW s, Len(s) \in Nat, \A i \in 1 .. Len(s) : s[i] \in Positive
  PROVE  \E Q : EncoderSuffixes(Q, s)
<1> DEFINE N == Len(s)  r == [i \in 1 .. N |-> s[N + 1 - i]]
<1>1. N \in Nat /\ Len(r) = N /\ \A i \in 1 .. N : r[i] = s[N + 1 - i] /\ r[i] \in Positive
  <2>1. \A i \in 1 .. N : N + 1 - i \in 1 .. N
    OBVIOUS
  <2> QED BY <2>1
<1> HIDE DEF r
<1>2. PICK f : ProductChain(f, r, N)
  <2>1. Len(r) \in Nat
    BY <1>1
  <2>2. \E f : ProductChain(f, r, Len(r))
    BY <2>1, ProductIs
  <2> QED BY <1>1, <2>2
<1>3. PICK P : ProductChain(P, s, N)
  BY ProductIs
<1>4. ProductOf(s) = P[N]
  BY <1>3, ProductIs
<1> HIDE DEF N
<1>5. \A n \in 0 .. N : f[n] \in Positive
  <2> DEFINE T == {n \in 0 .. N : f[n] \in Positive}
  <2>1. 0 \in T
    BY <1>1, <1>2 DEF ProductChain, Positive
  <2>2. ASSUME NEW n \in 0 .. N - 1, n \in T PROVE n + 1 \in T
    <3>1. n + 1 \in 1 .. N /\ n + 1 \in 0 .. N /\ n + 1 - 1 = n
      BY <1>1
    <3>2. f[n + 1] = f[n] * r[n + 1] /\ r[n + 1] \in Positive /\ f[n] \in Positive
      BY <1>1, <1>2, <2>2, <3>1 DEF ProductChain
    <3>3. f[n + 1] \in Positive
      BY <3>2 DEF Positive
    <3> QED BY <3>1, <3>3
  <2> HIDE DEF T
  <2>3. \A n \in 0 .. N : n \in T
    BY <1>1, <2>1, <2>2, SetInduction
  <2> QED BY <2>3 DEF T
<1> DEFINE Q == [n \in 0 .. N |-> f[N - n]]
<1>6. \A n \in 0 .. N : Q[n] = f[N - n] /\ N - n \in 0 .. N
  BY <1>1
<1> HIDE DEF Q
<1>7. Q[N] = 1 /\ \A n \in 0 .. N : Q[n] \in Positive
  <2>1. N \in 0 .. N /\ N - N = 0
    BY <1>1
  <2>2. Q[N] = f[0]
    BY <1>6, <2>1
  <2> QED BY <1>2, <1>5, <1>6, <2>2 DEF ProductChain
<1>8. ASSUME NEW n \in 1 .. N PROVE Q[n - 1] = Q[n] * s[n]
  <2> DEFINE k == N + 1 - n
  <2>1. n \in 0 .. N /\ n - 1 \in 0 .. N /\ k \in 1 .. N /\ N - (n - 1) = k /\ N - n = k - 1 /\ N + 1 - k = n
    BY <1>1
  <2> HIDE DEF k
  <2>2. f[k] = f[k - 1] * r[k] /\ r[k] = s[n]
    BY <1>1, <1>2, <2>1 DEF ProductChain
  <2> QED BY <1>6, <2>1, <2>2
<1>9. Q[0] = P[N]
  <2> DEFINE T == {n \in 0 .. N : P[n] \in Positive /\ P[n] * Q[n] = Q[0]}
  <2>1. 0 \in T
    <3>1. P[0] = 1 /\ 0 \in 0 .. N /\ Q[0] \in Positive
      BY <1>1, <1>3, <1>7 DEF ProductChain
    <3> QED BY <3>1 DEF Positive
  <2>2. ASSUME NEW n \in 0 .. N - 1, n \in T PROVE n + 1 \in T
    <3>1. n + 1 \in 1 .. N /\ n + 1 \in 0 .. N /\ n + 1 - 1 = n
      BY <1>1
    <3> DEFINE a == P[n]  b == Q[n + 1]  d == s[n + 1]
    <3>2. P[n + 1] = a * d /\ Q[n] = b * d
      BY <1>3, <1>8, <3>1 DEF ProductChain
    <3>3. a \in Positive /\ b \in Positive /\ d \in Positive /\ a * Q[n] = Q[0]
      BY <1>7, <2>2, <3>1 DEF N
    <3> HIDE DEF a, b, d
    <3>4. (a * d) * b = a * (b * d) /\ a * d \in Positive
      BY <3>3 DEF Positive
    <3> QED BY <3>1, <3>2, <3>3, <3>4 DEF b
  <2> HIDE DEF T
  <2>3. \A n \in 0 .. N : n \in T
    BY <1>1, <2>1, <2>2, SetInduction
  <2>4. N \in 0 .. N
    BY <1>1
  <2>5. P[N] * Q[N] = Q[0] /\ P[N] \in Positive
    BY <2>3, <2>4 DEF T
  <2> QED BY <1>7, <2>5 DEF Positive
<1> QED BY <1>4, <1>7, <1>8, <1>9 DEF EncoderSuffixes, N

\* What a configuration is made of.
LEMMA ConfigIs ==
  ASSUME NEW c, CodecConfig(c), RecomboInRange(c)
  PROVE  /\ Len(c.ratios) \in Nat
         /\ \A i \in 1 .. Len(c.ratios) :
              /\ c.ratios[i] = << c.ratios[i][1], c.ratios[i][2] >>
              /\ c.ratios[i][1] \in Positive /\ c.ratios[i][2] \in Positive /\ c.mults[i] \in Positive
         /\ c.dilation = << c.dilation[1], c.dilation[2] >> /\ c.dilation[2] \in Positive
         /\ PaddingOf(c) \in {"same", "causal"} /\ c.resnet \in BOOLEAN /\ c.splits \in Nat
         /\ c.channels \in Positive /\ c.bins \in Positive /\ c.features \in Positive /\ c.convSize \in Positive
         /\ c.encoderDepth \in Positive /\ c.decoderDepth \in Positive /\ c.lookahead \in Nat
         /\ IF c.splits = 0 THEN Recombo(c) = -2 ELSE Recombo(c) \in 0 .. Len(c.ratios)
<1> DEFINE N == Len(c.ratios)  P == Nat \ {0}
<1>1. c.ratios \in Seq(P \X P) /\ c.mults \in [DOMAIN c.ratios -> P] /\ c.dilation \in P \X P
  BY DEF CodecConfig
<1>2. N \in Nat /\ DOMAIN c.ratios = 1 .. N /\ \A i \in 1 .. N : c.ratios[i] \in P \X P /\ c.mults[i] \in P
  <2>1. N \in Nat /\ DOMAIN c.ratios = 1 .. N /\ \A i \in 1 .. N : c.ratios[i] \in P \X P
    BY <1>1
  <2> HIDE DEF N, P
  <2> QED BY <1>1, <2>1
<1>3. \A r \in P \X P : r = << r[1], r[2] >> /\ r[1] \in P /\ r[2] \in P
  OBVIOUS
<1>4. IF c.splits = 0 THEN Recombo(c) = -2 ELSE Recombo(c) \in 0 .. N
  <2>1. CASE c.splits = 0
    BY <2>1 DEF Recombo, Unset
  <2>2. CASE c.splits # 0
    <3>1. Recombo(c) = (c.recombo + (N + 1)) % (N + 1)
      BY <2>2 DEF Recombo
    <3> DEFINE n == c.recombo + (N + 1)
    <3>2. n \in Int /\ N + 1 \in Nat \ {0}
      <4>1. c.recombo \in Int
        BY DEF CodecConfig
      <4> HIDE DEF N
      <4> QED BY <1>2, <4>1
    <3> HIDE DEF n, N
    <3>3. n % (N + 1) \in 0 .. N
      <4> DEFINE d == N + 1
      <4>1. d \in Nat \ {0}
        BY <3>2
      <4> HIDE DEF d
      <4>2. n % d \in 0 .. d - 1
        BY <3>2, <4>1
      <4>3. d - 1 = N
        BY <1>2 DEF d
      <4> QED BY <4>2, <4>3 DEF d
    <3> QED BY <2>2, <3>1, <3>3 DEF n
  <2> QED BY <2>1, <2>2
<1>5. PaddingOf(c) \in {"same", "causal"}
  BY DEF PaddingOf
<1>6. /\ c.resnet \in BOOLEAN /\ c.splits \in Nat /\ c.channels \in P /\ c.bins \in P /\ c.features \in P
      /\ c.convSize \in P /\ c.encoderDepth \in P /\ c.decoderDepth \in P /\ c.lookahead \in Nat
  BY DEF CodecConfig
<1> HIDE DEF N
<1> QED BY <1>1, <1>2, <1>3, <1>4, <1>5, <1>6 DEF N, Positive

\* The bins of a level, by those the decoder starts from.
BinsLeft(c, Q) == EncoderSuffixes(Q, Pick2(c.ratios)) /\ DecoderBins(c) \in Positive /\ DecoderBins(c) * Q[0] = c.bins

LEMMA BinsAre ==
  ASSUME NEW c, CodecConfig(c), DecoderMakes(c)
  PROVE  \E Q : BinsLeft(c, Q)
<1> DEFINE s == Pick2(c.ratios)  d == DecoderBins(c)
<1>1. Len(c.ratios) \in Nat /\ \A i \in 1 .. Len(c.ratios) : c.ratios[i][2] \in Positive
  BY ConfigIs DEF DecoderMakes
<1>2. DOMAIN c.ratios = 1 .. Len(c.ratios)
  BY DEF CodecConfig
<1>3. Len(s) = Len(c.ratios) /\ \A i \in 1 .. Len(s) : s[i] \in Positive
  BY <1>1, <1>2 DEF Pick2
<1> HIDE DEF s
<1>4. PICK Q : EncoderSuffixes(Q, s)
  BY <1>1, <1>3, SuffixesExist
<1>5. Q[0] \in Positive /\ Q[0] = ProductOf(s)
  BY <1>1, <1>3, <1>4 DEF EncoderSuffixes
<1>6. c.bins \in Nat \ {0}
  BY DEF CodecConfig
<1>7. d * Q[0] = c.bins /\ d = c.bins \div Q[0]
  BY <1>5 DEF DecoderMakes, DecoderBins, s
<1> HIDE DEF d
<1>8. d \in Int
  BY <1>5, <1>6, <1>7 DEF Positive
<1>9. d \in Positive
  <2> DEFINE q == Q[0]  b == c.bins
  <2>1. q \in Nat \ {0} /\ b \in Nat \ {0} /\ d * q = b
    BY <1>5, <1>6, <1>7 DEF Positive
  <2> HIDE DEF q, b
  <2>2. CASE d <= 0
    <3>1. d * q <= 0
      BY <1>8, <2>1, <2>2
    <3> QED BY <2>1, <3>1
  <2> QED BY <1>8, <2>2 DEF Positive
<1> QED BY <1>4, <1>7, <1>9 DEF BinsLeft, d, s

\* The groups have become one after n levels.
Joined(c, n) == c.splits = 0 \/ Recombo(c) < n
Fed(c, n) == IF Joined(c, n) THEN c.channels ELSE c.channels \div c.splits
Heard(c, n) == At(<< Fed(c, n), c.bins >>, 1)
\* The layers, and what they make of the audio of a group, or of all of it.
EncoderAt(c, Q, acc, n) ==
  /\ acc.input = acc.out /\ acc.out \in Positive /\ acc.bins = DecoderBins(c) * Q[n] /\ acc.bins \in Positive
  /\ \E q \in Nat : Leads(acc.layers, Heard(c, n), At(<< acc.out, acc.bins >>, q))
  /\ Paced(acc.layers) /\ (~Joined(c, n) => Plain(acc.layers))
EncoderWorks(c) == CodecConfig(c) /\ EncoderMakes(c) /\ DecoderMakes(c)
Gathered(c, acc, joins) == IF joins THEN <<Parallel(acc.layers, c.splits)>> ELSE acc.layers
Width(c, acc, joins) == IF joins THEN acc.input * c.splits ELSE acc.input

LEMMA Gather ==
  ASSUME NEW c, EncoderWorks(c), NEW Q, NEW n \in 0 .. Len(c.ratios), NEW acc, EncoderAt(c, Q, acc, n),
         NEW joins \in BOOLEAN, joins <=> Recombo(c) = n
  PROVE  /\ \E q \in Nat : Leads(Gathered(c, acc, joins), Heard(c, n + 1), At(<< Width(c, acc, joins), acc.bins >>, q))
         /\ Paced(Gathered(c, acc, joins)) /\ (~Joined(c, n + 1) => Plain(Gathered(c, acc, joins)))
<1> DEFINE L == Gathered(c, acc, joins)  w == Width(c, acc, joins)  b == acc.bins
<1>1. /\ c.splits \in Nat /\ IF c.splits = 0 THEN Recombo(c) = -2 ELSE Recombo(c) \in 0 .. Len(c.ratios)
      /\ c.channels \in Positive /\ Len(c.ratios) \in Nat
  BY ConfigIs DEF EncoderWorks, EncoderMakes
<1>2. n \in Nat /\ n + 1 \in Nat
  BY <1>1
<1>3. PICK q \in Nat : Leads(acc.layers, Heard(c, n), At(<< acc.out, b >>, q))
  BY DEF EncoderAt
<1>4. acc.input = acc.out /\ acc.out \in Positive /\ Paced(acc.layers) /\ (~Joined(c, n) => Plain(acc.layers))
  BY DEF EncoderAt
<1>5. CASE joins
  <2>0. Recombo(c) = n /\ n # -2 /\ ~(n < n) /\ n < n + 1
    BY <1>2, <1>5
  <2>1. c.splits \in Nat \ {0} /\ Recombo(c) = n /\ ~Joined(c, n) /\ Joined(c, n + 1)
    BY <1>1, <2>0 DEF Joined
  <2> DEFINE g == c.splits  k == c.channels \div g  o == acc.out
  <2>2. g * k = c.channels /\ k \in Nat
    <3>1. c.channels % g = 0
      BY <2>1 DEF EncoderWorks, DecoderMakes
    <3>2. g \in Nat \ {0} /\ c.channels \in Nat
      BY <1>1, <2>1 DEF Positive
    <3> HIDE DEF g
    <3> QED BY <3>1, <3>2
  <2>3. Heard(c, n) = At(<< k, c.bins >>, 1) /\ Heard(c, n + 1) = At(<< g * k, c.bins >>, 1)
    BY <2>1, <2>2 DEF Heard, Fed
  <2>4. Plain(acc.layers) /\ Leads(acc.layers, At(<< k, c.bins >>, 1), At(<< o, b >>, q)) /\ o \in Nat
    BY <1>3, <1>4, <2>1, <2>3 DEF Positive
  <2>5. g \in Nat \ {0}
    BY <2>1
  <2> DEFINE one == 1  cb == c.bins
  <2> HIDE DEF k, o, g, b, one, cb
  <2>6. Leads(<<Parallel(acc.layers, g)>>, At(<< g * k, cb >>, one), At(<< g * o, b >>, one * q))
        /\ Paced(<<Parallel(acc.layers, g)>>)
    BY <2>2, <2>4, <2>5, ParallelLeads DEF one, cb
  <2>7. L = <<Parallel(acc.layers, g)>> /\ w = o * g
    BY <1>4, <1>5 DEF Gathered, Width, g, o
  <2>8. o * g = g * o /\ one * q = q
    BY <1>3, <2>4, <2>5 DEF one
  <2> HIDE DEF L, w
  <2> QED BY <1>3, <2>1, <2>3, <2>6, <2>7, <2>8 DEF L, w, b, one, cb
<1>6. CASE ~joins
  <2>1. Joined(c, n) <=> Joined(c, n + 1)
    <3>1. Recombo(c) # n
      BY <1>6
    <3>2. Recombo(c) \in Int
      BY <1>1
    <3>3. Recombo(c) < n <=> Recombo(c) < n + 1
      BY <1>2, <3>1, <3>2
    <3> QED BY <3>3 DEF Joined
  <2>2. Heard(c, n) = Heard(c, n + 1)
    BY <2>1 DEF Heard, Fed
  <2>3. L = acc.layers /\ w = acc.out
    BY <1>4, <1>6 DEF Gathered, Width
  <2> HIDE DEF L, w
  <2> QED BY <1>3, <1>4, <2>1, <2>2, <2>3 DEF L, w
<1> QED BY <1>5, <1>6

\* What u does, whenever it does it; and layers with u after them.
Takes(u, s, t, v) == Plain(u) /\ Paced(u) /\ \A p \in Int : Leads(u, At(s, p), At(t, p * v))

LEMMA ThenUnit ==
  ASSUME NEW L, NEW x, NEW u, NEW s, NEW t, NEW v \in Nat, Takes(u, s, t, v),
         \E q \in Nat : Leads(L, x, At(s, q)), Paced(L)
  PROVE  /\ \E q \in Nat : Leads(L \o u, x, At(t, q))
         /\ Paced(L \o u) /\ (Plain(L) => Plain(L \o u))
<1>1. PICK q \in Nat : Leads(L, x, At(s, q))
  OBVIOUS
<1>2. Leads(u, At(s, q), At(t, q * v)) /\ Plain(u) /\ Paced(u) /\ q * v \in Nat
  BY <1>1 DEF Takes
<1>3. Leads(L \o u, x, At(t, q * v))
  BY <1>1, <1>2, LeadsConcat
<1>4. Paced(L \o u) /\ (Plain(L) => Plain(L \o u))
  BY <1>1, <1>2, KindsConcat DEF Leads
<1> QED BY <1>2, <1>3, <1>4

LEMMA EncoderStep ==
  ASSUME NEW c, EncoderWorks(c), NEW Q, BinsLeft(c, Q), NEW n \in 0 .. Len(c.ratios) - 1, NEW acc, EncoderAt(c, Q, acc, n)
  PROVE  EncoderAt(c, Q, EncoderLevel(c, acc, n + 1), n + 1)
<1> DEFINE i == n + 1  joins == Recombo(c) = i - 1  r == c.ratios[i]  out == acc.out * c.mults[i]
           G == Gathered(c, acc, joins)  w == Width(c, acc, joins)
           delay == RequiredStepwiseDelay(r[1], acc.latency)
           D == IF delay > 0 THEN <<Shifting("delay", delay)>> ELSE <<>>
           u == Conv2dResidualUnit(w, out, r, c.dilation, FALSE, PaddingOf(c), c.resnet)
           new == EncoderLevel(c, acc, i)
           m == DecoderBins(c) * Q[i]
<1>1. /\ new.layers = (G \o D) \o u /\ new.input = out /\ new.out = out /\ new.bins = acc.bins \div r[2]
  BY DEF EncoderLevel, Gathered, Width
<1>2. /\ Len(c.ratios) \in Nat /\ i \in 1 .. Len(c.ratios) /\ i - 1 = n /\ i \in 0 .. Len(c.ratios) /\ n \in 0 .. Len(c.ratios)
      /\ r = << r[1], r[2] >> /\ r[1] \in Positive /\ r[2] \in Positive /\ c.mults[i] \in Positive
      /\ c.dilation = << c.dilation[1], c.dilation[2] >> /\ c.dilation[2] \in Positive /\ c.resnet \in BOOLEAN
  BY ConfigIs DEF EncoderWorks, EncoderMakes
<1>3. acc.out \in Positive /\ acc.bins = DecoderBins(c) * Q[n]
  BY DEF EncoderAt
<1>4. out \in Positive
  <2> DEFINE a == acc.out  k == c.mults[i]
  <2>1. a \in Positive /\ k \in Positive
    BY <1>2, <1>3
  <2> HIDE DEF a, k
  <2>2. a * k \in Positive
    BY <2>1 DEF Positive
  <2> QED BY <2>2 DEF a, k
<1>5. acc.bins = r[2] * m /\ m \in Positive /\ acc.bins \div r[2] = m
  <2> DEFINE d == DecoderBins(c)  a == r[2]  y == Q[i]
  <2>1. Q[n] = y * a /\ y \in Positive /\ d \in Positive
    <3> DEFINE s == Pick2(c.ratios)
    <3>1. DOMAIN c.ratios = 1 .. Len(c.ratios)
      BY DEF EncoderWorks, CodecConfig
    <3>2. Len(s) = Len(c.ratios) /\ s[i] = a
      BY <1>2, <3>1 DEF Pick2
    <3> HIDE DEF s, a, i
    <3> QED BY <1>2, <3>2 DEF BinsLeft, EncoderSuffixes, s
  <2>2. a \in Positive /\ acc.bins = d * Q[n]
    BY <1>2, <1>3
  <2>3. m = d * y
    OBVIOUS
  <2> HIDE DEF a, d, y, m
  <2>4. d * (y * a) = a * (d * y) /\ d * y \in Positive
    BY <2>1, <2>2 DEF Positive
  <2>5. acc.bins = a * m + 0 /\ acc.bins \in Int /\ m \in Int /\ 0 \in 0 .. a - 1 /\ a \in Nat \ {0} /\ acc.bins = a * m
    BY <2>1, <2>2, <2>3, <2>4 DEF Positive
  <2>6. acc.bins \div a = m
    BY <2>5, RemainderIs
  <2> QED BY <2>3, <2>4, <2>5, <2>6 DEF a
<1>6. /\ \E q \in Nat : Leads(G, Heard(c, i), At(<< w, acc.bins >>, q))
      /\ Paced(G) /\ (~Joined(c, i) => Plain(G))
  <2>1. joins \in BOOLEAN /\ (joins <=> Recombo(c) = n)
    BY <1>2
  <2> HIDE DEF joins
  <2> QED BY <1>2, <2>1, Gather
<1> HIDE DEF G, w, out, m
<1>7. /\ \E q \in Nat : Leads(G \o D, Heard(c, i), At(<< w, acc.bins >>, q))
      /\ Paced(G \o D) /\ (Plain(G) => Plain(G \o D))
  <2>1. PICK q \in Nat : Leads(G, Heard(c, i), At(<< w, acc.bins >>, q))
    BY <1>6
  <2> DEFINE y == At(<< w, acc.bins >>, q)
  <2>2. Leads(D, y, y) /\ Plain(D) /\ Paced(D)
    <3>1. CASE delay > 0
      <4> DEFINE l == Shifting("delay", delay)
      <4>1. l.kind = "delay" /\ << w, acc.bins >> # NoShape /\ D = <<l>>
        BY <3>1 DEF Shifting, NoShape
      <4> HIDE DEF l, D
      <4> QED BY <2>1, <4>1, PassingLeads
    <3>2. CASE ~(delay > 0)
      BY <3>2, LeadsNone
    <3> QED BY <3>1, <3>2
  <2> HIDE DEF D, y
  <2>3. Leads(G, Heard(c, i), y)
    BY <2>1 DEF y
  <2>4. Leads(G \o D, Heard(c, i), y)
    BY <2>2, <2>3, LeadsConcat
  <2>5. Paced(G \o D) /\ (Plain(G) => Plain(G \o D))
    BY <1>6, <2>2, <2>3, KindsConcat DEF Leads
  <2> QED BY <2>4, <2>5 DEF y
<1> DEFINE L == G \o D  s1 == r[1]  s2 == r[2]  d1 == c.dilation[1]  d2 == c.dilation[2]
<1>8. u = Conv2dResidualUnit(w, out, << s1, s2 >>, << d1, d2 >>, FALSE, PaddingOf(c), c.resnet)
  BY <1>2
<1>9. s1 \in Positive /\ s2 \in Positive /\ d2 \in Positive /\ acc.bins = s2 * m /\ m \in Positive /\ c.resnet \in BOOLEAN
  BY <1>2, <1>5
<1>10. new.layers = L \o u /\ (\E q \in Nat : Leads(L, Heard(c, i), At(<< w, acc.bins >>, q))) /\ Paced(L)
       /\ (~Joined(c, i) => Plain(L))
  BY <1>1, <1>6, <1>7
<1> HIDE DEF L, u, s1, s2, d1, d2
<1>11. /\ \E q \in Nat : Leads(L \o u, Heard(c, i), At(<< out, m >>, q))
       /\ Paced(L \o u) /\ (Plain(L) => Plain(L \o u))
  <2>1. Takes(u, << w, acc.bins >>, << out, m >>, s1)
    <3> DEFINE pad == PaddingOf(c)  net == c.resnet
    <3>1. u = Conv2dResidualUnit(w, out, << s1, s2 >>, << d1, d2 >>, FALSE, pad, net) /\ net \in BOOLEAN
      BY <1>8, <1>9
    <3> HIDE DEF pad, net
    <3>2. ASSUME NEW p \in Int PROVE Leads(u, At(<< w, s2 * m >>, p), At(<< out, m >>, p * s1)) /\ Plain(u) /\ Paced(u)
      BY <1>9, <3>1, EncoderUnit
    <3>3. 0 \in Int
      OBVIOUS
    <3> QED BY <1>9, <3>2, <3>3 DEF Takes
  <2>2. s1 \in Nat
    BY <1>9 DEF Positive
  <2> QED BY <1>10, <2>1, <2>2, ThenUnit
<1>12. /\ \E q \in Nat : Leads(new.layers, Heard(c, i), At(<< out, m >>, q))
       /\ Paced(new.layers) /\ (~Joined(c, i) => Plain(new.layers))
  BY <1>10, <1>11
<1>13. new.input = new.out /\ new.out = out /\ new.bins = m /\ m = DecoderBins(c) * Q[i]
  <2>1. m = DecoderBins(c) * Q[i]
    BY DEF m
  <2> HIDE DEF new, i
  <2> QED BY <1>1, <1>5, <2>1
<1> HIDE DEF new, i
<1>14. EncoderAt(c, Q, new, i)
  BY <1>4, <1>5, <1>12, <1>13 DEF EncoderAt
<1> QED BY <1>14 DEF new, i

LEMMA EncoderLevelsAre ==
  ASSUME NEW c, EncoderWorks(c), NEW Q, BinsLeft(c, Q), NEW lat
  PROVE  EncoderAt(c, Q, EncoderLevels(c, lat), Len(c.ratios))
<1> DEFINE N == Len(c.ratios)
<1>1. /\ N \in Nat /\ c.encoderDepth \in Positive /\ c.convSize \in Positive /\ c.bins \in Positive
      /\ IF c.splits = 0 THEN Recombo(c) = -2 ELSE Recombo(c) \in 0 .. N
  BY ConfigIs DEF EncoderWorks, EncoderMakes
<1>2. PICK f : EncoderChain(f, c, lat, N)
  BY <1>1, EncoderIs
<1> DEFINE T == {n \in 0 .. N : EncoderAt(c, Q, f[n], n)}
<1>3. 0 \in T
  <2> DEFINE z == << Conv2d(c.encoderDepth, << c.convSize, c.convSize >>, <<1, 1>>, PaddingOf(c), <<1, 1>>) >>
             d == c.encoderDepth
  <2>1. f[0].layers = z /\ f[0].input = d /\ f[0].out = d /\ f[0].bins = c.bins
    BY <1>2 DEF EncoderChain, EncoderInput
  <2>2. Leads(z, Heard(c, 0), At(<< d, c.bins >>, 1)) /\ Plain(z) /\ Paced(z)
    <3> DEFINE size == c.convSize  pad == PaddingOf(c)  ch == Fed(c, 0)  b == c.bins
    <3>1. size \in Positive /\ b \in Positive /\ 1 \in Int
      BY <1>1
    <3> HIDE DEF size, pad, ch, b, d
    <3>2. z = << Conv2d(d, << size, size >>, <<1, 1>>, pad, <<1, 1>>) >>
      BY DEF size, pad, d
    <3>3. Leads(z, At(<< ch, b >>, 1), At(<< d, b >>, 1)) /\ Plain(z) /\ Paced(z)
      BY <3>1, <3>2, ConvLeads
    <3> QED BY <3>3 DEF Heard, ch, b
  <2>3. c.bins = DecoderBins(c) * Q[0] /\ 0 \in 0 .. N /\ 1 \in Nat
    BY <1>1 DEF BinsLeft
  <2> HIDE DEF z, d, N
  <2>4. EncoderAt(c, Q, f[0], 0)
    BY <1>1, <2>1, <2>2, <2>3 DEF EncoderAt, d
  <2> QED BY <2>3, <2>4
<1>4. ASSUME NEW n \in 0 .. N - 1, n \in T PROVE n + 1 \in T
  <2>1. n + 1 \in 1 .. N /\ n + 1 \in 0 .. N /\ n + 1 - 1 = n
    BY <1>1
  <2>2. f[n + 1] = EncoderLevel(c, f[n], n + 1)
    BY <1>2, <2>1 DEF EncoderChain
  <2>3. EncoderAt(c, Q, f[n], n)
    BY <1>4
  <2> QED BY <2>1, <2>2, <2>3, EncoderStep
<1>5. N \in T
  <2> HIDE DEF T
  <2>1. \A n \in 0 .. N : n \in T
    BY <1>1, <1>3, <1>4, SetInduction
  <2> QED BY <1>1, <2>1
<1>6. EncoderLevels(c, lat) = f[N]
  BY <1>1, <1>2, EncoderIs
<1> QED BY <1>5, <1>6

LEMMA EncoderFits ==
  ASSUME NEW c, EncoderWorks(c), SpectrostreamStftConfig(c) # Invalid, NEW lat,
         NEW encode, encode = <<SpectrostreamStftConfig(c)>> \o SpectrostreamEncoderConfig(c, lat)
  PROVE  ShapeAfter(encode, << c.channels, c.bins >>) = << c.features, 1 >> /\ Paced(encode) /\ List(encode)
<1> DEFINE N == Len(c.ratios)  r == EncoderLevels(c, lat)  joins == Recombo(c) = N
           G == Gathered(c, r, joins)  w == Width(c, r, joins)  m == DecoderBins(c)
           u == Conv2dResidualUnit(w, r.out, <<1, 1>>, <<1, 1>>, FALSE, PaddingOf(c), c.resnet)
           dense == ResidualOf(<<OneByOne(c.features)>>, <<OneByOne(r.bins * r.out), OneByOne(c.features)>>)
           stft == SpectrostreamStftConfig(c)  x == At(<< c.channels, c.bins >>, 1)  e == << c.features, 1 >>
<1>1. PICK Q : BinsLeft(c, Q)
  BY BinsAre DEF EncoderWorks
<1>2. /\ N \in Nat /\ N \in 0 .. N /\ c.resnet \in BOOLEAN
      /\ IF c.splits = 0 THEN Recombo(c) = -2 ELSE Recombo(c) \in 0 .. N
  BY ConfigIs DEF EncoderWorks, EncoderMakes
<1>3. EncoderAt(c, Q, r, N)
  BY <1>1, EncoderLevelsAre
<1>4. r.out \in Positive /\ r.bins = m /\ m \in Positive
  <2>1. Q[N] = 1 /\ m \in Positive
    <3> DEFINE s == Pick2(c.ratios)
    <3>1. DOMAIN c.ratios = 1 .. N
      BY DEF EncoderWorks, CodecConfig
    <3>2. Len(s) = N
      BY <1>2, <3>1 DEF Pick2
    <3> HIDE DEF s, N
    <3> QED BY <1>1, <3>2 DEF BinsLeft, EncoderSuffixes, s
  <2>2. r.bins = m * Q[N] /\ r.out \in Positive
    BY <1>3 DEF EncoderAt
  <2> HIDE DEF m, r
  <2>3. m * 1 = m
    BY <2>1 DEF Positive
  <2> QED BY <2>1, <2>2, <2>3
<1>5. /\ \E q \in Nat : Leads(G, x, At(<< w, m >>, q))
      /\ Paced(G)
  <2>1. joins \in BOOLEAN /\ (joins <=> Recombo(c) = N)
    OBVIOUS
  <2>2. Joined(c, N + 1)
    <3>1. Recombo(c) = -2 \/ Recombo(c) \in 0 .. N
      BY <1>2
    <3> HIDE DEF N
    <3>2. Recombo(c) < N + 1
      BY <1>2, <3>1
    <3> QED BY <3>2 DEF Joined
  <2>3. Heard(c, N + 1) = x
    BY <2>2 DEF Heard, Fed
  <2> HIDE DEF joins, N, r, x, m
  <2>4. /\ \E q \in Nat : Leads(G, Heard(c, N + 1), At(<< w, r.bins >>, q))
        /\ Paced(G)
    <3>1. Len(c.ratios) = N
      BY DEF N
    <3> QED BY <1>2, <1>3, <2>1, <3>1, Gather
  <2> QED BY <1>4, <2>3, <2>4
<1>6. encode = <<stft>> \o ((G \o u) \o << Flatten, dense >>)
  <2>1. SpectrostreamEncoderConfig(c, lat) = (G \o u) \o << Flatten, dense >>
    BY DEF SpectrostreamEncoderConfig, EncoderEnd, Gathered, Width
  <2> QED BY <2>1
<1> DEFINE out == r.out
<1>7. Takes(u, << w, m >>, << out, m >>, 1)
  <2> DEFINE pad == PaddingOf(c)  net == c.resnet
  <2> HIDE DEF w, m, out, pad, net
  <2>1. u = Conv2dResidualUnit(w, out, <<1, 1>>, <<1, 1>>, FALSE, pad, net) /\ net \in BOOLEAN
    BY <1>2 DEF pad, net, out
  <2>2. 1 \in Positive /\ m = 1 * m /\ m \in Positive
    BY <1>4 DEF Positive
  <2> HIDE DEF u
  <2>3. ASSUME NEW p \in Int PROVE Leads(u, At(<< w, 1 * m >>, p), At(<< out, m >>, p * 1)) /\ Plain(u) /\ Paced(u)
    BY <2>1, <2>2, EncoderUnit
  <2>4. 0 \in Int
    OBVIOUS
  <2> QED BY <2>2, <2>3, <2>4 DEF Takes
<1> HIDE DEF G, w, m, u, dense, stft, x, e, joins, r
<1>8. PICK q \in Nat : Leads(G \o u, x, At(<< out, m >>, q)) /\ Paced(G \o u)
  <2>1. 1 \in Nat
    OBVIOUS
  <2> QED BY <1>5, <1>7, <2>1, ThenUnit
<1> DEFINE y == At(<< out, m >>, q)  z == At(<< out * m, 1 >>, q)
<1>9. Leads(<<Flatten>>, y, z) /\ Paced(<<Flatten>>)
  <2>1. out \in Nat /\ m \in Nat /\ q \in Int
    BY <1>4 DEF Positive
  <2> HIDE DEF out
  <2> QED BY <2>1, FlattenLeads
<1>10. Leads(<<dense>>, z, At(e, q)) /\ Paced(<<dense>>)
  <2> DEFINE ch == out * m
  <2>1. q \in Int /\ 1 \in Positive
    BY DEF Positive
  <2> HIDE DEF ch
  <2>2. Leads(<<dense>>, At(<< ch, 1 >>, q), At(e, q)) /\ Paced(<<dense>>)
    BY <2>1, DenseLeads DEF dense, e
  <2> QED BY <2>2 DEF ch
<1> HIDE DEF y, z
<1>11. Leads(<< Flatten, dense >>, y, At(e, q)) /\ Paced(<< Flatten, dense >>)
  <2>1. <<Flatten>> \o <<dense>> = << Flatten, dense >>
    BY PairIs
  <2>2. Leads(<<Flatten>> \o <<dense>>, y, At(e, q))
    BY <1>9, <1>10, LeadsConcat
  <2>3. Paced(<<Flatten>> \o <<dense>>)
    BY <1>9, <1>10, KindsConcat DEF Leads
  <2> QED BY <2>1, <2>2, <2>3
<1> DEFINE H == G \o u  F == << Flatten, dense >>
<1>12. Leads(H, x, y) /\ Paced(H) /\ Leads(F, y, At(e, q)) /\ Paced(F)
  BY <1>8, <1>11 DEF y
<1> HIDE DEF H, F
<1>13. Leads(H \o F, x, At(e, q)) /\ Paced(H \o F)
  <2>1. Leads(H \o F, x, At(e, q))
    BY <1>12, LeadsConcat
  <2>2. Paced(H \o F)
    BY <1>12, KindsConcat DEF Leads
  <2> QED BY <2>1, <2>2
<1>14. Leads(<<stft>>, x, x) /\ Paced(<<stft>>)
  <2>1. stft.kind = "stft"
    BY DEF stft, SpectrostreamStftConfig
  <2> DEFINE s == << c.channels, c.bins >>
  <2>2. s # NoShape /\ x = At(s, 1) /\ 1 \in Int
    BY DEF NoShape, x
  <2> HIDE DEF s
  <2> QED BY <2>1, <2>2, PassingLeads
<1> DEFINE E == H \o F
<1> HIDE DEF E
<1>15. Leads(<<stft>> \o E, x, At(e, q)) /\ Paced(<<stft>> \o E) /\ List(<<stft>> \o E)
  <2>1. Leads(E, x, At(e, q)) /\ Paced(E)
    BY <1>13 DEF E
  <2> DEFINE Z == <<stft>>
  <2>2. Leads(Z, x, x) /\ Paced(Z)
    BY <1>14
  <2> HIDE DEF Z
  <2>3. Leads(Z \o E, x, At(e, q))
    BY <2>1, <2>2, LeadsConcat
  <2>4. Paced(Z \o E)
    BY <2>1, <2>2, KindsConcat DEF Leads
  <2>5. List(Z \o E)
    BY <2>3 DEF Leads
  <2> QED BY <2>3, <2>4, <2>5 DEF Z
<1>16. encode = <<stft>> \o E
  BY <1>6 DEF E, H, F, stft
<1>17. ShapeAfter(encode, x.shape) = At(e, q).shape
  BY <1>15, <1>16, LeadsTo
<1> QED BY <1>15, <1>16, <1>17 DEF At, x, e

--------------------------------------------------------------------------------
(* The decoder.                                                            *)

LEMMA RoundedIs ==
  ASSUME NEW n \in Nat, NEW d \in Positive
  PROVE  RoundedRatio(n, d) \in Nat /\ RoundedRatio(n, d) <= n
<1> DEFINE low == n \div d  r == n % d  up == 2 * r > d \/ (2 * r = d /\ low % 2 = 1)
<1>1. low \in Int /\ r \in Nat /\ r < d /\ n = d * low + r /\ d \in Nat \ {0}
  BY DEF Positive
<1>2. RoundedRatio(n, d) = IF up THEN low + 1 ELSE low
  BY DEF RoundedRatio
<1>3. up => r >= 1
  <2> SUFFICES ASSUME up PROVE r >= 1
    OBVIOUS
  <2>1. 2 * r > d \/ 2 * r = d
    OBVIOUS
  <2> HIDE DEF r, low
  <2> QED BY <1>1, <2>1
<1> HIDE DEF low, r, up
<1>4. low \in Nat
  <2>1. CASE low <= -1
    <3>1. d * low <= -d
      BY <1>1, <2>1
    <3> QED BY <1>1, <3>1
  <2> QED BY <1>1, <2>1
<1>5. d * low >= low
  BY <1>1, <1>4
<1> QED BY <1>1, <1>2, <1>3, <1>4, <1>5

\* The groups have parted after n levels.
Parted(c, n) == c.splits # 0 /\ Recombo(c) >= Len(c.ratios) - n
Start(c) == At(<< c.features, 1 >>, 1)
BinsUp(c, Q, n) == DecoderBins(c) * Q[Len(c.ratios) - n]
\* What the layers make of a frame of features, before and after the groups part.
DecoderAt(c, Q, T, acc, n) ==
  /\ acc.out \in Nat
  /\ ~Parted(c, n) =>
       /\ acc.input = acc.out
       /\ Leads(acc.layers, Start(c), At(<< acc.out, BinsUp(c, Q, n) >>, T[Len(c.ratios) - n]))
  /\ Parted(c, n) =>
       /\ acc.input = acc.out \/ acc.input = acc.out * c.splits
       /\ Plain(acc.layers)
       /\ \E w \in Nat, b \in Positive, p \in Nat, q \in Nat :
            /\ Leads(acc.apart, Start(c), At(<< c.splits * w, b >>, p))
            /\ Leads(acc.layers, At(<< w, b >>, 1), At(<< acc.out, BinsUp(c, Q, n) >>, q))
            /\ p * q = T[Len(c.ratios) - n]
TimesUp(c, T) == EncoderSuffixes(T, Pick1(c.ratios))

LEMMA DecoderParts ==
  ASSUME NEW c, NEW Q, NEW T, NEW acc, NEW n, NEW w \in Nat, NEW d \in Positive, NEW p \in Nat, NEW q \in Nat,
         acc.out \in Nat, Parted(c, n), acc.input = acc.out \/ acc.input = acc.out * c.splits, Plain(acc.layers),
         NEW b, b = BinsUp(c, Q, n), NEW t, t = T[Len(c.ratios) - n], p * q = t,
         Leads(acc.apart, Start(c), At(<< c.splits * w, d >>, p)), Leads(acc.layers, At(<< w, d >>, 1), At(<< acc.out, b >>, q))
  PROVE  DecoderAt(c, Q, T, acc, n)
BY DEF DecoderAt

\* u is the unit of level i, the one after n levels.
LevelAt(c, Q, T, n, i, input, output, fed, u) ==
  /\ EncoderWorks(c) /\ BinsLeft(c, Q) /\ TimesUp(c, T) /\ n \in 0 .. Len(c.ratios) - 1 /\ i = Len(c.ratios) - n
  /\ Meets(c.resnet, input, output, fed)
  /\ u = Conv2dResidualUnit(input, output, c.ratios[i], c.dilation, TRUE, PaddingOf(c), c.resnet)

\* A level between two numbers of bins and two lengths of time.
LEMMA LevelLeads ==
  ASSUME NEW c, NEW Q, NEW T, NEW n, NEW i, NEW input, NEW output, NEW fed, NEW u,
         LevelAt(c, Q, T, n, i, input, output, fed, u)
  PROVE  /\ Plain(u) /\ T[i] * c.ratios[i][1] = T[i - 1] /\ T[i] \in Positive /\ c.ratios[i][1] \in Positive
         /\ BinsUp(c, Q, n) \in Positive /\ BinsUp(c, Q, n + 1) \in Positive
         /\ \A p \in Int : Leads(u, At(<< fed, BinsUp(c, Q, n) >>, p), At(<< output, BinsUp(c, Q, n + 1) >>, p * c.ratios[i][1]))
<1>0. /\ EncoderWorks(c) /\ BinsLeft(c, Q) /\ TimesUp(c, T) /\ n \in 0 .. Len(c.ratios) - 1 /\ i = Len(c.ratios) - n
      /\ Meets(c.resnet, input, output, fed)
      /\ u = Conv2dResidualUnit(input, output, c.ratios[i], c.dilation, TRUE, PaddingOf(c), c.resnet)
  BY DEF LevelAt
<1> USE <1>0
<1> DEFINE N == Len(c.ratios)  r == c.ratios[i]  s1 == r[1]  s2 == r[2]  d1 == c.dilation[1]  d2 == c.dilation[2]
           pad == PaddingOf(c)  net == c.resnet  m == BinsUp(c, Q, n)  b == BinsUp(c, Q, n + 1)  D == DecoderBins(c)
<1>1. /\ N \in Nat /\ \A k \in 1 .. N : c.ratios[k] = << c.ratios[k][1], c.ratios[k][2] >> /\ c.ratios[k][1] \in Positive
                                        /\ c.ratios[k][2] \in Positive
      /\ c.dilation = << d1, d2 >> /\ d2 \in Positive /\ net \in BOOLEAN /\ pad \in {"same", "causal"}
  BY ConfigIs DEF EncoderWorks, EncoderMakes
<1>2. i \in 1 .. N /\ i \in 0 .. N /\ i - 1 \in 0 .. N /\ N - (n + 1) = i - 1
  BY <1>1
<1>3. r = << s1, s2 >> /\ s1 \in Positive /\ s2 \in Positive
  BY <1>1, <1>2
<1>4. D \in Positive /\ Q[i] \in Positive /\ Q[i - 1] = Q[i] * s2 /\ T[i] \in Positive /\ T[i - 1] = T[i] * s1
  <2> DEFINE x == Pick1(c.ratios)  y == Pick2(c.ratios)
  <2>1. DOMAIN c.ratios = 1 .. N
    BY DEF EncoderWorks, CodecConfig
  <2>2. Len(x) = N /\ x[i] = s1 /\ Len(y) = N /\ y[i] = s2
    BY <1>1, <1>2, <2>1 DEF Pick1, Pick2
  <2>3. EncoderSuffixes(T, x) /\ EncoderSuffixes(Q, y) /\ D \in Positive
    BY DEF TimesUp, BinsLeft
  <2> HIDE DEF x, y, s1, s2, D, N
  <2> QED BY <1>2, <2>2, <2>3 DEF EncoderSuffixes
<1>5. m = D * Q[i] /\ b = D * Q[i - 1]
  BY <1>2 DEF BinsUp
<1> DEFINE z == Q[i]  v == Q[i - 1]
<1>6. m \in Positive /\ b \in Positive /\ b = m * s2
  <2> HIDE DEF D, s1, s2, m, b, z, v
  <2>1. D \in Nat \ {0} /\ z \in Nat \ {0} /\ s2 \in Nat \ {0} /\ v = z * s2 /\ m = D * z /\ b = D * v
    BY <1>3, <1>4, <1>5 DEF Positive, z, v
  <2>2. D * (z * s2) = (D * z) * s2 /\ D * z \in Nat \ {0}
    BY <2>1
  <2>3. m \in Nat \ {0} /\ b = m * s2
    BY <2>1, <2>2
  <2> QED BY <2>1, <2>3 DEF Positive
<1>7. u = Conv2dResidualUnit(input, output, << s1, s2 >>, << d1, d2 >>, TRUE, pad, net)
  BY <1>1, <1>3
<1>8. Meets(net, input, output, fed)
  OBVIOUS
<1>a. s1 \in Positive /\ s2 \in Positive /\ d2 \in Positive /\ net \in BOOLEAN /\ pad \in {"same", "causal"} /\ m \in Positive
  BY <1>1, <1>3, <1>6
<1> HIDE DEF s1, s2, d1, d2, pad, net, m, b
<1>9. ASSUME NEW p \in Int PROVE Leads(u, At(<< fed, m >>, p), At(<< output, b >>, p * s1)) /\ Plain(u)
  <2>1. Leads(u, At(<< fed, m >>, p), At(<< output, m * s2 >>, p * s1)) /\ Plain(u)
    <3>1. UpUnit(u, input, output, fed, s1, s2, d1, d2, pad, net)
      BY <1>7, <1>8, <1>a DEF UpUnit
    <3> QED BY <1>a, <3>1, UpUnitLeads
  <2> QED BY <1>6, <2>1
<1>10. 0 \in Int
  OBVIOUS
<1> QED BY <1>3, <1>4, <1>6, <1>9, <1>10 DEF s1, m, b

\* It ends in the shape and the time of the next level.
LEMMA DecoderStepLeads ==
  ASSUME NEW c, EncoderWorks(c), NEW Q, BinsLeft(c, Q), NEW T, TimesUp(c, T), NEW n \in 0 .. Len(c.ratios) - 1,
         NEW acc, DecoderAt(c, Q, T, acc, n)
  PROVE  DecoderAt(c, Q, T, DecoderStep(c, acc, n + 1), n + 1)
<1> DEFINE N == Len(c.ratios)  i == N - n  parts == Recombo(c) = i - 1  out == RoundedRatio(acc.out, c.mults[i])
           wide == IF parts THEN out * c.splits ELSE out
           u == Conv2dResidualUnit(acc.input, wide, c.ratios[i], c.dilation, TRUE, PaddingOf(c), c.resnet)
           L == acc.layers \o u  s1 == c.ratios[i][1]
           new == DecoderStep(c, acc, n + 1)
           m == BinsUp(c, Q, n)  b == BinsUp(c, Q, n + 1)
<1>1. /\ N \in Nat /\ n \in Nat /\ i \in 1 .. N /\ i = N - n /\ N + 1 - (n + 1) = i /\ N - (n + 1) = i - 1
      /\ c.mults[i] \in Positive /\ c.splits \in Nat
      /\ IF c.splits = 0 THEN Recombo(c) = -2 ELSE Recombo(c) \in 0 .. N
  <2>1. N \in Nat /\ c.splits \in Nat /\ IF c.splits = 0 THEN Recombo(c) = -2 ELSE Recombo(c) \in 0 .. N
    BY ConfigIs DEF EncoderWorks, EncoderMakes
  <2>2. n \in Nat /\ i \in 1 .. N /\ i = N - n /\ N + 1 - (n + 1) = i /\ N - (n + 1) = i - 1
    <3>1. N \in Nat /\ n \in 0 .. N - 1
      BY <2>1
    <3> HIDE DEF N
    <3> QED BY <3>1
  <2>3. c.mults[i] \in Positive
    <3> HIDE DEF i
    <3> QED BY <2>2, ConfigIs DEF EncoderWorks, EncoderMakes
  <2> HIDE DEF N, i
  <2> QED BY <2>1, <2>2, <2>3
<1>2. new = [layers |-> IF parts THEN <<>> ELSE L, apart |-> IF parts THEN L ELSE acc.apart, input |-> wide, out |-> out]
  <2>1. new = DecoderLevel(c, acc, N + 1 - (n + 1))
    BY DEF DecoderStep
  <2>2. new = DecoderLevel(c, acc, i)
    BY <1>1, <2>1
  <2> HIDE DEF new, i
  <2> QED BY <2>2 DEF DecoderLevel, LevelUpTo, LevelUp, Parting
<1>3. acc.out \in Nat /\ out \in Nat /\ out <= acc.out
  <2>1. acc.out \in Nat
    BY DEF DecoderAt
  <2> DEFINE a == acc.out  d == c.mults[i]
  <2>2. a \in Nat /\ d \in Positive
    BY <1>1, <2>1
  <2> HIDE DEF a, d
  <2>3. RoundedRatio(a, d) \in Nat /\ RoundedRatio(a, d) <= a
    BY <2>2, RoundedIs
  <2> QED BY <2>1, <2>3 DEF a, d
<1>4. /\ parts => c.splits # 0 /\ ~Parted(c, n) /\ Parted(c, n + 1)
      /\ ~parts => (Parted(c, n + 1) <=> Parted(c, n))
  <2>1. Recombo(c) \in Int /\ (c.splits = 0 => Recombo(c) = -2) /\ (c.splits # 0 => Recombo(c) \in 0 .. N)
    BY <1>1
  <2>2. parts <=> Recombo(c) = N - n - 1
    BY <1>1
  <2> HIDE DEF parts, i, N
  <2>3. parts => c.splits # 0
    BY <1>1, <2>1, <2>2
  <2>4. Parted(c, n) <=> c.splits # 0 /\ Recombo(c) >= N - n
    BY DEF Parted, N
  <2>5. Parted(c, n + 1) <=> c.splits # 0 /\ Recombo(c) >= N - (n + 1)
    BY DEF Parted, N
  <2> QED BY <1>1, <2>1, <2>2, <2>3, <2>4, <2>5
<1>5. c.resnet /\ acc.input = wide => acc.out = acc.input
  <2>1. CASE ~Parted(c, n)
    BY <2>1 DEF DecoderAt
  <2>2. CASE Parted(c, n)
    <3>1. wide = out /\ c.splits # 0 /\ (acc.input = acc.out \/ acc.input = acc.out * c.splits)
      BY <1>4, <2>2 DEF DecoderAt, Parted
    <3> DEFINE a == acc.out  g == c.splits  x == acc.input
    <3>2. a \in Nat /\ g \in Nat \ {0} /\ (x = a \/ x = a * g) /\ out \in Nat /\ out <= a /\ wide = out
      BY <1>1, <1>3, <3>1
    <3> HIDE DEF a, g, x, out, wide
    <3>3. x = a * g /\ x = out => x = a
      <4>1. a * g >= a
        BY <3>2
      <4> QED BY <3>2, <4>1
    <3>4. x = wide => a = x
      BY <3>2, <3>3
    <3> QED BY <3>4 DEF a, x
  <2> QED BY <2>1, <2>2
<1> DEFINE fed == acc.out  input == acc.input
<1>6. /\ Plain(u) /\ T[i] * s1 = T[i - 1] /\ T[i] \in Positive /\ s1 \in Positive
      /\ m \in Positive /\ b \in Positive /\ \A p \in Int : Leads(u, At(<< fed, m >>, p), At(<< wide, b >>, p * s1))
  <2>1. Meets(c.resnet, input, wide, fed)
    BY <1>5 DEF Meets
  <2>2. u = Conv2dResidualUnit(input, wide, c.ratios[i], c.dilation, TRUE, PaddingOf(c), c.resnet)
    OBVIOUS
  <2>3. i = Len(c.ratios) - n
    OBVIOUS
  <2> HIDE DEF u, wide, input, fed, i
  <2>4. LevelAt(c, Q, T, n, i, input, wide, fed, u)
    BY <2>1, <2>2, <2>3 DEF LevelAt
  <2> QED BY <2>4, LevelLeads
<1> HIDE DEF new, u, out, m, b, s1, i, parts
<1>7. new.out = out /\ new.input = wide /\ (parts => wide = out * c.splits) /\ (~parts => wide = out)
  BY <1>2
<1>8. (parts => new.layers = <<>> /\ new.apart = L) /\ (~parts => new.layers = L /\ new.apart = acc.apart)
  <2> HIDE DEF L, wide
  <2> QED BY <1>2
<1> HIDE DEF wide
<1>9. ASSUME ~Parted(c, n) PROVE DecoderAt(c, Q, T, new, n + 1)
  <2>1. acc.input = acc.out /\ Leads(acc.layers, Start(c), At(<< fed, m >>, T[i]))
    BY <1>1, <1>9 DEF DecoderAt, m, i
  <2>2. Leads(u, At(<< fed, m >>, T[i]), At(<< wide, b >>, T[i - 1]))
    <3>1. T[i] \in Int
      <4> DEFINE t == T[i]
      <4>1. t \in Positive
        BY <1>6
      <4> HIDE DEF t
      <4>2. t \in Int
        BY <4>1 DEF Positive
      <4> QED BY <4>2 DEF t
    <3>2. Leads(u, At(<< fed, m >>, T[i]), At(<< wide, b >>, T[i] * s1))
      BY <1>6, <3>1
    <3> QED BY <1>6, <3>2
  <2> HIDE DEF fed
  <2>3. Leads(L, Start(c), At(<< wide, b >>, T[i - 1]))
    BY <2>1, <2>2, LeadsConcat
  <2> HIDE DEF L
  <2>4. CASE parts
    <3> DEFINE w == out  p == T[i - 1]  q == 1  y == << w, b >>
    <3>1. w \in Nat /\ b \in Positive /\ p \in Nat /\ q \in Nat /\ p * q = p /\ Parted(c, n + 1)
      <4>1. T[i - 1] \in Nat
        <5> DEFINE t == T[i]  s == T[i - 1]
        <5>1. t \in Positive /\ s1 \in Positive /\ t * s1 = s
          BY <1>6
        <5> HIDE DEF t, s
        <5>2. s \in Nat
          BY <5>1 DEF Positive
        <5> QED BY <5>2 DEF s
      <4> HIDE DEF L
      <4> QED BY <1>3, <1>4, <1>6, <2>4, <4>1
    <3>2. wide = c.splits * w /\ new.out = w /\ new.input = w * c.splits /\ new.layers = <<>> /\ new.apart = L
      BY <1>1, <1>3, <1>7, <1>8, <2>4
    <3> DEFINE none == <<>>
    <3>3. Leads(none, At(y, q), At(y, q)) /\ Plain(none)
      BY LeadsNone
    <3>4. new.layers = none /\ q = 1
      BY <3>2
    <3>5. Leads(new.apart, Start(c), At(<< c.splits * w, b >>, p)) /\ Leads(new.layers, At(<< w, b >>, 1), At(<< new.out, b >>, q))
          /\ Plain(new.layers)
      <4> HIDE DEF w, p, q, none
      <4> QED BY <2>3, <3>2, <3>3, <3>4 DEF p
    <3>6. b = BinsUp(c, Q, n + 1) /\ p = T[N - (n + 1)]
      BY <1>1 DEF b, p
    <3> HIDE DEF w, p, q
    <3> QED BY <3>1, <3>2, <3>5, <3>6, DecoderParts
  <2>5. CASE ~parts
    <3>1. ~Parted(c, n + 1) /\ new.layers = L /\ new.input = new.out /\ new.out = wide /\ new.out \in Nat
      BY <1>3, <1>4, <1>7, <1>8, <1>9, <2>5
    <3>2. b = BinsUp(c, Q, n + 1) /\ T[i - 1] = T[N - (n + 1)]
      BY <1>1 DEF b
    <3>3. new.out \in Nat /\ ~Parted(c, n + 1) /\ new.input = new.out
          /\ Leads(new.layers, Start(c), At(<< new.out, BinsUp(c, Q, n + 1) >>, T[N - (n + 1)]))
      BY <2>3, <3>1, <3>2
    <3> QED BY <3>3 DEF DecoderAt
  <2> QED BY <2>4, <2>5
<1>10. ASSUME Parted(c, n) PROVE DecoderAt(c, Q, T, new, n + 1)
  <2>1. PICK w \in Nat, d \in Positive, p \in Nat, q \in Nat :
          /\ Leads(acc.apart, Start(c), At(<< c.splits * w, d >>, p))
          /\ Leads(acc.layers, At(<< w, d >>, 1), At(<< fed, m >>, q))
          /\ p * q = T[i]
    BY <1>1, <1>10 DEF DecoderAt, m, i
  <2>2. Plain(acc.layers) /\ ~parts /\ Parted(c, n + 1)
    BY <1>4, <1>10 DEF DecoderAt
  <2>3. new.layers = L /\ new.apart = acc.apart /\ new.input = new.out /\ new.out = wide /\ new.out \in Nat
    BY <1>3, <1>7, <1>8, <2>2
  <2> DEFINE k == q * s1
  <2>4. k \in Nat /\ p * k = T[i - 1]
    <3> DEFINE t == T[i]  v == T[i - 1]
    <3>1. t * s1 = v /\ s1 \in Nat /\ p * q = t
      BY <1>6, <2>1 DEF Positive
    <3> HIDE DEF t, v
    <3>2. q * s1 \in Nat /\ p * (q * s1) = (p * q) * s1
      BY <3>1
    <3> QED BY <3>1, <3>2 DEF v
  <2>5. Leads(u, At(<< fed, m >>, q), At(<< wide, b >>, k))
    <3>1. q \in Int
      OBVIOUS
    <3> QED BY <1>6, <3>1
  <2> HIDE DEF k, fed
  <2>6. Leads(L, At(<< w, d >>, 1), At(<< wide, b >>, k))
    <3> DEFINE one == At(<< w, d >>, 1)
    <3> HIDE DEF one
    <3>1. Leads(acc.layers, one, At(<< fed, m >>, q))
      BY <2>1 DEF one
    <3>2. Leads(L, one, At(<< wide, b >>, k))
      BY <2>5, <3>1, LeadsConcat
    <3> QED BY <3>2 DEF one
  <2>7. Plain(L)
    <3>1. List(acc.layers) /\ List(u)
      BY <2>1, <2>5 DEF Leads
    <3> QED BY <1>6, <2>2, <3>1, KindsConcat
  <2> HIDE DEF L
  <2>8. b = BinsUp(c, Q, n + 1) /\ T[i - 1] = T[N - (n + 1)]
    BY <1>1 DEF b
  <2> QED BY <2>1, <2>2, <2>3, <2>4, <2>6, <2>7, <2>8, DecoderParts
<1> QED BY <1>9, <1>10 DEF new

LEMMA DecoderStarts ==
  ASSUME NEW c, EncoderWorks(c), NEW Q, BinsLeft(c, Q), NEW T, TimesUp(c, T), NEW top \in Nat,
         NEW parts \in BOOLEAN, parts <=> Recombo(c) = Len(c.ratios), NEW wide, wide = IF parts THEN top * c.splits ELSE top
  PROVE  DecoderAt(c, Q, T, Parting(parts, DecoderInput(c, top, wide, DecoderBins(c) * top), <<>>, wide, top), 0)
<1> DEFINE N == Len(c.ratios)  D == DecoderBins(c)  width == D * top  DI == DecoderInput(c, top, wide, width)
           dense == ResidualOf(<<OneByOne(width)>>, <<OneByOne(width), OneByOne(width)>>)
           shape == Reshape(D, top)  pad == PaddingOf(c)  net == c.resnet
           u == Conv2dResidualUnit(wide, wide, <<1, 1>>, <<1, 1>>, TRUE, pad, net)
           new == Parting(parts, DI, <<>>, wide, top)
<1>1. /\ N \in Nat /\ c.splits \in Nat /\ net \in BOOLEAN /\ pad \in {"same", "causal"}
      /\ IF c.splits = 0 THEN Recombo(c) = -2 ELSE Recombo(c) \in 0 .. N
  BY ConfigIs DEF EncoderWorks, EncoderMakes
<1>2. D \in Positive /\ Q[N] = 1 /\ T[N] = 1
  <2> DEFINE x == Pick1(c.ratios)  y == Pick2(c.ratios)
  <2>1. DOMAIN c.ratios = 1 .. N
    BY DEF EncoderWorks, CodecConfig
  <2>2. Len(x) = N /\ Len(y) = N
    BY <1>1, <2>1 DEF Pick1, Pick2
  <2>3. EncoderSuffixes(T, x) /\ EncoderSuffixes(Q, y) /\ D \in Positive
    BY DEF TimesUp, BinsLeft
  <2> HIDE DEF x, y, N, D
  <2> QED BY <2>2, <2>3 DEF EncoderSuffixes
<1>3. parts => c.splits # 0 /\ (net => c.splits = 1)
  <2>1. parts => c.splits # 0
    <3>1. N # -2
      BY <1>1
    <3> HIDE DEF N
    <3> QED BY <1>1, <3>1 DEF N
  <2>2. net /\ c.splits > 1 => Recombo(c) # N
    BY DEF EncoderWorks, EncoderMakes, CodecConfig
  <2>3. c.splits = 0 \/ c.splits = 1 \/ c.splits > 1
    BY <1>1
  <2> HIDE DEF N, net
  <2> QED BY <2>1, <2>2, <2>3 DEF N
<1>4. Meets(net, wide, wide, top)
  <2>1. net => wide = top
    <3>1. top * 1 = top
      OBVIOUS
    <3> HIDE DEF net
    <3> QED BY <1>3, <3>1
  <2> QED BY <2>1 DEF Meets
<1>5. Parted(c, 0) <=> parts
  <2>1. Parted(c, 0) <=> c.splits # 0 /\ Recombo(c) >= N - 0
    BY DEF Parted
  <2>2. parts <=> Recombo(c) = N
    OBVIOUS
  <2> HIDE DEF N
  <2> QED BY <1>1, <1>3, <2>1, <2>2
<1>6. BinsUp(c, Q, 0) = D /\ N - 0 = N
  <2>1. N - 0 = N
    BY <1>1
  <2>2. BinsUp(c, Q, 0) = D * Q[N]
    BY <2>1 DEF BinsUp
  <2> HIDE DEF D, N
  <2>3. D * 1 = D
    BY <1>2 DEF Positive
  <2> QED BY <1>2, <2>1, <2>2, <2>3
<1>7. DI = << dense, shape >> \o u
  BY DEF DecoderInput
<1> DEFINE y == At(<< width, 1 >>, 1)  z == At(<< top, D >>, 1)  w == At(<< wide, D >>, 1)
<1>8. Leads(<<dense>>, Start(c), y)
  <2> DEFINE ch == c.features  p == 1
  <2>1. p \in Int /\ p \in Positive
    BY DEF Positive
  <2> HIDE DEF ch, width, p
  <2>2. Leads(<<dense>>, At(<< ch, p >>, p), At(<< width, p >>, p))
    BY <2>1, DenseLeads
  <2> QED BY <2>2 DEF ch, Start, p
<1>9. Leads(<<shape>>, y, z)
  <2> DEFINE p == 1
  <2>1. p \in Int /\ D \in Nat
    BY <1>2 DEF Positive
  <2> HIDE DEF D, p
  <2>2. Leads(<<shape>>, At(<< D * top, 1 >>, p), At(<< top, D >>, p))
    BY <2>1, ReshapeLeads
  <2> QED BY <2>2 DEF p
<1>10. Leads(u, z, w)
  <2> DEFINE p == 1
  <2>1. p \in Int /\ p \in Positive
    BY DEF Positive
  <2>2. UpUnit(u, wide, wide, top, p, p, p, p, pad, net)
    BY <1>1, <1>4, <2>1 DEF UpUnit
  <2> HIDE DEF u, p, pad, net, D
  <2>3. Leads(u, At(<< top, D >>, p), At(<< wide, D * p >>, p * p))
    BY <1>2, <2>1, <2>2, UpUnitLeads
  <2>4. D * 1 = D /\ 1 * 1 = 1
    BY <1>2 DEF Positive
  <2> QED BY <2>3, <2>4 DEF p
<1> HIDE DEF dense, shape, u, y, z, w, D, width
<1>11. Leads(DI, Start(c), w)
  <2>1. << dense, shape >> = <<dense>> \o <<shape>>
    BY PairIs
  <2>2. Leads(<<dense>> \o <<shape>>, Start(c), z)
    BY <1>8, <1>9, LeadsConcat
  <2> DEFINE s == << dense, shape >>
  <2>3. Leads(s, Start(c), z)
    BY <2>1, <2>2
  <2> HIDE DEF s, DI
  <2>4. Leads(s \o u, Start(c), w)
    BY <1>10, <2>3, LeadsConcat
  <2> QED BY <1>7, <2>4 DEF s
<1> HIDE DEF DI
<1>12. new = [layers |-> IF parts THEN <<>> ELSE DI, apart |-> IF parts THEN DI ELSE <<>>, input |-> wide, out |-> top]
  BY DEF Parting
<1> HIDE DEF new
<1>13. CASE ~parts
  <2>1. new.layers = DI /\ new.input = top /\ new.out = top
    BY <1>12, <1>13
  <2>2. Leads(new.layers, Start(c), At(<< new.out, BinsUp(c, Q, 0) >>, T[N - 0]))
    <3>1. wide = top
      BY <1>13
    <3> QED BY <1>2, <1>6, <1>11, <2>1, <3>1 DEF w
  <2>3. ~Parted(c, 0) /\ new.out \in Nat /\ new.input = new.out
    BY <1>5, <1>13, <2>1
  <2> QED BY <2>2, <2>3 DEF DecoderAt, new, DI, width, D
<1>14. CASE parts
  <2> DEFINE one == 1  none == <<>>  x == At(<< top, D >>, one)
  <2>1. new.layers = none /\ new.apart = DI /\ new.input = new.out * c.splits /\ new.out = top /\ top * c.splits = c.splits * top
    BY <1>1, <1>12, <1>14
  <2>2. Leads(none, x, x) /\ Plain(none)
    BY LeadsNone
  <2>3. Leads(new.apart, Start(c), At(<< c.splits * top, D >>, one))
    BY <1>11, <1>14, <2>1 DEF w
  <2>4. one \in Nat /\ one * one = T[N - 0] /\ Parted(c, 0) /\ new.out \in Nat
    <3>1. T[N - 0] = 1 /\ 1 * 1 = 1
      BY <1>2, <1>6
    <3> QED BY <1>5, <1>14, <2>1, <3>1
  <2> HIDE DEF none
  <2>5. Leads(new.layers, At(<< top, D >>, 1), At(<< new.out, D >>, one)) /\ Plain(new.layers)
    BY <2>1, <2>2
  <2> HIDE DEF one
  <2>6. DecoderAt(c, Q, T, new, 0)
    <3> DEFINE t == T[N - 0]
    <3>1. t = T[Len(c.ratios) - 0] /\ one * one = t
      BY <2>4
    <3> HIDE DEF t
    <3> QED BY <1>2, <1>6, <2>1, <2>3, <2>4, <2>5, <3>1, DecoderParts
  <2> QED BY <2>6 DEF new, DI, width, D
<1> QED BY <1>13, <1>14

LEMMA DecoderLevelsAre ==
  ASSUME NEW c, EncoderWorks(c), NEW Q, BinsLeft(c, Q), NEW T, TimesUp(c, T), NEW start, DecoderAt(c, Q, T, start, 0)
  PROVE  DecoderAt(c, Q, T, DecoderLevels(c, start), Len(c.ratios))
<1> DEFINE N == Len(c.ratios)
<1>1. N \in Nat
  BY ConfigIs DEF EncoderWorks, EncoderMakes
<1>2. PICK f : DecoderChain(f, c, start, N)
  BY <1>1, DecoderIs
<1> DEFINE U == {n \in 0 .. N : DecoderAt(c, Q, T, f[n], n)}
<1>3. 0 \in U
  <2>1. f[0] = start
    BY <1>2 DEF DecoderChain
  <2> QED BY <1>1, <2>1
<1>4. ASSUME NEW n \in 0 .. N - 1, n \in U PROVE n + 1 \in U
  <2>1. n + 1 \in 1 .. N /\ n + 1 \in 0 .. N /\ n + 1 - 1 = n
    BY <1>1
  <2>2. f[n + 1] = DecoderStep(c, f[n], n + 1)
    BY <1>2, <2>1 DEF DecoderChain
  <2>3. DecoderAt(c, Q, T, f[n], n)
    BY <1>4
  <2> QED BY <2>1, <2>2, <2>3, DecoderStepLeads
<1>5. N \in U
  <2> HIDE DEF U
  <2>1. \A n \in 0 .. N : n \in U
    BY <1>1, <1>3, <1>4, SetInduction
  <2> QED BY <1>1, <2>1
<1>6. DecoderLevels(c, start) = f[N]
  BY <1>1, <1>2, DecoderIs
<1> QED BY <1>5, <1>6

LEMMA DecoderEnds ==
  ASSUME NEW c, EncoderWorks(c), NEW Q, BinsLeft(c, Q), NEW T, TimesUp(c, T), NEW r, DecoderAt(c, Q, T, r, Len(c.ratios))
  PROVE  Leads(DecoderEnd(c, r), Start(c), At(<< c.channels, c.bins >>, T[0]))
<1> DEFINE N == Len(c.ratios)  b == c.bins  t == T[0]  L == r.layers \o DecoderOutput(c)
           ch == IF c.splits = 0 THEN c.channels ELSE c.channels \div c.splits
<1>1. /\ N \in Nat /\ c.splits \in Nat /\ c.channels \in Positive /\ c.convSize \in Positive /\ b \in Positive
      /\ IF c.splits = 0 THEN Recombo(c) = -2 ELSE Recombo(c) \in 0 .. N
  BY ConfigIs DEF EncoderWorks, EncoderMakes
<1>2. N - N = 0 /\ BinsUp(c, Q, N) = b
  <2>1. N - N = 0
    BY <1>1
  <2> QED BY <2>1 DEF BinsUp, BinsLeft
<1>3. t \in Nat
  <2> DEFINE x == Pick1(c.ratios)
  <2>1. DOMAIN c.ratios = 1 .. N
    BY DEF EncoderWorks, CodecConfig
  <2>2. Len(x) = N /\ 0 \in 0 .. N
    BY <1>1, <2>1 DEF Pick1
  <2> HIDE DEF x, N, t
  <2>3. EncoderSuffixes(T, x)
    BY DEF TimesUp, x
  <2>4. T[0] \in Positive
    BY <2>2, <2>3 DEF EncoderSuffixes
  <2>5. t \in Positive
    BY <2>4 DEF t
  <2> QED BY <2>5 DEF Positive
<1>4. ASSUME NEW w, NEW q \in Int
      PROVE  Leads(DecoderOutput(c), At(<< w, b >>, q), At(<< ch, b >>, q)) /\ Plain(DecoderOutput(c))
  <2> DEFINE size == c.convSize  pad == PaddingOf(c)
             z == << Conv2d(ch, << size, size >>, <<1, 1>>, pad, <<1, 1>>) >>
  <2>1. DecoderOutput(c) = z /\ size \in Positive /\ b \in Positive
    BY <1>1 DEF DecoderOutput
  <2> HIDE DEF ch, size, pad, b
  <2>2. Leads(z, At(<< w, b >>, q), At(<< ch, b >>, q)) /\ Plain(z)
    BY <2>1, ConvLeads
  <2> QED BY <2>1, <2>2
<1>5. r.out \in Nat /\ DecoderEnd(c, r) = IF c.splits = 0 THEN L ELSE r.apart \o <<Parallel(L, c.splits)>>
  BY DEF DecoderAt, DecoderEnd, GroupsApart
<1>6. CASE c.splits = 0
  <2>1. ~Parted(c, N)
    BY <1>6 DEF Parted
  <2>2. Leads(r.layers, Start(c), At(<< r.out, b >>, t))
    BY <1>2, <2>1 DEF DecoderAt
  <2>3. ch = c.channels
    BY <1>6
  <2> DEFINE o == DecoderOutput(c)
  <2>4. Leads(o, At(<< r.out, b >>, t), At(<< ch, b >>, t))
    <3>1. t \in Int
      BY <1>3
    <3> HIDE DEF o, ch, b, t
    <3> QED BY <1>4, <3>1 DEF o
  <2> HIDE DEF o, ch, b, t
  <2>5. Leads(r.layers \o o, Start(c), At(<< ch, b >>, t))
    BY <2>2, <2>4, LeadsConcat
  <2> QED BY <1>5, <1>6, <2>3, <2>5 DEF o, b, t
<1>7. CASE c.splits # 0
  <2>1. Parted(c, N)
    <3>1. Recombo(c) \in 0 .. N
      BY <1>1, <1>7
    <3> HIDE DEF N
    <3>2. Recombo(c) >= N - N
      BY <1>2, <3>1
    <3> QED BY <1>7, <3>2 DEF Parted, N
  <2>2. PICK w \in Nat, d \in Positive, p \in Nat, q \in Nat :
          /\ Leads(r.apart, Start(c), At(<< c.splits * w, d >>, p))
          /\ Leads(r.layers, At(<< w, d >>, 1), At(<< r.out, BinsUp(c, Q, N) >>, q))
          /\ p * q = T[N - N]
    BY <2>1 DEF DecoderAt
  <2>3. Plain(r.layers) /\ p * q = t
    BY <1>2, <2>1, <2>2 DEF DecoderAt
  <2> DEFINE one == At(<< w, d >>, 1)  o == DecoderOutput(c)
  <2>4. Leads(r.layers, one, At(<< r.out, b >>, q))
    BY <1>2, <2>2
  <2>5. Leads(o, At(<< r.out, b >>, q), At(<< ch, b >>, q)) /\ Plain(o)
    <3>1. q \in Int
      BY <2>2
    <3> HIDE DEF ch, b
    <3> QED BY <1>4, <3>1
  <2> HIDE DEF o, one
  <2>6. Leads(r.layers \o o, one, At(<< ch, b >>, q))
    <3> HIDE DEF ch, b
    <3> QED BY <2>4, <2>5, LeadsConcat
  <2>7. Plain(r.layers \o o)
    BY <2>3, <2>4, <2>5, KindsConcat DEF Leads
  <2>8. L = r.layers \o o
    BY DEF o
  <2> DEFINE g == c.splits
  <2>9. g \in Nat \ {0} /\ ch \in Nat /\ g * ch = c.channels
    <3> DEFINE n == c.channels
    <3>1. n % g = 0
      BY <1>7, <1>1 DEF EncoderWorks, DecoderMakes
    <3>2. g \in Nat \ {0} /\ n \in Nat /\ ch = n \div g
      BY <1>1, <1>7 DEF Positive
    <3> HIDE DEF n, g, ch
    <3>3. n \div g \in Nat /\ g * (n \div g) = n
      BY <3>1, <3>2
    <3> QED BY <3>2, <3>3 DEF n
  <2> HIDE DEF L, g, ch, b
  <2>10. Leads(<<Parallel(L, g)>>, At(<< g * w, d >>, p), At(<< g * ch, b >>, p * q))
    <3>1. Plain(L) /\ Leads(L, At(<< w, d >>, 1), At(<< ch, b >>, q))
      BY <2>6, <2>7, <2>8 DEF one
    <3> DEFINE k == 1
    <3>2. Leads(L, At(<< w, d >>, k), At(<< ch, b >>, q))
      BY <3>1
    <3> QED BY <2>9, <3>1, ParallelLeads
  <2> DEFINE P == <<Parallel(L, g)>>  y == At(<< g * w, d >>, p)  z == At(<< c.channels, b >>, t)
  <2>11. Leads(P, y, z) /\ Leads(r.apart, Start(c), y)
    BY <2>2, <2>3, <2>9, <2>10 DEF g
  <2> HIDE DEF P, y, z
  <2>12. Leads(r.apart \o P, Start(c), z)
    BY <2>11, LeadsConcat
  <2>13. DecoderEnd(c, r) = r.apart \o P
    BY <1>5, <1>7 DEF P, g
  <2> QED BY <2>12, <2>13 DEF z, b
<1> QED BY <1>6, <1>7

LEMMA DecoderFits ==
  ASSUME NEW c, EncoderWorks(c),
         NEW decode, decode = SpectrostreamDecoderConfig(c) \o <<SpectrostreamInverseStftConfig(c)>>
  PROVE  /\ ShapeAfter(decode, << c.features, 1 >>) = << c.channels, c.bins >>
         /\ OutputRatio(decode, c.step) = WaveformToCodesRatio(c)
<1> DEFINE N == Len(c.ratios)  parts == Recombo(c) = N  top == c.decoderDepth * ProductOf(c.mults)
           wide == IF parts THEN top * c.splits ELSE top
           start == Parting(parts, DecoderInput(c, top, wide, DecoderBins(c) * top), <<>>, wide, top)
           r == DecoderLevels(c, start)  A == DecoderEnd(c, r)
           B == IF c.lookahead = 0 THEN <<>> ELSE <<Shifting("lookahead", Ahead(c))>>
           istft == SpectrostreamInverseStftConfig(c)
<1>1. /\ N \in Nat /\ c.decoderDepth \in Positive
      /\ \A i \in 1 .. N : c.ratios[i][1] \in Positive /\ c.mults[i] \in Positive
  BY ConfigIs DEF EncoderWorks, EncoderMakes
<1>2. PICK Q : BinsLeft(c, Q)
  BY BinsAre DEF EncoderWorks
<1>3. DOMAIN c.ratios = 1 .. N
  BY DEF EncoderWorks, CodecConfig
<1>4. PICK T : TimesUp(c, T) /\ T[0] = ProductOf(Pick1(c.ratios)) /\ T[0] \in Positive
  <2> DEFINE s == Pick1(c.ratios)
  <2>1. Len(s) = N /\ \A i \in 1 .. N : s[i] = c.ratios[i][1]
    BY <1>1, <1>3 DEF Pick1
  <2> HIDE DEF s, N
  <2>2. PICK T : EncoderSuffixes(T, s)
    BY <1>1, <2>1, SuffixesExist
  <2>3. T[0] = ProductOf(s) /\ T[0] \in Positive
    BY <1>1, <2>1, <2>2 DEF EncoderSuffixes
  <2> QED BY <2>2, <2>3 DEF TimesUp, s
<1>5. top \in Nat
  <2> DEFINE s == c.mults
  <2>1. s \in [1 .. N -> Nat \ {0}]
    BY <1>3 DEF EncoderWorks, CodecConfig
  <2> HIDE DEF N
  <2>2. Len(s) = N /\ \A i \in 1 .. N : s[i] \in Positive
    <3> HIDE DEF s
    <3> QED BY <1>1, <2>1 DEF Positive
  <2> HIDE DEF s
  <2>3. PICK M : EncoderSuffixes(M, s)
    BY <1>1, <2>2, SuffixesExist
  <2>4. ProductOf(s) \in Positive
    BY <1>1, <2>2, <2>3 DEF EncoderSuffixes
  <2> DEFINE k == c.decoderDepth  m == ProductOf(s)
  <2>5. k \in Nat /\ m \in Nat
    BY <1>1, <2>4 DEF Positive
  <2> HIDE DEF k, m
  <2>6. k * m \in Nat
    BY <2>5
  <2> QED BY <2>6 DEF k, m, s
<1>6. DecoderAt(c, Q, T, start, 0)
  <2>1. parts \in BOOLEAN /\ (parts <=> Recombo(c) = Len(c.ratios)) /\ wide = IF parts THEN top * c.splits ELSE top
    OBVIOUS
  <2> HIDE DEF parts, wide, top
  <2> QED BY <1>2, <1>4, <1>5, <2>1, DecoderStarts
<1> HIDE DEF start
<1>7. DecoderAt(c, Q, T, r, Len(c.ratios))
  BY <1>2, <1>4, <1>6, DecoderLevelsAre
<1> HIDE DEF r
<1> DEFINE s == << c.channels, c.bins >>  t == T[0]  y == At(s, t)
<1>8. Leads(A, Start(c), y)
  BY <1>2, <1>4, <1>7, DecoderEnds
<1>9. s # NoShape /\ t \in Int
  <2>1. s # NoShape
    BY DEF NoShape
  <2> HIDE DEF s, t
  <2>2. t \in Positive
    BY <1>4 DEF t
  <2> QED BY <2>1, <2>2 DEF Positive
<1>10. decode = (A \o B) \o <<istft>>
  <2>1. SpectrostreamDecoderConfig(c) = A \o B
    BY DEF SpectrostreamDecoderConfig, DecoderWide, DecoderFrom, r, start
  <2> QED BY <2>1
<1>11. Leads(B, y, y)
  <2> DEFINE l == Shifting("lookahead", Ahead(c))
  <2>1. CASE c.lookahead = 0
    <3>1. B = <<>>
      BY <2>1
    <3> HIDE DEF B, y
    <3>2. Leads(<<>>, y, y)
      BY LeadsNone
    <3> QED BY <3>1, <3>2
  <2>2. CASE c.lookahead # 0
    <3>1. B = <<l>> /\ l.kind = "lookahead"
      BY <2>2 DEF Shifting
    <3> HIDE DEF B, l, s, t
    <3>2. Leads(<<l>>, At(s, t), At(s, t))
      BY <1>9, <3>1, PassingLeads
    <3> QED BY <3>1, <3>2
  <2> QED BY <2>1, <2>2
<1>12. Leads(<<istft>>, y, y)
  <2>1. istft.kind = "istft"
    BY DEF SpectrostreamInverseStftConfig
  <2> HIDE DEF istft, s, t
  <2> QED BY <1>9, <2>1, PassingLeads
<1> HIDE DEF A, B, istft, y
<1>13. Leads(decode, Start(c), y)
  <2>1. Leads(A \o B, Start(c), y)
    BY <1>8, <1>11, LeadsConcat
  <2> DEFINE E == A \o B  i == <<istft>>
  <2>2. Leads(E, Start(c), y) /\ Leads(i, y, y)
    BY <1>12, <2>1
  <2> HIDE DEF E, i
  <2>3. Leads(E \o i, Start(c), y)
    BY <2>2, LeadsConcat
  <2> QED BY <1>10, <2>3 DEF E, i
<1>14. ShapeAfter(decode, Start(c).shape) = y.shape
  BY <1>13, LeadsTo
<1>15. ProductOf([i \in DOMAIN decode |-> StrideOfLayer(decode[i])]) = y.time
  <2> DEFINE f == << c.features, 1 >>
  <2>1. Leads(decode, At(f, 1), y)
    BY <1>13 DEF Start
  <2> HIDE DEF f
  <2> QED BY <2>1, LeadsFor
<1>16. Start(c).shape = << c.features, 1 >> /\ y.shape = s /\ y.time = t
  BY DEF Start, At, y
<1>17. OutputRatio(decode, c.step) = c.step * t
  <2> HIDE DEF t
  <2> QED BY <1>15, <1>16 DEF OutputRatio
<1>18. WaveformToCodesRatio(c) = t * c.step
  BY <1>4 DEF WaveformToCodesRatio
<1>19. c.step * t = t * c.step
  <2> DEFINE k == c.step
  <2>1. k \in Int
    BY DEF EncoderWorks, CodecConfig
  <2> HIDE DEF k, t
  <2>2. k * t = t * k
    BY <1>9, <2>1
  <2> QED BY <2>2 DEF k
<1> HIDE DEF t
<1> QED BY <1>14, <1>16, <1>17, <1>18, <1>19 DEF s

--------------------------------------------------------------------------------
(* The theorem.                                                            *)

LEMMA CodecShapesMeet ==
  ASSUME codec \in Codecs, made = SpectroStreamOf(codec)
  PROVE  ShapesMeet
<1> DEFINE c == codec
<1> SUFFICES ASSUME made.makes
             PROVE  /\ ShapeAfter(made.encode, << c.channels, c.bins >>) = << c.features, 1 >>
                    /\ ShapeAfter(made.decode, << c.features, 1 >>) = << c.channels, c.bins >>
                    /\ OutputRatio(made.decode, c.step) = WaveformToCodesRatio(c)
                    /\ \A i \in DOMAIN made.encode : made.encode[i].kind = "residual" =>
                         LengthAfter(Pool(<< StrideOf(made.encode[i]), 1 >>), 720)
                         = LengthThrough(made.encode[i].short, 720)
  BY DEF ShapesMeet
<1> DEFINE encode == <<SpectrostreamStftConfig(c)>> \o SpectrostreamEncoderConfig(c, FrontendLatency)
           decode == SpectrostreamDecoderConfig(c) \o <<SpectrostreamInverseStftConfig(c)>>
<1>1. made.encode = encode /\ made.decode = decode
  BY DEF SpectroStreamOf
<1>2. EncoderWorks(c) /\ SpectrostreamStftConfig(c) # Invalid
  <2>1. CodecConfig(c)
    BY CodecAssumption
  <2>2. EncoderMakes(c) /\ DecoderMakes(c) /\ SpectrostreamStftConfig(c) # Invalid
    BY DEF SpectroStreamOf
  <2> QED BY <2>1, <2>2 DEF EncoderWorks
<1> DEFINE lat == FrontendLatency
<1>3. ShapeAfter(encode, << c.channels, c.bins >>) = << c.features, 1 >> /\ Paced(encode) /\ List(encode)
  <2>1. encode = <<SpectrostreamStftConfig(c)>> \o SpectrostreamEncoderConfig(c, lat)
    OBVIOUS
  <2> HIDE DEF encode, lat, c
  <2> QED BY <1>2, <2>1, EncoderFits
<1>4. /\ ShapeAfter(decode, << c.features, 1 >>) = << c.channels, c.bins >>
      /\ OutputRatio(decode, c.step) = WaveformToCodesRatio(c)
  <2>1. decode = SpectrostreamDecoderConfig(c) \o <<SpectrostreamInverseStftConfig(c)>>
    OBVIOUS
  <2> HIDE DEF decode, c
  <2> QED BY <1>2, <2>1, DecoderFits
<1> HIDE DEF encode, decode, c
<1>5. \A i \in DOMAIN encode : encode[i].kind = "residual" =>
        LengthAfter(Pool(<< StrideOf(encode[i]), 1 >>), 720) = LengthThrough(encode[i].short, 720)
  <2>1. DOMAIN encode = 1 .. Len(encode)
    BY <1>3 DEF List
  <2> QED BY <1>3, <2>1 DEF Paced
<1> QED BY <1>1, <1>3, <1>4, <1>5

LEMMA CodecQuantizersAgree ==
  ASSUME codec \in Codecs
  PROVE  QuantizersAgree
<1> DEFINE q == codec.quantizer
<1> SUFFICES ASSUME QuantizerMakes(q), NEW x \in -6 .. 16
             PROVE  LET fine == EmbeddingsToCodes(q, x, Len(q.books))
                    IN /\ \A n \in 1 .. NumExpectedInputCodes(q) :
                            LET coarse == EmbeddingsToCodes(q, x, n) IN
                            /\ coarse = SubSeq(fine, 1, n)
                            /\ Accepted(q, coarse)
                            /\ CodesToEmbeddings(q, coarse, TRUE) = JaxCodesToEmbeddings(q, coarse, FALSE)
                       /\ fine = JaxEmbeddingsToCodes(q, x, Len(q.books))
                       /\ q.truncation = Unset => CodesToEmbeddings(q, fine, TRUE) = JaxQuantized(q, x)
  BY DEF QuantizersAgree
<1>1. QuantizerConfig(q)
  BY CodecAssumption DEF CodecConfig
<1>2. x \in Int
  OBVIOUS
<1> HIDE DEF q
<1> QED BY <1>1, <1>2, QuantizerAgrees

\* A codec is made once, from its configuration.
CodecInv == codec \in Codecs /\ made = SpectroStreamOf(codec)

\* Whatever levels, strides, multipliers, groups and books a configuration has,
\* if the codec can be made, the encoder ends in the features, the decoder in
\* the channels and bins, in the time the configuration says, the paths of each
\* residual meet, and the quantizers of both backends agree.
THEOREM CodecsFit == CodecSpec => []CodecFits
<1>1. CodecInit => CodecInv
  BY DEF CodecInit, CodecInv
<1>2. CodecInv /\ [CodecNext]_cvars => CodecInv'
  <2> SUFFICES ASSUME CodecInv, [CodecNext]_cvars PROVE CodecInv'
    OBVIOUS
  <2>1. UNCHANGED <<codec, made>>
    BY DEF CodecNext, CodecBlock, CodecFlush, Feed, cvars
  <2> QED BY <2>1 DEF CodecInv
<1>3. CodecInv => CodecFits
  BY CodecShapesMeet, CodecQuantizersAgree DEF CodecInv, CodecFits
<1> QED BY <1>1, <1>2, <1>3, PTL DEF CodecSpec

--------------------------------------------------------------------------------
(* The stream of the codec.  A layer in step mode gives, late, what it     *)
(* computes over the whole signal.                                         *)

LEMMA MultipleOff ==
  ASSUME NEW s \in Positive, NEW k \in Int, NEW t \in Int
  PROVE  (s * k + t) \div s = k + (t \div s) /\ (s * k + t) % s = t % s
<1> DEFINE a == t % s  p == t \div s  n == s * k + t
<1>1. s \in Nat \ {0} /\ a \in 0 .. s - 1 /\ t = s * p + a /\ p \in Int
  BY DEF Positive
<1>2. n \in Int /\ n = s * (k + p) + a /\ k + p \in Int
  <2> HIDE DEF a, p
  <2>1. s * (k + p) = s * k + s * p /\ s * k \in Int /\ s * p \in Int
    BY <1>1
  <2> QED BY <1>1, <2>1
<1> HIDE DEF a, n
<1>3. n % s = a /\ n \div s = k + p
  <2> HIDE DEF p
  <2> QED BY <1>1, <1>2, RemainderIs
<1> QED BY <1>3 DEF a, n

\* A signal is of any time, and begins at time 1.
Signals == {f \in [Int -> Int] : \A t \in Int : t <= 0 => f[t] = Absent}
\* A place between layers: how late a stream is there, and how many values it
\* has for each frame of codes.
Place(late, rate) == [late |-> late, rate |-> rate]
PlaceOK(x) == x.late \in Nat /\ x.rate \in Positive
\* The values that m frames after the first n bring, and those before them.
Block(f, x, n, m) == [t \in 1 .. x.rate * m |-> f[x.rate * n - x.late + t]]
Before(f, x, n, k) == [i \in 1 .. k |-> f[x.rate * n - x.late + i - k]]
Sound(l) ==
  /\ l.kind \in {"conv", "transpose", "pool", "upsample", "delay", "lookahead", "stft", "istft", "flatten", "reshape"}
  /\ l.kind \in {"conv", "transpose", "pool", "upsample"} => l.strides[1] \in Positive
  /\ l.kind \in {"conv", "transpose"} => l.kernel[1] \in Positive
  /\ l.kind = "conv" => l.dilation[1] \in Positive
  /\ l.kind \in {"delay", "lookahead"} => l.by \in Nat
\* The layer takes a stream at x to one at y.
PassOne(l, x, y) ==
  /\ Sound(l) /\ PlaceOK(x) /\ PlaceOK(y)
  /\ Shrinks(l) => x.rate = TimeStride(l) * y.rate /\ x.late = TimeStride(l) * y.late
  /\ ~Shrinks(l) => y.rate = TimeStride(l) * x.rate /\ y.late = TimeStride(l) * x.late + Late(l)

LEMMA StrideIs ==
  ASSUME NEW l, Sound(l)
  PROVE  TimeStride(l) \in Positive /\ Kept(l) \in Nat /\ Late(l) \in Nat
<1>1. TimeStride(l) \in Positive /\ Late(l) \in Nat
  BY DEF Sound, TimeStride, Late, Positive
<1>2. CASE l.kind = "conv"
  <2> DEFINE k == l.kernel[1]  d == l.dilation[1]  s == l.strides[1]  w == (k - 1) * d
  <2>1. k \in Nat \ {0} /\ d \in Nat \ {0} /\ s \in Nat \ {0}
    BY <1>2 DEF Sound, Positive
  <2> HIDE DEF k, d, s
  <2>2. w \in Nat
    BY <2>1
  <2> HIDE DEF w
  <2>3. Larger(0, w + 1 - s) \in Nat
    BY <2>1, <2>2 DEF Larger
  <2>4. Kept(l) = Larger(0, w + 1 - s)
    BY <1>2 DEF Kept, k, d, s, w
  <2> QED BY <1>1, <2>3, <2>4
<1>3. CASE l.kind = "transpose"
  <2> DEFINE k == l.kernel[1]  s == l.strides[1]
  <2>1. k \in Nat \ {0} /\ s \in Nat \ {0} /\ Kept(l) = (k - 1) \div s
    BY <1>3 DEF Sound, Positive, Kept
  <2> HIDE DEF k, s
  <2> QED BY <1>1, <2>1
<1>4. CASE l.kind \notin {"conv", "transpose"}
  <2>1. Kept(l) \in Nat
    BY <1>4 DEF Sound, Kept
  <2> QED BY <1>1, <2>1
<1> QED BY <1>2, <1>3, <1>4

\* What an output is, kind by kind.
\* The inputs that reach output t of a transposed convolution.
Taps(l, g, o, t) ==
  [j \in 1 .. l.kernel[1] |->
     IF (t - j) % l.strides[1] = 0 THEN InputAt(g, o + ((t - j) \div l.strides[1] + 1)) ELSE Absent]

LEMMA TransposeOutput ==
  ASSUME NEW l, l.kind = "transpose", NEW g, NEW o, NEW t
  PROVE  OutputAt(l, g, o, t) =
           IF InputAt(g, o + ((t - 1) \div l.strides[1] + 1)) = Absent THEN Absent ELSE Mix(Taps(l, g, o, t))
<1>1. Anchor(l, t) = (t - 1) \div l.strides[1] + 1
  BY DEF Anchor
<1> QED BY <1>1 DEF OutputAt, Taps

LEMMA UpOutput ==
  ASSUME NEW l, l.kind = "upsample", NEW g, NEW o, NEW t
  PROVE  OutputAt(l, g, o, t) =
           IF InputAt(g, o + ((t - 1) \div l.strides[1] + 1)) = Absent THEN Absent
           ELSE InputAt(g, o + ((t - 1) \div l.strides[1] + 1))
<1>1. Anchor(l, t) = (t - 1) \div l.strides[1] + 1
  BY DEF Anchor
<1> DEFINE a == Anchor(l, t)
<1>2. OutputAt(l, g, o, t) =
           IF InputAt(g, o + a) = Absent THEN Absent
           ELSE InputAt(g, o + a)
  <2> HIDE DEF a
  <2> QED  BY DEF OutputAt, a
<1> QED BY <1>1, <1>2

LEMMA PoolOutput ==
  ASSUME NEW l, l.kind = "pool", NEW g, NEW o, NEW t
  PROVE  OutputAt(l, g, o, t) =
           IF InputAt(g, o + t * l.strides[1]) = Absent THEN Absent
           ELSE Mix([j \in 1 .. l.strides[1] |-> InputAt(g, o + ((t - 1) * l.strides[1] + j))])
<1>1. Anchor(l, t) = t * l.strides[1]
  BY DEF Anchor
<1> QED BY <1>1 DEF OutputAt

LEMMA StftOutput ==
  ASSUME NEW l, l.kind = "stft", NEW g, NEW o, NEW t
  PROVE  OutputAt(l, g, o, t) =
           IF InputAt(g, o + t) = Absent THEN Absent ELSE Mix(<< InputAt(g, o + t), InputAt(g, o + (t + 1)) >>)
<1>1. Anchor(l, t) = t
  BY DEF Anchor
<1> QED BY <1>1 DEF OutputAt

LEMMA InverseStftOutput ==
  ASSUME NEW l, l.kind = "istft", NEW g, NEW o, NEW t
  PROVE  OutputAt(l, g, o, t) =
           IF InputAt(g, o + t) = Absent THEN Absent ELSE Mix(<< InputAt(g, o + (t - 1)), InputAt(g, o + t) >>)
<1>1. Anchor(l, t) = t
  BY DEF Anchor
<1> QED BY <1>1 DEF OutputAt

LEMMA LookaheadOutput ==
  ASSUME NEW l, l.kind = "lookahead", NEW g, NEW o, NEW t
  PROVE  OutputAt(l, g, o, t) = IF InputAt(g, o + t) = Absent THEN Absent ELSE InputAt(g, o + (t + l.by))
<1>1. Anchor(l, t) = t
  BY DEF Anchor
<1> QED BY <1>1 DEF OutputAt

LEMMA OtherOutput ==
  ASSUME NEW l, l.kind \in {"delay", "flatten", "reshape"}, NEW g, NEW o, NEW t
  PROVE  OutputAt(l, g, o, t) = InputAt(g, o + t)
<1>1. Anchor(l, t) = t
  BY DEF Anchor
<1> DEFINE z == InputAt(g, o + t)
<1>2. OutputAt(l, g, o, t) = IF z = Absent THEN Absent ELSE z
  BY <1>1 DEF OutputAt
<1> HIDE DEF z
<1>3. OutputAt(l, g, o, t) = z
  BY <1>2
<1> QED BY <1>3 DEF z

LEMMA ConvOutput ==
  ASSUME NEW l, l.kind = "conv", NEW g, NEW o, NEW t
  PROVE  OutputAt(l, g, o, t) =
           IF InputAt(g, o + t * l.strides[1]) = Absent THEN Absent
           ELSE Mix([j \in 1 .. l.kernel[1] |-> InputAt(g, o + (t * l.strides[1] - (l.kernel[1] - j) * l.dilation[1]))])
<1>1. Anchor(l, t) = t * l.strides[1]
  BY DEF Anchor
<1> QED BY <1>1 DEF OutputAt

\* Two inputs that agree, from k before to n after, at the places o and p.
Alike(g, o, f, p, k, n) == \A i \in 1 - k .. n : InputAt(g, o + i) = InputAt(f, p + i)

LEMMA ConvReads ==
  ASSUME NEW l, Sound(l), l.kind = "conv", NEW f, NEW g, NEW o \in Int, NEW p \in Int, NEW t \in Int, t >= 1,
         NEW N \in Nat, t * TimeStride(l) <= N,
         Alike(g, o, f, TimeStride(l) * p, Kept(l), N)
  PROVE  OutputAt(l, g, o, t) = OutputAt(l, f, 0, p + t)
<1> DEFINE k == l.kernel[1]  d == l.dilation[1]  s == l.strides[1]  q == s * p
<1>1. k \in Nat \ {0} /\ d \in Nat \ {0} /\ s \in Nat \ {0} /\ TimeStride(l) = s
  BY DEF Sound, Positive, TimeStride
<1>2. Kept(l) = Larger(0, (k - 1) * d + 1 - s)
  BY DEF Kept
<1> HIDE DEF k, d, s
<1>3. t * s \in Int /\ t * s >= s /\ q \in Int /\ 0 + (p + t) * s = q + t * s /\ t * s <= N
  <2>1. t * s = (t - 1) * s + s /\ (t - 1) * s >= 0 /\ t * s \in Int
    BY <1>1
  <2>2. (p + t) * s = p * s + t * s /\ p * s = s * p /\ s * p \in Int
    BY <1>1
  <2> QED BY <1>1, <2>1, <2>2
<1>4. ASSUME NEW j \in 1 .. k
      PROVE  InputAt(g, o + (t * s - (k - j) * d)) = InputAt(f, 0 + ((p + t) * s - (k - j) * d))
  <2> DEFINE w == (k - j) * d  v == (k - 1) * d  ts == t * s
  <2>1. w \in Int /\ w >= 0 /\ v \in Int /\ w <= v
    <3>1. v = w + (j - 1) * d /\ (j - 1) * d >= 0
      BY <1>1
    <3>2. w \in Nat /\ v \in Int
      BY <1>1
    <3> HIDE DEF w, v
    <3>3. (j - 1) * d \in Int
      BY <1>1
    <3> QED BY <3>1, <3>2, <3>3
  <2>2. ts \in Int /\ ts >= s /\ ts <= N /\ (p + t) * s = q + ts
    <3>1. (p + t) * s \in Int
      BY <1>1
    <3> HIDE DEF q
    <3> QED BY <1>3, <3>1
  <2>3. Kept(l) >= v + 1 - s /\ Kept(l) \in Int
    <3> HIDE DEF v
    <3> QED BY <1>1, <1>2, <2>1 DEF Larger, v
  <2> HIDE DEF w, v, ts, q
  <2>4. ts - w \in 1 - Kept(l) .. N
    BY <1>1, <2>1, <2>2, <2>3
  <2>5. InputAt(g, o + (ts - w)) = InputAt(f, q + (ts - w))
    BY <1>1, <2>4 DEF q, Alike
  <2>6. q + (ts - w) = 0 + ((q + ts) - w) /\ q \in Int
    BY <1>3, <2>1, <2>2
  <2> QED BY <2>2, <2>5, <2>6 DEF w, ts
<1>5. InputAt(g, o + t * s) = InputAt(f, 0 + (p + t) * s)
  <2>1. k \in 1 .. k /\ (k - k) * d = 0
    BY <1>1
  <2>2. InputAt(g, o + (t * s - (k - k) * d)) = InputAt(f, 0 + ((p + t) * s - (k - k) * d))
    BY <1>4, <2>1
  <2>3. t * s - 0 = t * s /\ (p + t) * s - 0 = (p + t) * s
    BY <1>1
  <2> QED BY <2>1, <2>2, <2>3
<1> DEFINE mg == [j \in 1 .. k |-> InputAt(g, o + (t * s - (k - j) * d))]
           mf == [j \in 1 .. k |-> InputAt(f, 0 + ((p + t) * s - (k - j) * d))]
<1>6. mg = mf
  BY <1>4
<1>7a. OutputAt(l, g, o, t) = IF InputAt(g, o + t * s) = Absent THEN Absent ELSE Mix(mg)
  BY ConvOutput, Zenon DEF k, d, s
<1>7b. OutputAt(l, f, 0, p + t) = IF InputAt(f, 0 + (p + t) * s) = Absent THEN Absent ELSE Mix(mf)
  <2> DEFINE z == 0  u == p + t
  <2> HIDE DEF z, u
  <2>1. OutputAt(l, f, z, u) =
          IF InputAt(f, z + u * s) = Absent THEN Absent
          ELSE Mix([j \in 1 .. k |-> InputAt(f, z + (u * s - (k - j) * d))])
    BY ConvOutput, Zenon DEF k, d, s
  <2> QED BY <2>1 DEF z, u
<1> HIDE DEF mg, mf
<1> QED BY <1>5, <1>6, <1>7a, <1>7b

LEMMA TransposeReads ==
  ASSUME NEW l, Sound(l), l.kind = "transpose", NEW f, NEW g, NEW o \in Int, NEW p \in Int, NEW t \in Int, t >= 1,
         NEW N \in Nat, t <= TimeStride(l) * N,
         Alike(g, o, f, p, Kept(l), N)
  PROVE  OutputAt(l, g, o, t) = OutputAt(l, f, 0, TimeStride(l) * p + t)
<1> DEFINE k == l.kernel[1]  s == l.strides[1]  q == s * p
<1>1. k \in Nat \ {0} /\ s \in Nat \ {0} /\ TimeStride(l) = s /\ s \in Positive
  BY DEF Sound, Positive, TimeStride
<1>2. Kept(l) = (k - 1) \div s
  BY DEF Kept
<1> HIDE DEF k, s
<1>a. q \in Int
  BY <1>1
<1>3. ASSUME NEW j \in Int
      PROVE  /\ (q + t - j) % s = (t - j) % s /\ (q + t - j) \div s = p + ((t - j) \div s) /\ (t - j) \div s \in Int
             /\ q + t - j \in Int /\ t - j \in Int
  <2> DEFINE u == t - j
  <2>1. u \in Int /\ q \in Int /\ q + t - j = q + u
    BY <1>1
  <2> HIDE DEF u
  <2>a. u \div s \in Int
    BY <1>1, <2>1
  <2>2. (s * p + u) \div s = p + (u \div s) /\ (s * p + u) % s = u % s /\ u \div s \in Int
    BY <1>1, <2>1, <2>a, MultipleOff
  <2> USE DEF u
  <2> QED BY <2>1, <2>2
<1>4. ASSUME NEW j \in 1 .. k, (t - j) % s = 0
      PROVE  InputAt(g, o + ((t - j) \div s + 1)) = InputAt(f, 0 + ((q + t - j) \div s + 1))
  <2> DEFINE u == t - j  v == u \div s  K == (k - 1) \div s  r == (k - 1) % s
  <2>1. u \in Int /\ v \in Int /\ u = s * v /\ u >= 1 - k /\ u <= s * N - 1
    BY <1>1, <1>4
  <2>2. K \in Nat /\ r \in 0 .. s - 1 /\ k - 1 = s * K + r
    BY <1>1
  <2> HIDE DEF u, v, K, r
  <2>3. v >= -K
    <3> SUFFICES ASSUME v < -K PROVE FALSE
      BY <2>1, <2>2
    <3>1. v + K + 1 <= 0 /\ v + K + 1 \in Int
      BY <2>1, <2>2
    <3>2. s * (v + K + 1) <= 0
      BY <1>1, <3>1
    <3>3. s * (v + K + 1) = s * v + s * K + s /\ s * v \in Int /\ s * K \in Int
      BY <1>1, <2>1, <2>2
    <3> QED BY <1>1, <2>1, <2>2, <3>2, <3>3
  <2>4. v + 1 <= N
    <3> SUFFICES ASSUME v >= N PROVE FALSE
      BY <2>1
    <3>1. s * (v - N) >= 0
      BY <1>1, <2>1
    <3>2. s * (v - N) = s * v - s * N /\ s * v \in Int /\ s * N \in Int
      BY <1>1, <2>1
    <3> QED BY <2>1, <3>1, <3>2
  <2>5. v + 1 \in 1 - Kept(l) .. N
    BY <1>2, <2>1, <2>2, <2>3, <2>4 DEF K
  <2>6. InputAt(g, o + (v + 1)) = InputAt(f, p + (v + 1))
    BY <2>5 DEF Alike
  <2>7. (q + t - j) \div s = p + v
    BY <1>3 DEF u, v
  <2>8. p + (v + 1) = 0 + ((p + v) + 1)
    BY <2>1
  <2> QED BY <2>6, <2>7, <2>8 DEF u, v
<1>5. Taps(l, g, o, t) = Taps(l, f, 0, q + t)
  <2> DEFINE a(j) == IF (t - j) % s = 0 THEN InputAt(g, o + ((t - j) \div s + 1)) ELSE Absent
             b(j) == IF ((q + t) - j) % s = 0 THEN InputAt(f, 0 + (((q + t) - j) \div s + 1)) ELSE Absent
  <2>1. Taps(l, g, o, t) = [j \in 1 .. k |-> a(j)] /\ Taps(l, f, 0, q + t) = [j \in 1 .. k |-> b(j)]
    BY DEF Taps, k, s
  <2> HIDE DEF q
  <2>2. ASSUME NEW j \in 1 .. k PROVE a(j) = b(j)
    <3> DEFINE u == q + t - j
    <3>1. (q + t) - j = u /\ u % s = (t - j) % s
      BY <1>1, <1>3, <1>a
    <3>2. CASE (t - j) % s = 0
      <4>1. InputAt(g, o + ((t - j) \div s + 1)) = InputAt(f, 0 + (u \div s + 1))
        BY <1>4, <3>2
      <4> HIDE DEF u
      <4> QED BY <3>1, <3>2, <4>1
    <3>3. CASE (t - j) % s # 0
      <4> HIDE DEF u
      <4> QED BY <3>1, <3>3
    <3> QED BY <3>2, <3>3
  <2> HIDE DEF a, b
  <2> QED BY <2>1, <2>2
<1>6. InputAt(g, o + ((t - 1) \div s + 1)) = InputAt(f, 0 + ((q + t - 1) \div s + 1))
  <2> DEFINE u == t - 1  v == u \div s
  <2>1. u \in Nat /\ v \in Int /\ v >= 0 /\ s * v <= u /\ u <= s * N - 1
    BY <1>1
  <2> HIDE DEF u, v
  <2>2. v + 1 <= N
    <3> SUFFICES ASSUME v >= N PROVE FALSE
      BY <2>1
    <3>1. s * (v - N) >= 0
      BY <1>1, <2>1
    <3>2. s * (v - N) = s * v - s * N /\ s * v \in Int /\ s * N \in Int
      BY <1>1, <2>1
    <3> QED BY <2>1, <3>1, <3>2
  <2>3. v + 1 \in 1 - Kept(l) .. N
    BY <2>1, <2>2, StrideIs
  <2>4. InputAt(g, o + (v + 1)) = InputAt(f, p + (v + 1))
    BY <2>3 DEF Alike
  <2>5. (q + t - 1) \div s = p + v
    BY <1>3 DEF u, v
  <2>6. p + (v + 1) = 0 + ((p + v) + 1)
    BY <2>1
  <2> QED BY <2>4, <2>5, <2>6 DEF u, v
<1>7. OutputAt(l, g, o, t) = IF InputAt(g, o + ((t - 1) \div s + 1)) = Absent THEN Absent ELSE Mix(Taps(l, g, o, t))
  BY TransposeOutput, Zenon DEF s
<1>8. OutputAt(l, f, 0, q + t) =
        IF InputAt(f, 0 + (((q + t) - 1) \div s + 1)) = Absent THEN Absent ELSE Mix(Taps(l, f, 0, q + t))
  <2> DEFINE z == 0  u == q + t
  <2> HIDE DEF z, u
  <2>1. OutputAt(l, f, z, u) =
          IF InputAt(f, z + ((u - 1) \div s + 1)) = Absent THEN Absent ELSE Mix(Taps(l, f, z, u))
    BY TransposeOutput, Zenon DEF s
  <2> QED BY <2>1 DEF z, u
<1>9. (q + t) - 1 = q + t - 1
  BY <1>1, <1>a
<1> HIDE DEF q
<1> QED BY <1>1, <1>9, <1>5, <1>6, <1>7, <1>8 DEF q

LEMMA PoolReads ==
  ASSUME NEW l, Sound(l), l.kind = "pool", NEW f, NEW g, NEW o \in Int, NEW p \in Int, NEW t \in Int, t >= 1,
         NEW N \in Nat, t * TimeStride(l) <= N,
         Alike(g, o, f, TimeStride(l) * p, 0, N)
  PROVE  OutputAt(l, g, o, t) = OutputAt(l, f, 0, p + t)
<1> DEFINE s == l.strides[1]  q == s * p
<1>1. s \in Nat \ {0} /\ TimeStride(l) = s
  BY DEF Sound, Positive, TimeStride
<1> HIDE DEF s
<1>2. ASSUME NEW j \in 1 .. s
      PROVE  InputAt(g, o + ((t - 1) * s + j)) = InputAt(f, 0 + ((p + t - 1) * s + j))
  <2> DEFINE w == (t - 1) * s
  <2>1. w \in Nat /\ w + s = t * s
    BY <1>1
  <2>2. (p + t - 1) * s = q + w /\ q \in Int
    BY <1>1
  <2> HIDE DEF w, q
  <2>3. w + j \in 1 - 0 .. N
    BY <1>1, <2>1
  <2>4. InputAt(g, o + (w + j)) = InputAt(f, q + (w + j))
    BY <1>1, <2>3 DEF q, Alike
  <2>5. q + (w + j) = 0 + ((q + w) + j)
    BY <2>1, <2>2
  <2> QED BY <2>2, <2>4, <2>5 DEF w
<1>3. InputAt(g, o + t * s) = InputAt(f, 0 + (p + t) * s)
  <2>1. s \in 1 .. s
    BY <1>1
  <2>2. InputAt(g, o + ((t - 1) * s + s)) = InputAt(f, 0 + ((p + t - 1) * s + s))
    BY <1>2, <2>1
  <2>3. (t - 1) * s + s = t * s /\ (p + t - 1) * s + s = (p + t) * s
    BY <1>1
  <2> QED BY <2>2, <2>3
<1> DEFINE mg == [j \in 1 .. s |-> InputAt(g, o + ((t - 1) * s + j))]
           mf == [j \in 1 .. s |-> InputAt(f, 0 + ((p + t - 1) * s + j))]
<1>4. mg = mf
  BY <1>2
<1>5a. OutputAt(l, g, o, t) = IF InputAt(g, o + t * s) = Absent THEN Absent ELSE Mix(mg)
  BY PoolOutput, Zenon DEF s
<1>5b. OutputAt(l, f, 0, p + t) = IF InputAt(f, 0 + (p + t) * s) = Absent THEN Absent ELSE Mix(mf)
  <2> DEFINE z == 0  u == p + t
  <2> HIDE DEF z, u
  <2>1. OutputAt(l, f, z, u) =
          IF InputAt(f, z + u * s) = Absent THEN Absent
          ELSE Mix([j \in 1 .. s |-> InputAt(f, z + ((u - 1) * s + j))])
    BY PoolOutput, Zenon DEF s
  <2> QED BY <2>1 DEF z, u
<1> HIDE DEF mg, mf
<1> QED BY <1>3, <1>4, <1>5a, <1>5b

LEMMA UpsampleReads ==
  ASSUME NEW l, Sound(l), l.kind = "upsample", NEW f, NEW g, NEW o \in Int, NEW p \in Int, NEW t \in Int, t >= 1,
         NEW N \in Nat, t <= TimeStride(l) * N,
         Alike(g, o, f, p, 0, N)
  PROVE  OutputAt(l, g, o, t) = OutputAt(l, f, 0, TimeStride(l) * p + t)
<1> DEFINE s == l.strides[1]  q == s * p  u == t - 1  v == u \div s
<1>1. s \in Nat \ {0} /\ TimeStride(l) = s /\ s \in Positive
  BY DEF Sound, Positive, TimeStride
<1> HIDE DEF s
<1>2. u \in Nat /\ v \in Int /\ v >= 0 /\ s * v <= u /\ u <= s * N - 1 /\ q \in Int /\ q + t - 1 = q + u
  BY <1>1
<1>3. (s * p + u) \div s = p + (u \div s)
  <2> HIDE DEF u
  <2> QED BY <1>1, <1>2, MultipleOff
<1>4. (q + t - 1) \div s = p + v
  BY <1>2, <1>3
<1> HIDE DEF u, v
<1>5. v + 1 <= N
  <2> SUFFICES ASSUME v >= N PROVE FALSE
    BY <1>2
  <2>1. s * (v - N) >= 0
    BY <1>1, <1>2
  <2>2. s * (v - N) = s * v - s * N /\ s * v \in Int /\ s * N \in Int
    BY <1>1, <1>2
  <2> QED BY <1>2, <2>1, <2>2
<1>a. v + 1 \in 1 - 0 .. N
  BY <1>2, <1>5
<1>6. InputAt(g, o + (v + 1)) = InputAt(f, p + (v + 1))
  BY <1>a DEF Alike
<1>7. p + (v + 1) = 0 + ((p + v) + 1)
  BY <1>2
<1>8a. OutputAt(l, g, o, t) = IF InputAt(g, o + ((t - 1) \div s + 1)) = Absent THEN Absent
                                 ELSE InputAt(g, o + ((t - 1) \div s + 1))
  BY UpOutput, Zenon DEF s
<1>8b. OutputAt(l, f, 0, q + t) = IF InputAt(f, 0 + (((q + t) - 1) \div s + 1)) = Absent THEN Absent
                                    ELSE InputAt(f, 0 + (((q + t) - 1) \div s + 1))
  <2> DEFINE z == 0  m == q + t
  <2> HIDE DEF z, m
  <2>1. OutputAt(l, f, z, m) =
          IF InputAt(f, z + ((m - 1) \div s + 1)) = Absent THEN Absent
          ELSE InputAt(f, z + ((m - 1) \div s + 1))
    BY UpOutput, Zenon DEF s
  <2> QED BY <2>1 DEF z, m
<1>9. (q + t) - 1 = q + t - 1
  BY <1>2
<1> QED BY <1>1, <1>9, <1>4, <1>6, <1>7, <1>8a, <1>8b DEF u, v

\* The layers that change no length: time t of the step is time t - Late.
LEMMA OthersRead ==
  ASSUME NEW l, Sound(l), l.kind \notin {"conv", "transpose", "pool", "upsample"}, NEW f, NEW g, NEW o \in Int,
         NEW p \in Int, NEW t \in Int, t >= 1, NEW N \in Nat, t <= N,
         Alike(g, o, f, p, Kept(l), N)
  PROVE  OutputAt(l, g, o, t - Late(l)) = OutputAt(l, f, 0, p + t - Late(l))
<1> DEFINE u == t - Late(l)
<1>1. u \in Int /\ p + t - Late(l) = p + u
  BY StrideIs
<1>2. ASSUME NEW i \in 1 - Kept(l) .. N PROVE InputAt(g, o + i) = InputAt(f, 0 + (p + i))
  <2>1. 0 + (p + i) = p + i
    BY StrideIs
  <2> QED BY <2>1 DEF Alike
<1>3. CASE l.kind = "stft"
  <2>1. Late(l) = 1 /\ Kept(l) = 1
    BY <1>3 DEF Late, Kept
  <2>2. u \in 1 - Kept(l) .. N /\ u + 1 \in 1 - Kept(l) .. N /\ p + (u + 1) = p + u + 1
    BY <2>1
  <2>3. InputAt(g, o + u) = InputAt(f, 0 + (p + u)) /\ InputAt(g, o + (u + 1)) = InputAt(f, 0 + (p + u + 1))
    <3> HIDE DEF u
    <3> QED BY <1>2, <2>2
  <2> HIDE DEF u
  <2>4. OutputAt(l, g, o, u) = OutputAt(l, f, 0, p + u)
    <3> DEFINE z == 0  v == p + u
    <3> HIDE DEF z, v
    <3>1. OutputAt(l, g, o, u) = IF InputAt(g, o + u) = Absent THEN Absent ELSE Mix(<< InputAt(g, o + u), InputAt(g, o + (u + 1)) >>)
      BY <1>3, StftOutput
    <3>2. OutputAt(l, f, z, v) = IF InputAt(f, z + v) = Absent THEN Absent ELSE Mix(<< InputAt(f, z + v), InputAt(f, z + (v + 1)) >>)
      BY <1>3, StftOutput
    <3> QED BY <2>3, <3>1, <3>2 DEF z, v
  <2> QED BY <1>1, <2>4 DEF u
<1>4. CASE l.kind = "istft"
  <2>1. Late(l) = 0 /\ Kept(l) = 1
    BY <1>4 DEF Late, Kept
  <2>2. u \in 1 - Kept(l) .. N /\ u - 1 \in 1 - Kept(l) .. N /\ p + (u - 1) = (p + u) - 1
    BY <2>1
  <2>3. InputAt(g, o + u) = InputAt(f, 0 + (p + u)) /\ InputAt(g, o + (u - 1)) = InputAt(f, 0 + ((p + u) - 1))
    <3> HIDE DEF u
    <3> QED BY <1>2, <2>2
  <2> HIDE DEF u
  <2>4. OutputAt(l, g, o, u) = OutputAt(l, f, 0, p + u)
    <3> DEFINE z == 0  v == p + u
    <3> HIDE DEF z, v
    <3>1. OutputAt(l, g, o, u) = IF InputAt(g, o + u) = Absent THEN Absent ELSE Mix(<< InputAt(g, o + (u - 1)), InputAt(g, o + u) >>)
      BY <1>4, InverseStftOutput
    <3>2. OutputAt(l, f, z, v) = IF InputAt(f, z + v) = Absent THEN Absent ELSE Mix(<< InputAt(f, z + (v - 1)), InputAt(f, z + v) >>)
      BY <1>4, InverseStftOutput
    <3> QED BY <2>3, <3>1, <3>2 DEF z, v
  <2> QED BY <1>1, <2>4 DEF u
<1>5. CASE l.kind = "lookahead"
  <2>1. Late(l) = l.by /\ Kept(l) = l.by /\ l.by \in Nat
    BY <1>5 DEF Late, Kept, Sound
  <2>2. u \in 1 - Kept(l) .. N /\ u + l.by \in 1 - Kept(l) .. N /\ p + (u + l.by) = p + u + l.by
    BY <2>1
  <2>3. InputAt(g, o + u) = InputAt(f, 0 + (p + u)) /\ InputAt(g, o + (u + l.by)) = InputAt(f, 0 + (p + u + l.by))
    <3> HIDE DEF u
    <3> QED BY <1>2, <2>2
  <2> HIDE DEF u
  <2>4. OutputAt(l, g, o, u) = OutputAt(l, f, 0, p + u)
    <3> DEFINE z == 0  v == p + u
    <3> HIDE DEF z, v
    <3>1. OutputAt(l, g, o, u) = IF InputAt(g, o + u) = Absent THEN Absent ELSE InputAt(g, o + (u + l.by))
      BY <1>5, LookaheadOutput
    <3>2. OutputAt(l, f, z, v) = IF InputAt(f, z + v) = Absent THEN Absent ELSE InputAt(f, z + (v + l.by))
      BY <1>5, LookaheadOutput
    <3> QED BY <2>3, <3>1, <3>2 DEF z, v
  <2> QED BY <1>1, <2>4 DEF u
<1>6. CASE l.kind \in {"delay", "flatten", "reshape"}
  <2>1. Late(l) = Kept(l) /\ Kept(l) \in Nat
    BY <1>6 DEF Late, Kept, Sound
  <2>2. u \in 1 - Kept(l) .. N
    BY <2>1
  <2>3. InputAt(g, o + u) = InputAt(f, 0 + (p + u))
    <3> HIDE DEF u
    <3> QED BY <1>2, <2>2
  <2> HIDE DEF u
  <2>4. OutputAt(l, g, o, u) = OutputAt(l, f, 0, p + u)
    <3> DEFINE z == 0  v == p + u
    <3> HIDE DEF z, v
    <3>1. OutputAt(l, g, o, u) = InputAt(g, o + u)
      BY <1>6, OtherOutput
    <3>2. OutputAt(l, f, z, v) = InputAt(f, z + v)
      BY <1>6, OtherOutput
    <3> QED BY <2>3, <3>1, <3>2 DEF z, v
  <2> QED BY <1>1, <2>4 DEF u
<1> QED BY <1>3, <1>4, <1>5, <1>6 DEF Sound

\* What a layer reads of two inputs that agree is what it puts out: output t of
\* a step on g is output q + t of the layer over f.
LEMMA Reads ==
  ASSUME NEW l, Sound(l), NEW f, NEW g, NEW o \in Int, NEW b \in Int, NEW q \in Int, NEW N \in Nat,
         NEW M \in Nat, IF Shrinks(l) THEN N = TimeStride(l) * M ELSE M = TimeStride(l) * N,
         IF Shrinks(l) THEN b = TimeStride(l) * q ELSE q + Late(l) = TimeStride(l) * b,
         Alike(g, o, f, b, Kept(l), N), NEW t \in 1 .. M
  PROVE  OutputAt(l, g, o, t - Late(l)) = OutputAt(l, f, 0, q + t)
<1>0. t \in Int /\ t >= 1 /\ t <= M /\ TimeStride(l) \in Nat \ {0} /\ Late(l) \in Nat
  BY StrideIs DEF Positive
<1>1. CASE l.kind = "conv"
  <2>1. Late(l) = 0 /\ Shrinks(l)
    BY <1>1 DEF Late, Shrinks
  <2>2. t * TimeStride(l) <= N /\ t - 0 = t
    <3> DEFINE s == TimeStride(l)
    <3> HIDE DEF s
    <3>1. s * M = t * s + s * (M - t) /\ s * (M - t) >= 0 /\ t * s \in Int
      BY <1>0 DEF s
    <3>2. N = s * M
      BY <2>1 DEF s
    <3> QED BY <1>0, <3>1, <3>2 DEF s
  <2> QED BY <1>0, <1>1, <2>1, <2>2, ConvReads
<1>2. CASE l.kind = "pool"
  <2>1. Late(l) = 0 /\ Shrinks(l) /\ Kept(l) = 0
    BY <1>2 DEF Late, Shrinks, Kept
  <2>2. t * TimeStride(l) <= N /\ t - 0 = t
    <3> DEFINE s == TimeStride(l)
    <3> HIDE DEF s
    <3>1. s * M = t * s + s * (M - t) /\ s * (M - t) >= 0 /\ t * s \in Int
      BY <1>0 DEF s
    <3>2. N = s * M
      BY <2>1 DEF s
    <3> QED BY <1>0, <3>1, <3>2 DEF s
  <2> QED BY <1>0, <1>2, <2>1, <2>2, PoolReads
<1>3. CASE l.kind = "transpose"
  <2>1. Late(l) = 0 /\ ~Shrinks(l) /\ t - 0 = t
    BY <1>0, <1>3 DEF Late, Shrinks
  <2>2. q = TimeStride(l) * b /\ M = TimeStride(l) * N
    BY <2>1
  <2> QED BY <1>0, <1>3, <2>1, <2>2, TransposeReads
<1>4. CASE l.kind = "upsample"
  <2>1. Late(l) = 0 /\ ~Shrinks(l) /\ t - 0 = t /\ Kept(l) = 0
    BY <1>0, <1>4 DEF Late, Shrinks, Kept
  <2>2. q = TimeStride(l) * b /\ M = TimeStride(l) * N
    BY <2>1
  <2> QED BY <1>0, <1>4, <2>1, <2>2, UpsampleReads
<1>5. CASE l.kind \notin {"conv", "transpose", "pool", "upsample"}
  <2>1. ~Shrinks(l) /\ TimeStride(l) = 1
    BY <1>5 DEF Shrinks, TimeStride
  <2>2. q + Late(l) = b /\ M = N
    BY <2>1
  <2>3. OutputAt(l, g, o, t - Late(l)) = OutputAt(l, f, 0, b + t - Late(l))
    BY <1>0, <1>5, <2>2, OthersRead
  <2>4. b + t - Late(l) = q + t
    BY <1>0, <2>2
  <2> QED BY <2>3, <2>4
<1> QED BY <1>1, <1>2, <1>3, <1>4, <1>5

\* A signal through a layer.
Filtered(l, f) == [t \in Int |-> OutputAt(l, f, 0, t)]
\* The signal ends at time n, and its first n values.
Silent(f, n) == \A t \in Int : t > n => f[t] = Absent
Upto(f, n) == [t \in 1 .. n |-> f[t]]

LEMMA AnchorIs ==
  ASSUME NEW l, Sound(l), NEW t \in Int
  PROVE  /\ Anchor(l, t) \in Int
         /\ t <= 0 => Anchor(l, t) <= 0
         /\ \A N \in Nat : Shrinks(l) /\ t > N => Anchor(l, t) > TimeStride(l) * N
         /\ \A N \in Nat : ~Shrinks(l) /\ t > TimeStride(l) * N => Anchor(l, t) > N
<1>0. TimeStride(l) \in Nat \ {0}
  BY StrideIs DEF Positive
<1>1. CASE l.kind \in {"conv", "pool"}
  <2> DEFINE s == TimeStride(l)
  <2>1. Anchor(l, t) = t * s /\ Shrinks(l)
    BY <1>1 DEF Anchor, Shrinks, TimeStride
  <2>2. s \in Nat \ {0}
    BY <1>0
  <2> HIDE DEF s
  <2>3. t * s \in Int /\ (t <= 0 => t * s <= 0)
    BY <2>2
  <2>4. ASSUME NEW N \in Nat, t > N PROVE t * s > s * N
    <3>1. t * s = s * N + s * (t - N) /\ s * (t - N) > 0 /\ s * N \in Int /\ s * (t - N) \in Int
      BY <2>2, <2>4
    <3> QED BY <3>1
  <2> QED BY <2>1, <2>3, <2>4 DEF s
<1>2. CASE l.kind \in {"transpose", "upsample"}
  <2> DEFINE s == TimeStride(l)  u == t - 1  v == u \div s  r == u % s
  <2>1. Anchor(l, t) = v + 1 /\ ~Shrinks(l)
    BY <1>2 DEF Anchor, Shrinks, TimeStride
  <2>2. s \in Nat \ {0}
    BY <1>0
  <2> HIDE DEF s
  <2>3. u \in Int /\ v \in Int /\ r \in 0 .. s - 1 /\ u = s * v + r
    BY <2>2
  <2>4. u = t - 1
    OBVIOUS
  <2> HIDE DEF u, v, r
  <2>5. t <= 0 => v + 1 <= 0
    <3> SUFFICES ASSUME t <= 0, v >= 0 PROVE FALSE
      BY <2>3
    <3>1. s * v >= 0 /\ s * v \in Int
      BY <2>2, <2>3
    <3> QED BY <2>2, <2>3, <2>4, <3>1
  <2>6. ASSUME NEW N \in Nat, t > s * N PROVE v + 1 > N
    <3> SUFFICES ASSUME v + 1 <= N PROVE FALSE
      BY <2>3
    <3>1. s * N = s * (v + 1) + s * (N - (v + 1)) /\ s * (N - (v + 1)) >= 0 /\ s * (v + 1) = s * v + s
          /\ s * v \in Int /\ s * N \in Int /\ s * (v + 1) \in Int /\ s * (N - (v + 1)) \in Int
      BY <2>2, <2>3
    <3> QED BY <2>2, <2>3, <2>4, <2>6, <3>1
  <2> QED BY <2>1, <2>3, <2>5, <2>6 DEF s
<1>3. CASE l.kind \notin {"conv", "transpose", "pool", "upsample"}
  <2>1. Anchor(l, t) = t /\ ~Shrinks(l) /\ TimeStride(l) = 1
    BY <1>3 DEF Anchor, Shrinks, TimeStride
  <2> QED BY <2>1
<1> QED BY <1>1, <1>2, <1>3

LEMMA MaskedOutput ==
  ASSUME NEW l, NEW g, NEW o, NEW t, NEW a, a = Anchor(l, t), InputAt(g, o + a) = Absent
  PROVE  OutputAt(l, g, o, t) = Absent
BY DEF OutputAt

LEMMA SignalReads ==
  ASSUME NEW f \in Signals
  PROVE  /\ \A i \in Int : InputAt(f, i) = f[i] /\ f[i] \in Int /\ InputAt(f, 0 + i) = f[i]
         /\ \A i \in Int : i <= 0 => f[i] = Absent
<1>1. DOMAIN f = Int /\ \A i \in Int : f[i] \in Int /\ (i <= 0 => f[i] = Absent)
  BY DEF Signals
<1> QED BY <1>1 DEF InputAt

LEMMA MixIs ==
  ASSUME NEW n \in Nat, NEW w, w \in [1 .. n -> Int]
  PROVE  Mix(w) \in Int
<1> DEFINE z == [i \in 1 .. n |-> IF w[i] = Absent THEN 0 ELSE (2 * i + 1) * w[i]]
<1>1. \A i \in 1 .. n : z[i] \in Int
  <2>1. \A i \in 1 .. n : i \in Int /\ w[i] \in Int
    OBVIOUS
  <2> QED BY <2>1
<1>2. z = [i \in 1 .. n |-> z[i]] /\ DOMAIN w = 1 .. n
  OBVIOUS
<1>3. Mix(w) = (7 + SumOf(z)) % Prime
  BY <1>2 DEF Mix
<1> HIDE DEF z
<1>4. SumOf(z) = Total(z, n)
  BY <1>2 DEF Total
<1>5. Total(z, n) \in Int
  <2>1. n \in 0 .. n
    OBVIOUS
  <2>2. \A m \in 0 .. n : Total(z, m) \in Int
    BY <1>1, SumStep
  <2> QED BY <2>1, <2>2
<1> QED BY <1>3, <1>4, <1>5 DEF Prime

LEMMA FilteredSignal ==
  ASSUME NEW l, Sound(l), NEW f \in Signals
  PROVE  Filtered(l, f) \in Signals
<1>0. \A i \in Int : InputAt(f, i) \in Int
  BY SignalReads
<1>1. ASSUME NEW t \in Int PROVE OutputAt(l, f, 0, t) \in Int
  <2>0. Absent \in Int
    BY DEF Absent
  <2> DEFINE z == 0
  <2>z. z \in Int
    OBVIOUS
  <2> HIDE DEF z
  <2>1. CASE l.kind = "conv"
    <3> DEFINE w == [j \in 1 .. l.kernel[1] |-> InputAt(f, z + (t * l.strides[1] - (l.kernel[1] - j) * l.dilation[1]))]
    <3>1. l.kernel[1] \in Nat /\ l.strides[1] \in Int /\ l.dilation[1] \in Int
      BY <2>1 DEF Sound, Positive
    <3>2. \A j \in 1 .. l.kernel[1] : z + (t * l.strides[1] - (l.kernel[1] - j) * l.dilation[1]) \in Int
      <4> DEFINE k == l.kernel[1]  s == l.strides[1]  d == l.dilation[1]
      <4> HIDE DEF k, s, d
      <4>1. \A j \in 1 .. k : z + (t * s - (k - j) * d) \in Int
        <5>1. t * s \in Int /\ \A j \in 1 .. k : (k - j) * d \in Int
          BY <3>1 DEF k, s, d
        <5> QED BY <2>z, <5>1
      <4> QED BY <4>1 DEF k, s, d
    <3>3. w \in [1 .. l.kernel[1] -> Int]
      BY <1>0, <3>2
    <3> HIDE DEF w
    <3>4. Mix(w) \in Int
      BY <3>1, <3>3, MixIs
    <3>5. OutputAt(l, f, z, t) = IF InputAt(f, z + t * l.strides[1]) = Absent THEN Absent ELSE Mix(w)
      BY <2>1, ConvOutput, Zenon DEF w
    <3> QED BY <2>0, <3>4, <3>5 DEF z
  <2>2. CASE l.kind = "transpose"
    <3> DEFINE w == Taps(l, f, z, t)
    <3>1. l.kernel[1] \in Nat /\ l.strides[1] \in Nat \ {0}
      BY <2>2 DEF Sound, Positive
    <3>2. \A j \in 1 .. l.kernel[1] : z + ((t - j) \div l.strides[1] + 1) \in Int
      BY <2>z, <3>1
    <3>3. w \in [1 .. l.kernel[1] -> Int]
      BY <1>0, <2>0, <3>2 DEF Taps
    <3> HIDE DEF w
    <3>4. Mix(w) \in Int
      BY <3>1, <3>3, MixIs
    <3>5. OutputAt(l, f, z, t) = IF InputAt(f, z + ((t - 1) \div l.strides[1] + 1)) = Absent THEN Absent ELSE Mix(w)
      BY <2>2, TransposeOutput, Zenon DEF w
    <3> QED BY <2>0, <3>4, <3>5 DEF z
  <2>3. CASE l.kind = "pool"
    <3> DEFINE w == [j \in 1 .. l.strides[1] |-> InputAt(f, z + ((t - 1) * l.strides[1] + j))]
    <3>1. l.strides[1] \in Nat
      BY <2>3 DEF Sound, Positive
    <3>2. \A j \in 1 .. l.strides[1] : z + ((t - 1) * l.strides[1] + j) \in Int
      BY <2>z, <3>1
    <3>3. w \in [1 .. l.strides[1] -> Int]
      BY <1>0, <3>2
    <3> HIDE DEF w
    <3>4. Mix(w) \in Int
      BY <3>1, <3>3, MixIs
    <3>5. OutputAt(l, f, z, t) = IF InputAt(f, z + t * l.strides[1]) = Absent THEN Absent ELSE Mix(w)
      BY <2>3, PoolOutput, Zenon DEF w
    <3> QED BY <2>0, <3>4, <3>5 DEF z
  <2>4. CASE l.kind = "upsample"
    <3>1. l.strides[1] \in Nat \ {0}
      BY <2>4 DEF Sound, Positive
    <3>2. z + ((t - 1) \div l.strides[1] + 1) \in Int
      BY <2>z, <3>1
    <3> DEFINE a == z + ((t - 1) \div l.strides[1] + 1)
    <3>3. OutputAt(l, f, z, t) = IF InputAt(f, a) = Absent THEN Absent ELSE InputAt(f, a)
      BY <2>4, UpOutput, Zenon
    <3> HIDE DEF a
    <3>4. InputAt(f, a) \in Int
      BY <1>0, <3>2 DEF a
    <3> QED BY <2>0, <3>3, <3>4 DEF z
  <2>5. CASE l.kind = "stft"
    <3> DEFINE w == << InputAt(f, z + t), InputAt(f, z + (t + 1)) >>
    <3>1. w \in [1 .. 2 -> Int]
      <4>1. InputAt(f, z + t) \in Int /\ InputAt(f, z + (t + 1)) \in Int
        BY <1>0, <2>z
      <4> QED BY <4>1
    <3>2. OutputAt(l, f, z, t) = IF InputAt(f, z + t) = Absent THEN Absent ELSE Mix(w)
      BY <2>5, StftOutput
    <3> HIDE DEF w
    <3>3. Mix(w) \in Int
      BY <3>1, MixIs
    <3> QED BY <2>0, <3>2, <3>3 DEF z
  <2>6. CASE l.kind = "istft"
    <3> DEFINE w == << InputAt(f, z + (t - 1)), InputAt(f, z + t) >>
    <3>1. w \in [1 .. 2 -> Int]
      <4>1. InputAt(f, z + t) \in Int /\ InputAt(f, z + (t - 1)) \in Int
        BY <1>0, <2>z
      <4> QED BY <4>1
    <3>2. OutputAt(l, f, z, t) = IF InputAt(f, z + t) = Absent THEN Absent ELSE Mix(w)
      BY <2>6, InverseStftOutput
    <3> HIDE DEF w
    <3>3. Mix(w) \in Int
      BY <3>1, MixIs
    <3> QED BY <2>0, <3>2, <3>3 DEF z
  <2>7. CASE l.kind = "lookahead"
    <3>1. l.by \in Nat
      BY <2>7 DEF Sound
    <3>2. InputAt(f, z + (t + l.by)) \in Int
      BY <1>0, <2>z, <3>1
    <3>3. OutputAt(l, f, z, t) = IF InputAt(f, z + t) = Absent THEN Absent ELSE InputAt(f, z + (t + l.by))
      BY <2>7, LookaheadOutput
    <3> QED BY <2>0, <3>2, <3>3 DEF z
  <2>8. CASE l.kind \in {"delay", "flatten", "reshape"}
    <3>1. OutputAt(l, f, z, t) = InputAt(f, z + t)
      BY <2>8, OtherOutput
    <3> QED BY <1>0, <2>z, <3>1 DEF z
  <2> QED BY <2>1, <2>2, <2>3, <2>4, <2>5, <2>6, <2>7, <2>8 DEF Sound
<1>2. ASSUME NEW t \in Int, t <= 0 PROVE OutputAt(l, f, 0, t) = Absent
  <2> DEFINE a == Anchor(l, t)
  <2>1. a \in Int /\ a <= 0
    BY <1>2, AnchorIs
  <2>2. InputAt(f, 0 + a) = Absent
    <3> HIDE DEF a
    <3> QED BY <2>1, SignalReads
  <2> HIDE DEF a
  <2> QED BY <2>2, MaskedOutput DEF a
<1> QED BY <1>1, <1>2 DEF Filtered, Signals

LEMMA LengthIsAs ==
  ASSUME NEW l, Sound(l), NEW N \in Nat, NEW M \in Nat,
         IF Shrinks(l) THEN N = TimeStride(l) * M ELSE M = TimeStride(l) * N
  PROVE  LengthAfter(l, N) = M
<1> DEFINE s == TimeStride(l)
<1>1. s \in Nat \ {0}
  BY StrideIs DEF Positive
<1>2. CASE Shrinks(l)
  <2>1. N = s * M + 0 /\ s * M + 0 \in Int
    BY <1>1, <1>2
  <2> HIDE DEF s
  <2>2. N \div s = M
    BY <1>1, <2>1, RemainderIs
  <2> QED BY <1>2, <2>2 DEF LengthAfter, s
<1>3. CASE ~Shrinks(l)
  <2>1. M = N * s
    BY <1>1, <1>3
  <2> QED BY <1>3, <2>1 DEF LengthAfter
<1> QED BY <1>2, <1>3

LEMMA ListedIs ==
  ASSUME NEW n \in Nat, NEW s, s = [i \in 1 .. n |-> s[i]]
  PROVE  Listed(s) = s /\ Len(s) = n /\ List(s)
<1>1. Len(s) = n /\ DOMAIN s = 1 .. n
  OBVIOUS
<1>2. List(s) /\ List(<<>>) /\ Len(<<>>) = 0
  BY <1>1, ListOf DEF List
<1> DEFINE e == <<>>  r == s \o e
<1>3. List(r) /\ Len(r) = n /\ \A i \in 1 .. n : r[i] = s[i]
  <2> HIDE DEF r
  <2>1. List(r) /\ Len(r) = Len(s) + Len(e) /\ \A i \in 1 .. Len(s) : r[i] = s[i]
    BY <1>2, ConcatIs DEF r
  <2> QED BY <1>1, <1>2, <2>1
<1> HIDE DEF r
<1>4. r = s
  BY <1>1, <1>3 DEF List
<1> QED BY <1>1, <1>2, <1>4 DEF Listed, r

LEMMA OutputsAre ==
  ASSUME NEW l, NEW in, NEW o, NEW N, NEW late, NEW M \in Nat, LengthAfter(l, N) = M
  PROVE  Outputs(l, in, o, N, late) = [t \in 1 .. M |-> OutputAt(l, in, o, t - late)]
<1> DEFINE s == [t \in 1 .. M |-> OutputAt(l, in, o, t - late)]
<1>1. s = [i \in 1 .. M |-> s[i]]
  OBVIOUS
<1>2. Outputs(l, in, o, N, late) = Listed(s)
  BY DEF Outputs
<1> HIDE DEF s
<1>3. Listed(s) = s
  BY <1>1, ListedIs
<1> QED BY <1>2, <1>3 DEF s

LEMMA RatesAre ==
  ASSUME NEW l, NEW x, NEW y, PassOne(l, x, y), NEW n \in Nat
  PROVE  /\ x.rate * n \in Nat /\ y.rate * n \in Nat
         /\ IF Shrinks(l) THEN x.rate * n = TimeStride(l) * (y.rate * n) ELSE y.rate * n = TimeStride(l) * (x.rate * n)
<1>1. Sound(l) /\ x.rate \in Nat \ {0} /\ y.rate \in Nat \ {0} /\ TimeStride(l) \in Nat \ {0}
  BY StrideIs DEF PassOne, PlaceOK, Positive
<1> DEFINE s == TimeStride(l)  a == x.rate  b == y.rate
<1>2. Shrinks(l) => a = s * b
  BY DEF PassOne
<1>3. ~Shrinks(l) => b = s * a
  BY DEF PassOne
<1>4. a \in Nat /\ b \in Nat /\ s \in Nat
  BY <1>1
<1> HIDE DEF s, a, b
<1>5. a * n \in Nat /\ b * n \in Nat /\ (s * b) * n = s * (b * n) /\ (s * a) * n = s * (a * n)
  BY <1>4
<1> QED BY <1>2, <1>3, <1>5 DEF s, a, b

LEMMA WholeIs ==
  ASSUME NEW l, NEW x, NEW y, PassOne(l, x, y), NEW f \in Signals, NEW n \in Nat, Silent(f, x.rate * n)
  PROVE  /\ Silent(Filtered(l, f), y.rate * n)
         /\ Whole(l, Upto(f, x.rate * n)) = Upto(Filtered(l, f), y.rate * n)
<1> DEFINE N == x.rate * n  M == y.rate * n  xs == Upto(f, N)
<1>1. /\ Sound(l) /\ N \in Nat /\ M \in Nat
      /\ IF Shrinks(l) THEN N = TimeStride(l) * M ELSE M = TimeStride(l) * N
  <2>1. /\ x.rate * n \in Nat /\ y.rate * n \in Nat
        /\ IF Shrinks(l) THEN x.rate * n = TimeStride(l) * (y.rate * n) ELSE y.rate * n = TimeStride(l) * (x.rate * n)
    BY RatesAre
  <2>2. Sound(l)
    BY DEF PassOne
  <2> QED BY <2>1, <2>2
<1>0. Silent(f, N)
  OBVIOUS
<1> HIDE DEF N, M, xs
<1>2. DOMAIN xs = 1 .. N /\ Len(xs) = N /\ (\A i \in 1 .. N : xs[i] = f[i]) /\ xs = [i \in 1 .. N |-> f[i]]
  BY <1>1 DEF Upto, xs
<1>3. ASSUME NEW i \in Int PROVE InputAt(xs, i) = f[i] /\ InputAt(f, i) = f[i]
  <2>1. InputAt(f, i) = f[i]
    BY SignalReads
  <2>2. CASE i \in 1 .. N
    BY <1>2, <2>1, <2>2 DEF InputAt
  <2>3. CASE i \notin 1 .. N
    <3>1. i <= 0 \/ i > N
      BY <1>1, <2>3
    <3>2. f[i] = Absent
      BY <1>0, <3>1, SignalReads DEF Silent
    <3> QED BY <1>2, <2>1, <2>3, <3>2 DEF InputAt
  <2> QED BY <2>2, <2>3
<1>4. Silent(Filtered(l, f), M)
  <2> SUFFICES ASSUME NEW t \in Int, t > M PROVE OutputAt(l, f, 0, t) = Absent
    BY DEF Silent, Filtered
  <2> DEFINE a == Anchor(l, t)
  <2>1. a \in Int /\ a > N
    BY <1>1, AnchorIs
  <2> HIDE DEF a
  <2>2. InputAt(f, 0 + a) = Absent
    BY <1>0, <2>1, SignalReads DEF Silent
  <2> QED BY <2>2, MaskedOutput DEF a
<1>5. ASSUME NEW t \in 1 .. M PROVE OutputAt(l, xs, 0, t - 0) = OutputAt(l, f, 0, t)
  <2>1. Late(l) \in Nat /\ Kept(l) \in Nat /\ t \in Int /\ t - 0 = t
    BY <1>1, StrideIs
  <2>a. \A k \in Nat, m \in Nat : Alike(xs, 0, f, 0, k, m)
    <3>1. ASSUME NEW k \in Nat, NEW m \in Nat, NEW i \in 1 - k .. m
          PROVE  InputAt(xs, 0 + i) = InputAt(f, 0 + i)
      <4>1. i \in Int /\ 0 + i = i
        OBVIOUS
      <4> QED BY <1>3, <4>1
    <3> QED BY <3>1 DEF Alike
  <2>2. CASE Late(l) = 0
    <3>1. TimeStride(l) * 0 = 0
      BY <1>1, StrideIs DEF Positive
    <3>2. IF Shrinks(l) THEN 0 = TimeStride(l) * 0 ELSE 0 + Late(l) = TimeStride(l) * 0
      BY <2>2, <3>1
    <3>3. OutputAt(l, xs, 0, t - Late(l)) = OutputAt(l, f, 0, 0 + t)
      BY <1>1, <2>1, <2>a, <3>2, Reads
    <3> QED BY <2>1, <2>2, <3>3
  <2>3. CASE Late(l) # 0
    <3>1. ~Shrinks(l) /\ TimeStride(l) = 1
      BY <2>3 DEF Late, Shrinks, TimeStride
    <3> DEFINE L == Late(l)  u == t + L  q == 0 - L
    <3>2. L \in Nat /\ u \in Nat /\ u \in 1 .. u /\ q \in Int /\ u - L = t /\ q + u = t /\ q + L = 0
      BY <2>1
    <3> HIDE DEF u, q
    <3>3. IF Shrinks(l) THEN u = TimeStride(l) * u ELSE u = TimeStride(l) * u
      BY <3>1, <3>2
    <3>4. IF Shrinks(l) THEN 0 = TimeStride(l) * q ELSE q + Late(l) = TimeStride(l) * 0
      BY <3>1, <3>2
    <3>5. OutputAt(l, xs, 0, u - Late(l)) = OutputAt(l, f, 0, q + u)
      BY <1>1, <2>1, <2>a, <3>2, <3>3, <3>4, Reads
    <3> QED BY <2>1, <3>2, <3>5
  <2> QED BY <2>2, <2>3
<1>6. LengthAfter(l, N) = M
  BY <1>1, LengthIsAs
<1>7. Whole(l, xs) = [t \in 1 .. M |-> OutputAt(l, xs, 0, t - 0)]
  BY <1>1, <1>2, <1>6, OutputsAre DEF Whole
<1>8. Upto(Filtered(l, f), M) = [t \in 1 .. M |-> OutputAt(l, f, 0, t)]
  <2>1. \A t \in 1 .. M : Filtered(l, f)[t] = OutputAt(l, f, 0, t)
    BY <1>1 DEF Filtered
  <2> QED BY <2>1 DEF Upto
<1>9. Whole(l, xs) = Upto(Filtered(l, f), M)
  BY <1>5, <1>7, <1>8
<1> QED BY <1>4, <1>9 DEF N, M, xs

LEMMA LatestIs ==
  ASSUME NEW s, List(s), NEW k \in 0 .. Len(s)
  PROVE  Latest(s, k) = [i \in 1 .. k |-> s[Len(s) - k + i]]
<1> DEFINE n == Len(s)  a == n - k + 1  m == n
<1>1. n \in Nat /\ k \in Nat /\ k <= n
  BY DEF List
<1>2. Latest(s, k) = SubSeq(s, a, m)
  BY DEF Latest
<1>3. SubSeq(s, a, m) = [i \in 1 .. m - a + 1 |-> s[a + i - 1]]
  <2> DEFINE S == {s[i] : i \in 1 .. n}
  <2>1. s \in [1 .. n -> S]
    BY DEF List
  <2> HIDE DEF S
  <2>2. s \in Seq(S) /\ a \in 1 .. n + 1
    BY <1>1, <2>1
  <2> HIDE DEF a, m
  <2> QED BY <1>1, <2>2 DEF m
<1>4. m - a + 1 = k /\ \A i \in 1 .. k : a + i - 1 = n - k + i
  BY <1>1
<1> HIDE DEF a, m
<1> QED BY <1>2, <1>3, <1>4

LEMMA ListFrom ==
  ASSUME NEW k \in Nat, NEW s, s = [i \in 1 .. k |-> s[i]]
  PROVE  List(s) /\ Len(s) = k
BY DEF List

\* What a layer keeps and puts out in one step on the block of a stream.
LEMMA StepIs ==
  ASSUME NEW l, NEW x, NEW y, PassOne(l, x, y), NEW f \in Signals, NEW n \in Nat, NEW m \in Nat
  PROVE  StepOne(l, Before(f, x, n, Kept(l)), Block(f, x, n, m))
           = [out |-> Block(Filtered(l, f), y, n, m), past |-> Before(f, x, n + m, Kept(l))]
<1> DEFINE K == Kept(l)  N == x.rate * m  M == y.rate * m  b == x.rate * n - x.late  q == y.rate * n - y.late
           p == Before(f, x, n, K)  xs == Block(f, x, n, m)  all == p \o xs
<1>1. /\ Sound(l) /\ N \in Nat /\ M \in Nat /\ K \in Nat /\ x.late \in Nat /\ y.late \in Nat
      /\ x.rate * n \in Nat /\ y.rate * n \in Nat /\ TimeStride(l) \in Nat \ {0} /\ Late(l) \in Nat
  <2>1. x.rate * n \in Nat /\ y.rate * n \in Nat /\ x.rate * m \in Nat /\ y.rate * m \in Nat
    BY RatesAre
  <2>2. Sound(l) /\ x.late \in Nat /\ y.late \in Nat
    BY DEF PassOne, PlaceOK
  <2> QED BY <2>1, <2>2, StrideIs DEF Positive
<1>2. IF Shrinks(l) THEN N = TimeStride(l) * M ELSE M = TimeStride(l) * N
  <2>1. IF Shrinks(l) THEN x.rate * m = TimeStride(l) * (y.rate * m) ELSE y.rate * m = TimeStride(l) * (x.rate * m)
    BY RatesAre
  <2> QED BY <2>1
<1>3. IF Shrinks(l) THEN b = TimeStride(l) * q ELSE q + Late(l) = TimeStride(l) * b
  <2>1. IF Shrinks(l) THEN x.rate * n = TimeStride(l) * (y.rate * n) ELSE y.rate * n = TimeStride(l) * (x.rate * n)
    BY RatesAre
  <2>2. IF Shrinks(l) THEN x.late = TimeStride(l) * y.late ELSE y.late = TimeStride(l) * x.late + Late(l)
    BY DEF PassOne
  <2> DEFINE s == TimeStride(l)  u == x.rate * n  v == y.rate * n  c == x.late  d == y.late
  <2>3. s \in Nat /\ u \in Nat /\ v \in Nat /\ c \in Nat /\ d \in Nat
    BY <1>1
  <2> HIDE DEF s, u, v, c, d
  <2>4. s * (v - d) = s * v - s * d /\ s * (u - c) = s * u - s * c /\ s * c \in Int /\ s * u \in Int
    BY <2>3
  <2>5. CASE Shrinks(l)
    <3>1. u - c = s * (v - d)
      BY <2>1, <2>2, <2>4, <2>5 DEF s, u, v, c, d
    <3> QED BY <2>5, <3>1 DEF s, u, v, c, d
  <2>6. CASE ~Shrinks(l)
    <3>1. (v - d) + Late(l) = s * (u - c)
      <4>1. v = s * u /\ d = s * c + Late(l)
        BY <2>1, <2>2, <2>6 DEF s, u, v, c, d
      <4> QED BY <1>1, <2>3, <2>4, <4>1
    <3> QED BY <2>6, <3>1 DEF s, u, v, c, d
  <2> QED BY <2>5, <2>6
<1>4. b \in Int /\ q \in Int
  BY <1>1
<1>5. /\ p = [i \in 1 .. K |-> f[b + i - K]] /\ xs = [t \in 1 .. N |-> f[b + t]]
  <2>1. p = [i \in 1 .. K |-> f[x.rate * n - x.late + i - K]] /\ xs = [t \in 1 .. N |-> f[x.rate * n - x.late + t]]
    BY DEF Before, Block
  <2> QED BY <2>1
<1> HIDE DEF K, N, M, b, q, p, xs
<1>6. /\ List(p) /\ List(xs) /\ Len(p) = K /\ Len(xs) = N
      /\ (\A i \in 1 .. K : p[i] = f[b + i - K]) /\ \A t \in 1 .. N : xs[t] = f[b + t]
  <2>1. (\A i \in 1 .. K : p[i] = f[b + i - K]) /\ \A t \in 1 .. N : xs[t] = f[b + t]
    BY <1>5
  <2>2. p = [i \in 1 .. K |-> p[i]] /\ xs = [t \in 1 .. N |-> xs[t]]
    BY <1>5
  <2>3. List(p) /\ Len(p) = K
    BY <1>1, <2>2, ListFrom
  <2>4. List(xs) /\ Len(xs) = N
    BY <1>1, <2>2, ListFrom
  <2> QED BY <2>1, <2>3, <2>4
<1>7. /\ List(all) /\ Len(all) = K + N /\ (\A i \in 1 .. K : all[i] = p[i])
      /\ (\A i \in 1 .. N : all[K + i] = xs[i]) /\ \A i \in 1 .. Len(all) : i \in 1 .. K \/ i - K \in 1 .. N
  <2>1. /\ List(all) /\ Len(all) = Len(p) + Len(xs) /\ (\A i \in 1 .. Len(p) : all[i] = p[i])
        /\ (\A i \in 1 .. Len(xs) : all[Len(p) + i] = xs[i])
        /\ \A i \in 1 .. Len(all) : i \in 1 .. Len(p) \/ i - Len(p) \in 1 .. Len(xs)
    <3>1. List(p) /\ List(xs)
      BY <1>6
    <3> QED BY <3>1, ConcatIs
  <2> HIDE DEF all
  <2> QED BY <1>6, <2>1
<1> HIDE DEF all
<1>8. \A i \in 1 .. K + N : all[i] = f[b - K + i]
  <2> SUFFICES ASSUME NEW i \in 1 .. K + N PROVE all[i] = f[b - K + i]
    OBVIOUS
  <2>1. CASE i \in 1 .. K
    <3>1. b + i - K = b - K + i
      BY <1>1, <1>4
    <3> QED BY <1>6, <1>7, <2>1, <3>1
  <2>2. CASE i - K \in 1 .. N
    <3> DEFINE j == i - K
    <3>1. j \in 1 .. N /\ K + j = i /\ b + j = b - K + i
      BY <1>1, <1>4, <2>2
    <3> HIDE DEF j
    <3>2. all[K + j] = xs[j] /\ xs[j] = f[b + j]
      BY <1>6, <1>7, <3>1
    <3> QED BY <3>1, <3>2
  <2> QED BY <1>7, <2>1, <2>2
<1>9. Alike(all, K, f, b, K, N)
  <2> SUFFICES ASSUME NEW i \in 1 - K .. N PROVE InputAt(all, K + i) = InputAt(f, b + i)
    BY DEF Alike
  <2> DEFINE j == K + i
  <2>1. j \in 1 .. K + N /\ b - K + j = b + i /\ b + i \in Int
    BY <1>1, <1>4
  <2> HIDE DEF j
  <2>2. DOMAIN all = 1 .. K + N
    BY <1>7 DEF List
  <2>3. InputAt(all, j) = f[b + i]
    BY <1>8, <2>1, <2>2 DEF InputAt
  <2> QED BY <2>1, <2>3, SignalReads DEF j
<1>10. \A t \in 1 .. M : OutputAt(l, all, K, t - Late(l)) = OutputAt(l, f, 0, q + t)
  BY <1>1, <1>2, <1>3, <1>4, <1>9, Reads DEF K
<1>11. Outputs(l, all, K, N, Late(l)) = Block(Filtered(l, f), y, n, m)
  <2>1. LengthAfter(l, N) = M
    BY <1>1, <1>2, LengthIsAs
  <2>2. Outputs(l, all, K, N, Late(l)) = [t \in 1 .. M |-> OutputAt(l, all, K, t - Late(l))]
    BY <1>1, <2>1, OutputsAre
  <2>3. Block(Filtered(l, f), y, n, m) = [t \in 1 .. M |-> Filtered(l, f)[q + t]]
    BY DEF Block, M, q
  <2>4. \A t \in 1 .. M : Filtered(l, f)[q + t] = OutputAt(l, f, 0, q + t)
    BY <1>4 DEF Filtered
  <2> QED BY <1>10, <2>2, <2>3, <2>4
<1>12. Latest(all, K) = Before(f, x, n + m, K)
  <2>1. K \in 0 .. Len(all)
    BY <1>1, <1>7
  <2>2. Latest(all, K) = [i \in 1 .. K |-> all[Len(all) - K + i]]
    BY <1>7, <2>1, LatestIs
  <2>3. x.rate * (n + m) - x.late = b + N
    <3>1. x.rate \in Nat
      BY DEF PassOne, PlaceOK, Positive
    <3> DEFINE r == x.rate
    <3> HIDE DEF r
    <3>2. r * (n + m) = r * n + r * m /\ r * n \in Nat /\ r * m \in Nat
      BY <3>1 DEF r
    <3> QED BY <1>1, <3>2 DEF b, N, r
  <2>4. Before(f, x, n + m, K) = [i \in 1 .. K |-> f[b + N + i - K]]
    BY <2>3 DEF Before
  <2>5. ASSUME NEW i \in 1 .. K PROVE all[Len(all) - K + i] = f[b + N + i - K]
    <3> DEFINE j == Len(all) - K + i
    <3>1. j \in 1 .. K + N /\ b - K + j = b + N + i - K
      BY <1>1, <1>4, <1>7
    <3> HIDE DEF j
    <3>2. all[j] = f[b - K + j]
      BY <1>8, <3>1
    <3> QED BY <3>1, <3>2 DEF j
  <2> QED BY <2>2, <2>4, <2>5
<1>13. StepOne(l, p, xs) = [out |-> Outputs(l, all, Len(p), Len(xs), Late(l)), past |-> Latest(all, Len(p))]
  BY DEF StepOne, all
<1> QED BY <1>6, <1>11, <1>12, <1>13 DEF p, xs, K

\* A layer, or a list of layers, at each level: one by one (0), or with the
\* residuals that hold some (1).
FreshOf(k, l) == IF k = 0 THEN Unheard(Kept(l)) ELSE FreshLayer(l)
Stepped(k, l, past, xs) == IF k = 0 THEN StepOne(l, past, xs) ELSE StepLayerOf(l, past, xs)
Wholly(k, l, xs) == IF k = 0 THEN Whole(l, xs) ELSE WholeLayerOf(l, xs)
FreshAll(k, layers) == IF k = 0 THEN FreshPast(layers) ELSE FreshTimed(layers)
SteppedAll(k, layers, pasts, xs) == IF k = 0 THEN StepThrough(layers, pasts, xs) ELSE StepTimed(layers, pasts, xs)
WhollyAll(k, layers, xs) == IF k = 0 THEN WholeThrough(layers, xs) ELSE WholeTimed(layers, xs)
\* The stream f at x becomes the stream g at y; S[n] is the state after n frames.
Flow(k, l, x, y, f, g, S) ==
  /\ S[0] = FreshOf(k, l)
  /\ \A n, m \in Nat :
       Stepped(k, l, S[n], Block(f, x, n, m)) = [out |-> Block(g, y, n, m), past |-> S[n + m]]
  /\ \A n \in Nat : Silent(f, x.rate * n) =>
       Silent(g, y.rate * n) /\ Wholly(k, l, Upto(f, x.rate * n)) = Upto(g, y.rate * n)
Flows(k, layers, x, y, f, g, S) ==
  /\ S[0] = FreshAll(k, layers)
  /\ \A n, m \in Nat :
       SteppedAll(k, layers, S[n], Block(f, x, n, m)) = [out |-> Block(g, y, n, m), past |-> S[n + m]]
  /\ \A n \in Nat : Silent(f, x.rate * n) =>
       Silent(g, y.rate * n) /\ WhollyAll(k, layers, Upto(f, x.rate * n)) = Upto(g, y.rate * n)

LEMMA OneFlows ==
  ASSUME NEW l, NEW x, NEW y, PassOne(l, x, y), NEW f \in Signals
  PROVE  \E g \in Signals : \E S : Flow(0, l, x, y, f, g, S)
<1> DEFINE g == Filtered(l, f)  S == [n \in Nat |-> Before(f, x, n, Kept(l))]
<1>1. g \in Signals
  BY FilteredSignal DEF PassOne
<1>2. S[0] = FreshOf(0, l)
  <2> DEFINE r == x.rate  d == x.late  K == Kept(l)
  <2>1. r \in Nat /\ d \in Nat /\ K \in Nat
    BY StrideIs DEF PassOne, PlaceOK, Positive
  <2> HIDE DEF r, d, K
  <2>2. \A i \in 1 .. K : f[r * 0 - d + i - K] = Absent
    <3> SUFFICES ASSUME NEW i \in 1 .. K PROVE f[r * 0 - d + i - K] = Absent
      OBVIOUS
    <3> DEFINE j == r * 0 - d + i - K
    <3>1. j \in Int /\ j <= 0
      BY <2>1
    <3> HIDE DEF j
    <3>2. f[j] = Absent
      BY <3>1, SignalReads
    <3> QED BY <3>2 DEF j
  <2>3. Before(f, x, 0, K) = [i \in 1 .. K |-> Absent]
    <3>1. Before(f, x, 0, K) = [i \in 1 .. K |-> f[r * 0 - d + i - K]]
      BY DEF Before, r, d
    <3> QED BY <2>2, <3>1
  <2> QED BY <2>3 DEF FreshOf, Unheard, K
<1>3. ASSUME NEW n \in Nat, NEW m \in Nat
      PROVE  Stepped(0, l, S[n], Block(f, x, n, m)) = [out |-> Block(g, y, n, m), past |-> S[n + m]]
  <2>1. S[n] = Before(f, x, n, Kept(l)) /\ S[n + m] = Before(f, x, n + m, Kept(l))
    BY DEF S
  <2> HIDE DEF S
  <2> QED BY <2>1, StepIs DEF Stepped
<1>4. ASSUME NEW n \in Nat, Silent(f, x.rate * n)
      PROVE  Silent(g, y.rate * n) /\ Wholly(0, l, Upto(f, x.rate * n)) = Upto(g, y.rate * n)
  BY <1>4, WholeIs DEF Wholly
<1> HIDE DEF g, S
<1>5. Flow(0, l, x, y, f, g, S)
  BY <1>2, <1>3, <1>4 DEF Flow
<1> QED BY <1>1, <1>5

\* A value that is worked out first is the value.
LEMMA NextWholeIs == \A l, last : NextWhole(l, last) = Whole(l, last)
BY DEF NextWhole

LEMMA NextWholeLayerIs == \A l, last : NextWholeLayer(l, last) = WholeLayerOf(l, last)
BY DEF NextWholeLayer

LEMMA NextStepIs == \A l, past, last : NextStep(l, past, last) = Onto(last, StepOne(l, past, last.out))
BY DEF NextStep

LEMMA NextLayerStepIs == \A l, past, last : NextLayerStep(l, past, last) = Onto(last, StepLayerOf(l, past, last.out))
BY DEF NextLayerStep

\* A step through a list of layers: f[n] is what n of them give.
ThroughSteps(f, layers, pasts, xs) ==
  f = [n \in 0 .. Len(layers) |->
         IF n = 0 THEN [out |-> xs, past |-> <<>>]
         ELSE NextStep(layers[n], pasts[n], f[n - 1])]

LEMMA StepThroughIs ==
  ASSUME NEW layers, List(layers), NEW pasts, NEW xs, NEW outs, NEW ps, outs[0] = xs,
         \A n \in 1 .. Len(layers) : StepOne(layers[n], pasts[n], outs[n - 1]) = [out |-> outs[n], past |-> ps[n]]
  PROVE  StepThrough(layers, pasts, xs) = [out |-> outs[Len(layers)], past |-> Firsts(ps, Len(layers))]
<1> DEFINE N == Len(layers)  r == [n \in 0 .. N |-> [out |-> outs[n], past |-> Firsts(ps, n)]]
           w == CHOOSE f : ThroughSteps(f, layers, pasts, xs)
<1>1. N \in Nat
  BY DEF List
<1> HIDE DEF N
<1>2. DOMAIN r = 0 .. N /\ \A n \in 0 .. N : r[n] = [out |-> outs[n], past |-> Firsts(ps, n)]
  OBVIOUS
<1>3. r = [n \in 0 .. N |-> r[n]]
  OBVIOUS
<1> HIDE DEF r
<1>4. r[0] = [out |-> xs, past |-> <<>>]
  BY <1>1, <1>2 DEF Firsts
<1>5. ASSUME NEW n \in 1 .. N PROVE r[n] = Onto(r[n - 1], StepOne(layers[n], pasts[n], r[n - 1].out))
  <2>1. n - 1 \in 0 .. N /\ n \in 0 .. N /\ n - 1 \in Nat /\ n \in 1 .. Len(layers) /\ (n - 1) + 1 = n
    BY <1>1 DEF N
  <2> DEFINE p == Firsts(ps, n - 1)
  <2>2. r[n - 1] = [out |-> outs[n - 1], past |-> p] /\ r[n] = [out |-> outs[n], past |-> Firsts(ps, n)]
    BY <1>2, <2>1
  <2>3. StepOne(layers[n], pasts[n], outs[n - 1]) = [out |-> outs[n], past |-> ps[n]]
    BY <2>1
  <2>4. p = [i \in 1 .. n - 1 |-> p[i]] /\ \A i \in 1 .. n - 1 : p[i] = ps[i]
    BY DEF Firsts
  <2> HIDE DEF p
  <2>5. List(p) /\ Len(p) = n - 1
    BY <2>1, <2>4, ListFrom
  <2>6. Append(p, ps[n]) = [i \in 1 .. Len(p) + 1 |-> IF i <= Len(p) THEN p[i] ELSE ps[n]]
    BY <2>5, AppendIs
  <2>7. Append(p, ps[n]) = Firsts(ps, n)
    <3>1. Len(p) + 1 = n /\ \A i \in 1 .. n : IF i <= Len(p) THEN i \in 1 .. n - 1 ELSE i = n
      BY <2>1, <2>5
    <3>2. \A i \in 1 .. n : (IF i <= Len(p) THEN p[i] ELSE ps[n]) = ps[i]
      BY <2>4, <3>1
    <3> QED BY <2>6, <3>1, <3>2 DEF Firsts
  <2>8. r[n - 1].out = outs[n - 1] /\ r[n - 1].past = p
    BY <2>2
  <2>9. Onto(r[n - 1], [out |-> outs[n], past |-> ps[n]]) = [out |-> outs[n], past |-> Append(p, ps[n])]
    BY <2>8 DEF Onto
  <2> QED BY <2>2, <2>3, <2>7, <2>8, <2>9
<1>6. ThroughSteps(r, layers, pasts, xs)
  <2>1. \A n \in 0 .. N : n = 0 \/ n \in 1 .. N
    BY <1>1
  <2>2. \A n \in 0 .. N : r[n] = IF n = 0 THEN [out |-> xs, past |-> <<>>]
                                 ELSE NextStep(layers[n], pasts[n], r[n - 1])
    BY <1>4, <1>5, <2>1, NextStepIs
  <2> QED BY <1>3, <2>2 DEF ThroughSteps, N
<1>7. ThroughSteps(w, layers, pasts, xs)
  <2>1. \E f : ThroughSteps(f, layers, pasts, xs)
    BY <1>6
  <2> QED BY <2>1
<1>8. StepThrough(layers, pasts, xs) = w[N]
  BY DEF StepThrough, ThroughSteps, N
<1> HIDE DEF w
<1>9. \A n \in 0 .. N : w[n] = IF n = 0 THEN [out |-> xs, past |-> <<>>]
                               ELSE Onto(w[n - 1], StepOne(layers[n], pasts[n], w[n - 1].out))
  BY <1>7, NextStepIs DEF ThroughSteps, N
<1> DEFINE T == {n \in 0 .. N : w[n] = r[n]}
<1>10. \A n \in 0 .. N : n \in T
  <2>1. 0 \in T
    <3>1. 0 \in 0 .. N
      BY <1>1
    <3>2. w[0] = [out |-> xs, past |-> <<>>]
      BY <1>9, <3>1
    <3> QED BY <1>4, <3>1, <3>2
  <2>2. ASSUME NEW n \in 0 .. N - 1, n \in T PROVE n + 1 \in T
    <3> DEFINE m == n + 1
    <3>1. m \in 0 .. N /\ m \in 1 .. N /\ m # 0 /\ m - 1 = n
      BY <1>1
    <3> HIDE DEF m
    <3>2. w[m - 1] = r[m - 1]
      BY <2>2, <3>1
    <3>3. w[m] = Onto(w[m - 1], StepOne(layers[m], pasts[m], w[m - 1].out))
      BY <1>9, <3>1
    <3>4. r[m] = Onto(r[m - 1], StepOne(layers[m], pasts[m], r[m - 1].out))
      BY <1>5, <3>1
    <3>5. w[m] = r[m]
      BY <3>2, <3>3, <3>4
    <3> QED BY <3>1, <3>5 DEF m
  <2> HIDE DEF T
  <2> QED BY <1>1, <2>1, <2>2, SetInduction
<1>11. N \in 0 .. N
  BY <1>1
<1>12. w[N] = r[N]
  BY <1>10, <1>11
<1> QED BY <1>2, <1>8, <1>11, <1>12 DEF N

\* The same for residuals.
TimedSteps(f, layers, pasts, xs) ==
  f = [n \in 0 .. Len(layers) |->
         IF n = 0 THEN [out |-> xs, past |-> <<>>]
         ELSE NextLayerStep(layers[n], pasts[n], f[n - 1])]

LEMMA StepTimedIs ==
  ASSUME NEW layers, List(layers), NEW pasts, NEW xs, NEW outs, NEW ps, outs[0] = xs,
         \A n \in 1 .. Len(layers) : StepLayerOf(layers[n], pasts[n], outs[n - 1]) = [out |-> outs[n], past |-> ps[n]]
  PROVE  StepTimed(layers, pasts, xs) = [out |-> outs[Len(layers)], past |-> Firsts(ps, Len(layers))]
<1> DEFINE N == Len(layers)  r == [n \in 0 .. N |-> [out |-> outs[n], past |-> Firsts(ps, n)]]
           w == CHOOSE f : TimedSteps(f, layers, pasts, xs)
<1>1. N \in Nat
  BY DEF List
<1> HIDE DEF N
<1>2. DOMAIN r = 0 .. N /\ \A n \in 0 .. N : r[n] = [out |-> outs[n], past |-> Firsts(ps, n)]
  OBVIOUS
<1>3. r = [n \in 0 .. N |-> r[n]]
  OBVIOUS
<1> HIDE DEF r
<1>4. r[0] = [out |-> xs, past |-> <<>>]
  BY <1>1, <1>2 DEF Firsts
<1>5. ASSUME NEW n \in 1 .. N PROVE r[n] = Onto(r[n - 1], StepLayerOf(layers[n], pasts[n], r[n - 1].out))
  <2>1. n - 1 \in 0 .. N /\ n \in 0 .. N /\ n - 1 \in Nat /\ n \in 1 .. Len(layers) /\ (n - 1) + 1 = n
    BY <1>1 DEF N
  <2> DEFINE p == Firsts(ps, n - 1)
  <2>2. r[n - 1] = [out |-> outs[n - 1], past |-> p] /\ r[n] = [out |-> outs[n], past |-> Firsts(ps, n)]
    BY <1>2, <2>1
  <2>3. StepLayerOf(layers[n], pasts[n], outs[n - 1]) = [out |-> outs[n], past |-> ps[n]]
    BY <2>1
  <2>4. p = [i \in 1 .. n - 1 |-> p[i]] /\ \A i \in 1 .. n - 1 : p[i] = ps[i]
    BY DEF Firsts
  <2> HIDE DEF p
  <2>5. List(p) /\ Len(p) = n - 1
    BY <2>1, <2>4, ListFrom
  <2>6. Append(p, ps[n]) = [i \in 1 .. Len(p) + 1 |-> IF i <= Len(p) THEN p[i] ELSE ps[n]]
    BY <2>5, AppendIs
  <2>7. Append(p, ps[n]) = Firsts(ps, n)
    <3>1. Len(p) + 1 = n /\ \A i \in 1 .. n : IF i <= Len(p) THEN i \in 1 .. n - 1 ELSE i = n
      BY <2>1, <2>5
    <3>2. \A i \in 1 .. n : (IF i <= Len(p) THEN p[i] ELSE ps[n]) = ps[i]
      BY <2>4, <3>1
    <3> QED BY <2>6, <3>1, <3>2 DEF Firsts
  <2>8. r[n - 1].out = outs[n - 1] /\ r[n - 1].past = p
    BY <2>2
  <2>9. Onto(r[n - 1], [out |-> outs[n], past |-> ps[n]]) = [out |-> outs[n], past |-> Append(p, ps[n])]
    BY <2>8 DEF Onto
  <2> QED BY <2>2, <2>3, <2>7, <2>8, <2>9
<1>6. TimedSteps(r, layers, pasts, xs)
  <2>1. \A n \in 0 .. N : n = 0 \/ n \in 1 .. N
    BY <1>1
  <2>2. \A n \in 0 .. N : r[n] = IF n = 0 THEN [out |-> xs, past |-> <<>>]
                                 ELSE NextLayerStep(layers[n], pasts[n], r[n - 1])
    BY <1>4, <1>5, <2>1, NextLayerStepIs
  <2> QED BY <1>3, <2>2 DEF TimedSteps, N
<1>7. TimedSteps(w, layers, pasts, xs)
  <2>1. \E f : TimedSteps(f, layers, pasts, xs)
    BY <1>6
  <2> QED BY <2>1
<1>8. StepTimed(layers, pasts, xs) = w[N]
  BY DEF StepTimed, TimedSteps, N
<1> HIDE DEF w
<1>9. \A n \in 0 .. N : w[n] = IF n = 0 THEN [out |-> xs, past |-> <<>>]
                               ELSE Onto(w[n - 1], StepLayerOf(layers[n], pasts[n], w[n - 1].out))
  BY <1>7, NextLayerStepIs DEF TimedSteps, N
<1> DEFINE T == {n \in 0 .. N : w[n] = r[n]}
<1>10. \A n \in 0 .. N : n \in T
  <2>1. 0 \in T
    <3>1. 0 \in 0 .. N
      BY <1>1
    <3>2. w[0] = [out |-> xs, past |-> <<>>]
      BY <1>9, <3>1
    <3> QED BY <1>4, <3>1, <3>2
  <2>2. ASSUME NEW n \in 0 .. N - 1, n \in T PROVE n + 1 \in T
    <3> DEFINE m == n + 1
    <3>1. m \in 0 .. N /\ m \in 1 .. N /\ m # 0 /\ m - 1 = n
      BY <1>1
    <3> HIDE DEF m
    <3>2. w[m - 1] = r[m - 1]
      BY <2>2, <3>1
    <3>3. w[m] = Onto(w[m - 1], StepLayerOf(layers[m], pasts[m], w[m - 1].out))
      BY <1>9, <3>1
    <3>4. r[m] = Onto(r[m - 1], StepLayerOf(layers[m], pasts[m], r[m - 1].out))
      BY <1>5, <3>1
    <3>5. w[m] = r[m]
      BY <3>2, <3>3, <3>4
    <3> QED BY <3>1, <3>5 DEF m
  <2> HIDE DEF T
  <2> QED BY <1>1, <2>1, <2>2, SetInduction
<1>11. N \in 0 .. N
  BY <1>1
<1>12. w[N] = r[N]
  BY <1>10, <1>11
<1> QED BY <1>2, <1>8, <1>11, <1>12 DEF N

WholeSteps(f, layers, xs) ==
  f = [n \in 0 .. Len(layers) |-> IF n = 0 THEN xs ELSE NextWhole(layers[n], f[n - 1])]

LEMMA WholeThroughIs ==
  ASSUME NEW layers, List(layers), NEW xs, NEW outs, outs[0] = xs,
         \A n \in 1 .. Len(layers) : Whole(layers[n], outs[n - 1]) = outs[n]
  PROVE  WholeThrough(layers, xs) = outs[Len(layers)]
<1> DEFINE N == Len(layers)  r == [n \in 0 .. N |-> outs[n]]  w == CHOOSE f : WholeSteps(f, layers, xs)
<1>1. N \in Nat
  BY DEF List
<1> HIDE DEF N
<1>2. r = [n \in 0 .. N |-> r[n]] /\ \A n \in 0 .. N : r[n] = outs[n]
  OBVIOUS
<1> HIDE DEF r
<1>3. \A n \in 0 .. N : r[n] = IF n = 0 THEN xs ELSE Whole(layers[n], r[n - 1])
  <2>1. \A n \in 0 .. N : n = 0 \/ (n \in 1 .. Len(layers) /\ n - 1 \in 0 .. N)
    BY <1>1 DEF N
  <2> QED BY <1>2, <2>1
<1>4. WholeSteps(r, layers, xs)
  <2>1. \A n \in 0 .. N : r[n] = IF n = 0 THEN xs ELSE NextWhole(layers[n], r[n - 1])
    BY <1>3, NextWholeIs
  <2> QED BY <1>2, <2>1 DEF WholeSteps, N
<1>5. WholeSteps(w, layers, xs)
  <2>1. \E f : WholeSteps(f, layers, xs)
    BY <1>4
  <2> QED BY <2>1
<1>6. WholeThrough(layers, xs) = w[N]
  BY DEF WholeThrough, WholeSteps, N
<1> HIDE DEF w
<1>7. \A n \in 0 .. N : w[n] = IF n = 0 THEN xs ELSE Whole(layers[n], w[n - 1])
  BY <1>5, NextWholeIs DEF WholeSteps, N
<1> DEFINE T == {n \in 0 .. N : w[n] = r[n]}
<1>8. \A n \in 0 .. N : n \in T
  <2>1. 0 \in T
    BY <1>1, <1>3, <1>7
  <2>2. ASSUME NEW n \in 0 .. N - 1, n \in T PROVE n + 1 \in T
    <3> DEFINE m == n + 1
    <3>1. m \in 0 .. N /\ m # 0 /\ m - 1 = n
      BY <1>1
    <3> HIDE DEF m
    <3>2. w[m - 1] = r[m - 1]
      BY <2>2, <3>1
    <3>3. w[m] = r[m]
      BY <1>3, <1>7, <3>1, <3>2
    <3> QED BY <3>1, <3>3 DEF m
  <2> HIDE DEF T
  <2> QED BY <1>1, <2>1, <2>2, SetInduction
<1>9. N \in 0 .. N
  BY <1>1
<1>10. w[N] = r[N]
  BY <1>8, <1>9
<1> QED BY <1>2, <1>6, <1>9, <1>10 DEF N

WholeTimedSteps(f, layers, xs) ==
  f = [n \in 0 .. Len(layers) |-> IF n = 0 THEN xs ELSE NextWholeLayer(layers[n], f[n - 1])]

LEMMA WholeTimedIs ==
  ASSUME NEW layers, List(layers), NEW xs, NEW outs, outs[0] = xs,
         \A n \in 1 .. Len(layers) : WholeLayerOf(layers[n], outs[n - 1]) = outs[n]
  PROVE  WholeTimed(layers, xs) = outs[Len(layers)]
<1> DEFINE N == Len(layers)  r == [n \in 0 .. N |-> outs[n]]  w == CHOOSE f : WholeTimedSteps(f, layers, xs)
<1>1. N \in Nat
  BY DEF List
<1> HIDE DEF N
<1>2. r = [n \in 0 .. N |-> r[n]] /\ \A n \in 0 .. N : r[n] = outs[n]
  OBVIOUS
<1> HIDE DEF r
<1>3. \A n \in 0 .. N : r[n] = IF n = 0 THEN xs ELSE WholeLayerOf(layers[n], r[n - 1])
  <2>1. \A n \in 0 .. N : n = 0 \/ (n \in 1 .. Len(layers) /\ n - 1 \in 0 .. N)
    BY <1>1 DEF N
  <2> QED BY <1>2, <2>1
<1>4. WholeTimedSteps(r, layers, xs)
  <2>1. \A n \in 0 .. N : r[n] = IF n = 0 THEN xs ELSE NextWholeLayer(layers[n], r[n - 1])
    BY <1>3, NextWholeLayerIs
  <2> QED BY <1>2, <2>1 DEF WholeTimedSteps, N
<1>5. WholeTimedSteps(w, layers, xs)
  <2>1. \E f : WholeTimedSteps(f, layers, xs)
    BY <1>4
  <2> QED BY <2>1
<1>6. WholeTimed(layers, xs) = w[N]
  BY DEF WholeTimed, WholeTimedSteps, N
<1> HIDE DEF w
<1>7. \A n \in 0 .. N : w[n] = IF n = 0 THEN xs ELSE WholeLayerOf(layers[n], w[n - 1])
  BY <1>5, NextWholeLayerIs DEF WholeTimedSteps, N
<1> DEFINE T == {n \in 0 .. N : w[n] = r[n]}
<1>8. \A n \in 0 .. N : n \in T
  <2>1. 0 \in T
    BY <1>1, <1>3, <1>7
  <2>2. ASSUME NEW n \in 0 .. N - 1, n \in T PROVE n + 1 \in T
    <3> DEFINE m == n + 1
    <3>1. m \in 0 .. N /\ m # 0 /\ m - 1 = n
      BY <1>1
    <3> HIDE DEF m
    <3>2. w[m - 1] = r[m - 1]
      BY <2>2, <3>1
    <3>3. w[m] = r[m]
      BY <1>3, <1>7, <3>1, <3>2
    <3> QED BY <3>1, <3>3 DEF m
  <2> HIDE DEF T
  <2> QED BY <1>1, <2>1, <2>2, SetInduction
<1>9. N \in 0 .. N
  BY <1>1
<1>10. w[N] = r[N]
  BY <1>8, <1>9
<1> QED BY <1>2, <1>6, <1>9, <1>10 DEF N

\* Layers one after the other, each of which carries every stream, carry it.
Line(k, layers, P, f, h, R, n) ==
  /\ h[0] = f /\ \A i \in 0 .. n : h[i] \in Signals
  /\ \A i \in 1 .. n : Flow(k, layers[i], P[i - 1], P[i], h[i - 1], h[i], R[i])

LEMMA LineExists ==
  ASSUME NEW k, NEW layers, NEW P, NEW f \in Signals, NEW N \in Nat,
         \A i \in 1 .. N : \A h \in Signals :
           \E g \in Signals : \E S : Flow(k, layers[i], P[i - 1], P[i], h, g, S)
  PROVE  \E h, R : Line(k, layers, P, f, h, R, N)
<1> DEFINE T == {n \in 0 .. N : \E h, R : Line(k, layers, P, f, h, R, n)}
<1>1. 0 \in T
  <2> DEFINE h == [i \in 0 .. 0 |-> f]
  <2>1. h[0] = f /\ \A i \in 0 .. 0 : h[i] \in Signals
    OBVIOUS
  <2> HIDE DEF h
  <2>2. Line(k, layers, P, f, h, h, 0)
    BY <2>1 DEF Line
  <2> QED BY <2>2
<1>2. ASSUME NEW n \in 0 .. N - 1, n \in T PROVE n + 1 \in T
  <2>0. n \in Nat /\ n + 1 \in 1 .. N /\ n + 1 \in 0 .. N /\ n + 1 - 1 = n /\ n \in 0 .. n
    OBVIOUS
  <2>1. PICK h, R : Line(k, layers, P, f, h, R, n)
    BY <1>2
  <2>2. h[n] \in Signals
    BY <2>0, <2>1 DEF Line
  <2>3. PICK g \in Signals : \E S : Flow(k, layers[n + 1], P[(n + 1) - 1], P[n + 1], h[n], g, S)
    BY <2>0, <2>2
  <2>4. PICK S : Flow(k, layers[n + 1], P[(n + 1) - 1], P[n + 1], h[n], g, S)
    BY <2>3
  <2> DEFINE H == Longer(h, n, g)  Q == Longer(R, n, S)
  <2>5. /\ H[0] = h[0] /\ \A i \in 1 .. n : H[i] = h[i] /\ H[i - 1] = h[i - 1]
        /\ H[n + 1] = g /\ H[n] = h[n] /\ \A i \in 1 .. n + 1 : i \in 1 .. n \/ i = n + 1
    BY <2>0, LongerIs
  <2>6. (\A i \in 1 .. n : Q[i] = R[i]) /\ Q[n + 1] = S
    BY <2>0, LongerIs
  <2> HIDE DEF H, Q
  <2>7. ASSUME NEW i \in 0 .. n + 1 PROVE H[i] \in Signals
    <3>1. CASE i = 0
      BY <2>1, <2>5, <3>1 DEF Line
    <3>2. CASE i \in 1 .. n
      <4>1. i \in 0 .. n
        BY <2>0, <3>2
      <4> QED BY <2>1, <2>5, <3>2, <4>1 DEF Line
    <3>3. CASE i = n + 1
      BY <2>5, <3>3
    <3>4. i = 0 \/ i \in 1 .. n + 1
      BY <2>0
    <3> QED BY <2>5, <3>1, <3>2, <3>3, <3>4
  <2>8. ASSUME NEW i \in 1 .. n + 1 PROVE Flow(k, layers[i], P[i - 1], P[i], H[i - 1], H[i], Q[i])
    <3>1. CASE i \in 1 .. n
      BY <2>1, <2>5, <2>6, <3>1 DEF Line
    <3>2. CASE i = n + 1
      <4>1. H[(n + 1) - 1] = h[n]
        BY <2>0, <2>5
      <4> QED BY <2>4, <2>5, <2>6, <3>2, <4>1
    <3> QED BY <2>5, <3>1, <3>2
  <2>9. Line(k, layers, P, f, H, Q, n + 1)
    BY <2>1, <2>5, <2>7, <2>8 DEF Line
  <2> QED BY <2>0, <2>9
<1> HIDE DEF T
<1>3. \A n \in 0 .. N : n \in T
  BY <1>1, <1>2, SetInduction
<1>4. N \in 0 .. N
  OBVIOUS
<1> QED BY <1>3, <1>4 DEF T

LEMMA ChainFlows ==
  ASSUME NEW k \in {0, 1}, NEW layers, List(layers), NEW P, NEW f \in Signals,
         \A i \in 1 .. Len(layers) : \A h \in Signals :
           \E g \in Signals : \E S : Flow(k, layers[i], P[i - 1], P[i], h, g, S)
  PROVE  \E g \in Signals : \E S : Flows(k, layers, P[0], P[Len(layers)], f, g, S)
<1> DEFINE N == Len(layers)
<1>1. N \in Nat /\ DOMAIN layers = 1 .. N
  BY DEF List
<1>2. PICK h, R : Line(k, layers, P, f, h, R, N)
  <2> HIDE DEF N
  <2> QED BY <1>1, LineExists DEF N
<1> HIDE DEF N
<1> DEFINE State(n) == [i \in 1 .. N |-> R[i][n]]  S == [n \in Nat |-> State(n)]
<1>3. (\A n \in Nat : S[n] = State(n)) /\ \A n \in Nat : \A i \in 1 .. N : S[n][i] = R[i][n]
  OBVIOUS
<1> HIDE DEF S
<1>4. ASSUME NEW i \in 1 .. N
      PROVE  /\ R[i][0] = FreshOf(k, layers[i])
             /\ \A n, m \in Nat : Stepped(k, layers[i], R[i][n], Block(h[i - 1], P[i - 1], n, m))
                                    = [out |-> Block(h[i], P[i], n, m), past |-> R[i][n + m]]
             /\ \A n \in Nat : Silent(h[i - 1], P[i - 1].rate * n) =>
                  Silent(h[i], P[i].rate * n)
                  /\ Wholly(k, layers[i], Upto(h[i - 1], P[i - 1].rate * n)) = Upto(h[i], P[i].rate * n)
  <2>1. Flow(k, layers[i], P[i - 1], P[i], h[i - 1], h[i], R[i])
    BY <1>2 DEF Line
  <2> QED BY <2>1 DEF Flow
<1>5. S[0] = FreshAll(k, layers)
  <2>1. S[0] = [i \in 1 .. N |-> R[i][0]]
    BY <1>3
  <2>2. CASE k = 0
    <3>1. FreshAll(k, layers) = [i \in 1 .. N |-> Unheard(Kept(layers[i]))]
      BY <1>1, <2>2 DEF FreshAll, FreshPast
    <3>2. \A i \in 1 .. N : R[i][0] = Unheard(Kept(layers[i]))
      BY <1>4, <2>2 DEF FreshOf
    <3> QED BY <2>1, <3>1, <3>2
  <2>3. CASE k # 0
    <3>1. FreshAll(k, layers) = [i \in 1 .. N |-> FreshLayer(layers[i])]
      BY <1>1, <2>3 DEF FreshAll, FreshTimed
    <3>2. \A i \in 1 .. N : R[i][0] = FreshLayer(layers[i])
      BY <1>4, <2>3 DEF FreshOf
    <3> QED BY <2>1, <3>1, <3>2
  <2> QED BY <2>2, <2>3
<1>6. ASSUME NEW n \in Nat, NEW m \in Nat
      PROVE  SteppedAll(k, layers, S[n], Block(f, P[0], n, m)) = [out |-> Block(h[N], P[N], n, m), past |-> S[n + m]]
  <2> DEFINE outs == [i \in 0 .. N |-> Block(h[i], P[i], n, m)]  ps == [i \in 1 .. N |-> R[i][n + m]]
  <2>1. outs[0] = Block(f, P[0], n, m) /\ outs[N] = Block(h[N], P[N], n, m)
    BY <1>1, <1>2 DEF Line
  <2>2. n + m \in Nat /\ Firsts(ps, N) = S[n + m]
    <3>1. n + m \in Nat /\ S[n + m] = [i \in 1 .. N |-> R[i][n + m]]
      BY <1>3
    <3> QED BY <3>1 DEF Firsts
  <2>3. ASSUME NEW i \in 1 .. N
        PROVE  Stepped(k, layers[i], S[n][i], outs[i - 1]) = [out |-> outs[i], past |-> ps[i]]
    <3>1. outs[i - 1] = Block(h[i - 1], P[i - 1], n, m) /\ outs[i] = Block(h[i], P[i], n, m) /\ ps[i] = R[i][n + m]
      <4>1. i - 1 \in 0 .. N /\ i \in 0 .. N
        BY <1>1
      <4> QED BY <4>1
    <3>2. S[n][i] = R[i][n]
      BY <1>3
    <3> HIDE DEF outs, ps
    <3> QED BY <1>4, <3>1, <3>2
  <2> HIDE DEF outs, ps
  <2> DEFINE xs == Block(f, P[0], n, m)
  <2>x. outs[0] = xs
    BY <2>1
  <2> HIDE DEF xs
  <2>4. CASE k = 0
    <3>1. \A i \in 1 .. Len(layers) : StepOne(layers[i], S[n][i], outs[i - 1]) = [out |-> outs[i], past |-> ps[i]]
      BY <2>3, <2>4 DEF Stepped, N
    <3>2. StepThrough(layers, S[n], xs) = [out |-> outs[Len(layers)], past |-> Firsts(ps, Len(layers))]
      BY <2>x, <3>1, StepThroughIs
    <3> QED BY <2>1, <2>2, <2>4, <3>2 DEF SteppedAll, N, xs
  <2>5. CASE k # 0
    <3>1. \A i \in 1 .. Len(layers) : StepLayerOf(layers[i], S[n][i], outs[i - 1]) = [out |-> outs[i], past |-> ps[i]]
      BY <2>3, <2>5 DEF Stepped, N
    <3>2. StepTimed(layers, S[n], xs) = [out |-> outs[Len(layers)], past |-> Firsts(ps, Len(layers))]
      BY <2>x, <3>1, StepTimedIs
    <3> QED BY <2>1, <2>2, <2>5, <3>2 DEF SteppedAll, N, xs
  <2> QED BY <2>4, <2>5
<1>7. ASSUME NEW n \in Nat, Silent(f, P[0].rate * n)
      PROVE  Silent(h[N], P[N].rate * n) /\ WhollyAll(k, layers, Upto(f, P[0].rate * n)) = Upto(h[N], P[N].rate * n)
  <2> DEFINE Q == {i \in 0 .. N : Silent(h[i], P[i].rate * n)}
  <2>1. \A i \in 0 .. N : i \in Q
    <3>1. 0 \in Q
      BY <1>1, <1>2, <1>7 DEF Line
    <3>2. ASSUME NEW i \in 0 .. N - 1, i \in Q PROVE i + 1 \in Q
      <4> DEFINE j == i + 1
      <4>1. j \in 1 .. N /\ j \in 0 .. N /\ j - 1 = i
        BY <1>1
      <4> HIDE DEF j
      <4>2. Silent(h[j - 1], P[j - 1].rate * n)
        BY <3>2, <4>1
      <4>3. Silent(h[j], P[j].rate * n)
        BY <1>4, <4>1, <4>2
      <4> QED BY <4>1, <4>3 DEF j
    <3> HIDE DEF Q
    <3> QED BY <1>1, <3>1, <3>2, SetInduction
  <2> DEFINE outs == [i \in 0 .. N |-> Upto(h[i], P[i].rate * n)]  xs == Upto(f, P[0].rate * n)
  <2>2. outs[0] = xs /\ outs[N] = Upto(h[N], P[N].rate * n)
    BY <1>1, <1>2 DEF Line
  <2>3. ASSUME NEW i \in 1 .. N PROVE Wholly(k, layers[i], outs[i - 1]) = outs[i]
    <3>1. i - 1 \in 0 .. N /\ i \in 0 .. N
      BY <1>1
    <3>2. outs[i - 1] = Upto(h[i - 1], P[i - 1].rate * n) /\ outs[i] = Upto(h[i], P[i].rate * n)
      BY <3>1
    <3>3. Silent(h[i - 1], P[i - 1].rate * n)
      BY <2>1, <3>1
    <3> HIDE DEF outs
    <3> QED BY <1>4, <3>2, <3>3
  <2> HIDE DEF outs, xs
  <2>4. WhollyAll(k, layers, xs) = outs[N]
    <3>1. CASE k = 0
      <4>1. \A i \in 1 .. Len(layers) : Whole(layers[i], outs[i - 1]) = outs[i]
        BY <2>3, <3>1 DEF Wholly, N
      <4>2. WholeThrough(layers, xs) = outs[Len(layers)]
        BY <2>2, <4>1, WholeThroughIs
      <4> QED BY <3>1, <4>2 DEF WhollyAll, N
    <3>2. CASE k # 0
      <4>1. \A i \in 1 .. Len(layers) : WholeLayerOf(layers[i], outs[i - 1]) = outs[i]
        BY <2>3, <3>2 DEF Wholly, N
      <4>2. WholeTimed(layers, xs) = outs[Len(layers)]
        BY <2>2, <4>1, WholeTimedIs
      <4> QED BY <3>2, <4>2 DEF WhollyAll, N
    <3> QED BY <3>1, <3>2
  <2>5. N \in 0 .. N
    BY <1>1
  <2>6. Silent(h[N], P[N].rate * n)
    BY <2>1, <2>5
  <2> QED BY <2>2, <2>4, <2>6 DEF xs
<1>8. Flows(k, layers, P[0], P[N], f, h[N], S)
  BY <1>5, <1>6, <1>7 DEF Flows
<1>9. h[N] \in Signals
  BY <1>1, <1>2 DEF Line
<1> QED BY <1>8, <1>9 DEF N

\* The layers take a stream at x to one at y.
PassAll(layers, x, y) ==
  /\ List(layers)
  /\ \E P : P[0] = x /\ P[Len(layers)] = y /\ \A i \in 1 .. Len(layers) : PassOne(layers[i], P[i - 1], P[i])
PassLayer(l, x, y) ==
  /\ PlaceOK(y)
  /\ IF l.kind = "residual" THEN PassAll(l.body, x, y) /\ PassAll(l.short, x, y) ELSE PassOne(l, x, y)
Runs(layers, x, y) ==
  /\ List(layers)
  /\ \E P : P[0] = x /\ P[Len(layers)] = y /\ \A i \in 1 .. Len(layers) : PassLayer(layers[i], P[i - 1], P[i])

LEMMA ThroughFlows ==
  ASSUME NEW layers, NEW x, NEW y, PassAll(layers, x, y), NEW f \in Signals
  PROVE  \E g \in Signals : \E S : Flows(0, layers, x, y, f, g, S)
<1>1. PICK P : P[0] = x /\ P[Len(layers)] = y /\ \A i \in 1 .. Len(layers) : PassOne(layers[i], P[i - 1], P[i])
  BY DEF PassAll
<1>2. List(layers) /\ 0 \in {0, 1}
  BY DEF PassAll
<1>3. ASSUME NEW i \in 1 .. Len(layers), NEW h \in Signals
      PROVE  \E g \in Signals : \E S : Flow(0, layers[i], P[i - 1], P[i], h, g, S)
  BY <1>1, OneFlows
<1>4. \E g \in Signals : \E S : Flows(0, layers, P[0], P[Len(layers)], f, g, S)
  BY <1>2, <1>3, ChainFlows
<1> QED BY <1>1, <1>4

LEMMA ThroughNothing ==
  ASSUME NEW x
  PROVE  PassAll(<<>>, x, x)
<1> DEFINE P == [i \in 0 .. 0 |-> x]  e == <<>>
<1>1. P[0] = x /\ 1 .. 0 = {}
  OBVIOUS
<1>2. List(e) /\ Len(e) = 0
  BY ListOf
<1> HIDE DEF P, e
<1> QED BY <1>1, <1>2 DEF PassAll, e

LEMMA ThroughSingle ==
  ASSUME NEW l, NEW x, NEW y, PassOne(l, x, y)
  PROVE  PassAll(<<l>>, x, y)
<1> DEFINE P == [i \in 0 .. 1 |-> IF i = 0 THEN x ELSE y]  s == <<l>>
<1>1. P[0] = x /\ P[1] = y /\ (\A i \in 1 .. 1 : i = 1) /\ 1 - 1 = 0
  OBVIOUS
<1>2. List(s) /\ Len(s) = 1 /\ s[1] = l
  BY ListOf
<1> HIDE DEF P, s
<1>3. \A i \in 1 .. Len(s) : PassOne(s[i], P[i - 1], P[i])
  BY <1>1, <1>2
<1> QED BY <1>1, <1>2, <1>3 DEF PassAll, s

LEMMA ThroughPair ==
  ASSUME NEW k, NEW l, NEW x, NEW y, NEW z, PassOne(k, x, y), PassOne(l, y, z)
  PROVE  PassAll(<<k, l>>, x, z)
<1> DEFINE P == [i \in 0 .. 2 |-> IF i = 0 THEN x ELSE IF i = 1 THEN y ELSE z]  s == <<k, l>>
<1>1. P[0] = x /\ P[1] = y /\ P[2] = z /\ (\A i \in 1 .. 2 : i = 1 \/ i = 2) /\ 1 - 1 = 0 /\ 2 - 1 = 1
  OBVIOUS
<1>2. List(s) /\ Len(s) = 2 /\ s[1] = k /\ s[2] = l
  BY ListOf
<1> HIDE DEF P, s
<1>3. \A i \in 1 .. Len(s) : PassOne(s[i], P[i - 1], P[i])
  BY <1>1, <1>2
<1> QED BY <1>1, <1>2, <1>3 DEF PassAll, s

LEMMA WholeSingle ==
  ASSUME NEW l, NEW xs
  PROVE  WholeThrough(<<l>>, xs) = Whole(l, xs)
<1> DEFINE outs == [i \in 0 .. 1 |-> IF i = 0 THEN xs ELSE Whole(l, xs)]  s == <<l>>
<1>1. outs[0] = xs /\ outs[1] = Whole(l, xs) /\ (\A i \in 1 .. 1 : i = 1) /\ 1 - 1 = 0
  OBVIOUS
<1>2. List(s) /\ Len(s) = 1 /\ s[1] = l
  BY ListOf
<1> HIDE DEF outs, s
<1>3. \A i \in 1 .. Len(s) : Whole(s[i], outs[i - 1]) = outs[i]
  BY <1>1, <1>2
<1>4. WholeThrough(s, xs) = outs[Len(s)]
  BY <1>1, <1>2, <1>3, WholeThroughIs
<1> QED BY <1>1, <1>2, <1>4 DEF s

\* Two signals added.
Sum2(a, b) == IF a = Absent \/ b = Absent THEN Absent ELSE (2 * a + b) % Prime
Mixed(g, h) == [t \in Int |-> Sum2(g[t], h[t])]

LEMMA MixedSignal ==
  ASSUME NEW g \in Signals, NEW h \in Signals
  PROVE  Mixed(g, h) \in Signals
<1>1. ASSUME NEW t \in Int PROVE Sum2(g[t], h[t]) \in Int /\ (t <= 0 => Sum2(g[t], h[t]) = Absent)
  <2>1. g[t] \in Int /\ h[t] \in Int /\ (t <= 0 => g[t] = Absent)
    BY SignalReads
  <2>2. (2 * g[t] + h[t]) % Prime \in Int
    BY <2>1 DEF Prime
  <2> QED BY <2>1, <2>2 DEF Sum2, Absent
<1> QED BY <1>1 DEF Mixed, Signals

LEMMA AddedIs ==
  ASSUME NEW n \in Nat, NEW a, NEW b, DOMAIN a = 1 .. n
  PROVE  Added(a, b) = [t \in 1 .. n |-> Sum2(a[t], b[t])]
<1> DEFINE s == [t \in DOMAIN a |-> IF a[t] = Absent \/ b[t] = Absent THEN Absent ELSE (2 * a[t] + b[t]) % Prime]
           r == [t \in 1 .. n |-> Sum2(a[t], b[t])]
<1>1. s = r
  BY DEF Sum2
<1>2. r = [i \in 1 .. n |-> r[i]]
  OBVIOUS
<1>3. Added(a, b) = Listed(s)
  BY DEF Added
<1> HIDE DEF s, r
<1>4. Listed(r) = r
  BY <1>2, ListedIs
<1> QED BY <1>1, <1>3, <1>4 DEF r

LEMMA LayerFlows ==
  ASSUME NEW l, NEW x, NEW y, PassLayer(l, x, y), NEW f \in Signals
  PROVE  \E g \in Signals : \E S : Flow(1, l, x, y, f, g, S)
<1>0. y.rate \in Nat
  BY DEF PassLayer, PlaceOK, Positive
<1>1. CASE l.kind = "residual"
  <2>1. PICK a \in Signals : \E S : Flows(0, l.body, x, y, f, a, S)
    BY <1>1, ThroughFlows DEF PassLayer
  <2>2. PICK A : Flows(0, l.body, x, y, f, a, A)
    BY <2>1
  <2>3. PICK b \in Signals : \E S : Flows(0, l.short, x, y, f, b, S)
    BY <1>1, ThroughFlows DEF PassLayer
  <2>4. PICK B : Flows(0, l.short, x, y, f, b, B)
    BY <2>3
  <2> DEFINE g == Mixed(a, b)  S == [n \in Nat |-> [body |-> A[n], short |-> B[n]]]
  <2>5. /\ g \in Signals /\ \A t \in Int : g[t] = Sum2(a[t], b[t])
        /\ \A n \in Nat : S[n] = [body |-> A[n], short |-> B[n]]
    BY MixedSignal DEF Mixed
  <2> HIDE DEF g, S
  <2>6. S[0] = FreshOf(1, l)
    <3>1. A[0] = FreshPast(l.body) /\ B[0] = FreshPast(l.short)
      BY <2>2, <2>4 DEF Flows, FreshAll
    <3> QED BY <1>1, <2>5, <3>1 DEF FreshOf, FreshLayer
  <2>7. ASSUME NEW n \in Nat, NEW m \in Nat
        PROVE  Stepped(1, l, S[n], Block(f, x, n, m)) = [out |-> Block(g, y, n, m), past |-> S[n + m]]
    <3> DEFINE xs == Block(f, x, n, m)
    <3>1. StepThrough(l.body, A[n], xs) = [out |-> Block(a, y, n, m), past |-> A[n + m]]
      BY <2>2 DEF Flows, SteppedAll
    <3>2. StepThrough(l.short, B[n], xs) = [out |-> Block(b, y, n, m), past |-> B[n + m]]
      BY <2>4 DEF Flows, SteppedAll
    <3>3. Added(Block(a, y, n, m), Block(b, y, n, m)) = Block(g, y, n, m)
      <4> DEFINE p == Block(a, y, n, m)  q == Block(b, y, n, m)  M == y.rate * m  d == y.rate * n - y.late
      <4>1. M \in Nat /\ d \in Int
        BY <1>0 DEF PlaceOK, PassLayer
      <4>2. p = [t \in 1 .. M |-> a[d + t]] /\ q = [t \in 1 .. M |-> b[d + t]]
        BY DEF Block
      <4>3. Block(g, y, n, m) = [t \in 1 .. M |-> g[d + t]]
        BY DEF Block
      <4> HIDE DEF p, q, M, d
      <4>4. DOMAIN p = 1 .. M
        BY <4>2
      <4>5. Added(p, q) = [t \in 1 .. M |-> Sum2(p[t], q[t])]
        BY <4>1, <4>4, AddedIs
      <4>6. \A t \in 1 .. M : Sum2(p[t], q[t]) = g[d + t]
        <5>1. \A t \in 1 .. M : d + t \in Int /\ p[t] = a[d + t] /\ q[t] = b[d + t]
          BY <4>1, <4>2
        <5> QED BY <2>5, <5>1
      <4>7. Added(p, q) = [t \in 1 .. M |-> g[d + t]]
        BY <4>5, <4>6
      <4> QED BY <4>3, <4>7 DEF p, q
    <3> HIDE DEF xs
    <3>4. S[n].body = A[n] /\ S[n].short = B[n]
      <4>1. S[n] = [body |-> A[n], short |-> B[n]]
        BY <2>5
      <4> QED BY <4>1
    <3>5. StepLayerOf(l, S[n], xs)
            = SteppedLayer(l, StepThrough(l.body, A[n], xs), StepThrough(l.short, B[n], xs))
      BY <1>1, <3>4 DEF StepLayerOf, BodyOf, ShortOf
    <3>6. StepLayerOf(l, S[n], xs)
            = [out |-> Added(Block(a, y, n, m), Block(b, y, n, m)), past |-> [body |-> A[n + m], short |-> B[n + m]]]
      BY <1>1, <3>1, <3>2, <3>5 DEF SteppedLayer
    <3>7. n + m \in Nat
      OBVIOUS
    <3> QED BY <2>5, <3>3, <3>6, <3>7 DEF Stepped, xs
  <2>8. ASSUME NEW n \in Nat, Silent(f, x.rate * n)
        PROVE  Silent(g, y.rate * n) /\ Wholly(1, l, Upto(f, x.rate * n)) = Upto(g, y.rate * n)
    <3> DEFINE xs == Upto(f, x.rate * n)  M == y.rate * n
    <3>1. Silent(a, M) /\ WholeThrough(l.body, xs) = Upto(a, M)
      BY <2>2, <2>8 DEF Flows, WhollyAll
    <3>2. Silent(b, M) /\ WholeThrough(l.short, xs) = Upto(b, M)
      BY <2>4, <2>8 DEF Flows, WhollyAll
    <3>3. M \in Nat
      BY <1>0
    <3> HIDE DEF M, xs
    <3>4. Silent(g, M)
      BY <2>5, <3>1, <3>3 DEF Silent, Sum2
    <3>5. WholeLayerOf(l, xs) = Added(Upto(a, M), Upto(b, M))
      BY <1>1, <3>1, <3>2 DEF WholeLayerOf
    <3>6. Added(Upto(a, M), Upto(b, M)) = Upto(g, M)
      <4> DEFINE p == Upto(a, M)  q == Upto(b, M)
      <4>1. DOMAIN p = 1 .. M /\ \A t \in 1 .. M : p[t] = a[t] /\ q[t] = b[t] /\ t \in Int
        BY <3>3 DEF Upto
      <4> HIDE DEF p, q
      <4>2. Added(p, q) = [t \in 1 .. M |-> Sum2(p[t], q[t])]
        BY <3>3, <4>1, AddedIs
      <4>3. \A t \in 1 .. M : Sum2(p[t], q[t]) = g[t]
        BY <2>5, <4>1
      <4> QED BY <4>2, <4>3 DEF Upto, p, q
    <3> QED BY <3>4, <3>5, <3>6 DEF Wholly, M, xs
  <2>9. Flow(1, l, x, y, f, g, S)
    BY <2>6, <2>7, <2>8 DEF Flow
  <2> QED BY <2>5, <2>9
<1>2. CASE l.kind # "residual"
  <2> DEFINE one == <<l>>  none == <<>>
  <2>0. PassOne(l, x, y)
    BY <1>2 DEF PassLayer
  <2>1. PICK g \in Signals : \E S : Flows(0, one, x, y, f, g, S)
    <3>1. PassAll(one, x, y)
      BY <2>0, ThroughSingle
    <3> HIDE DEF one
    <3> QED BY <3>1, ThroughFlows
  <2>2. PICK A : Flows(0, one, x, y, f, g, A)
    BY <2>1
  <2>3. PICK b \in Signals : \E S : Flows(0, none, x, x, f, b, S)
    <3>1. PassAll(none, x, x)
      BY ThroughNothing
    <3> HIDE DEF none
    <3> QED BY <3>1, ThroughFlows
  <2>4. PICK B : Flows(0, none, x, x, f, b, B)
    BY <2>3
  <2> DEFINE S == [n \in Nat |-> [body |-> A[n], short |-> B[n]]]
  <2>5. \A n \in Nat : S[n] = [body |-> A[n], short |-> B[n]]
    OBVIOUS
  <2> HIDE DEF S, one, none
  <2>6. S[0] = FreshOf(1, l)
    <3>1. A[0] = FreshPast(one) /\ B[0] = FreshPast(none)
      BY <2>2, <2>4 DEF Flows, FreshAll
    <3>2. FreshPast(none) = <<>>
      BY DEF FreshPast, none
    <3> QED BY <1>2, <2>5, <3>1, <3>2 DEF FreshOf, FreshLayer, one
  <2>7. ASSUME NEW n \in Nat, NEW m \in Nat
        PROVE  Stepped(1, l, S[n], Block(f, x, n, m)) = [out |-> Block(g, y, n, m), past |-> S[n + m]]
    <3> DEFINE xs == Block(f, x, n, m)
    <3>1. StepThrough(one, A[n], xs) = [out |-> Block(g, y, n, m), past |-> A[n + m]]
      BY <2>2 DEF Flows, SteppedAll
    <3>2. StepThrough(none, B[n], xs) = [out |-> Block(b, x, n, m), past |-> B[n + m]]
      BY <2>4 DEF Flows, SteppedAll
    <3> HIDE DEF xs
    <3>4. S[n].body = A[n] /\ S[n].short = B[n]
      <4>1. S[n] = [body |-> A[n], short |-> B[n]]
        BY <2>5
      <4> QED BY <4>1
    <3>5. StepLayerOf(l, S[n], xs)
            = SteppedLayer(l, StepThrough(one, A[n], xs), StepThrough(none, B[n], xs))
      BY <1>2, <3>4 DEF StepLayerOf, BodyOf, ShortOf, one, none
    <3>6. StepLayerOf(l, S[n], xs) = [out |-> Block(g, y, n, m), past |-> [body |-> A[n + m], short |-> B[n + m]]]
      BY <1>2, <3>1, <3>2, <3>5 DEF SteppedLayer
    <3>7. n + m \in Nat
      OBVIOUS
    <3> QED BY <2>5, <3>6, <3>7 DEF Stepped, xs
  <2>8. ASSUME NEW n \in Nat, Silent(f, x.rate * n)
        PROVE  Silent(g, y.rate * n) /\ Wholly(1, l, Upto(f, x.rate * n)) = Upto(g, y.rate * n)
    <3> DEFINE xs == Upto(f, x.rate * n)
    <3>1. Silent(g, y.rate * n) /\ WholeThrough(one, xs) = Upto(g, y.rate * n)
      BY <2>2, <2>8 DEF Flows, WhollyAll
    <3> HIDE DEF xs
    <3>2. WholeLayerOf(l, xs) = WholeThrough(one, xs)
      BY <1>2, WholeSingle DEF WholeLayerOf, one
    <3> QED BY <3>1, <3>2 DEF Wholly, xs
  <2>9. Flow(1, l, x, y, f, g, S)
    BY <2>6, <2>7, <2>8 DEF Flow
  <2> QED BY <2>9
<1> QED BY <1>1, <1>2

LEMMA RunsFlow ==
  ASSUME NEW layers, NEW x, NEW y, Runs(layers, x, y), NEW f \in Signals
  PROVE  \E g \in Signals : \E S : Flows(1, layers, x, y, f, g, S)
<1>1. PICK P : P[0] = x /\ P[Len(layers)] = y /\ \A i \in 1 .. Len(layers) : PassLayer(layers[i], P[i - 1], P[i])
  BY DEF Runs
<1>2. List(layers) /\ 1 \in {0, 1}
  BY DEF Runs
<1>3. ASSUME NEW i \in 1 .. Len(layers), NEW h \in Signals
      PROVE  \E g \in Signals : \E S : Flow(1, layers[i], P[i - 1], P[i], h, g, S)
  BY <1>1, LayerFlows
<1>4. \E g \in Signals : \E S : Flows(1, layers, P[0], P[Len(layers)], f, g, S)
  BY <1>2, <1>3, ChainFlows
<1> QED BY <1>1, <1>4

--------------------------------------------------------------------------------
(* Lists after each other, and groups of channels, which time does not see. *)

\* What a layer is, in time.
InPlace(l) == IF l.kind = "parallel" THEN l.layers ELSE <<l>>
PassPart(k, l, x, y) == IF k = 1 THEN PassLayer(l, x, y) ELSE Runs(InPlace(l), x, y)
Goes(k, layers, x, y) ==
  /\ List(layers)
  /\ \E P : P[0] = x /\ P[Len(layers)] = y /\ \A i \in 1 .. Len(layers) : PassPart(k, layers[i], P[i - 1], P[i])

LEMMA GoesConcat ==
  ASSUME NEW k, NEW a, NEW b, NEW x, NEW y, NEW z, Goes(k, a, x, y), Goes(k, b, y, z)
  PROVE  Goes(k, a \o b, x, z)
<1> DEFINE m == Len(a)  n == Len(b)  c == a \o b
<1>1. PICK f : f[0] = x /\ f[m] = y /\ \A i \in 1 .. m : PassPart(k, a[i], f[i - 1], f[i])
  BY DEF Goes
<1>2. PICK g : g[0] = y /\ g[n] = z /\ \A i \in 1 .. n : PassPart(k, b[i], g[i - 1], g[i])
  BY DEF Goes
<1>3. m \in Nat /\ n \in Nat
  BY DEF Goes, List
<1>4. /\ List(c) /\ Len(c) = m + n /\ \A i \in 1 .. m : c[i] = a[i]
      /\ \A i \in 1 .. n : c[m + i] = b[i]
      /\ \A i \in 1 .. Len(c) : i \in 1 .. m \/ i - m \in 1 .. n
  BY ConcatIs DEF Goes
<1> HIDE DEF m, n, c
<1> DEFINE h == [i \in 0 .. m + n |-> IF i <= m THEN f[i] ELSE g[i - m]]
<1>5. (\A i \in 0 .. m : h[i] = f[i]) /\ \A i \in 0 .. n : h[m + i] = g[i]
  <2>1. \A i \in 0 .. m : i \in 0 .. m + n /\ i <= m
    BY <1>3
  <2>2. \A i \in 0 .. n : m + i \in 0 .. m + n /\ m + i - m = i /\ (i # 0 => ~(m + i <= m)) /\ m + 0 = m /\ m <= m
    BY <1>3
  <2>3. ASSUME NEW i \in 0 .. n PROVE h[m + i] = g[i]
    <3>1. CASE i = 0
      <4>1. h[m] = f[m]
        BY <1>3
      <4> HIDE DEF h
      <4> QED BY <1>1, <1>2, <2>2, <3>1, <4>1
    <3>2. CASE i # 0
      <4> DEFINE j == m + i
      <4>1. j \in 0 .. m + n /\ ~(j <= m) /\ j - m = i
        BY <1>3, <3>2
      <4> HIDE DEF j
      <4>2. h[j] = g[j - m]
        BY <4>1
      <4> HIDE DEF h
      <4> QED BY <4>1, <4>2 DEF j
    <3> QED BY <3>1, <3>2
  <2> QED BY <2>1, <2>3
<1> HIDE DEF h
<1>6. ASSUME NEW i \in 1 .. Len(c) PROVE PassPart(k, c[i], h[i - 1], h[i])
  <2>1. CASE i \in 1 .. m
    <3>1. i \in 0 .. m /\ i - 1 \in 0 .. m
      BY <1>3, <2>1
    <3>2. c[i] = a[i] /\ h[i] = f[i] /\ h[i - 1] = f[i - 1]
      BY <1>4, <1>5, <2>1, <3>1
    <3> QED BY <1>1, <2>1, <3>2
  <2>2. CASE i - m \in 1 .. n
    <3> DEFINE j == i - m
    <3>1. j \in 0 .. n /\ j - 1 \in 0 .. n /\ m + j = i /\ m + (j - 1) = i - 1
      BY <1>3, <2>2
    <3> HIDE DEF j
    <3>d. j \in 1 .. n
      BY <2>2 DEF j
    <3>e. c[m + j] = b[j] /\ h[m + j] = g[j] /\ h[m + (j - 1)] = g[j - 1]
      BY <1>4, <1>5, <3>1, <3>d
    <3>2. c[i] = b[j] /\ h[i] = g[j] /\ h[i - 1] = g[j - 1] /\ j \in 1 .. n
      BY <3>1, <3>d, <3>e
    <3> QED BY <1>2, <3>2
  <2> QED BY <1>4, <2>1, <2>2
<1>7. h[0] = x /\ h[Len(c)] = z
  <2>1. 0 \in 0 .. m /\ n \in 0 .. n
    BY <1>3
  <2> QED BY <1>1, <1>2, <1>4, <1>5, <2>1
<1> QED BY <1>4, <1>6, <1>7 DEF Goes, c

LEMMA GoesNone ==
  ASSUME NEW k, NEW x
  PROVE  Goes(k, <<>>, x, x)
<1> DEFINE P == [i \in 0 .. 0 |-> x]  e == <<>>
<1>1. P[0] = x /\ 1 .. 0 = {}
  OBVIOUS
<1>2. List(e) /\ Len(e) = 0
  BY ListOf
<1> HIDE DEF P, e
<1> QED BY <1>1, <1>2 DEF Goes, e

LEMMA GoesOne ==
  ASSUME NEW k, NEW l, NEW x, NEW y, PassPart(k, l, x, y)
  PROVE  Goes(k, <<l>>, x, y)
<1> DEFINE P == [i \in 0 .. 1 |-> IF i = 0 THEN x ELSE y]  s == <<l>>
<1>1. P[0] = x /\ P[1] = y /\ (\A i \in 1 .. 1 : i = 1) /\ 1 - 1 = 0
  OBVIOUS
<1>2. List(s) /\ Len(s) = 1 /\ s[1] = l
  BY ListOf
<1> HIDE DEF P, s
<1>3. \A i \in 1 .. Len(s) : PassPart(k, s[i], P[i - 1], P[i])
  BY <1>1, <1>2
<1> QED BY <1>1, <1>2, <1>3 DEF Goes, s

LEMMA GoesRuns ==
  ASSUME NEW layers, NEW x, NEW y
  PROVE  Goes(1, layers, x, y) <=> Runs(layers, x, y)
BY DEF Goes, PassPart, Runs

\* A layer that runs is no group of channels.
LEMMA GoesOn ==
  ASSUME NEW layers, NEW x, NEW y, Goes(1, layers, x, y)
  PROVE  Goes(2, layers, x, y)
<1>1. PICK P : P[0] = x /\ P[Len(layers)] = y /\ \A i \in 1 .. Len(layers) : PassPart(1, layers[i], P[i - 1], P[i])
  BY DEF Goes
<1>2. ASSUME NEW i \in 1 .. Len(layers) PROVE PassPart(2, layers[i], P[i - 1], P[i])
  <2> DEFINE l == layers[i]  p == P[i - 1]  q == P[i]
  <2>1. PassPart(1, l, p, q) /\ PassLayer(l, p, q)
    BY <1>1 DEF PassPart
  <2> HIDE DEF l, p, q
  <2>2. l.kind # "parallel"
    BY <2>1 DEF PassLayer, PassOne, Sound
  <2>3. Goes(1, <<l>>, p, q)
    BY <2>1, GoesOne
  <2>4. Runs(InPlace(l), p, q)
    BY <2>2, <2>3, GoesRuns DEF InPlace
  <2>5. PassPart(2, l, p, q)
    BY <2>4 DEF PassPart
  <2> QED BY <2>5 DEF l, p, q
<1> QED BY <1>1, <1>2 DEF Goes

LEMMA GoesApart ==
  ASSUME NEW layers, NEW g, NEW x, NEW y, Goes(1, layers, x, y)
  PROVE  Goes(2, << Parallel(layers, g) >>, x, y)
<1> DEFINE l == Parallel(layers, g)
<1>1. l.kind = "parallel" /\ l.layers = layers
  BY DEF Parallel
<1> HIDE DEF l
<1>2. Runs(InPlace(l), x, y)
  BY <1>1, GoesRuns DEF InPlace
<1>3. PassPart(2, l, x, y)
  BY <1>2 DEF PassPart
<1> QED BY <1>3, GoesOne DEF l

\* f[n] is, in time, the first n layers.
Spliced(layers, acc, i) == acc \o InPlace(layers[i])
SpliceChain(f, layers, n) == f[0] = <<>> /\ \A i \in 1 .. n : f[i] = Spliced(layers, f[i - 1], i)
SpliceTo(f, layers, n) == f = [i \in 0 .. n |-> IF i = 0 THEN <<>> ELSE Spliced(layers, f[i - 1], i)]

LEMMA SpliceExists ==
  ASSUME NEW layers, NEW N \in Nat
  PROVE  /\ \E f : SpliceTo(f, layers, N)
         /\ \A f : SpliceTo(f, layers, N) => SpliceChain(f, layers, N)
         /\ \A f, g : SpliceChain(f, layers, N) /\ SpliceChain(g, layers, N) => \A n \in 0 .. N : f[n] = g[n]
<1> DEFINE T == {n \in 0 .. N : \E f : SpliceChain(f, layers, n)}
<1>1. 0 \in T
  <2> DEFINE h == [i \in 0 .. 0 |-> <<>>]
  <2>1. SpliceChain(h, layers, 0)
    BY DEF SpliceChain
  <2> HIDE DEF h
  <2> QED BY <2>1
<1>2. ASSUME NEW n \in 0 .. N - 1, n \in T PROVE n + 1 \in T
  <2>1. PICK f : SpliceChain(f, layers, n)
    BY <1>2
  <2> DEFINE y == Spliced(layers, f[n], n + 1)
             g == Longer(f, n, y)
  <2> HIDE DEF y
  <2>2. /\ g[0] = f[0] /\ \A i \in 1 .. n : g[i] = f[i] /\ g[i - 1] = f[i - 1]
        /\ g[n + 1] = y /\ g[n] = f[n] /\ n + 1 - 1 = n
        /\ \A i \in 1 .. n + 1 : i \in 1 .. n \/ i = n + 1
    BY LongerIs
  <2> HIDE DEF g
  <2>3. ASSUME NEW i \in 1 .. n + 1 PROVE g[i] = Spliced(layers, g[i - 1], i)
    <3>1. CASE i \in 1 .. n
      BY <2>1, <2>2, <3>1 DEF SpliceChain
    <3>2. CASE i = n + 1
      BY <2>2, <3>2 DEF y
    <3> QED BY <2>2, <3>1, <3>2
  <2>4. SpliceChain(g, layers, n + 1)
    BY <2>1, <2>2, <2>3 DEF SpliceChain
  <2> QED BY <2>4
<1> HIDE DEF T
<1>3. N \in T
  BY <1>1, <1>2, SetInduction
<1>4. PICK f : SpliceChain(f, layers, N)
  BY <1>3 DEF T
<1> DEFINE h == [i \in 0 .. N |-> f[i]]
<1>5. \A i \in 0 .. N : h[i] = f[i] /\ (i # 0 => i \in 1 .. N /\ h[i - 1] = f[i - 1])
  OBVIOUS
<1>6. \A i \in 0 .. N : h[i] = IF i = 0 THEN <<>> ELSE Spliced(layers, h[i - 1], i)
  BY <1>4, <1>5 DEF SpliceChain
<1>7. h = [i \in 0 .. N |-> h[i]]
  OBVIOUS
<1> HIDE DEF h
<1>8. SpliceTo(h, layers, N)
  BY <1>6, <1>7 DEF SpliceTo
<1>9. ASSUME NEW g, SpliceTo(g, layers, N) PROVE SpliceChain(g, layers, N)
  <2>1. \A i \in 0 .. N : g[i] = IF i = 0 THEN <<>> ELSE Spliced(layers, g[i - 1], i)
    BY <1>9 DEF SpliceTo
  <2> QED BY <2>1 DEF SpliceChain
<1>10. ASSUME NEW g, NEW k, SpliceChain(g, layers, N), SpliceChain(k, layers, N) PROVE \A n \in 0 .. N : g[n] = k[n]
  <2> DEFINE U == {n \in 0 .. N : g[n] = k[n]}
  <2>1. 0 \in U
    BY <1>10 DEF SpliceChain
  <2>2. ASSUME NEW n \in 0 .. N - 1, n \in U PROVE n + 1 \in U
    <3>1. n + 1 \in 1 .. N /\ n + 1 \in 0 .. N /\ n + 1 - 1 = n /\ g[n] = k[n]
      BY <2>2
    <3>2. g[n + 1] = Spliced(layers, g[(n + 1) - 1], (n + 1)) /\ k[n + 1] = Spliced(layers, k[(n + 1) - 1], (n + 1))
      BY <1>10, <3>1 DEF SpliceChain
    <3> QED BY <3>1, <3>2
  <2> HIDE DEF U
  <2>3. \A n \in 0 .. N : n \in U
    BY <2>1, <2>2, SetInduction
  <2> QED BY <2>3 DEF U
<1> QED BY <1>8, <1>9, <1>10

LEMMA SpliceIs ==
  ASSUME NEW layers, Len(layers) \in Nat
  PROVE  /\ \E f : SpliceChain(f, layers, Len(layers))
         /\ \A f : SpliceChain(f, layers, Len(layers)) => InTime(layers) = f[Len(layers)]
<1> DEFINE w == CHOOSE f : SpliceTo(f, layers, Len(layers))
<1>1. SpliceTo(w, layers, Len(layers))
  <2>1. \E f : SpliceTo(f, layers, Len(layers))
    BY SpliceExists
  <2> QED BY <2>1
<1>2. InTime(layers) = w[Len(layers)]
  BY DEF InTime, SpliceTo, Spliced, InPlace
<1> HIDE DEF w
<1>3. SpliceChain(w, layers, Len(layers))
  BY <1>1, SpliceExists
<1>4. ASSUME NEW f, SpliceChain(f, layers, Len(layers)) PROVE f[Len(layers)] = w[Len(layers)]
  <2>1. Len(layers) \in 0 .. Len(layers)
    OBVIOUS
  <2> DEFINE N == Len(layers)
  <2>2. N \in Nat /\ SpliceChain(f, layers, N) /\ SpliceChain(w, layers, N)
    BY <1>3, <1>4
  <2> HIDE DEF N
  <2>3. \A n \in 0 .. N : f[n] = w[n]
    BY <2>2, SpliceExists, Z3
  <2> QED BY <2>1, <2>3 DEF N
<1> QED BY <1>2, <1>3, <1>4

LEMMA InTimeRuns ==
  ASSUME NEW layers, NEW x, NEW y, Goes(2, layers, x, y)
  PROVE  Runs(InTime(layers), x, y)
<1> DEFINE N == Len(layers)
<1>1. N \in Nat
  BY DEF Goes, List
<1>2. PICK P : P[0] = x /\ P[N] = y /\ \A i \in 1 .. N : PassPart(2, layers[i], P[i - 1], P[i])
  BY DEF Goes
<1>3. PICK f : SpliceChain(f, layers, N)
  BY <1>1, SpliceIs
<1>4. InTime(layers) = f[N]
  BY <1>1, <1>3, SpliceIs
<1> HIDE DEF N
<1> DEFINE T == {n \in 0 .. N : Goes(1, f[n], x, P[n])}
<1>5. 0 \in T
  <2>1. 0 \in 0 .. N /\ f[0] = <<>>
    BY <1>1, <1>3 DEF SpliceChain
  <2> DEFINE e == <<>>
  <2>2. Goes(1, e, x, x)
    BY GoesNone
  <2> HIDE DEF e
  <2>3. Goes(1, f[0], x, P[0])
    BY <1>2, <2>1, <2>2 DEF e
  <2> QED BY <2>1, <2>3
<1>6. ASSUME NEW n \in 0 .. N - 1, n \in T PROVE n + 1 \in T
  <2>1. n + 1 \in 1 .. N /\ n + 1 \in 0 .. N /\ n + 1 - 1 = n
    BY <1>1
  <2> DEFINE l == layers[n + 1]  a == f[n]  q == P[n + 1]
  <2>2. f[n + 1] = a \o InPlace(l)
    <3> DEFINE j == n + 1
    <3>1. j \in 1 .. N /\ j - 1 = n
      BY <2>1
    <3>2. l = layers[j]
      OBVIOUS
    <3> HIDE DEF l, j
    <3>3. f[j] = Spliced(layers, f[j - 1], j)
      BY <1>3, <3>1 DEF SpliceChain
    <3>4. f[j] = a \o InPlace(l)
      BY <3>1, <3>2, <3>3 DEF Spliced
    <3> QED BY <3>4 DEF j
  <2>3. PassPart(2, l, P[n], q)
    BY <1>2, <2>1
  <2> HIDE DEF l, q
  <2>4. Goes(1, InPlace(l), P[n], q)
    BY <2>3, GoesRuns DEF PassPart
  <2>5. Goes(1, a, x, P[n])
    BY <1>6
  <2> HIDE DEF a
  <2>6. Goes(1, a \o InPlace(l), x, q)
    BY <2>4, <2>5, GoesConcat
  <2> QED BY <2>1, <2>2, <2>6 DEF q
<1>7. N \in T
  <2> HIDE DEF T
  <2>1. \A n \in 0 .. N : n \in T
    BY <1>1, <1>5, <1>6, SetInduction
  <2> QED BY <1>1, <2>1
<1>8. Goes(1, f[N], x, y)
  BY <1>2, <1>7
<1> QED BY <1>4, <1>8, GoesRuns

--------------------------------------------------------------------------------
(* The layers the codec is made of, in time.                               *)

LEMMA ShrinkPasses ==
  ASSUME NEW l, Sound(l), Shrinks(l), NEW s, TimeStride(l) = s, NEW L \in Nat, NEW R \in Positive
  PROVE  PassOne(l, Place(s * L, s * R), Place(L, R))
<1>1. s \in Nat \ {0}
  BY StrideIs DEF Positive
<1>2. s * L \in Nat /\ s * R \in Positive
  BY <1>1 DEF Positive
<1> DEFINE a == s * L  b == s * R
<1>3. a = s * L /\ b = s * R /\ a \in Nat /\ b \in Positive
  BY <1>2
<1> HIDE DEF a, b
<1>4. PassOne(l, Place(a, b), Place(L, R))
  BY <1>3 DEF PassOne, PlaceOK, Place
<1> QED BY <1>4 DEF a, b

LEMMA GrowPasses ==
  ASSUME NEW l, Sound(l), ~Shrinks(l), NEW s, TimeStride(l) = s, Late(l) = 0, NEW L \in Nat, NEW R \in Positive
  PROVE  PassOne(l, Place(L, R), Place(s * L, s * R))
<1>1. s \in Nat \ {0}
  BY StrideIs DEF Positive
<1>2. s * L \in Nat /\ s * R \in Positive /\ s * L + 0 = s * L
  BY <1>1 DEF Positive
<1> DEFINE a == s * L  b == s * R
<1>3. a = s * L + 0 /\ b = s * R /\ a \in Nat /\ b \in Positive
  BY <1>2
<1> HIDE DEF a, b
<1>4. PassOne(l, Place(L, R), Place(a, b))
  BY <1>3 DEF PassOne, PlaceOK, Place
<1> QED BY <1>4 DEF a, b

LEMMA EvenPasses ==
  ASSUME NEW l, Sound(l), TimeStride(l) = 1, NEW L \in Nat, NEW R \in Positive, NEW d, Late(l) = d, Shrinks(l) => d = 0
  PROVE  PassOne(l, Place(L, R), Place(L + d, R))
<1>1. d \in Nat /\ 1 * L = L /\ 1 * R = R /\ L + d \in Nat
  BY StrideIs DEF Positive
<1> DEFINE a == L + d
<1>2. a \in Nat /\ a = 1 * L + d /\ (d = 0 => L = 1 * a)
  BY <1>1
<1> HIDE DEF a
<1>3. PassOne(l, Place(L, R), Place(a, R))
  BY <1>1, <1>2 DEF PassOne, PlaceOK, Place
<1> QED BY <1>3 DEF a

LEMMA OneGoes ==
  ASSUME NEW l, NEW x, NEW y, PassOne(l, x, y)
  PROVE  Goes(1, <<l>>, x, y)
<1>1. l.kind # "residual" /\ PlaceOK(y)
  BY DEF PassOne, Sound
<1>2. PassPart(1, l, x, y)
  BY <1>1 DEF PassPart, PassLayer
<1> QED BY <1>2, GoesOne

LEMMA PairGoes ==
  ASSUME NEW k, NEW l, NEW x, NEW y, NEW z, PassOne(k, x, y), PassOne(l, y, z)
  PROVE  Goes(1, <<k, l>>, x, z)
<1>1. Goes(1, <<k>>, x, y) /\ Goes(1, <<l>>, y, z)
  BY OneGoes
<1>2. Goes(1, <<k>> \o <<l>>, x, z)
  BY <1>1, GoesConcat
<1> QED BY <1>2, PairIs

LEMMA BothGo ==
  ASSUME NEW body, NEW short, NEW x, NEW y, PassAll(body, x, y), PassAll(short, x, y), PlaceOK(y)
  PROVE  Goes(1, << ResidualOf(body, short) >>, x, y)
<1> DEFINE l == ResidualOf(body, short)
<1>1. l.kind = "residual" /\ l.body = body /\ l.short = short
  BY DEF ResidualOf
<1> HIDE DEF l
<1>2. PassPart(1, l, x, y)
  BY <1>1 DEF PassPart, PassLayer
<1> QED BY <1>2, GoesOne DEF l

\* A convolution makes time shorter by its stride, however it is padded.
LEMMA ConvPasses ==
  ASSUME NEW filters, NEW kernel, NEW strides, NEW padding, NEW dilation, kernel[1] \in Positive,
         NEW s, strides[1] = s, s \in Positive, dilation[1] \in Positive, NEW L \in Nat, NEW R \in Positive
  PROVE  PassOne(Conv2d(filters, kernel, strides, padding, dilation), Place(s * L, s * R), Place(L, R))
<1> DEFINE l == Conv2d(filters, kernel, strides, padding, dilation)
<1>1. l.kind = "conv" /\ l.kernel = kernel /\ l.strides = strides /\ l.dilation = dilation
  BY DEF Conv2d, ConvOf
<1> HIDE DEF l
<1>2. Sound(l) /\ Shrinks(l) /\ TimeStride(l) = s
  BY <1>1 DEF Sound, Shrinks, TimeStride
<1> QED BY <1>2, ShrinkPasses DEF l

LEMMA SameConvPasses ==
  ASSUME NEW filters, NEW kernel, NEW strides, NEW padding, NEW dilation, kernel[1] \in Positive,
         strides[1] = 1, dilation[1] \in Positive, NEW L \in Nat, NEW R \in Positive
  PROVE  PassOne(Conv2d(filters, kernel, strides, padding, dilation), Place(L, R), Place(L, R))
<1> DEFINE s == 1
<1>1. strides[1] = s /\ s \in Positive /\ s * L = L /\ s * R = R
  BY DEF Positive
<1> HIDE DEF s
<1>2. PassOne(Conv2d(filters, kernel, strides, padding, dilation), Place(s * L, s * R), Place(L, R))
  BY <1>1, ConvPasses
<1> QED BY <1>1, <1>2

LEMMA OneByOnePasses ==
  ASSUME NEW filters, NEW L \in Nat, NEW R \in Positive
  PROVE  PassOne(OneByOne(filters), Place(L, R), Place(L, R))
<1> DEFINE k == <<1, 1>>
<1>1. k[1] = 1 /\ k[1] \in Positive
  BY DEF Positive
<1>2. OneByOne(filters) = Conv2d(filters, k, k, "causal", k)
  BY DEF OneByOne
<1> HIDE DEF k
<1> QED BY <1>1, <1>2, SameConvPasses

LEMMA PoolPasses ==
  ASSUME NEW st, NEW s, st[1] = s, s \in Positive, NEW L \in Nat, NEW R \in Positive
  PROVE  PassOne(Pool(st), Place(s * L, s * R), Place(L, R)) /\ PassOne(Upsample(st), Place(L, R), Place(s * L, s * R))
<1> DEFINE p == Pool(st)  u == Upsample(st)
<1>1. p.kind = "pool" /\ p.strides = st /\ u.kind = "upsample" /\ u.strides = st
  BY DEF Pool, Upsample
<1> HIDE DEF p, u
<1>2. Sound(p) /\ Shrinks(p) /\ TimeStride(p) = s /\ Sound(u) /\ ~Shrinks(u) /\ TimeStride(u) = s /\ Late(u) = 0
  BY <1>1 DEF Sound, Shrinks, TimeStride, Late
<1> QED BY <1>2, ShrinkPasses, GrowPasses DEF p, u

\* The unit of an encoder: time becomes s1 times shorter.
LEMMA EncoderUnitGoes ==
  ASSUME NEW input, NEW output, NEW s1 \in Positive, NEW s2, NEW d1 \in Positive, NEW d2,
         NEW padding, NEW resnet \in BOOLEAN, NEW L \in Nat, NEW R \in Positive
  PROVE  Goes(1, Conv2dResidualUnit(input, output, << s1, s2 >>, << d1, d2 >>, FALSE, padding, resnet),
              Place(s1 * L, s1 * R), Place(L, R))
<1> DEFINE st == << s1, s2 >>
           three == Conv2d(input, <<3, 3>>, <<1, 1>>, padding, << d1, d2 >>)
           resample == Conv2d(output, Resampling(st), st, padding, <<1, 1>>)
           pool == IF st # <<1, 1>> THEN <<Pool(st)>> ELSE <<>>
           one == IF input # output THEN <<OneByOne(output)>> ELSE <<>>
           short == pool \o one
           x == Place(s1 * L, s1 * R)  y == Place(L, R)
           u == Conv2dResidualUnit(input, output, st, << d1, d2 >>, FALSE, padding, resnet)
<1>1. u = IF resnet THEN << ResidualOf(<< three, resample >>, short) >> ELSE << three, resample >>
  <2>1. UnitBody(input, output, st, << d1, d2 >>, FALSE, padding) = << three, resample >>
    BY DEF UnitBody, InOrder, PreActivatedConv2d
  <2>2. UnitShortcut(input, output, st, FALSE) = (pool \o one) \o <<>>
    BY DEF UnitShortcut
  <2>3. (pool \o one) \o <<>> = short
    OBVIOUS
  <2> HIDE DEF st, three, resample, pool, one, short
  <2> QED BY <2>1, <2>2, <2>3 DEF Conv2dResidualUnit, Unit
<1>2. s1 * L \in Nat /\ s1 * R \in Positive
  BY DEF Positive
<1>3. PassOne(three, x, x)
  <2> DEFINE k == <<3, 3>>  i == <<1, 1>>  d == << d1, d2 >>  a == s1 * L  b == s1 * R
  <2>1. k[1] \in Positive /\ i[1] = 1 /\ d[1] \in Positive /\ a \in Nat /\ b \in Positive
    BY <1>2 DEF Positive
  <2> HIDE DEF k, i, d, a, b
  <2>2. PassOne(Conv2d(input, k, i, padding, d), Place(a, b), Place(a, b))
    BY <2>1, SameConvPasses
  <2> QED BY <2>2 DEF k, i, d, a, b
<1>4. PassOne(resample, x, y)
  <2> DEFINE k == Resampling(st)  d == <<1, 1>>
  <2>1. st[1] = s1 /\ d[1] \in Positive
    BY DEF Positive
  <2>2. k[1] \in Positive
    <3>1. Larger(3, 2 * s1) \in Positive
      BY DEF Larger, Positive
    <3> QED BY <3>1 DEF Resampling
  <2> HIDE DEF k, d, st
  <2>3. PassOne(Conv2d(output, k, st, padding, d), Place(s1 * L, s1 * R), Place(L, R))
    BY <2>1, <2>2, ConvPasses
  <2> QED BY <2>3 DEF k, d
<1>5. PassOne(Pool(st), x, y) /\ PassOne(OneByOne(output), y, y) /\ PlaceOK(y) /\ (st = <<1, 1>> => x = y)
  <2>1. st[1] = s1
    OBVIOUS
  <2>2. PassOne(OneByOne(output), y, y) /\ PlaceOK(y)
    BY OneByOnePasses DEF PlaceOK, Place
  <2>3. st = <<1, 1>> => x = y
    <3>1. st = <<1, 1>> => s1 = 1
      OBVIOUS
    <3>2. 1 * L = L /\ 1 * R = R
      BY DEF Positive
    <3> QED BY <3>1, <3>2
  <2> HIDE DEF st
  <2>4. PassOne(Pool(st), x, y)
    BY <2>1, PoolPasses
  <2> QED BY <2>2, <2>3, <2>4
<1> HIDE DEF three, resample, x, y, u
<1>6. CASE ~resnet
  BY <1>1, <1>3, <1>4, <1>6, PairGoes DEF u, x, y
<1>7. CASE resnet
  <2>1. PassAll(<< three, resample >>, x, y)
    BY <1>3, <1>4, ThroughPair
  <2>2. PassAll(short, x, y)
    <3>1. CASE st # <<1, 1>> /\ input # output
      <4>1. short = << Pool(st), OneByOne(output) >>
        BY <3>1, PairIs
      <4> HIDE DEF short, st
      <4> QED BY <1>5, <4>1, ThroughPair
    <3>2. CASE st # <<1, 1>> /\ input = output
      <4>1. short = << Pool(st) >>
        BY <3>2
      <4> HIDE DEF short, st
      <4> QED BY <1>5, <4>1, ThroughSingle
    <3>3. CASE st = <<1, 1>> /\ input # output
      <4>1. short = << OneByOne(output) >> /\ x = y
        BY <1>5, <3>3
      <4> HIDE DEF short, st
      <4> QED BY <1>5, <4>1, ThroughSingle
    <3>4. CASE st = <<1, 1>> /\ input = output
      <4>1. short = <<>> /\ x = y
        BY <1>5, <3>4
      <4> HIDE DEF short, st
      <4> QED BY <4>1, ThroughNothing
    <3> QED BY <3>1, <3>2, <3>3, <3>4
  <2> HIDE DEF short
  <2>3. Goes(1, << ResidualOf(<< three, resample >>, short) >>, x, y)
    BY <1>5, <2>1, <2>2, BothGo
  <2> QED BY <1>1, <1>7, <2>3 DEF u, x, y
<1> QED BY <1>6, <1>7

\* The unit of a decoder: time becomes s1 times longer.
LEMMA DecoderUnitGoes ==
  ASSUME NEW input, NEW output, NEW s1 \in Positive, NEW s2, NEW d1 \in Positive, NEW d2,
         NEW padding \in {"same", "causal"}, NEW resnet \in BOOLEAN, NEW L \in Nat, NEW R \in Positive
  PROVE  Goes(1, Conv2dResidualUnit(input, output, << s1, s2 >>, << d1, d2 >>, TRUE, padding, resnet),
              Place(L, R), Place(s1 * L, s1 * R))
<1> DEFINE st == << s1, s2 >>
           three == Conv2d(output, <<3, 3>>, <<1, 1>>, padding, << d1, d2 >>)
           resample == IF st # <<1, 1>>
                       THEN [kind |-> "transpose", filters |-> output, kernel |-> Resampling(st), strides |-> st, time |-> padding]
                       ELSE Conv2d(output, Resampling(st), st, padding, <<1, 1>>)
           up == IF st # <<1, 1>> THEN <<Upsample(st)>> ELSE <<>>
           one == IF input # output THEN <<OneByOne(output)>> ELSE <<>>
           short == one \o up
           x == Place(L, R)  y == Place(s1 * L, s1 * R)
           u == Conv2dResidualUnit(input, output, st, << d1, d2 >>, TRUE, padding, resnet)
<1>1. u = IF resnet THEN << ResidualOf(<< resample, three >>, short) >> ELSE << resample, three >>
  <2>1. UnitBody(input, output, st, << d1, d2 >>, TRUE, padding) = << resample, three >>
    BY DEF UnitBody, InOrder, PreActivatedConv2d
  <2>2. UnitShortcut(input, output, st, TRUE) = (<<>> \o one) \o up
    BY DEF UnitShortcut
  <2>3. (<<>> \o one) \o up = short
    OBVIOUS
  <2> HIDE DEF st, three, resample, up, one, short
  <2> QED BY <2>1, <2>2, <2>3 DEF Conv2dResidualUnit, Unit
<1>2. s1 * L \in Nat /\ s1 * R \in Positive
  BY DEF Positive
<1>3. PassOne(three, y, y)
  <2> DEFINE k == <<3, 3>>  i == <<1, 1>>  d == << d1, d2 >>  a == s1 * L  b == s1 * R
  <2>1. k[1] \in Positive /\ i[1] = 1 /\ d[1] \in Positive /\ a \in Nat /\ b \in Positive
    BY <1>2 DEF Positive
  <2> HIDE DEF k, i, d, a, b
  <2>2. PassOne(Conv2d(output, k, i, padding, d), Place(a, b), Place(a, b))
    BY <2>1, SameConvPasses
  <2> QED BY <2>2 DEF k, i, d, a, b
<1>s. st[1] = s1 /\ (st = <<1, 1>> => x = y)
  <2>1. st = <<1, 1>> => s1 = 1
    OBVIOUS
  <2>2. 1 * L = L /\ 1 * R = R
    BY DEF Positive
  <2> QED BY <2>1, <2>2
<1>4. PassOne(resample, x, y)
  <2> DEFINE k == Resampling(st)  d == <<1, 1>>
  <2>1. d[1] \in Positive
    BY DEF Positive
  <2>2. k[1] \in Positive
    <3>1. Larger(3, 2 * s1) \in Positive
      BY DEF Larger, Positive
    <3> QED BY <3>1 DEF Resampling
  <2>3. CASE st # <<1, 1>>
    <3>1. resample.kind = "transpose" /\ resample.kernel = k /\ resample.strides = st
      BY <2>3
    <3> HIDE DEF resample, st, x, y, k
    <3>2. Sound(resample) /\ ~Shrinks(resample) /\ TimeStride(resample) = s1 /\ Late(resample) = 0
      BY <1>s, <2>2, <3>1 DEF Sound, Shrinks, TimeStride, Late
    <3> QED BY <3>2, GrowPasses DEF x, y
  <2>4. CASE st = <<1, 1>>
    <3>1. resample = Conv2d(output, k, st, padding, d) /\ s1 = 1
      BY <2>4
    <3> HIDE DEF resample, st, k, d
    <3>2. PassOne(resample, x, x)
      BY <1>s, <2>1, <2>2, <3>1, SameConvPasses
    <3> HIDE DEF x, y
    <3> QED BY <1>s, <2>4, <3>2
  <2> QED BY <2>3, <2>4
<1>5. PassOne(Upsample(st), x, y) /\ PassOne(OneByOne(output), x, x) /\ PlaceOK(y)
  <2>1. PassOne(OneByOne(output), x, x)
    BY OneByOnePasses
  <2>2. PlaceOK(y)
    BY <1>2 DEF PlaceOK, Place
  <2> HIDE DEF st
  <2>4. PassOne(Upsample(st), x, y)
    BY <1>s, PoolPasses
  <2> QED BY <2>1, <2>2, <2>4
<1> HIDE DEF three, resample, x, y, u
<1>6. CASE ~resnet
  BY <1>1, <1>3, <1>4, <1>6, PairGoes DEF u, x, y
<1>7. CASE resnet
  <2>1. PassAll(<< resample, three >>, x, y)
    BY <1>3, <1>4, ThroughPair
  <2>2. PassAll(short, x, y)
    <3>1. CASE st # <<1, 1>> /\ input # output
      <4>1. short = << OneByOne(output), Upsample(st) >>
        BY <3>1, PairIs
      <4> HIDE DEF short, st
      <4> QED BY <1>5, <4>1, ThroughPair
    <3>2. CASE st # <<1, 1>> /\ input = output
      <4>1. short = << Upsample(st) >>
        BY <3>2
      <4> HIDE DEF short, st
      <4> QED BY <1>5, <4>1, ThroughSingle
    <3>3. CASE st = <<1, 1>> /\ input # output
      <4>1. short = << OneByOne(output) >> /\ x = y
        BY <1>s, <3>3
      <4> HIDE DEF short, st
      <4> QED BY <1>5, <4>1, ThroughSingle
    <3>4. CASE st = <<1, 1>> /\ input = output
      <4>1. short = <<>> /\ x = y
        BY <1>s, <3>4
      <4> HIDE DEF short, st
      <4> QED BY <4>1, ThroughNothing
    <3> QED BY <3>1, <3>2, <3>3, <3>4
  <2> HIDE DEF short
  <2>3. Goes(1, << ResidualOf(<< resample, three >>, short) >>, x, y)
    BY <1>5, <2>1, <2>2, BothGo
  <2> QED BY <1>1, <1>7, <2>3 DEF u, x, y
<1> QED BY <1>6, <1>7

\* The layers that are not convolutions.
LEMMA PlainPasses ==
  ASSUME NEW l, l.kind \in {"stft", "istft", "delay", "lookahead", "flatten", "reshape"},
         l.kind \in {"delay", "lookahead"} => l.by \in Nat, NEW L \in Nat, NEW R \in Positive
  PROVE  PassOne(l, Place(L, R), Place(L + Late(l), R)) /\ Goes(1, <<l>>, Place(L, R), Place(L + Late(l), R))
<1>1. Sound(l) /\ ~Shrinks(l) /\ TimeStride(l) = 1
  BY DEF Sound, Shrinks, TimeStride
<1> DEFINE d == Late(l)
<1>2. PassOne(l, Place(L, R), Place(L + d, R))
  <2>1. d = Late(l)
    OBVIOUS
  <2> HIDE DEF d
  <2> QED BY <1>1, <2>1, EvenPasses
<1> QED BY <1>2, OneGoes

LEMMA DenseGoes ==
  ASSUME NEW middle, NEW filters, NEW L \in Nat, NEW R \in Positive
  PROVE  Goes(1, << ResidualOf(<<OneByOne(filters)>>, <<OneByOne(middle), OneByOne(filters)>>) >>, Place(L, R), Place(L, R))
<1> DEFINE x == Place(L, R)  a == OneByOne(filters)  m == OneByOne(middle)
<1>1. PassOne(a, x, x) /\ PassOne(m, x, x) /\ PlaceOK(x)
  BY OneByOnePasses DEF PlaceOK, Place
<1> HIDE DEF x, a, m
<1>2. PassAll(<<a>>, x, x) /\ PassAll(<<m, a>>, x, x)
  BY <1>1, ThroughSingle, ThroughPair
<1> QED BY <1>1, <1>2, BothGo DEF x, a, m

--------------------------------------------------------------------------------
(* The stream of the encoder.                                              *)

\* A delay makes a latency a number of strides.
LEMMA DelayIs ==
  ASSUME NEW s \in Positive, NEW lat \in Nat
  PROVE  LET d == RequiredStepwiseDelay(s, lat)
         IN d \in Nat /\ (lat + d) \div s \in Nat /\ s * ((lat + d) \div s) = lat + d
<1> DEFINE a == lat % s  p == lat \div s  d == RequiredStepwiseDelay(s, lat)
<1>1. s \in Nat \ {0} /\ a \in 0 .. s - 1 /\ lat = s * p + a /\ p \in Nat
  BY DEF Positive
<1>2. d = (s - a) % s
  BY DEF RequiredStepwiseDelay
<1> HIDE DEF a, p, d
<1>3. \E k \in Nat : d \in Nat /\ lat + d = s * k
  <2>1. CASE a = 0
    <3>1. d = 0
      BY <1>1, <1>2, <2>1
    <3>2. lat + d = s * p
      BY <1>1, <2>1, <3>1
    <3> QED BY <1>1, <3>1, <3>2
  <2>2. CASE a # 0
    <3>1. d = s - a
      BY <1>1, <1>2, <2>2
    <3>2. s * p \in Nat /\ s * (p + 1) = s * p + s
      BY <1>1
    <3>3. d \in Nat /\ lat + d = s * (p + 1) /\ p + 1 \in Nat
      BY <1>1, <3>1, <3>2
    <3> QED BY <3>3
  <2> QED BY <2>1, <2>2
<1>4. PICK k \in Nat : d \in Nat /\ lat + d = s * k
  BY <1>3
<1>5. (lat + d) \div s = k
  <2> DEFINE n == lat + d
  <2>1. n \in Int /\ n = s * k + 0 /\ 0 \in 0 .. s - 1 /\ k \in Int
    BY <1>1, <1>4
  <2> HIDE DEF n
  <2>2. n \div s = k
    BY <1>1, <2>1, RemainderIs
  <2> QED BY <2>2 DEF n
<1> QED BY <1>4, <1>5 DEF d

\* What the layers of n levels make of a stream, of a group's channels or of all.
EncoderGoes(c, T, lat, acc, n) ==
  /\ acc.latency \in Nat
  /\ Goes(2, acc.layers, Place(lat, T[0]), Place(acc.latency, T[n]))
  /\ ~Joined(c, n) => Goes(1, acc.layers, Place(lat, T[0]), Place(acc.latency, T[n]))

LEMMA GatherGoes ==
  ASSUME NEW c, EncoderWorks(c), NEW T, NEW lat, NEW n \in 0 .. Len(c.ratios), NEW acc, EncoderGoes(c, T, lat, acc, n),
         NEW joins \in BOOLEAN, joins <=> Recombo(c) = n
  PROVE  /\ Goes(2, Gathered(c, acc, joins), Place(lat, T[0]), Place(acc.latency, T[n]))
         /\ ~Joined(c, n + 1) => Goes(1, Gathered(c, acc, joins), Place(lat, T[0]), Place(acc.latency, T[n]))
<1> DEFINE x == Place(lat, T[0])  y == Place(acc.latency, T[n])
<1>1. /\ c.splits \in Nat /\ IF c.splits = 0 THEN Recombo(c) = -2 ELSE Recombo(c) \in 0 .. Len(c.ratios)
      /\ Len(c.ratios) \in Nat
  BY ConfigIs DEF EncoderWorks, EncoderMakes
<1>2. n \in Nat /\ n + 1 \in Nat
  BY <1>1
<1>3. Goes(2, acc.layers, x, y) /\ (~Joined(c, n) => Goes(1, acc.layers, x, y))
  BY DEF EncoderGoes
<1> HIDE DEF x, y
<1>4. CASE joins
  <2>0. Recombo(c) = n /\ n # -2 /\ ~(n < n) /\ n < n + 1
    BY <1>2, <1>4
  <2>1. ~Joined(c, n) /\ Joined(c, n + 1)
    BY <1>1, <2>0 DEF Joined
  <2>2. Goes(2, << Parallel(acc.layers, c.splits) >>, x, y)
    BY <1>3, <2>1, GoesApart
  <2>3. Gathered(c, acc, joins) = << Parallel(acc.layers, c.splits) >>
    BY <1>4 DEF Gathered
  <2> QED BY <2>1, <2>2, <2>3 DEF x, y
<1>5. CASE ~joins
  <2>1. ~Joined(c, n + 1) => ~Joined(c, n)
    <3>1. Recombo(c) \in Int
      BY <1>1
    <3>2. Recombo(c) < n => Recombo(c) < n + 1
      BY <1>2, <3>1
    <3> QED BY <3>2 DEF Joined
  <2>2. Gathered(c, acc, joins) = acc.layers
    BY <1>5 DEF Gathered
  <2> QED BY <1>3, <2>1, <2>2 DEF x, y
<1> QED BY <1>4, <1>5

\* What the strides of a configuration make of time.
LEMMA TimesAre ==
  ASSUME NEW c, EncoderWorks(c), NEW T, TimesUp(c, T), NEW i \in 1 .. Len(c.ratios)
  PROVE  /\ c.ratios[i] = << c.ratios[i][1], c.ratios[i][2] >> /\ c.ratios[i][1] \in Positive
         /\ T[i] \in Positive /\ T[i - 1] \in Positive /\ T[i - 1] = c.ratios[i][1] * T[i]
<1> DEFINE N == Len(c.ratios)  x == Pick1(c.ratios)  s1 == c.ratios[i][1]
<1>1. N \in Nat /\ c.ratios[i] = << c.ratios[i][1], c.ratios[i][2] >> /\ s1 \in Positive
  BY ConfigIs DEF EncoderWorks, EncoderMakes
<1>2. DOMAIN c.ratios = 1 .. N
  BY DEF EncoderWorks, CodecConfig
<1>3. Len(x) = N /\ x[i] = s1
  BY <1>1, <1>2 DEF Pick1
<1>4. EncoderSuffixes(T, x)
  BY DEF TimesUp
<1> HIDE DEF x, s1, N
<1>5. i \in 1 .. N /\ i \in 0 .. N /\ i - 1 \in 0 .. N
  BY <1>1 DEF N
<1>6. T[i] \in Positive /\ T[i - 1] \in Positive /\ T[i - 1] = T[i] * s1
  BY <1>3, <1>4, <1>5 DEF EncoderSuffixes
<1> DEFINE t == T[i]
<1>7. t * s1 = s1 * t
  <2>1. t \in Positive
    BY <1>6
  <2> HIDE DEF t
  <2> QED BY <1>1, <2>1 DEF Positive
<1> QED BY <1>1, <1>6, <1>7 DEF s1

LEMMA EndsAre ==
  ASSUME NEW c, EncoderWorks(c), NEW T, TimesUp(c, T)
  PROVE  Len(c.ratios) \in Nat /\ T[Len(c.ratios)] = 1 /\ T[0] \in Positive /\ T[0] = ProductOf(Pick1(c.ratios))
<1> DEFINE N == Len(c.ratios)  x == Pick1(c.ratios)
<1>1. N \in Nat
  BY ConfigIs DEF EncoderWorks, EncoderMakes
<1>2. DOMAIN c.ratios = 1 .. N
  BY DEF EncoderWorks, CodecConfig
<1>3. Len(x) = N /\ 0 \in 0 .. N
  BY <1>1, <1>2 DEF Pick1
<1>4. EncoderSuffixes(T, x)
  BY DEF TimesUp
<1> HIDE DEF x, N
<1> QED BY <1>1, <1>3, <1>4 DEF EncoderSuffixes, x, N

LEMMA TimesExist ==
  ASSUME NEW c, EncoderWorks(c)
  PROVE  \E T : TimesUp(c, T)
<1> DEFINE N == Len(c.ratios)  s == Pick1(c.ratios)
<1>1. N \in Nat /\ \A i \in 1 .. N : c.ratios[i][1] \in Positive
  BY ConfigIs DEF EncoderWorks, EncoderMakes
<1>2. DOMAIN c.ratios = 1 .. N
  BY DEF EncoderWorks, CodecConfig
<1>3. Len(s) = N /\ \A i \in 1 .. N : s[i] = c.ratios[i][1]
  BY <1>1, <1>2 DEF Pick1
<1> HIDE DEF s, N
<1>4. \E T : EncoderSuffixes(T, s)
  BY <1>1, <1>3, SuffixesExist DEF N
<1> QED BY <1>4 DEF TimesUp, s

LEMMA EncoderStepGoes ==
  ASSUME NEW c, EncoderWorks(c), NEW T, TimesUp(c, T), NEW lat, NEW n \in 0 .. Len(c.ratios) - 1,
         NEW acc, EncoderGoes(c, T, lat, acc, n)
  PROVE  EncoderGoes(c, T, lat, EncoderLevel(c, acc, n + 1), n + 1)
<1> DEFINE i == n + 1  joins == Recombo(c) = i - 1  r == c.ratios[i]  out == acc.out * c.mults[i]
           G == Gathered(c, acc, joins)  w == Width(c, acc, joins)
           delay == RequiredStepwiseDelay(r[1], acc.latency)
           D == IF delay > 0 THEN <<Shifting("delay", delay)>> ELSE <<>>
           u == Conv2dResidualUnit(w, out, r, c.dilation, FALSE, PaddingOf(c), c.resnet)
           new == EncoderLevel(c, acc, i)  e == (acc.latency + delay) \div r[1]
           x == Place(lat, T[0])  y == Place(acc.latency, T[n])  z == Place(acc.latency + delay, T[n])  q == Place(e, T[i])
<1>1. new.layers = (G \o D) \o u /\ new.latency = e
  BY DEF EncoderLevel, Gathered, Width
<1>2. Len(c.ratios) \in Nat /\ i \in 1 .. Len(c.ratios) /\ i - 1 = n /\ n \in 0 .. Len(c.ratios) /\ acc.latency \in Nat
      /\ c.dilation = << c.dilation[1], c.dilation[2] >> /\ c.dilation[1] \in Positive /\ c.resnet \in BOOLEAN
  <2>1. c.dilation[1] \in Positive
    <3>1. c.dilation \in (Nat \ {0}) \X (Nat \ {0})
      BY DEF EncoderWorks, CodecConfig
    <3> QED BY <3>1 DEF Positive
  <2> QED BY <2>1, ConfigIs DEF EncoderWorks, EncoderMakes, EncoderGoes
<1>3. r = << r[1], r[2] >> /\ r[1] \in Positive /\ T[i] \in Positive /\ T[n] \in Positive /\ T[n] = r[1] * T[i]
  <2>1. T[i - 1] = T[n]
    BY <1>2
  <2> HIDE DEF i
  <2> QED BY <1>2, <2>1, TimesAre
<1>4. Goes(2, G, x, y) /\ (~Joined(c, i) => Goes(1, G, x, y))
  <2>1. joins \in BOOLEAN /\ (joins <=> Recombo(c) = n)
    BY <1>2
  <2> HIDE DEF joins
  <2> QED BY <1>2, <2>1, GatherGoes
<1> HIDE DEF G, w, out, joins
<1>5. delay \in Nat /\ e \in Nat /\ r[1] * e = acc.latency + delay
  <2> DEFINE s == r[1]  a == acc.latency
  <2>1. s \in Positive /\ a \in Nat
    BY <1>2, <1>3
  <2> HIDE DEF s, a
  <2>2. LET d == RequiredStepwiseDelay(s, a)
         IN d \in Nat /\ (a + d) \div s \in Nat /\ s * ((a + d) \div s) = a + d
    BY <2>1, DelayIs
  <2> QED BY <2>2 DEF s, a
<1>6. Goes(1, D, y, z)
  <2> DEFINE l == Shifting("delay", delay)  a == acc.latency  t == T[n]
  <2>1. CASE delay > 0
    <3>1. l.kind = "delay" /\ l.by = delay /\ Late(l) = delay /\ D = <<l>>
      BY <2>1 DEF Shifting, Late
    <3>2. a \in Nat /\ t \in Positive
      BY <1>2, <1>3
    <3> HIDE DEF l, D, a, t, delay
    <3>3. Goes(1, <<l>>, Place(a, t), Place(a + delay, t))
      <4>1. Goes(1, <<l>>, Place(a, t), Place(a + Late(l), t))
        BY <1>5, <3>1, <3>2, PlainPasses
      <4> QED BY <3>1, <4>1
    <3> QED BY <3>1, <3>3 DEF a, t
  <2>2. CASE ~(delay > 0)
    <3>1. delay = 0 /\ D = <<>>
      <4> HIDE DEF delay
      <4> QED BY <1>5, <2>2
    <3>2. acc.latency + delay = acc.latency
      <4> HIDE DEF delay
      <4> QED BY <1>2, <3>1
    <3>3. y = z
      BY <3>2
    <3> HIDE DEF y, z, D, delay
    <3> QED BY <3>1, <3>3, GoesNone
  <2> QED BY <2>1, <2>2
<1>7. Goes(1, u, z, q)
  <2> DEFINE s1 == r[1]  s2 == r[2]  d1 == c.dilation[1]  d2 == c.dilation[2]  pad == PaddingOf(c)  net == c.resnet  t == T[i]
  <2>1. u = Conv2dResidualUnit(w, out, << s1, s2 >>, << d1, d2 >>, FALSE, pad, net)
    BY <1>2, <1>3
  <2>2. s1 \in Positive /\ d1 \in Positive /\ net \in BOOLEAN /\ t \in Positive
    BY <1>2, <1>3
  <2>3. z = Place(s1 * e, s1 * t)
    BY <1>3, <1>5
  <2>4. q = Place(e, t)
    OBVIOUS
  <2> HIDE DEF s1, s2, d1, d2, pad, net, t, z, q, u, e
  <2>5. Goes(1, u, Place(s1 * e, s1 * t), Place(e, t))
    BY <1>5, <2>1, <2>2, EncoderUnitGoes
  <2> QED BY <2>3, <2>4, <2>5
<1> HIDE DEF D, u, x, y, z, q, new, i, e
<1>8. ASSUME NEW k \in {1, 2}, Goes(k, G, x, y) PROVE Goes(k, new.layers, x, q)
  <2>1. Goes(k, D, y, z) /\ Goes(k, u, z, q)
    BY <1>6, <1>7, GoesOn
  <2>2. Goes(k, G \o D, x, z)
    BY <1>8, <2>1, GoesConcat
  <2> DEFINE GD == G \o D
  <2> HIDE DEF GD
  <2>3. Goes(k, GD \o u, x, q)
    BY <2>1, <2>2, GoesConcat DEF GD
  <2> QED BY <1>1, <2>3 DEF GD
<1>9. Goes(2, new.layers, x, q) /\ (~Joined(c, i) => Goes(1, new.layers, x, q))
  BY <1>4, <1>8
<1>10. new.latency \in Nat /\ x = Place(lat, T[0]) /\ q = Place(new.latency, T[i])
  BY <1>1, <1>5 DEF x, q
<1>11. EncoderGoes(c, T, lat, new, i)
  BY <1>9, <1>10 DEF EncoderGoes
<1> QED BY <1>11 DEF new, i

LEMMA EncoderLevelsGo ==
  ASSUME NEW c, EncoderWorks(c), NEW T, TimesUp(c, T), NEW lat \in Nat
  PROVE  EncoderGoes(c, T, lat, EncoderLevels(c, lat), Len(c.ratios))
<1> DEFINE N == Len(c.ratios)
<1>1. N \in Nat /\ c.convSize \in Positive /\ T[0] \in Positive
  BY ConfigIs, EndsAre DEF EncoderWorks, EncoderMakes
<1>2. PICK f : EncoderChain(f, c, lat, N)
  BY <1>1, EncoderIs
<1> DEFINE U == {n \in 0 .. N : EncoderGoes(c, T, lat, f[n], n)}
<1>3. 0 \in U
  <2> DEFINE size == c.convSize  pad == PaddingOf(c)  d == c.encoderDepth  k == << size, size >>  i == <<1, 1>>
             l == Conv2d(d, k, i, pad, i)  x == Place(lat, T[0])
  <2>1. f[0].layers = <<l>> /\ f[0].latency = lat
    BY <1>2 DEF EncoderChain, EncoderInput
  <2>2. k[1] \in Positive /\ i[1] = 1 /\ i[1] \in Positive
    BY <1>1 DEF Positive
  <2>3. PassOne(l, x, x)
    <3> HIDE DEF k, i, d, pad
    <3> QED BY <1>1, <2>2, SameConvPasses
  <2> HIDE DEF l, x
  <2>4. Goes(1, <<l>>, x, x) /\ Goes(2, <<l>>, x, x)
    BY <2>3, OneGoes, GoesOn
  <2>5. EncoderGoes(c, T, lat, f[0], 0)
    BY <2>1, <2>4 DEF EncoderGoes, x
  <2>6. 0 \in 0 .. N
    BY <1>1
  <2> QED BY <2>5, <2>6
<1>4. ASSUME NEW n \in 0 .. N - 1, n \in U PROVE n + 1 \in U
  <2>1. n + 1 \in 1 .. N /\ n + 1 \in 0 .. N /\ n + 1 - 1 = n
    BY <1>1
  <2>2. f[n + 1] = EncoderLevel(c, f[n], n + 1)
    BY <1>2, <2>1 DEF EncoderChain
  <2>3. EncoderGoes(c, T, lat, f[n], n)
    BY <1>4
  <2>4. EncoderGoes(c, T, lat, EncoderLevel(c, f[n], n + 1), n + 1)
    BY <2>3, EncoderStepGoes
  <2> QED BY <2>1, <2>2, <2>4
<1>5. N \in U
  <2> HIDE DEF U
  <2>1. \A n \in 0 .. N : n \in U
    BY <1>1, <1>3, <1>4, SetInduction
  <2> QED BY <1>1, <2>1
<1>6. EncoderLevels(c, lat) = f[N]
  BY <1>1, <1>2, EncoderIs
<1> QED BY <1>5, <1>6

\* Audio, a number of hops for each frame of codes, becomes frames of codes, as
\* late as the levels made it.
LEMMA EncoderPasses ==
  ASSUME NEW c, EncoderWorks(c), SpectrostreamStftConfig(c) # Invalid, NEW T, TimesUp(c, T),
         NEW encode, encode = <<SpectrostreamStftConfig(c)>> \o SpectrostreamEncoderConfig(c, FrontendLatency)
  PROVE  /\ EncoderLevels(c, FrontendLatency).latency \in Nat
         /\ Runs(InTime(encode), Place(0, T[0]), Place(EncoderLevels(c, FrontendLatency).latency, 1))
<1> DEFINE N == Len(c.ratios)  lat == FrontendLatency  r == EncoderLevels(c, lat)  joins == Recombo(c) = N
           G == Gathered(c, r, joins)  w == Width(c, r, joins)
           u == Conv2dResidualUnit(w, r.out, <<1, 1>>, <<1, 1>>, FALSE, PaddingOf(c), c.resnet)
           dense == ResidualOf(<<OneByOne(c.features)>>, <<OneByOne(r.bins * r.out), OneByOne(c.features)>>)
           stft == SpectrostreamStftConfig(c)  x == Place(0, T[0])  y == Place(lat, T[0])  z == Place(r.latency, 1)
<1>1. N \in Nat /\ N \in 0 .. N /\ T[N] = 1 /\ T[0] \in Positive /\ c.resnet \in BOOLEAN /\ lat = 1
  BY EndsAre, ConfigIs DEF EncoderWorks, EncoderMakes, FrontendLatency
<1>2. EncoderGoes(c, T, lat, r, N)
  BY <1>1, EncoderLevelsGo
<1>3. r.latency \in Nat
  BY <1>2 DEF EncoderGoes
<1>4. Goes(2, G, y, z)
  <2>1. joins \in BOOLEAN /\ (joins <=> Recombo(c) = N)
    OBVIOUS
  <2> HIDE DEF joins, N, r, lat
  <2>2. Goes(2, G, Place(lat, T[0]), Place(r.latency, T[N]))
    <3>1. Len(c.ratios) = N
      BY DEF N
    <3> QED BY <1>1, <1>2, <2>1, <3>1, GatherGoes
  <2> QED BY <1>1, <2>2
<1>5. encode = <<stft>> \o ((G \o u) \o << Flatten, dense >>)
  <2>1. SpectrostreamEncoderConfig(c, lat) = (G \o u) \o << Flatten, dense >>
    BY DEF SpectrostreamEncoderConfig, EncoderEnd, Gathered, Width
  <2> QED BY <2>1
<1>6. Goes(1, u, z, z)
  <2> DEFINE pad == PaddingOf(c)  net == c.resnet  out == r.out  one == 1  L == r.latency
  <2>1. one \in Positive /\ one * L = L /\ one * one = one /\ net \in BOOLEAN /\ L \in Nat
    BY <1>1, <1>3 DEF Positive
  <2>2. u = Conv2dResidualUnit(w, out, << one, one >>, << one, one >>, FALSE, pad, net) /\ z = Place(L, one)
    OBVIOUS
  <2> HIDE DEF pad, net, out, one, L, u, z, w
  <2>3. Goes(1, u, Place(one * L, one * one), Place(L, one))
    BY <2>1, <2>2, EncoderUnitGoes
  <2> QED BY <2>1, <2>2, <2>3
<1>7. Goes(1, << Flatten, dense >>, z, z)
  <2> DEFINE L == r.latency  one == 1  f == Flatten
  <2>1. L \in Nat /\ one \in Positive /\ L + 0 = L
    BY <1>3 DEF Positive
  <2>2. f.kind = "flatten" /\ Late(f) = 0
    BY DEF Flatten, Late
  <2> HIDE DEF L, one, f
  <2>3. Goes(1, <<f>>, Place(L, one), Place(L, one))
    <3>1. Goes(1, <<f>>, Place(L, one), Place(L + Late(f), one))
      BY <2>1, <2>2, PlainPasses
    <3> QED BY <2>1, <2>2, <3>1
  <2>4. Goes(1, <<dense>>, Place(L, one), Place(L, one))
    BY <2>1, DenseGoes
  <2> HIDE DEF dense
  <2>5. Goes(1, <<f>> \o <<dense>>, Place(L, one), Place(L, one))
    BY <2>3, <2>4, GoesConcat
  <2>6. Goes(1, << f, dense >>, Place(L, one), Place(L, one))
    BY <2>5, PairIs
  <2> QED BY <2>6 DEF L, one, f
<1>8. Goes(1, <<stft>>, x, y)
  <2> DEFINE t == T[0]
  <2>1. stft.kind = "stft" /\ Late(stft) = 1
    BY DEF SpectrostreamStftConfig, Late
  <2>2. t \in Positive /\ 0 + 1 = 1
    BY <1>1
  <2> HIDE DEF stft, t
  <2> DEFINE z0 == 0
  <2>3. z0 \in Nat /\ z0 + Late(stft) = 1
    BY <2>1
  <2> HIDE DEF z0
  <2>4. Goes(1, <<stft>>, Place(z0, t), Place(z0 + Late(stft), t))
    BY <2>1, <2>2, <2>3, PlainPasses
  <2> QED BY <1>1, <2>3, <2>4 DEF t, z0
<1> HIDE DEF G, u, dense, stft, x, y, z, lat, r
<1> DEFINE F == << Flatten, dense >>  H == G \o u
<1>9. Goes(2, H, y, z)
  <2>1. Goes(2, u, z, z)
    BY <1>6, GoesOn
  <2> QED BY <1>4, <2>1, GoesConcat
<1>10. Goes(2, F, z, z) /\ Goes(2, <<stft>>, x, y)
  BY <1>7, <1>8, GoesOn
<1> HIDE DEF F, H
<1> DEFINE E == H \o F  S == <<stft>>
<1>11. Goes(2, E, y, z)
  BY <1>9, <1>10, GoesConcat
<1>12. Goes(2, S, x, y) /\ encode = S \o E
  BY <1>5, <1>10 DEF H, F
<1> HIDE DEF E, S
<1>13. Goes(2, encode, x, z)
  BY <1>11, <1>12, GoesConcat
<1>14. Runs(InTime(encode), x, z)
  BY <1>13, InTimeRuns
<1> QED BY <1>3, <1>14 DEF x, z, r, lat

--------------------------------------------------------------------------------
(* The stream of the decoder.                                              *)

\* The values for each frame after n levels.
Now(T, k) == Place(0, T[k])
\* What the layers make of a stream of frames, before and after the groups part.
DecoderGoes(c, T, acc, n) ==
  /\ ~Parted(c, n) => Goes(1, acc.layers, Place(0, 1), Now(T, Len(c.ratios) - n))
  /\ Parted(c, n) => \E y : Goes(1, acc.apart, Place(0, 1), y) /\ Goes(1, acc.layers, y, Now(T, Len(c.ratios) - n))

LEMMA LevelGoes ==
  ASSUME NEW c, EncoderWorks(c), NEW T, TimesUp(c, T), NEW i \in 1 .. Len(c.ratios), NEW input, NEW output
  PROVE  Goes(1, Conv2dResidualUnit(input, output, c.ratios[i], c.dilation, TRUE, PaddingOf(c), c.resnet),
              Now(T, i), Now(T, i - 1))
<1> DEFINE r == c.ratios[i]  s1 == r[1]  s2 == r[2]  d1 == c.dilation[1]  d2 == c.dilation[2]
           pad == PaddingOf(c)  net == c.resnet  t == T[i]  o == 0
           u == Conv2dResidualUnit(input, output, r, c.dilation, TRUE, pad, net)
<1>1. /\ c.dilation = << d1, d2 >> /\ d1 \in Positive /\ net \in BOOLEAN /\ pad \in {"same", "causal"}
  <2>1. c.dilation \in (Nat \ {0}) \X (Nat \ {0})
    BY DEF EncoderWorks, CodecConfig
  <2>2. d1 \in Positive
    BY <2>1 DEF Positive
  <2> QED BY <2>2, ConfigIs DEF EncoderWorks, EncoderMakes
<1>2. r = << s1, s2 >> /\ s1 \in Positive /\ t \in Positive /\ T[i - 1] = s1 * t
  BY TimesAre
<1>3. u = Conv2dResidualUnit(input, output, << s1, s2 >>, << d1, d2 >>, TRUE, pad, net)
  BY <1>1, <1>2
<1>4. o \in Nat /\ s1 * o = o
  BY <1>2 DEF Positive
<1>5. Now(T, i) = Place(o, t) /\ Now(T, i - 1) = Place(o, s1 * t)
  BY <1>2 DEF Now
<1> HIDE DEF s1, s2, d1, d2, pad, net, t, o, u
<1>6. Goes(1, u, Place(o, t), Place(s1 * o, s1 * t))
  BY <1>1, <1>2, <1>3, <1>4, DecoderUnitGoes
<1> QED BY <1>4, <1>5, <1>6 DEF u, pad, net

LEMMA DecoderStepGoes ==
  ASSUME NEW c, EncoderWorks(c), NEW T, TimesUp(c, T), NEW n \in 0 .. Len(c.ratios) - 1,
         NEW acc, DecoderGoes(c, T, acc, n)
  PROVE  DecoderGoes(c, T, DecoderStep(c, acc, n + 1), n + 1)
<1> DEFINE N == Len(c.ratios)  i == N - n  parts == Recombo(c) = i - 1  out == RoundedRatio(acc.out, c.mults[i])
           wide == IF parts THEN out * c.splits ELSE out
           u == Conv2dResidualUnit(acc.input, wide, c.ratios[i], c.dilation, TRUE, PaddingOf(c), c.resnet)
           L == acc.layers \o u
           new == DecoderStep(c, acc, n + 1)
           x == Place(0, 1)  p == Now(T, i)  q == Now(T, i - 1)
<1>1. /\ N \in Nat /\ n \in Nat /\ i \in 1 .. N /\ i = N - n /\ N + 1 - (n + 1) = i /\ N - (n + 1) = i - 1
      /\ c.splits \in Nat
      /\ IF c.splits = 0 THEN Recombo(c) = -2 ELSE Recombo(c) \in 0 .. N
  <2>1. N \in Nat /\ c.splits \in Nat /\ IF c.splits = 0 THEN Recombo(c) = -2 ELSE Recombo(c) \in 0 .. N
    BY ConfigIs DEF EncoderWorks, EncoderMakes
  <2>2. n \in Nat /\ i \in 1 .. N /\ i = N - n /\ N + 1 - (n + 1) = i /\ N - (n + 1) = i - 1
    <3>1. N \in Nat /\ n \in 0 .. N - 1
      BY <2>1
    <3> HIDE DEF N
    <3> QED BY <3>1
  <2> HIDE DEF N, i
  <2> QED BY <2>1, <2>2
<1>2. (parts => new.layers = <<>> /\ new.apart = L) /\ (~parts => new.layers = L /\ new.apart = acc.apart)
  <2>1. new = DecoderLevel(c, acc, N + 1 - (n + 1))
    BY DEF DecoderStep
  <2>2. new = DecoderLevel(c, acc, i)
    BY <1>1, <2>1
  <2> HIDE DEF new, i
  <2>3. new = [layers |-> IF parts THEN <<>> ELSE L, apart |-> IF parts THEN L ELSE acc.apart, input |-> wide, out |-> out]
    BY <2>2 DEF DecoderLevel, LevelUpTo, LevelUp, Parting
  <2> HIDE DEF L, parts, wide, out
  <2> QED BY <2>3
<1>3. /\ parts => c.splits # 0 /\ ~Parted(c, n) /\ Parted(c, n + 1)
      /\ ~parts => (Parted(c, n + 1) <=> Parted(c, n))
  <2>1. Recombo(c) \in Int /\ (c.splits = 0 => Recombo(c) = -2) /\ (c.splits # 0 => Recombo(c) \in 0 .. N)
    BY <1>1
  <2>2. parts <=> Recombo(c) = N - n - 1
    BY <1>1
  <2> HIDE DEF parts, i, N
  <2>3. parts => c.splits # 0
    BY <1>1, <2>1, <2>2
  <2>4. Parted(c, n) <=> c.splits # 0 /\ Recombo(c) >= N - n
    BY DEF Parted, N
  <2>5. Parted(c, n + 1) <=> c.splits # 0 /\ Recombo(c) >= N - (n + 1)
    BY DEF Parted, N
  <2> QED BY <1>1, <2>1, <2>2, <2>3, <2>4, <2>5
<1>4. Goes(1, u, p, q)
  <2> DEFINE input == acc.input
  <2> HIDE DEF i, wide, input
  <2> QED BY <1>1, LevelGoes DEF input
<1>5. Now(T, Len(c.ratios) - n) = p /\ Now(T, Len(c.ratios) - (n + 1)) = q
  BY <1>1
<1> HIDE DEF new, u, p, q, parts, i, wide, out
<1>6. ASSUME ~Parted(c, n) PROVE DecoderGoes(c, T, new, n + 1)
  <2>1. Goes(1, acc.layers, x, p)
    BY <1>5, <1>6 DEF DecoderGoes
  <2> HIDE DEF x
  <2>2. Goes(1, L, x, q)
    BY <1>4, <2>1, GoesConcat
  <2> HIDE DEF L
  <2>3. CASE parts
    <3> DEFINE none == <<>>
    <3>1. Goes(1, none, q, q)
      BY GoesNone
    <3> HIDE DEF none
    <3>2. Goes(1, new.apart, x, q) /\ Goes(1, new.layers, q, q)
      BY <1>2, <2>2, <2>3, <3>1 DEF none
    <3> QED BY <1>3, <1>5, <2>3, <3>2 DEF DecoderGoes, x
  <2>4. CASE ~parts
    BY <1>2, <1>3, <1>5, <1>6, <2>2, <2>4 DEF DecoderGoes, x
  <2> QED BY <2>3, <2>4
<1>7. ASSUME Parted(c, n) PROVE DecoderGoes(c, T, new, n + 1)
  <2>1. PICK y : Goes(1, acc.apart, x, y) /\ Goes(1, acc.layers, y, p)
    BY <1>5, <1>7 DEF DecoderGoes
  <2>2. Goes(1, L, y, q)
    BY <1>4, <2>1, GoesConcat
  <2>3. new.layers = L /\ new.apart = acc.apart /\ Parted(c, n + 1)
    BY <1>2, <1>3, <1>7
  <2> QED BY <1>5, <2>1, <2>2, <2>3 DEF DecoderGoes
<1> QED BY <1>6, <1>7 DEF new

LEMMA DecoderStartGoes ==
  ASSUME NEW c, EncoderWorks(c), NEW T, TimesUp(c, T), NEW top, NEW width,
         NEW parts \in BOOLEAN, parts <=> Recombo(c) = Len(c.ratios), NEW wide
  PROVE  DecoderGoes(c, T, Parting(parts, DecoderInput(c, top, wide, width), <<>>, wide, top), 0)
<1> DEFINE N == Len(c.ratios)  DI == DecoderInput(c, top, wide, width)
           dense == ResidualOf(<<OneByOne(width)>>, <<OneByOne(width), OneByOne(width)>>)
           shape == Reshape(DecoderBins(c), top)  pad == PaddingOf(c)  net == c.resnet
           u == Conv2dResidualUnit(wide, wide, <<1, 1>>, <<1, 1>>, TRUE, pad, net)
           new == Parting(parts, DI, <<>>, wide, top)  x == Place(0, 1)
<1>1. /\ N \in Nat /\ c.splits \in Nat /\ net \in BOOLEAN /\ pad \in {"same", "causal"} /\ T[N] = 1
      /\ IF c.splits = 0 THEN Recombo(c) = -2 ELSE Recombo(c) \in 0 .. N
  BY ConfigIs, EndsAre DEF EncoderWorks, EncoderMakes
<1>2. parts => c.splits # 0
  <2>1. N # -2
    BY <1>1
  <2> HIDE DEF N
  <2> QED BY <1>1, <2>1 DEF N
<1>3. Parted(c, 0) <=> parts
  <2>1. Parted(c, 0) <=> c.splits # 0 /\ Recombo(c) >= N - 0
    BY DEF Parted
  <2>2. parts <=> Recombo(c) = N
    OBVIOUS
  <2> HIDE DEF N
  <2> QED BY <1>1, <1>2, <2>1, <2>2
<1>4. Now(T, Len(c.ratios) - 0) = x
  <2>1. N - 0 = N
    BY <1>1
  <2> QED BY <1>1, <2>1 DEF Now
<1>5. Goes(1, DI, x, x)
  <2> DEFINE o == 0  one == 1
  <2>1. o \in Nat /\ one \in Positive /\ one * o = o /\ one * one = one /\ o + o = o
    BY DEF Positive
  <2>2. x = Place(o, one) /\ u = Conv2dResidualUnit(wide, wide, << one, one >>, << one, one >>, TRUE, pad, net)
    OBVIOUS
  <2>3. shape.kind = "reshape" /\ Late(shape) = o
    BY DEF Reshape, Late
  <2>4. DI = << dense, shape >> \o u
    BY DEF DecoderInput
  <2> HIDE DEF o, one, u, pad, net, x, shape, DI
  <2>5. Goes(1, <<dense>>, x, x)
    BY <2>1, <2>2, DenseGoes
  <2> HIDE DEF dense
  <2>6. Goes(1, <<shape>>, x, x)
    <3>1. Goes(1, <<shape>>, Place(o, one), Place(o + Late(shape), one))
      BY <2>1, <2>3, PlainPasses
    <3> QED BY <2>1, <2>2, <2>3, <3>1
  <2>7. Goes(1, u, x, x)
    <3>1. Goes(1, u, Place(o, one), Place(one * o, one * one))
      BY <1>1, <2>1, <2>2, DecoderUnitGoes
    <3> QED BY <2>1, <2>2, <3>1
  <2>8. Goes(1, <<dense>> \o <<shape>>, x, x)
    BY <2>5, <2>6, GoesConcat
  <2> DEFINE s == << dense, shape >>
  <2>9. Goes(1, s, x, x)
    BY <2>8, PairIs
  <2> HIDE DEF s
  <2>10. Goes(1, s \o u, x, x)
    BY <2>7, <2>9, GoesConcat
  <2> QED BY <2>4, <2>10 DEF s
<1> HIDE DEF DI, x
<1>6. new = [layers |-> IF parts THEN <<>> ELSE DI, apart |-> IF parts THEN DI ELSE <<>>, input |-> wide, out |-> top]
  BY DEF Parting
<1> HIDE DEF new
<1>7. CASE ~parts
  <2>1. new.layers = DI
    BY <1>6, <1>7
  <2>2. DecoderGoes(c, T, new, 0)
    BY <1>3, <1>4, <1>5, <1>7, <2>1 DEF DecoderGoes, x
  <2> QED BY <2>2 DEF new, DI
<1>8. CASE parts
  <2> DEFINE none == <<>>
  <2>1. new.layers = none /\ new.apart = DI
    BY <1>6, <1>8
  <2>2. Goes(1, none, x, x)
    BY GoesNone
  <2> HIDE DEF none
  <2>3. DecoderGoes(c, T, new, 0)
    BY <1>3, <1>4, <1>5, <1>8, <2>1, <2>2 DEF DecoderGoes, x
  <2> QED BY <2>3 DEF new, DI
<1> QED BY <1>7, <1>8

LEMMA DecoderLevelsGo ==
  ASSUME NEW c, EncoderWorks(c), NEW T, TimesUp(c, T), NEW start, DecoderGoes(c, T, start, 0)
  PROVE  DecoderGoes(c, T, DecoderLevels(c, start), Len(c.ratios))
<1> DEFINE N == Len(c.ratios)
<1>1. N \in Nat
  BY ConfigIs DEF EncoderWorks, EncoderMakes
<1>2. PICK f : DecoderChain(f, c, start, N)
  BY <1>1, DecoderIs
<1> DEFINE U == {n \in 0 .. N : DecoderGoes(c, T, f[n], n)}
<1>3. 0 \in U
  <2>1. f[0] = start
    BY <1>2 DEF DecoderChain
  <2> QED BY <1>1, <2>1
<1>4. ASSUME NEW n \in 0 .. N - 1, n \in U PROVE n + 1 \in U
  <2>1. n + 1 \in 1 .. N /\ n + 1 \in 0 .. N /\ n + 1 - 1 = n
    BY <1>1
  <2>2. f[n + 1] = DecoderStep(c, f[n], n + 1)
    BY <1>2, <2>1 DEF DecoderChain
  <2>3. DecoderGoes(c, T, f[n], n)
    BY <1>4
  <2> QED BY <2>1, <2>2, <2>3, DecoderStepGoes
<1>5. N \in U
  <2> HIDE DEF U
  <2>1. \A n \in 0 .. N : n \in U
    BY <1>1, <1>3, <1>4, SetInduction
  <2> QED BY <1>1, <2>1
<1>6. DecoderLevels(c, start) = f[N]
  BY <1>1, <1>2, DecoderIs
<1> QED BY <1>5, <1>6

LEMMA DecoderEndGoes ==
  ASSUME NEW c, EncoderWorks(c), NEW T, TimesUp(c, T), NEW r, DecoderGoes(c, T, r, Len(c.ratios))
  PROVE  Goes(2, DecoderEnd(c, r), Place(0, 1), Place(0, T[0]))
<1> DEFINE N == Len(c.ratios)  L == r.layers \o DecoderOutput(c)  x == Place(0, 1)  z == Place(0, T[0])
           ch == IF c.splits = 0 THEN c.channels ELSE c.channels \div c.splits
<1>1. /\ N \in Nat /\ c.splits \in Nat /\ c.convSize \in Positive /\ T[0] \in Positive
      /\ IF c.splits = 0 THEN Recombo(c) = -2 ELSE Recombo(c) \in 0 .. N
  BY ConfigIs, EndsAre DEF EncoderWorks, EncoderMakes
<1>2. Now(T, Len(c.ratios) - Len(c.ratios)) = z
  <2>1. N - N = 0
    BY <1>1
  <2> QED BY <2>1 DEF Now
<1>3. Goes(1, DecoderOutput(c), z, z)
  <2> DEFINE size == c.convSize  pad == PaddingOf(c)  k == << size, size >>  i == <<1, 1>>  t == T[0]  o == 0
  <2>1. DecoderOutput(c) = << Conv2d(ch, k, i, pad, i) >>
    BY DEF DecoderOutput
  <2>2. k[1] \in Positive /\ i[1] = 1 /\ i[1] \in Positive /\ t \in Positive /\ o \in Nat
    BY <1>1 DEF Positive
  <2> HIDE DEF k, i, t, o, pad, ch
  <2>3. PassOne(Conv2d(ch, k, i, pad, i), Place(o, t), Place(o, t))
    BY <2>2, SameConvPasses
  <2>4. Goes(1, << Conv2d(ch, k, i, pad, i) >>, Place(o, t), Place(o, t))
    BY <2>3, OneGoes
  <2> QED BY <2>1, <2>4 DEF o, t
<1>4. DecoderEnd(c, r) = IF c.splits = 0 THEN L ELSE r.apart \o <<Parallel(L, c.splits)>>
  BY DEF DecoderEnd, GroupsApart
<1>5. Parted(c, N) <=> c.splits # 0
  <2>1. N - N = 0 /\ (c.splits # 0 => Recombo(c) \in Nat)
    BY <1>1
  <2>2. c.splits # 0 => Recombo(c) >= N - N
    <3> HIDE DEF N
    <3> QED BY <2>1
  <2> QED BY <2>2 DEF Parted
<1> HIDE DEF x, z
<1>6. CASE c.splits = 0
  <2>1. Goes(1, r.layers, x, z)
    BY <1>2, <1>5, <1>6 DEF DecoderGoes, x
  <2>2. Goes(1, L, x, z)
    BY <1>3, <2>1, GoesConcat
  <2> HIDE DEF L
  <2>3. Goes(2, L, x, z)
    BY <2>2, GoesOn
  <2> QED BY <1>4, <1>6, <2>3 DEF x, z
<1>7. CASE c.splits # 0
  <2>1. PICK y : Goes(1, r.apart, x, y) /\ Goes(1, r.layers, y, z)
    BY <1>2, <1>5, <1>7 DEF DecoderGoes, x
  <2>2. Goes(1, L, y, z)
    BY <1>3, <2>1, GoesConcat
  <2> HIDE DEF L
  <2> DEFINE P == <<Parallel(L, c.splits)>>
  <2>3. Goes(2, P, y, z)
    BY <2>2, GoesApart
  <2>4. Goes(2, r.apart, x, y)
    BY <2>1, GoesOn
  <2> HIDE DEF P
  <2>5. Goes(2, r.apart \o P, x, z)
    BY <2>3, <2>4, GoesConcat
  <2> QED BY <1>4, <1>7, <2>5 DEF P, x, z
<1> QED BY <1>6, <1>7

\* Frames of codes become hops of audio, as late as the decoder looks ahead.
LEMMA DecoderPasses ==
  ASSUME NEW c, EncoderWorks(c), NEW T, TimesUp(c, T),
         NEW decode, decode = SpectrostreamDecoderConfig(c) \o <<SpectrostreamInverseStftConfig(c)>>
  PROVE  Ahead(c) \in Nat /\ Runs(InTime(decode), Place(0, 1), Place(Ahead(c), T[0]))
<1> DEFINE N == Len(c.ratios)  parts == Recombo(c) = N  top == c.decoderDepth * ProductOf(c.mults)
           wide == IF parts THEN top * c.splits ELSE top  width == DecoderBins(c) * top
           start == Parting(parts, DecoderInput(c, top, wide, width), <<>>, wide, top)
           r == DecoderLevels(c, start)  A == DecoderEnd(c, r)
           B == IF c.lookahead = 0 THEN <<>> ELSE <<Shifting("lookahead", Ahead(c))>>
           istft == SpectrostreamInverseStftConfig(c)  x == Place(0, 1)  y == Place(0, T[0])  z == Place(Ahead(c), T[0])
<1>1. T[0] \in Positive /\ T[0] = ProductOf(Pick1(c.ratios)) /\ c.lookahead \in Nat
  BY EndsAre, ConfigIs DEF EncoderWorks, EncoderMakes
<1>2. Ahead(c) \in Nat /\ (c.lookahead = 0 => Ahead(c) = 0)
  <2> DEFINE t == T[0]  a == c.lookahead
  <2>1. Ahead(c) = a * t /\ t \in Positive /\ a \in Nat
    BY <1>1 DEF Ahead
  <2> HIDE DEF t, a
  <2>2. a * t \in Nat /\ (a = 0 => a * t = 0)
    BY <2>1 DEF Positive
  <2> QED BY <2>1, <2>2 DEF a
<1>3. DecoderGoes(c, T, start, 0)
  <2>1. parts \in BOOLEAN /\ (parts <=> Recombo(c) = Len(c.ratios))
    OBVIOUS
  <2> HIDE DEF parts, wide, top, width
  <2> QED BY <2>1, DecoderStartGoes
<1>4. decode = (A \o B) \o <<istft>>
  <2>1. SpectrostreamDecoderConfig(c) = A \o B
    BY DEF SpectrostreamDecoderConfig, DecoderWide, DecoderFrom
  <2> QED BY <2>1
<1> HIDE DEF start
<1>5. DecoderGoes(c, T, r, Len(c.ratios))
  BY <1>3, DecoderLevelsGo
<1> HIDE DEF r
<1>6. Goes(2, A, x, y)
  BY <1>5, DecoderEndGoes
<1>7. Goes(2, B, y, z)
  <2> DEFINE l == Shifting("lookahead", Ahead(c))  t == T[0]  a == Ahead(c)
  <2>1. CASE c.lookahead = 0
    <3>1. B = <<>> /\ y = z
      BY <1>2, <2>1
    <3> HIDE DEF B, y, z
    <3> QED BY <3>1, GoesNone
  <2>2. CASE c.lookahead # 0
    <3> DEFINE o == 0
    <3>1. B = <<l>> /\ l.kind = "lookahead" /\ l.by = a /\ Late(l) = a
      BY <2>2 DEF Shifting, Late
    <3>2. t \in Positive /\ a \in Nat /\ o \in Nat /\ y = Place(o, t) /\ z = Place(a, t) /\ o + a = a
      BY <1>1, <1>2
    <3> HIDE DEF B, l, y, z, t, a, o
    <3>3. Goes(1, <<l>>, Place(o, t), Place(o + Late(l), t))
      BY <3>1, <3>2, PlainPasses
    <3>4. Goes(1, <<l>>, y, z)
      BY <3>1, <3>2, <3>3
    <3> QED BY <3>1, <3>4, GoesOn
  <2> QED BY <2>1, <2>2
<1>8. Goes(2, <<istft>>, z, z)
  <2> DEFINE t == T[0]  a == Ahead(c)
  <2>1. istft.kind = "istft" /\ Late(istft) = 0
    BY DEF SpectrostreamInverseStftConfig, Late
  <2>2. t \in Positive /\ a \in Nat /\ z = Place(a, t) /\ a + 0 = a
    BY <1>1, <1>2
  <2> HIDE DEF istft, t, a, z
  <2>3. Goes(1, <<istft>>, Place(a, t), Place(a + Late(istft), t))
    BY <2>1, <2>2, PlainPasses
  <2>4. Goes(1, <<istft>>, z, z)
    BY <2>1, <2>2, <2>3
  <2> QED BY <2>4, GoesOn
<1> HIDE DEF A, B, istft, x, y, z
<1> DEFINE E == A \o B  S == <<istft>>
<1>9. Goes(2, E, x, z)
  BY <1>6, <1>7, GoesConcat
<1>10. Goes(2, S, z, z) /\ decode = E \o S
  BY <1>4, <1>8
<1> HIDE DEF E, S
<1>11. Goes(2, decode, x, z)
  BY <1>9, <1>10, GoesConcat
<1>12. Runs(InTime(decode), x, z)
  BY <1>11, InTimeRuns
<1> QED BY <1>2, <1>12 DEF x, z

--------------------------------------------------------------------------------
(* A frame through the quantizer: the code of a value, the value of a code.  *)

CodeOf(q, v) == IF v = Absent THEN NoCodes ELSE EmbeddingsToCodes(q, Embedding(v), Unset)
ValueOf(q, code) == IF code = NoCodes THEN Absent ELSE CodesToEmbeddings(q, Truncated(q, code), TRUE)

\* The codes C with offsets, as many as the quantizer expects at one end, are
\* never none, and decode to a number, by look-up as by one-hot.
LEMMA PartDecodes ==
  ASSUME NEW q, QuantizerConfig(q), NEW C, C \in CodesType(q), NEW j \in 1 .. Len(q.books)
  PROVE  /\ Len(Firsts(Spread(q, C), j)) = j /\ Firsts(Spread(q, C), j) # NoCodes
         /\ CodesToEmbeddings(q, Firsts(Spread(q, C), j), TRUE) \in Int
         /\ CodesToEmbeddings(q, Firsts(Spread(q, C), j), FALSE) = CodesToEmbeddings(q, Firsts(Spread(q, C), j), TRUE)
<1> DEFINE K == Len(q.books)  S == Size(q)  o == Firsts(Spread(q, C), j)  z == Values(q, C)
<1>1. /\ K \in Nat \ {0} /\ S \in Nat \ {0} /\ DOMAIN q.books = 1 .. K /\ j \in Nat /\ j >= 1 /\ j \in 0 .. K
      /\ \A i \in 1 .. K : q.books[i] \in Seq(Int) /\ Len(q.books[i]) = S
      /\ \A i \in 1 .. j : i \in 1 .. K
  BY EmptySeq DEF QuantizerConfig, Size
<1>2. Len(o) = j
  <2> DEFINE W == Spread(q, C)
  <2>1. o = [i \in 1 .. j |-> W[i]]
    BY DEF Firsts
  <2> HIDE DEF W, o
  <2> QED BY <1>1, <2>1
<1>3. o # NoCodes
  <2> HIDE DEF o
  <2> QED BY <1>1, <1>2 DEF NoCodes
<1>4. Total(z, j) \in Int
  <2>1. ASSUME NEW i \in 1 .. j PROVE z[i] \in Int
    <3> DEFINE b == q.books[i]  a == C[i] + 1
    <3>1. b \in Seq(Int) /\ Len(b) = S /\ i \in 1 .. K
      BY <1>1
    <3>2. a \in 1 .. S
      <4>1. C \in [1 .. K -> 0 .. S - 1]
        BY DEF CodesType
      <4> HIDE DEF K, S
      <4>2. C[i] \in 0 .. S - 1
        BY <3>1, <4>1
      <4> QED BY <1>1, <4>2
    <3>3. z[i] = b[a]
      BY <3>1 DEF Values
    <3> HIDE DEF a, b, S, z
    <3> QED BY <3>1, <3>2, <3>3
  <2> HIDE DEF z
  <2>2. j \in 0 .. j
    BY <1>1
  <2> QED BY <1>1, <2>1, <2>2, SumStep
<1>5. WithinBook(q, o) = Firsts(C, j)
  BY <1>1, OffsetsComeOff
<1>6. Decoded(q, Firsts(C, j), TRUE) = Total(z, j) /\ Decoded(q, Firsts(C, j), FALSE) = Total(z, j)
  BY <1>1, DecodedIs
<1> HIDE DEF o, z
<1>7. CodesToEmbeddings(q, o, TRUE) = Total(z, j) /\ CodesToEmbeddings(q, o, FALSE) = Total(z, j)
  BY <1>5, <1>6 DEF CodesToEmbeddings
<1> QED BY <1>2, <1>3, <1>4, <1>7 DEF o

LEMMA FrameIsCoded ==
  ASSUME NEW q, QuantizerConfig(q), QuantizerMakes(q), NEW v \in Int, v # Absent
  PROVE  /\ CodeOf(q, v) # NoCodes /\ Truncated(q, CodeOf(q, v)) # NoCodes
         /\ Len(CodeOf(q, v)) = NumExpectedOutputCodes(q)
         /\ CodesToEmbeddings(q, Truncated(q, CodeOf(q, v)), TRUE) \in Int
         /\ JaxCodesToEmbeddings(q, Truncated(q, CodeOf(q, v)), FALSE)
            = CodesToEmbeddings(q, Truncated(q, CodeOf(q, v)), TRUE)
         /\ q.encoded = Unset => JaxEmbeddingsToCodes(q, Embedding(v), Unset) = CodeOf(q, v)
<1> DEFINE K == Len(q.books)  x == Embedding(v)  n == NumExpectedOutputCodes(q)  m == NumExpectedInputCodes(q)
<1>1. K \in Nat \ {0}
  BY EmptySeq DEF QuantizerConfig
<1>2. n \in 1 .. K /\ m \in 1 .. K /\ x \in Int
  <2>1. n \in Nat \ {0} /\ m \in Nat \ {0}
    BY <1>1 DEF QuantizerConfig, NumExpectedInputCodes, NumExpectedOutputCodes
  <2>2. x \in Int
    BY DEF Embedding
  <2> QED BY <1>1, <2>1, <2>2 DEF QuantizerMakes
<1> DEFINE code == CodeOf(q, v)  cut == Truncated(q, code)
<1>3. code = EmbeddingsToCodes(q, x, Unset)
  BY DEF CodeOf
<1> HIDE DEF x, n, m, K
<1>4. PICK C : Greedily(q, x, C)
  BY <1>2, GreedyCodes
<1> DEFINE W == Spread(q, C)  Out(j) == Firsts(W, j)
<1>5. C \in CodesType(q)
  BY <1>4 DEF Greedily
<1>6. code = Out(n)
  <2>1. n \in 0 .. K
    BY <1>1, <1>2
  <2>2. EmbeddingsToCodes(q, x, Unset) = WithOffsets(q, Greedy(q, x, n))
    BY DEF EmbeddingsToCodes, n
  <2>3. Greedy(q, x, n) = Firsts(C, n)
    BY <1>4, <2>1 DEF Greedily, K
  <2>4. WithOffsets(q, Firsts(C, n)) = Out(n)
    BY <1>5, <2>1, OffsetsComeOff DEF K
  <2> QED BY <1>3, <2>2, <2>3, <2>4
<1>7. \A j \in 1 .. K : /\ Len(Out(j)) = j /\ Out(j) # NoCodes /\ CodesToEmbeddings(q, Out(j), TRUE) \in Int
                        /\ CodesToEmbeddings(q, Out(j), FALSE) = CodesToEmbeddings(q, Out(j), TRUE)
  BY <1>5, PartDecodes DEF K
<1>8. \E j \in 1 .. K : cut = Out(j)
  <2>1. CASE n > m
    <3>1. cut = SubSeq(Out(n), 1, m)
      <4> HIDE DEF Out
      <4> QED BY <1>2, <1>6, <1>7, <2>1 DEF Truncated, m
    <3>2. Out(n) = [i \in 1 .. n |-> W[i]] /\ Out(m) = [i \in 1 .. m |-> W[i]]
      BY DEF Firsts
    <3> DEFINE o == Out(n)
    <3>3. o = [i \in 1 .. n |-> W[i]] /\ cut = SubSeq(o, 1, m)
      BY <3>1, <3>2
    <3> HIDE DEF W, o, Out
    <3>4. SubSeq(o, 1, m) = [i \in 1 .. m |-> o[i]]
      <4>0. m \in Nat
        BY <1>1, <1>2
      <4>1. \A i \in 1 .. m : 1 + i - 1 = i /\ 1 + m - 1 = m
        BY <4>0
      <4> QED BY <4>0, <4>1
    <3>5. \A i \in 1 .. m : o[i] = W[i]
      <4>1. \A i \in 1 .. m : i \in 1 .. n
        BY <1>1, <1>2, <2>1
      <4> QED BY <3>3, <4>1
    <3>6. cut = Out(m)
      BY <3>2, <3>3, <3>4, <3>5
    <3> QED BY <1>2, <3>6
  <2>2. CASE ~(n > m)
    <3>1. cut = Out(n)
      <4> HIDE DEF Out
      <4> QED BY <1>2, <1>6, <1>7, <2>2 DEF Truncated, m
    <3> QED BY <1>2, <3>1
  <2> QED BY <2>1, <2>2
<1>9. q.encoded = Unset => JaxEmbeddingsToCodes(q, x, Unset) = code
  <2> SUFFICES ASSUME q.encoded = Unset PROVE JaxEmbeddingsToCodes(q, x, Unset) = code
    OBVIOUS
  <2>1. n = K /\ K # Unset /\ K \notin {Unset, 0}
    BY <1>1 DEF n, NumExpectedOutputCodes, Unset, K
  <2>2. EmbeddingsToCodes(q, x, K) = EmbeddingsToCodes(q, x, Unset)
    BY <2>1 DEF EmbeddingsToCodes, n
  <2>3. JaxEmbeddingsToCodes(q, x, K) = JaxEmbeddingsToCodes(q, x, Unset)
    BY <2>1 DEF JaxEmbeddingsToCodes, n
  <2>4. EmbeddingsToCodes(q, x, K) = JaxEmbeddingsToCodes(q, x, K)
    BY <1>2, QuantizerAgrees DEF K
  <2> QED BY <1>3, <2>2, <2>3, <2>4
<1> HIDE DEF code, cut, Out
<1>10. Len(code) = n /\ code # NoCodes
  BY <1>2, <1>6, <1>7
<1>11. cut # NoCodes /\ CodesToEmbeddings(q, cut, TRUE) \in Int
       /\ CodesToEmbeddings(q, cut, FALSE) = CodesToEmbeddings(q, cut, TRUE)
  BY <1>7, <1>8
<1> QED BY <1>9, <1>10, <1>11 DEF code, cut, x, n, JaxCodesToEmbeddings

\* A stream of values, coded and decoded, is one again.
Again(q, g) == [t \in Int |-> ValueOf(q, CodeOf(q, g[t]))]

LEMMA AgainSignal ==
  ASSUME NEW q, QuantizerConfig(q), QuantizerMakes(q), NEW g \in Signals
  PROVE  Again(q, g) \in Signals /\ \A t \in Int : Again(q, g)[t] = ValueOf(q, CodeOf(q, g[t]))
<1>1. ASSUME NEW t \in Int PROVE ValueOf(q, CodeOf(q, g[t])) \in Int /\ (t <= 0 => ValueOf(q, CodeOf(q, g[t])) = Absent)
  <2>1. g[t] \in Int /\ (t <= 0 => g[t] = Absent)
    BY SignalReads
  <2>2. CASE g[t] = Absent
    <3>1. CodeOf(q, g[t]) = NoCodes
      BY <2>2 DEF CodeOf
    <3> QED BY <3>1 DEF ValueOf, Absent
  <2>3. CASE g[t] # Absent
    BY <2>1, <2>3, FrameIsCoded DEF ValueOf
  <2> QED BY <2>1, <2>2, <2>3
<1> QED BY <1>1 DEF Again, Signals

\* What a codec that can be made is like.
LEMMA CodecRuns ==
  ASSUME NEW c \in Codecs, NEW d, d = SpectroStreamOf(c), d.makes
  PROVE  /\ Hops(c) \in Positive /\ d.latency \in Nat /\ c.lookahead \in Nat /\ Ahead(c) = c.lookahead * Hops(c)
         /\ QuantizerConfig(c.quantizer) /\ QuantizerMakes(c.quantizer)
         /\ Runs(InTime(d.encode), Place(0, Hops(c)), Place(d.latency, 1))
         /\ Runs(InTime(d.decode), Place(0, 1), Place(Ahead(c), Hops(c)))
<1>1. CodecConfig(c)
  BY CodecAssumption
<1>2. /\ EncoderWorks(c) /\ QuantizerMakes(c.quantizer) /\ SpectrostreamStftConfig(c) # Invalid
      /\ d.encode = <<SpectrostreamStftConfig(c)>> \o SpectrostreamEncoderConfig(c, FrontendLatency)
      /\ d.decode = SpectrostreamDecoderConfig(c) \o <<SpectrostreamInverseStftConfig(c)>>
      /\ d.latency = EncoderLevels(c, FrontendLatency).latency
  BY <1>1 DEF SpectroStreamOf, EncoderWorks
<1>3. PICK T : TimesUp(c, T)
  BY <1>2, TimesExist
<1> DEFINE t == T[0]  p == ProductOf(Pick1(c.ratios))  s == c.step
<1>4. t \in Positive /\ t = p
  BY <1>2, <1>3, EndsAre
<1>5. s \in Nat \ {0}
  BY <1>1 DEF CodecConfig
<1>6. Hops(c) = t
  <2>1. Hops(c) = (p * s) \div s
    BY DEF Hops, WaveformToCodesRatio
  <2> HIDE DEF t, p, s
  <2>2. p \in Int /\ p * s \in Int /\ p * s = s * p + 0 /\ 0 \in 0 .. s - 1
    BY <1>4, <1>5 DEF Positive
  <2> DEFINE z == 0  n == p * s
  <2> HIDE DEF z, n
  <2>3. n \div s = p
    BY <1>5, <2>2, RemainderIs DEF z, n
  <2> QED BY <1>4, <2>1, <2>3 DEF n
<1>7. c.lookahead \in Nat /\ Ahead(c) = c.lookahead * t
  BY <1>1, <1>4 DEF CodecConfig, Ahead
<1>8. EncoderLevels(c, FrontendLatency).latency \in Nat
      /\ Runs(InTime(d.encode), Place(0, t), Place(EncoderLevels(c, FrontendLatency).latency, 1))
  BY <1>2, <1>3, EncoderPasses
<1>9. Runs(InTime(d.decode), Place(0, 1), Place(Ahead(c), t))
  BY <1>2, <1>3, DecoderPasses
<1>10. QuantizerConfig(c.quantizer)
  BY <1>1 DEF CodecConfig
<1> HIDE DEF t
<1> QED BY <1>2, <1>4, <1>6, <1>7, <1>8, <1>9, <1>10

\* c, of p and r elements, is a and then b.
InParts(p, r, c, a, b) ==
  c = [t \in 1 .. p + r |-> c[t]] /\ a = [t \in 1 .. p |-> c[t]] /\ b = [t \in 1 .. r |-> c[p + t]]

LEMMA TwoParts ==
  ASSUME NEW p \in Nat, NEW r \in Nat, NEW c, NEW a, NEW b, InParts(p, r, c, a, b)
  PROVE  a \o b = c
<1>1. List(a) /\ Len(a) = p /\ List(b) /\ Len(b) = r
  <2>1. a = [t \in 1 .. p |-> a[t]] /\ b = [t \in 1 .. r |-> b[t]]
    BY DEF InParts
  <2> QED BY <2>1, ListFrom
<1> DEFINE e == a \o b
<1>2. /\ List(e) /\ Len(e) = p + r /\ \A i \in 1 .. p : e[i] = a[i]
      /\ \A i \in 1 .. r : e[p + i] = b[i]
      /\ \A i \in 1 .. p + r : i \in 1 .. p \/ i - p \in 1 .. r
  BY <1>1, ConcatIs
<1> HIDE DEF e
<1>3. ASSUME NEW i \in 1 .. p + r PROVE e[i] = c[i]
  <2>1. CASE i \in 1 .. p
    BY <1>2, <2>1 DEF InParts
  <2>2. CASE i - p \in 1 .. r
    <3> DEFINE j == i - p
    <3>1. j \in 1 .. r /\ p + j = i
      BY <2>2
    <3> HIDE DEF j
    <3>2. e[p + j] = b[j] /\ b[j] = c[p + j]
      BY <1>2, <3>1 DEF InParts
    <3> QED BY <3>1, <3>2
  <2> QED BY <1>2, <2>1, <2>2
<1>4. e = [t \in 1 .. p + r |-> e[t]]
  BY <1>2 DEF List
<1>5. e = c
  BY <1>3, <1>4 DEF InParts
<1> QED BY <1>5 DEF e

LEMMA CellOf ==
  ASSUME NEW H \in Positive, NEW N \in Nat, NEW t \in 1 .. H * N
  PROVE  (t - 1) \div H + 1 \in 1 .. N /\ ((t - 1) % H) + 1 \in Int
<1> DEFINE u == t - 1  k == u \div H
<1>1. H \in Nat \ {0} /\ u \in Nat /\ u < H * N
  BY DEF Positive
<1>2. k \in Int /\ k >= 0 /\ H * k <= u /\ u % H \in Int
  BY <1>1
<1> HIDE DEF u, k
<1>3. k < N
  <2> SUFFICES ASSUME k >= N PROVE FALSE
    BY <1>2
  <2>1. H * (k - N) >= 0
    BY <1>1, <1>2
  <2>2. H * (k - N) = H * k - H * N /\ H * k \in Int /\ H * N \in Int
    BY <1>1, <1>2
  <2> QED BY <1>1, <1>2, <2>1, <2>2
<1>4. k + 1 \in 1 .. N /\ (u % H) + 1 \in Int
  BY <1>2, <1>3
<1> QED BY <1>4 DEF u, k

\* The wave of the frames F.
HopAt(F, H, t) == HopOf(F[(t - 1) \div H + 1], ((t - 1) % H) + 1)
WaveFor(F, H, N) == [t \in Int |-> IF t \in 1 .. H * N THEN HopAt(F, H, t) ELSE Absent]
FedBy(F, H, w, N) == \A t \in 1 .. H * N : w[t] = HopAt(F, H, t)

LEMMA WaveExists ==
  ASSUME NEW H \in Positive, NEW N \in Nat, NEW F, \A k \in 1 .. N : F[k] \in Int
  PROVE  WaveFor(F, H, N) \in Signals /\ FedBy(F, H, WaveFor(F, H, N), N) /\ Silent(WaveFor(F, H, N), H * N)
<1> DEFINE w == WaveFor(F, H, N)
<1>0. H * N \in Int
  BY DEF Positive
<1>1. ASSUME NEW t \in 1 .. H * N PROVE HopAt(F, H, t) \in Int
  <2> DEFINE k == (t - 1) \div H + 1  j == ((t - 1) % H) + 1
  <2>1. k \in 1 .. N /\ j \in Int
    BY CellOf
  <2>2. HopAt(F, H, t) = HopOf(F[k], j)
    BY DEF HopAt
  <2> HIDE DEF k, j
  <2>3. F[k] \in Int
    BY <2>1
  <2> QED BY <2>1, <2>2, <2>3 DEF HopOf, Absent
<1>2. \A t \in Int : w[t] = IF t \in 1 .. H * N THEN HopAt(F, H, t) ELSE Absent
  BY DEF WaveFor
<1>3. w \in [Int -> Int]
  BY <1>1 DEF WaveFor, Absent
<1> HIDE DEF w
<1>4. w \in Signals
  BY <1>2, <1>3 DEF Signals
<1>5. FedBy(F, H, w, N) /\ Silent(w, H * N)
  BY <1>0, <1>2 DEF FedBy, Silent
<1> QED BY <1>4, <1>5 DEF w

\* N is n and m more.
Adds(n, m, N) == N = n + m
\* The block b is the m frames after the first n.
Follows(b, F, n, m) == \A i \in 1 .. m : b[i] = F[n + i]
\* The wave of a block of them.
WaveIn(b, H, m) == [t \in 1 .. H * m |-> HopOf(b[(t - 1) \div H + 1], ((t - 1) % H) + 1)]

LEMMA WaveIs ==
  ASSUME NEW H \in Positive, NEW n \in Nat, NEW m \in Nat, NEW N, Adds(n, m, N), NEW F, NEW w, FedBy(F, H, w, N),
         NEW b, Follows(b, F, n, m)
  PROVE  WaveIn(b, H, m) = Block(w, Place(0, H), n, m)
<1> DEFINE d == H * n
<1>s. N = n + m
  BY DEF Adds
<1>0. H \in Nat \ {0} /\ d \in Nat /\ H * m \in Nat /\ H * N = d + H * m
  BY <1>s DEF Positive
<1>1. ASSUME NEW t \in 1 .. H * m
      PROVE  HopOf(b[(t - 1) \div H + 1], ((t - 1) % H) + 1) = w[d - 0 + t]
  <2> DEFINE u == t - 1  k == u \div H  j == u % H  v == d + t
  <2>1. k + 1 \in 1 .. m /\ u \in Int /\ k \in Int
    BY CellOf, <1>0
  <2>2. (H * n + u) \div H = n + k /\ (H * n + u) % H = j
    <3> HIDE DEF u
    <3> QED BY <2>1, MultipleOff
  <2>3. v \in 1 .. H * N /\ v = d - 0 + t /\ v - 1 = H * n + u
    BY <1>0
  <2> HIDE DEF u, v, k, j
  <2>4. w[v] = HopOf(F[(v - 1) \div H + 1], ((v - 1) % H) + 1)
    BY <2>3 DEF FedBy, HopAt
  <2>5. w[v] = HopOf(F[n + k + 1], j + 1)
    BY <2>2, <2>3, <2>4
  <2> DEFINE i == k + 1
  <2>6. i \in 1 .. m /\ n + i = n + k + 1
    BY <2>1
  <2> HIDE DEF i
  <2>7. b[i] = F[n + i]
    BY <2>6 DEF Follows
  <2>8. w[v] = HopOf(b[i], j + 1)
    BY <2>5, <2>6, <2>7
  <2> QED BY <2>3, <2>8 DEF i, k, j, u
<1>2. Block(w, Place(0, H), n, m) = [t \in 1 .. H * m |-> w[d - 0 + t]]
  BY DEF Block, Place
<1> HIDE DEF d
<1> QED BY <1>1, <1>2 DEF WaveIn

\* The frames that reach the decoder after n, and what is due of new ones then.
Behind(n, late) == Larger(0, n - late)
DueOf(new, late, n) == SubSeq(new, 1 + Larger(0, late - n), Len(new))

\* The codes of m frames of the encoder, and the audio of r of the decoder.
Coding(q, g, L, n, m) == [t \in 1 .. m |-> CodeOf(q, g[n + t - L])]
CodedTo(q, g, L, n) == Coding(q, g, L, 0, n)
Playing(h, H, A, a, r) == [t \in 1 .. H * r |-> h[H * a + t - A]]
AllPlayed(h, H, A, a) == Playing(h, H, A, 0, a)
Then(a, b) == a \o b

LEMMA CodingJoins ==
  ASSUME NEW q, NEW g, NEW L \in Nat, NEW n \in Nat, NEW m \in Nat, NEW N, Adds(n, m, N)
  PROVE  /\ Then(CodedTo(q, g, L, n), Coding(q, g, L, n, m)) = CodedTo(q, g, L, N)
         /\ Len(CodedTo(q, g, L, N)) = N
<1>s. N = n + m
  BY DEF Adds
<1> DEFINE k == Coding(q, g, L, 0, N)  a == Coding(q, g, L, 0, n)  b == Coding(q, g, L, n, m)
<1>1. k = [t \in 1 .. n + m |-> k[t]]
  BY <1>s DEF Coding
<1>2. a = [t \in 1 .. n |-> k[t]]
  <2>1. \A t \in 1 .. n : t \in 1 .. N
    BY <1>s
  <2>2. \A t \in 1 .. n : k[t] = CodeOf(q, g[0 + t - L])
    BY <2>1 DEF Coding
  <2> HIDE DEF k
  <2> QED BY <2>2 DEF Coding
<1>3. b = [t \in 1 .. m |-> k[n + t]]
  <2>1. \A t \in 1 .. m : n + t \in 1 .. N /\ 0 + (n + t) - L = n + t - L
    BY <1>s
  <2>2. \A t \in 1 .. N : k[t] = CodeOf(q, g[0 + t - L])
    BY DEF Coding
  <2> HIDE DEF k
  <2>3. \A t \in 1 .. m : k[n + t] = CodeOf(q, g[n + t - L])
    BY <2>1, <2>2
  <2> QED BY <2>3 DEF Coding
<1> HIDE DEF a, b, k
<1>4. InParts(n, m, k, a, b)
  BY <1>1, <1>2, <1>3 DEF InParts
<1>5. a \o b = k
  BY <1>4, TwoParts
<1>6. Len(k) = N
  <2>1. N \in Nat /\ k = [t \in 1 .. N |-> k[t]]
    BY <1>s, <1>1
  <2> QED BY <2>1, ListFrom
<1> QED BY <1>5, <1>6 DEF a, b, k, CodedTo, Then

LEMMA PlayingJoins ==
  ASSUME NEW h, NEW H \in Positive, NEW A \in Nat, NEW a \in Nat, NEW r \in Nat, NEW b, Adds(a, r, b)
  PROVE  Then(AllPlayed(h, H, A, a), Playing(h, H, A, a, r)) = AllPlayed(h, H, A, b)
<1>s. b = a + r
  BY DEF Adds
<1> DEFINE s == H * a  v == H * r  x == Playing(h, H, A, 0, a)  y == Playing(h, H, A, a, r)
           k == Playing(h, H, A, 0, b)
<1>1. s \in Nat /\ v \in Nat /\ H * b = s + v /\ H * 0 = 0
  BY <1>s DEF Positive
<1>2. x = [t \in 1 .. s |-> h[t - A]] /\ k = [t \in 1 .. s + v |-> h[t - A]]
  <2>1. \A t \in Nat : 0 + t - A = t - A
    OBVIOUS
  <2>2. x = [t \in 1 .. s |-> h[H * 0 + t - A]] /\ k = [t \in 1 .. H * b |-> h[H * 0 + t - A]]
    BY DEF Playing
  <2> HIDE DEF s, v, x, k
  <2> QED BY <1>1, <2>1, <2>2
<1>3. y = [t \in 1 .. v |-> h[s + t - A]]
  BY DEF Playing
<1> HIDE DEF s, v, x, y, k
<1>4. k = [t \in 1 .. s + v |-> k[t]]
  BY <1>2
<1>5. x = [t \in 1 .. s |-> k[t]]
  <2>1. \A t \in 1 .. s : t \in 1 .. s + v
    BY <1>1
  <2> QED BY <1>2, <2>1
<1>6. y = [t \in 1 .. v |-> k[s + t]]
  <2>1. \A t \in 1 .. v : s + t \in 1 .. s + v
    BY <1>1
  <2>2. \A t \in 1 .. s + v : k[t] = h[t - A]
    BY <1>2
  <2>3. \A t \in 1 .. v : k[s + t] = h[s + t - A]
    <3> SUFFICES ASSUME NEW t \in 1 .. v PROVE k[s + t] = h[s + t - A]
      OBVIOUS
    <3> DEFINE u == s + t
    <3>1. u \in 1 .. s + v
      BY <2>1
    <3> HIDE DEF u
    <3>2. k[u] = h[u - A]
      BY <2>2, <3>1
    <3> QED BY <1>1, <3>2 DEF u
  <2> QED BY <1>3, <2>3
<1>7. InParts(s, v, k, x, y)
  BY <1>4, <1>5, <1>6 DEF InParts
<1>8. x \o y = k
  BY <1>1, <1>7, TwoParts
<1> QED BY <1>8 DEF x, y, k, AllPlayed, Then

\* A step of the encoder and the quantizer.
LEMMA FeedGoes ==
  ASSUME NEW q, NEW layers, NEW x, NEW L \in Nat, NEW w, NEW g \in Signals, NEW S,
         NEW y, y = Place(L, 1), Flows(1, InTime(layers), x, y, w, g, S),
         NEW n \in Nat, NEW m \in Nat, NEW N, Adds(n, m, N),
         NEW e, e = StepCodec(layers, S[n], Block(w, x, n, m))
  PROVE  e.past = S[N] /\ CodesOf(q, e.out) = Coding(q, g, L, n, m)
<1>s. N = n + m
  BY DEF Adds
<1> DEFINE out == Block(g, y, n, m)
<1>1. e = [out |-> out, past |-> S[n + m]]
  BY DEF Flows, SteppedAll, StepCodec
<1>2. out = [t \in 1 .. m |-> g[n + t - L]]
  <2>1. out = [t \in 1 .. 1 * m |-> g[1 * n - L + t]]
    BY DEF Block, Place
  <2>2. 1 * m = m /\ \A t \in 1 .. m : 1 * n - L + t = n + t - L
    OBVIOUS
  <2> HIDE DEF out
  <2> QED BY <2>1, <2>2
<1> HIDE DEF out
<1>3. e.past = S[N] /\ e.out = out
  BY <1>s, <1>1
<1> DEFINE c == [t \in 1 .. m |-> CodeOf(q, g[n + t - L])]
<1>4. CodesOf(q, out) = Listed(c)
  <2>1. DOMAIN out = 1 .. m /\ \A t \in 1 .. m : out[t] = g[n + t - L]
    BY <1>2
  <2> HIDE DEF out
  <2> QED BY <2>1 DEF CodesOf, CodeOf
<1>5. c = [t \in 1 .. m |-> c[t]] /\ c = Coding(q, g, L, n, m)
  BY DEF Coding
<1> HIDE DEF c
<1>6. Listed(c) = c
  BY <1>5, ListedIs
<1> QED BY <1>3, <1>4, <1>5, <1>6

\* What is due of the new codes.
LEMMA DueIs ==
  ASSUME NEW q, NEW g, NEW L \in Nat, NEW n \in Nat, NEW m \in Nat, NEW N, Adds(n, m, N),
         NEW new, new = Coding(q, g, L, n, m)
  PROVE  \E r \in Nat : /\ Behind(n, L) \in Nat /\ Adds(Behind(n, L), r, Behind(N, L))
                        /\ DueOf(new, L, n) = Coding(q, g, 0, Behind(n, L), r)
<1>s. N = n + m
  BY DEF Adds
<1> DEFINE k == Larger(0, L - n)  a == Behind(n, L)  b == Behind(N, L)  r == b - a
<1>1. k \in Nat /\ a \in Nat /\ r \in Nat /\ b = a + r /\ n - L + k = a /\ (k <= m => r = m - k) /\ (~(k <= m) => r = 0)
  BY <1>s DEF Larger, Behind
<1>2. Len(new) = m /\ new = [i \in 1 .. m |-> new[i]]
  <2>1. new = [i \in 1 .. m |-> new[i]]
    BY DEF Coding
  <2> QED BY <2>1, ListFrom
<1> HIDE DEF k, a, r, b
<1>3. SubSeq(new, 1 + k, m) = [i \in 1 .. (m - (1 + k) + 1) |-> new[(1 + k) + i - 1]]
  <2> DEFINE z == 1 + k  w == m - z + 1
  <2>1. z \in Int /\ w = m - (1 + k) + 1
    BY <1>1
  <2> HIDE DEF z, w
  <2>2. SubSeq(new, z, m) = [i \in 1 .. m - z + 1 |-> new[z + i - 1]]
    BY <1>2, <2>1
  <2> QED BY <2>2 DEF z
<1>4. ASSUME k <= m PROVE SubSeq(new, 1 + k, m) = [t \in 1 .. r |-> CodeOf(q, g[a + t - 0])]
  <2>1. m - (1 + k) + 1 = r
    BY <1>1, <1>4
  <2>2. \A i \in 1 .. r : new[(1 + k) + i - 1] = CodeOf(q, g[a + i - 0])
    <3> SUFFICES ASSUME NEW i \in 1 .. r PROVE new[(1 + k) + i - 1] = CodeOf(q, g[a + i - 0])
      OBVIOUS
    <3> DEFINE j == (1 + k) + i - 1
    <3>1. j \in 1 .. m /\ n + j - L = a + i - 0
      BY <1>1, <1>4
    <3> HIDE DEF j
    <3>2. new[j] = CodeOf(q, g[n + j - L])
      BY <3>1 DEF Coding
    <3> QED BY <3>1, <3>2 DEF j
  <2>3. SubSeq(new, 1 + k, m) = [t \in 1 .. r |-> CodeOf(q, g[a + t - 0])]
    BY <1>3, <2>1, <2>2
  <2> QED BY <2>3
<1>5. ASSUME ~(k <= m) PROVE SubSeq(new, 1 + k, m) = [t \in 1 .. r |-> CodeOf(q, g[a + t - 0])]
  <2>1. 1 .. (m - (1 + k) + 1) = {} /\ 1 .. r = {}
    BY <1>1, <1>5
  <2>2. [i \in 1 .. (m - (1 + k) + 1) |-> new[(1 + k) + i - 1]] = [t \in 1 .. r |-> CodeOf(q, g[a + t - 0])]
    BY <2>1
  <2> QED BY <1>3, <2>2
<1>6. SubSeq(new, 1 + k, m) = [t \in 1 .. r |-> CodeOf(q, g[a + t - 0])]
  BY <1>4, <1>5
<1>7. SubSeq(new, 1 + k, Len(new)) = Coding(q, g, 0, a, r)
  BY <1>2, <1>6 DEF Coding
<1> QED BY <1>1, <1>7 DEF k, a, b, Adds, DueOf

\* A step of the decoder.
LEMMA PlayGoes ==
  ASSUME NEW q, QuantizerConfig(q), QuantizerMakes(q), NEW layers, NEW H \in Positive, NEW A \in Nat,
         NEW g \in Signals, NEW h \in Signals, NEW R,
         Flows(1, InTime(layers), Place(0, 1), Place(A, H), Again(q, g), h, R),
         NEW a \in Nat, NEW r \in Nat, NEW b, Adds(a, r, b),
         NEW due, due = Coding(q, g, 0, a, r),
         NEW d, d = StepCodec(layers, R[a], Embeddings(q, due))
  PROVE  d.past = R[b] /\ d.out = Playing(h, H, A, a, r)
<1>s. b = a + r
  BY DEF Adds
<1> DEFINE v == Again(q, g)  x == Place(0, 1)  y == Place(A, H)
<1>1. Embeddings(q, due) = [t \in 1 .. r |-> v[a + t]]
  <2> DEFINE s == [t \in 1 .. r |-> v[a + t]]
  <2>1. \A t \in 1 .. r : v[a + t] = ValueOf(q, due[t])
    <3>1. \A t \in 1 .. r : a + t \in Int /\ due[t] = CodeOf(q, g[a + t])
      BY DEF Coding
    <3>2. \A t \in Int : v[t] = ValueOf(q, CodeOf(q, g[t]))
      BY AgainSignal
    <3> HIDE DEF v
    <3> QED BY <3>1, <3>2
  <2>2. DOMAIN due = 1 .. r
    BY DEF Coding
  <2> HIDE DEF v
  <2>3. Embeddings(q, due) = Listed(s)
    BY <2>1, <2>2 DEF Embeddings, ValueOf
  <2>4. s = [t \in 1 .. r |-> s[t]]
    OBVIOUS
  <2> HIDE DEF s
  <2>5. Listed(s) = s
    BY <2>4, ListedIs
  <2> QED BY <2>3, <2>5 DEF s
<1> HIDE DEF v
<1>2. Block(v, x, a, r) = [t \in 1 .. r |-> v[a + t]]
  <2>1. Block(v, x, a, r) = [t \in 1 .. 1 * r |-> v[1 * a - 0 + t]]
    BY DEF Block, Place
  <2>2. 1 * r = r /\ \A t \in 1 .. r : 1 * a - 0 + t = a + t
    OBVIOUS
  <2> HIDE DEF x
  <2> QED BY <2>1, <2>2
<1>3. d = [out |-> Block(h, y, a, r), past |-> R[a + r]]
  <2>1. SteppedAll(1, InTime(layers), R[a], Block(v, x, a, r)) = [out |-> Block(h, y, a, r), past |-> R[a + r]]
    BY DEF Flows, v
  <2>2. StepTimed(InTime(layers), R[a], Block(v, x, a, r)) = [out |-> Block(h, y, a, r), past |-> R[a + r]]
    BY <2>1 DEF SteppedAll
  <2> HIDE DEF x, y
  <2>3. Embeddings(q, due) = Block(v, x, a, r)
    BY <1>1, <1>2
  <2> QED BY <2>2, <2>3 DEF StepCodec
<1>4. Block(h, y, a, r) = [t \in 1 .. H * r |-> h[H * a + t - A]]
  <2>1. Block(h, y, a, r) = [t \in 1 .. H * r |-> h[H * a - A + t]]
    BY DEF Block, Place
  <2> DEFINE p == H * a
  <2>2. p \in Int
    BY DEF Positive
  <2> HIDE DEF p, y
  <2>3. \A t \in 1 .. H * r : p - A + t = p + t - A
    BY <2>2 DEF Positive
  <2> QED BY <2>1, <2>3 DEF p
<1> HIDE DEF x, y
<1>5. d.past = R[b] /\ d.out = Block(h, y, a, r)
  BY <1>s, <1>3
<1> QED BY <1>4, <1>5 DEF Playing

--------------------------------------------------------------------------------
(* The state of a stream, from the frames F it has been fed.                *)

Encodes(c, d, w, g, S) == Flows(1, InTime(d.encode), Place(0, Hops(c)), Place(d.latency, 1), w, g, S)
Decodes(c, d, g, h, R) ==
  Flows(1, InTime(d.decode), Place(0, 1), Place(Ahead(c), Hops(c)), Again(c.quantizer, g), h, R)
PlayedTo(c, d, n, h, R, back, out) ==
  /\ back = R[Behind(n, d.latency)]
  /\ out = AllPlayed(h, Hops(c), Ahead(c), Behind(n, d.latency))
StreamedTo(c, d, n, g, S, front, back, cs, out) ==
  /\ front = S[n] /\ cs = CodedTo(c.quantizer, g, d.latency, n)
  /\ \A h \in Signals : \A R : Decodes(c, d, g, h, R) => PlayedTo(c, d, n, h, R, back, out)
\* front and back are the states, cs and out what came out, after n frames of F.
Streamed(c, d, F, n, front, back, cs, out) ==
  \A w, g \in Signals : \A S :
    FedBy(F, Hops(c), w, n) /\ Encodes(c, d, w, g, S) => StreamedTo(c, d, n, g, S, front, back, cs, out)

LEMMA StreamExists ==
  ASSUME NEW c \in Codecs, NEW d, d = SpectroStreamOf(c), d.makes, NEW w \in Signals
  PROVE  \E g \in Signals : \E S : Encodes(c, d, w, g, S) /\ \E h \in Signals : \E R : Decodes(c, d, g, h, R)
<1> DEFINE x == Place(0, Hops(c))  y == Place(d.latency, 1)  z == Place(0, 1)  u == Place(Ahead(c), Hops(c))
           enc == InTime(d.encode)  dec == InTime(d.decode)  q == c.quantizer
<1>1. Runs(enc, x, y) /\ Runs(dec, z, u) /\ QuantizerConfig(q) /\ QuantizerMakes(q)
  BY CodecRuns
<1> HIDE DEF x, y, z, u, enc, dec, q
<1>2. PICK g \in Signals : \E S : Flows(1, enc, x, y, w, g, S)
  BY <1>1, RunsFlow
<1>3. PICK S : Flows(1, enc, x, y, w, g, S)
  BY <1>2
<1>4. Again(q, g) \in Signals
  BY <1>1, AgainSignal
<1>5. \E h \in Signals : \E R : Flows(1, dec, z, u, Again(q, g), h, R)
  BY <1>1, <1>4, RunsFlow
<1> QED BY <1>3, <1>5 DEF Encodes, Decodes, x, y, z, u, enc, dec, q

LEMMA SameFrames ==
  ASSUME NEW c \in Codecs, NEW d, d = SpectroStreamOf(c), d.makes, NEW n \in Nat, NEW F, NEW G,
         \A k \in 1 .. n : F[k] = G[k],
         NEW front, NEW back, NEW cs, NEW out, Streamed(c, d, F, n, front, back, cs, out)
  PROVE  Streamed(c, d, G, n, front, back, cs, out)
<1> DEFINE H == Hops(c)
<1>1. H \in Positive
  BY CodecRuns
<1> HIDE DEF H
<1>2. ASSUME NEW w, FedBy(G, H, w, n) PROVE FedBy(F, H, w, n)
  <2>1. ASSUME NEW t \in 1 .. H * n PROVE HopAt(F, H, t) = HopAt(G, H, t)
    <3>1. (t - 1) \div H + 1 \in 1 .. n
      BY <1>1, CellOf
    <3> DEFINE k == (t - 1) \div H + 1
    <3> HIDE DEF k
    <3>2. F[k] = G[k]
      BY <3>1 DEF k
    <3> QED BY <3>2 DEF HopAt, k
  <2> QED BY <1>2, <2>1 DEF FedBy
<1> QED BY <1>2 DEF Streamed, H

\* A stream to n frames becomes one to N.
LEMMA NextOf ==
  ASSUME NEW c \in Codecs, NEW d, d = SpectroStreamOf(c), d.makes, NEW n \in Nat, NEW m \in Nat, NEW N, Adds(n, m, N),
         NEW w \in Signals, NEW g \in Signals, NEW S, Encodes(c, d, w, g, S),
         NEW front, NEW back, NEW cs, NEW out, StreamedTo(c, d, n, g, S, front, back, cs, out),
         NEW wave, wave = Block(w, Place(0, Hops(c)), n, m),
         NEW e, e = StepCodec(d.encode, front, wave),
         NEW new, new = CodesOf(c.quantizer, e.out),
         NEW p, p = StepCodec(d.decode, back,
                              Embeddings(c.quantizer, DueOf(new, d.latency, n)))
  PROVE  /\ StreamedTo(c, d, N, g, S, e.past, p.past, cs \o new, out \o p.out)
         /\ Len(cs \o new) = N
<1> DEFINE H == Hops(c)  L == d.latency  A == Ahead(c)  q == c.quantizer
           x == Place(0, H)  enc == d.encode  dec == d.decode  a == Behind(n, L)  b == Behind(N, L)
           due == DueOf(new, L, n)
<1>1. H \in Positive /\ L \in Nat /\ A \in Nat /\ QuantizerConfig(q) /\ QuantizerMakes(q)
  <2>1. H \in Positive /\ L \in Nat /\ c.lookahead \in Nat /\ A = c.lookahead * H /\ QuantizerConfig(q) /\ QuantizerMakes(q)
    BY CodecRuns
  <2> HIDE DEF H, L, A, q
  <2>2. c.lookahead * H \in Nat
    BY <2>1 DEF Positive
  <2> QED BY <2>1, <2>2
<1>4. front = S[n] /\ cs = CodedTo(q, g, L, n)
  BY DEF StreamedTo
<1> DEFINE y == Place(L, 1)
<1>5. Flows(1, InTime(enc), x, y, w, g, S)
  BY DEF Encodes
<1>6. e = StepCodec(enc, S[n], Block(w, x, n, m)) /\ new = CodesOf(q, e.out)
  BY <1>4
<1>7. e.past = S[N] /\ new = Coding(q, g, L, n, m)
  <2>0. y = Place(L, 1)
    OBVIOUS
  <2> HIDE DEF enc, x, q, L, y
  <2>1. e.past = S[N] /\ CodesOf(q, e.out) = Coding(q, g, L, n, m)
    BY <1>1, <1>5, <1>6, <2>0, FeedGoes
  <2> QED BY <1>6, <2>1
<1>8. cs \o new = CodedTo(q, g, L, N) /\ Len(cs \o new) = N
  <2> HIDE DEF q, L
  <2>1. Then(CodedTo(q, g, L, n), Coding(q, g, L, n, m)) = CodedTo(q, g, L, N) /\ Len(CodedTo(q, g, L, N)) = N
    BY <1>1, CodingJoins
  <2> QED BY <1>4, <1>7, <2>1 DEF Then
<1>9. PICK r \in Nat : a \in Nat /\ Adds(a, r, b) /\ due = Coding(q, g, 0, a, r)
  <2> HIDE DEF q, L
  <2> QED BY <1>1, <1>7, DueIs
<1>10. ASSUME NEW h \in Signals, NEW R, Decodes(c, d, g, h, R)
       PROVE  PlayedTo(c, d, N, h, R, p.past, out \o p.out)
  <2>1. back = R[a] /\ out = AllPlayed(h, H, A, a)
    BY <1>10 DEF StreamedTo, PlayedTo
  <2>2. p = StepCodec(dec, R[a], Embeddings(q, due))
    <3>1. p = StepCodec(dec, back, Embeddings(q, due))
      OBVIOUS
    <3> HIDE DEF due, dec, q, a
    <3> QED BY <2>1, <3>1
  <2>3. Flows(1, InTime(dec), Place(0, 1), Place(A, H), Again(q, g), h, R)
    BY <1>10 DEF Decodes
  <2> HIDE DEF H, L, A, q, dec, a, b, due, x
  <2>4. p.past = R[b] /\ p.out = Playing(h, H, A, a, r)
    BY <1>1, <1>9, <2>2, <2>3, PlayGoes
  <2>5. Then(AllPlayed(h, H, A, a), Playing(h, H, A, a, r)) = AllPlayed(h, H, A, b)
    BY <1>1, <1>9, PlayingJoins
  <2>6. out \o p.out = AllPlayed(h, H, A, b)
    BY <2>1, <2>4, <2>5 DEF Then
  <2> QED BY <2>4, <2>6 DEF PlayedTo, H, L, A, b
<1> QED BY <1>7, <1>8, <1>10 DEF StreamedTo

\* Frames are numbers.
Numbers(F, N) == \A k \in 1 .. N : F[k] \in Int

LEMMA NextStreamed ==
  ASSUME NEW c \in Codecs, NEW d, d = SpectroStreamOf(c), d.makes, NEW n \in Nat, NEW m \in Nat, NEW N, Adds(n, m, N),
         NEW F, Numbers(F, N),
         NEW front, NEW back, NEW cs, NEW out, Streamed(c, d, F, n, front, back, cs, out),
         NEW block, Follows(block, F, n, m),
         NEW e, e = StepCodec(d.encode, front, WaveIn(block, Hops(c), m)),
         NEW new, new = CodesOf(c.quantizer, e.out),
         NEW p, p = StepCodec(d.decode, back,
                              Embeddings(c.quantizer, DueOf(new, d.latency, n)))
  PROVE  /\ Streamed(c, d, F, N, e.past, p.past, cs \o new, out \o p.out)
         /\ Len(cs \o new) = N
<1> DEFINE H == Hops(c)
<1>s. N = n + m
  BY DEF Adds
<1>f. \A k \in 1 .. N : F[k] \in Int
  BY DEF Numbers
<1>1. H \in Positive
  BY CodecRuns
<1>2. ASSUME NEW w \in Signals, NEW g \in Signals, NEW S, FedBy(F, H, w, N), Encodes(c, d, w, g, S)
      PROVE  /\ StreamedTo(c, d, N, g, S, e.past, p.past, cs \o new, out \o p.out)
             /\ Len(cs \o new) = N
  <2>1. FedBy(F, H, w, n)
    <3> HIDE DEF H
    <3>1. \A t \in 1 .. H * n : t \in 1 .. H * N
      <4>1. H * N = H * n + H * m /\ H * n \in Nat /\ H * m \in Nat
        BY <1>s, <1>1 DEF Positive
      <4> QED BY <4>1
    <3> QED BY <1>2, <3>1 DEF FedBy
  <2>2. StreamedTo(c, d, n, g, S, front, back, cs, out)
    BY <1>2, <2>1 DEF Streamed
  <2>3. WaveIn(block, H, m) = Block(w, Place(0, H), n, m)
    <3> HIDE DEF H
    <3> QED BY <1>1, <1>2, WaveIs
  <2> DEFINE wave == WaveIn(block, H, m)
  <2>4. wave = Block(w, Place(0, H), n, m) /\ e = StepCodec(d.encode, front, wave)
    BY <2>3
  <2> HIDE DEF wave
  <2> QED BY <1>2, <2>2, <2>4, NextOf
<1>3. Len(cs \o new) = N
  <2> DEFINE w == WaveFor(F, H, N)
  <2>1. w \in Signals /\ FedBy(F, H, w, N)
    <3> HIDE DEF H
    <3>1. N \in Nat
      BY <1>s
    <3> QED BY <1>1, <1>f, <3>1, WaveExists
  <2> HIDE DEF w
  <2>2. PICK g \in Signals : \E S : Encodes(c, d, w, g, S)
    BY <2>1, StreamExists
  <2>3. PICK S : Encodes(c, d, w, g, S)
    BY <2>2
  <2> QED BY <1>2, <2>1, <2>3
<1> QED BY <1>2, <1>3 DEF Streamed

--------------------------------------------------------------------------------
(* The inductive invariant of the stream.                                   *)

\* Frames of audio from the first, Absent after the last.
Sounds == [k \in Nat |-> IF k \in DOMAIN recorded THEN recorded[k] ELSE Absent]
\* Encoder, decoder, codes and audio are those of the signal that the frames
\* heard begin, whatever the blocks they came in: after as many frames as there
\* are codes.
StreamInv ==
  /\ CodecInv
  /\ recorded \in Seq(Loudness) /\ Len(recorded) <= MaxHeard /\ Len(codes) \in Nat
  /\ Len(recorded) = Len(codes) \/ (Len(recorded) = MaxHeard /\ Len(codes) >= MaxHeard)
  /\ ~made.makes => codes = <<>>
  /\ made.makes => Streamed(codec, made, Sounds, Len(codes), encoding, decoding, codes, played)

LEMMA StreamBegins ==
  ASSUME NEW c \in Codecs, NEW d, d = SpectroStreamOf(c), d.makes, NEW F,
         NEW front, front = FreshCodec(d.encode), NEW back, back = FreshCodec(d.decode)
  PROVE  Streamed(c, d, F, 0, front, back, <<>>, <<>>)
<1> DEFINE z == 0  L == d.latency  q == c.quantizer  H == Hops(c)  A == Ahead(c)
<1>1. L \in Nat /\ H \in Positive
  BY CodecRuns
<1>2. Behind(z, L) = z
  <2> HIDE DEF L
  <2> QED BY <1>1 DEF Behind, Larger
<1>3. ASSUME NEW g PROVE CodedTo(q, g, L, z) = <<>>
  BY DEF CodedTo, Coding
<1>4. ASSUME NEW h PROVE AllPlayed(h, H, A, z) = <<>>
  <2>1. H * z = 0
    BY <1>1 DEF Positive
  <2> HIDE DEF H, A
  <2> QED BY <2>1 DEF AllPlayed, Playing
<1>5. ASSUME NEW w, NEW g, NEW S, Encodes(c, d, w, g, S) PROVE front = S[z]
  BY <1>5 DEF Encodes, Flows, FreshAll, FreshCodec
<1>6. ASSUME NEW g, NEW h, NEW R, Decodes(c, d, g, h, R) PROVE back = R[z]
  BY <1>6 DEF Decodes, Flows, FreshAll, FreshCodec
<1> HIDE DEF z
<1>7. ASSUME NEW g, NEW h, NEW R, Decodes(c, d, g, h, R) PROVE PlayedTo(c, d, z, h, R, back, <<>>)
  BY <1>2, <1>4, <1>6, <1>7 DEF PlayedTo
<1>8. ASSUME NEW w, NEW g, NEW S, Encodes(c, d, w, g, S) PROVE StreamedTo(c, d, z, g, S, front, back, <<>>, <<>>)
  BY <1>3, <1>5, <1>7, <1>8 DEF StreamedTo
<1>9. Streamed(c, d, F, z, front, back, <<>>, <<>>)
  BY <1>8 DEF Streamed
<1> QED BY <1>9 DEF z

LEMMA StreamInit ==
  ASSUME CodecInit
  PROVE  StreamInv
<1>1. CodecInv
  BY DEF CodecInit, CodecInv
<1>2. recorded = <<>> /\ codes = <<>> /\ played = <<>> /\ Len(recorded) = 0 /\ Len(codes) = 0 /\ recorded \in Seq(Loudness)
  BY DEF CodecInit
<1>3. 0 <= MaxHeard
  BY CodecAssumption
<1>4. ASSUME made.makes
      PROVE  Streamed(codec, made, Sounds, Len(codes), encoding, decoding, codes, played)
  <2> DEFINE F == Sounds
  <2>1. encoding = FreshCodec(made.encode) /\ decoding = FreshCodec(made.decode)
    BY <1>4 DEF CodecInit
  <2>2. codec \in Codecs /\ made = SpectroStreamOf(codec)
    BY <1>1 DEF CodecInv
  <2> HIDE DEF F
  <2>3. Streamed(codec, made, F, 0, encoding, decoding, <<>>, <<>>)
    BY <1>4, <2>1, <2>2, StreamBegins
  <2> QED BY <1>2, <2>3 DEF F
<1> QED BY <1>1, <1>2, <1>3, <1>4 DEF StreamInv

\* What feeding m frames does, when Sounds is then F.
LEMMA FeedKeeps ==
  ASSUME CodecInv, made.makes, Len(codes) \in Nat,
         Streamed(codec, made, Sounds, Len(codes), encoding, decoding, codes, played),
         NEW block, NEW m \in Nat, Len(block) = m, Feed(block),
         NEW F, NEW N, Adds(Len(codes), m, N), Numbers(F, N), \A k \in 1 .. Len(codes) : Sounds[k] = F[k],
         Follows(block, F, Len(codes), m)
  PROVE  Len(codes') = N /\ Streamed(codec, made, F, N, encoding', decoding', codes', played')
<1> DEFINE n == Len(codes)  e == StepCodec(made.encode, encoding, WaveOf(block))
           new == CodesOf(codec.quantizer, e.out)  p == StepCodec(made.decode, decoding, Embeddings(codec.quantizer, Due(new)))
<1>1. codes' = codes \o new /\ played' = played \o p.out /\ encoding' = e.past /\ decoding' = p.past
  BY DEF Feed
<1>2. WaveOf(block) = WaveIn(block, Hops(codec), m) /\ Due(new) = DueOf(new, made.latency, n)
  BY DEF WaveOf, WaveIn, Due, DueOf
<1>3. e = StepCodec(made.encode, encoding, WaveIn(block, Hops(codec), m))
      /\ p = StepCodec(made.decode, decoding, Embeddings(codec.quantizer, DueOf(new, made.latency, n))) /\ new = CodesOf(codec.quantizer, e.out)
  BY <1>2
<1>4. codec \in Codecs /\ made = SpectroStreamOf(codec) /\ n \in Nat /\ Adds(n, m, N) /\ Numbers(F, N) /\ Follows(block, F, n, m)
  BY DEF CodecInv
<1>6. \A k \in 1 .. n : Sounds[k] = F[k]
  OBVIOUS
<1>8. Streamed(codec, made, Sounds, n, encoding, decoding, codes, played)
  OBVIOUS
<1> HIDE DEF n, e, new, p
<1>9. Streamed(codec, made, F, n, encoding, decoding, codes, played)
  <2> DEFINE G == Sounds
  <2>1. Streamed(codec, made, G, n, encoding, decoding, codes, played) /\ \A k \in 1 .. n : G[k] = F[k]
    BY <1>6, <1>8
  <2> HIDE DEF G
  <2> QED BY <1>4, <2>1, SameFrames
<1>10. Streamed(codec, made, F, N, e.past, p.past, codes \o new, played \o p.out) /\ Len(codes \o new) = N
  <2> DEFINE f == encoding  b == decoding  cs == codes  out == played
  <2>1. /\ Streamed(codec, made, F, n, f, b, cs, out)
        /\ e = StepCodec(made.encode, f, WaveIn(block, Hops(codec), m))
        /\ p = StepCodec(made.decode, b, Embeddings(codec.quantizer, DueOf(new, made.latency, n)))
    BY <1>3, <1>9
  <2>2. new = CodesOf(codec.quantizer, e.out)
    BY <1>3
  <2> HIDE DEF f, b, cs, out
  <2>3. Streamed(codec, made, F, N, e.past, p.past, cs \o new, out \o p.out) /\ Len(cs \o new) = N
    BY <1>4, <2>1, <2>2, NextStreamed
  <2> QED BY <2>3 DEF cs, out
<1> QED BY <1>1, <1>10 DEF n

LEMMA StreamNext ==
  ASSUME StreamInv, [CodecNext]_cvars
  PROVE  StreamInv'
<1>0. CodecInv /\ codec \in Codecs /\ MaxHeard \in Nat /\ MaxBlock \in Nat /\ Loudness \subseteq Int
  BY CodecAssumption DEF StreamInv, CodecInv
<1> DEFINE n == Len(codes)  r == Len(recorded)
<1>1. /\ recorded \in Seq(Loudness) /\ r \in Nat /\ r <= MaxHeard /\ n \in Nat /\ DOMAIN recorded = 1 .. r
      /\ r = n \/ (r = MaxHeard /\ n >= MaxHeard)
  BY DEF StreamInv
<1>2. \A k \in 1 .. r : recorded[k] \in Int
  <2>1. \A k \in 1 .. r : recorded[k] \in Loudness
    BY <1>1
  <2> HIDE DEF r
  <2> QED BY <1>0, <2>1
<1>3. CASE UNCHANGED cvars
  <2>1. UNCHANGED <<codec, made, encoding, decoding, recorded, codes, played>>
    BY <1>3 DEF cvars
  <2>2. CodecInv' /\ Sounds' = Sounds
    BY <1>0, <2>1 DEF CodecInv, Sounds
  <2> QED BY <2>1, <2>2 DEF StreamInv
<1>4. CASE CodecBlock
  <2>1. PICK m \in 1 .. MaxBlock : /\ r + m <= MaxHeard
                                   /\ \E block \in [1 .. m -> Loudness] : Feed(block) /\ recorded' = recorded \o block
    BY <1>4 DEF CodecBlock
  <2>2. PICK block \in [1 .. m -> Loudness] : Feed(block) /\ recorded' = recorded \o block
    BY <2>1
  <2>3. m \in Nat /\ m >= 1 /\ r = n
    <3>1. m \in Nat /\ m >= 1 /\ r + m <= MaxHeard
      BY <1>0, <2>1
    <3> HIDE DEF r, n
    <3> QED BY <1>0, <1>1, <3>1
  <2>4. /\ made.makes /\ UNCHANGED <<codec, made>>
        /\ Streamed(codec, made, Sounds, Len(codes), encoding, decoding, codes, played)
    BY <1>4, <2>2 DEF CodecBlock, Feed, StreamInv
  <2>5. /\ recorded' \in Seq(Loudness) /\ Len(recorded') = r + m /\ Len(block) = m /\ DOMAIN recorded' = 1 .. r + m
        /\ \A k \in 1 .. r : recorded'[k] = recorded[k]
        /\ \A i \in 1 .. m : recorded'[r + i] = block[i]
    <3>1. block \in Seq(Loudness) /\ Len(block) = m
      BY <2>2, <2>3
    <3> DEFINE s == recorded \o block
    <3>2. s \in Seq(Loudness) /\ Len(s) = r + m /\ \A i \in 1 .. r + m : s[i] = IF i <= r THEN recorded[i] ELSE block[i - r]
      BY <1>1, <2>3, <3>1
    <3> HIDE DEF s
    <3>3. \A k \in 1 .. r : s[k] = recorded[k]
      <4>1. \A k \in 1 .. r : k \in 1 .. r + m /\ k <= r
        BY <1>1, <2>3
      <4> QED BY <3>2, <4>1
    <3>4. ASSUME NEW i \in 1 .. m PROVE s[r + i] = block[i]
      <4> DEFINE k == r + i
      <4>1. k \in 1 .. r + m /\ ~(k <= r) /\ k - r = i
        BY <1>1, <2>3
      <4> HIDE DEF k
      <4>2. s[k] = block[k - r]
        BY <3>2, <4>1
      <4> QED BY <4>1, <4>2 DEF k
    <3>5. recorded' = s /\ DOMAIN s = 1 .. r + m
      BY <2>2, <3>2 DEF s
    <3> QED BY <3>1, <3>2, <3>3, <3>4, <3>5
  <2> DEFINE F == Sounds'
  <2>6. /\ \A k \in 1 .. n + m : F[k] = recorded'[k]
        /\ \A k \in 1 .. n : Sounds[k] = recorded[k]
    BY <1>1, <2>3, <2>5 DEF Sounds
  <2>7. \A k \in 1 .. n + m : F[k] \in Int
    <3>1. \A k \in 1 .. r + m : recorded'[k] \in Loudness
      BY <2>5
    <3> HIDE DEF F
    <3> QED BY <1>0, <2>3, <2>6, <3>1
  <2>8. \A k \in 1 .. n : Sounds[k] = F[k]
    <3>1. \A k \in 1 .. n : k \in 1 .. n + m /\ k \in 1 .. r
      BY <1>1, <2>3
    <3> HIDE DEF F
    <3> QED BY <2>5, <2>6, <3>1
  <2>9. \A i \in 1 .. m : block[i] = F[n + i]
    <3>1. \A i \in 1 .. m : n + i \in 1 .. n + m
      BY <1>1, <2>3
    <3> HIDE DEF F
    <3> QED BY <2>3, <2>5, <2>6, <3>1
  <2>10. /\ Len(codes') = n + m
         /\ Streamed(codec, made, F, n + m, encoding', decoding', codes', played')
    <3> DEFINE N == n + m
    <3>1. Adds(n, m, N) /\ Numbers(F, N) /\ Follows(block, F, n, m)
      BY <2>7, <2>9 DEF Adds, Numbers, Follows
    <3> HIDE DEF F, N
    <3>2. Len(codes') = N /\ Streamed(codec, made, F, N, encoding', decoding', codes', played')
      BY <1>0, <1>1, <2>2, <2>3, <2>4, <2>5, <2>8, <3>1, FeedKeeps
    <3> QED BY <3>2 DEF N
  <2>11. CodecInv'
    BY <1>0, <2>4 DEF CodecInv
  <2>12. Streamed(codec, made, Sounds, Len(codes), encoding, decoding, codes, played)'
    BY <2>4, <2>10
  <2>13. Len(recorded') <= MaxHeard /\ Len(recorded') = Len(codes') /\ Len(codes') \in Nat
    BY <1>1, <2>1, <2>3, <2>5, <2>10
  <2> QED BY <2>4, <2>5, <2>11, <2>12, <2>13 DEF StreamInv
<1>5. CASE CodecFlush
  <2> DEFINE block == <<Absent>>
  <2>m. PICK m \in Nat : m = 1
    OBVIOUS
  <2>1. made.makes /\ r = MaxHeard /\ Feed(block) /\ UNCHANGED <<recorded, codec, made>>
    BY <1>5 DEF CodecFlush, Feed
  <2>2. Len(block) = m /\ m \in Nat /\ \A i \in 1 .. m : block[i] = Absent /\ i = 1
    BY <2>m
  <2>3. Streamed(codec, made, Sounds, Len(codes), encoding, decoding, codes, played)
    BY <2>1 DEF StreamInv
  <2>4. n >= r
    BY <1>0, <1>1, <2>1
  <2>5. \A k \in Nat : Sounds[k] \in Int /\ (k > r => Sounds[k] = Absent)
    BY <1>1, <1>2 DEF Sounds, Absent
  <2> DEFINE F == Sounds
  <2>6. (\A k \in 1 .. n + m : F[k] \in Int) /\ \A k \in 1 .. n : Sounds[k] = F[k]
    <3>1. \A k \in 1 .. n + m : k \in Nat
      BY <1>1
    <3>2. \A k \in 1 .. n : k \in Nat
      BY <1>1
    <3> QED BY <2>5, <3>1, <3>2
  <2>7. \A i \in 1 .. m : block[i] = F[n + i]
    <3>1. \A i \in 1 .. m : n + i \in Nat /\ n + i > r
      BY <1>1, <2>4
    <3> HIDE DEF block
    <3> QED BY <2>2, <2>5, <3>1
  <2>8. /\ Len(codes') = n + m
        /\ Streamed(codec, made, F, n + m, encoding', decoding', codes', played')
    <3> DEFINE N == n + m
    <3>1. Adds(n, m, N) /\ Numbers(F, N) /\ Follows(block, F, n, m)
      BY <2>6, <2>7 DEF Adds, Numbers, Follows
    <3> HIDE DEF F, N, block
    <3>2. Len(codes') = N /\ Streamed(codec, made, F, N, encoding', decoding', codes', played')
      BY <1>0, <1>1, <2>1, <2>2, <2>3, <2>6, <3>1, FeedKeeps
    <3> QED BY <3>2 DEF N
  <2>9. CodecInv' /\ Sounds' = Sounds
    BY <1>0, <2>1 DEF CodecInv, Sounds
  <2>10. Streamed(codec, made, Sounds, Len(codes), encoding, decoding, codes, played)'
    BY <2>1, <2>8, <2>9
  <2>11. Len(recorded') = MaxHeard /\ Len(codes') >= MaxHeard /\ Len(codes') \in Nat
    BY <1>0, <1>1, <2>1, <2>4, <2>8, <2>m
  <2> QED BY <1>0, <1>1, <2>1, <2>9, <2>10, <2>11 DEF StreamInv
<1> QED BY <1>3, <1>4, <1>5 DEF CodecNext

--------------------------------------------------------------------------------
(* What the stream is, and the whole of it.                                 *)

LEMMA SilentAfter ==
  ASSUME NEW H \in Positive, NEW N \in Nat, NEW r \in Nat, NEW F, \A k \in 1 .. N : k > r => F[k] = Absent
  PROVE  Silent(WaveFor(F, H, N), H * r)
<1> DEFINE w == WaveFor(F, H, N)
<1>1. ASSUME NEW t \in Int, t > H * r PROVE w[t] = Absent
  <2>1. CASE t \notin 1 .. H * N
    BY <2>1 DEF WaveFor
  <2>2. CASE t \in 1 .. H * N
    <3> DEFINE u == t - 1  d == u \div H  k == d + 1  j == ((t - 1) % H) + 1
    <3>1. k \in 1 .. N
      BY <2>2, CellOf
    <3>2. H \in Nat \ {0} /\ u \in Int /\ u >= H * r /\ H * r \in Int
      BY <1>1 DEF Positive
    <3>3. d \in Int /\ u < H * (d + 1)
      <4> DEFINE m == u % H
      <4>1. d \in Int /\ u = H * d + m /\ m < H /\ m \in Int /\ H * d \in Int
        <5> HIDE DEF u
        <5> QED BY <3>2
      <4> HIDE DEF u, d, m
      <4>2. H * (d + 1) = H * d + H
        BY <3>2, <4>1
      <4> QED BY <3>2, <4>1, <4>2
    <3>4. w[t] = HopOf(F[k], j)
      BY <2>2 DEF WaveFor, HopAt
    <3> HIDE DEF u, d, j
    <3>5. k > r
      <4> SUFFICES ASSUME d + 1 <= r PROVE FALSE
        BY <3>3
      <4>1. H * (r - (d + 1)) >= 0
        BY <3>2, <3>3
      <4>2. H * (r - (d + 1)) = H * r - H * (d + 1) /\ H * (d + 1) \in Int
        BY <3>2, <3>3
      <4> QED BY <3>2, <3>3, <4>1, <4>2
    <3> HIDE DEF k
    <3>6. F[k] = Absent
      BY <3>1, <3>5
    <3> QED BY <3>4, <3>6 DEF HopOf
  <2> QED BY <2>1, <2>2
<1> QED BY <1>1 DEF Silent

\* Some signal that begins with the frames heard, and is silent after them,
\* explains the state.
LEMMA StreamExplained ==
  ASSUME StreamInv, made.makes
  PROVE  \E w, g, h \in Signals : \E S, R :
           /\ FedBy(Sounds, Hops(codec), w, Len(codes)) /\ Silent(w, Hops(codec) * Len(recorded))
           /\ Encodes(codec, made, w, g, S) /\ Decodes(codec, made, g, h, R)
           /\ codes = CodedTo(codec.quantizer, g, made.latency, Len(codes))
           /\ played = AllPlayed(h, Hops(codec), Ahead(codec), Behind(Len(codes), made.latency))
<1> DEFINE n == Len(codes)  H == Hops(codec)  F == Sounds  w == WaveFor(F, H, n)
<1>1. codec \in Codecs /\ made = SpectroStreamOf(codec) /\ n \in Nat
  BY DEF StreamInv, CodecInv
<1>2. H \in Positive
  BY <1>1, CodecRuns
<1>3. \A k \in 1 .. n : F[k] \in Int
  <2>1. recorded \in Seq(Loudness) /\ Loudness \subseteq Int
    BY CodecAssumption DEF StreamInv
  <2>2. \A k \in DOMAIN recorded : recorded[k] \in Int
    <3> DEFINE r == Len(recorded)
    <3>1. \A k \in 1 .. r : recorded[k] \in Loudness
      BY <2>1
    <3>2. DOMAIN recorded = 1 .. r
      BY <2>1
    <3> HIDE DEF r
    <3> QED BY <2>1, <3>1, <3>2
  <2>3. \A k \in 1 .. n : k \in Nat
    BY <1>1
  <2> QED BY <2>2, <2>3 DEF Sounds, Absent
<1>4. w \in Signals /\ FedBy(F, H, w, n) /\ Silent(w, H * Len(recorded))
  <2>1. Len(recorded) \in Nat /\ DOMAIN recorded = 1 .. Len(recorded)
    BY DEF StreamInv
  <2>2. \A k \in 1 .. n : k > Len(recorded) => F[k] = Absent
    BY <1>1, <2>1 DEF Sounds
  <2> HIDE DEF n, H, F
  <2> QED BY <1>1, <1>2, <1>3, <2>1, <2>2, WaveExists, SilentAfter
<1> HIDE DEF w
<1>5. PICK g \in Signals : \E S : Encodes(codec, made, w, g, S) /\ \E h \in Signals : \E R : Decodes(codec, made, g, h, R)
  BY <1>1, <1>4, StreamExists
<1>6. PICK S : Encodes(codec, made, w, g, S) /\ \E h \in Signals : \E R : Decodes(codec, made, g, h, R)
  BY <1>5
<1>7. PICK h \in Signals : \E R : Decodes(codec, made, g, h, R)
  BY <1>6
<1>8. PICK R : Decodes(codec, made, g, h, R)
  BY <1>7
<1>9. Streamed(codec, made, F, n, encoding, decoding, codes, played)
  BY DEF StreamInv
<1> HIDE DEF n, H, F
<1>10. StreamedTo(codec, made, n, g, S, encoding, decoding, codes, played)
  BY <1>4, <1>6, <1>9 DEF Streamed, H
<1>11. codes = CodedTo(codec.quantizer, g, made.latency, n) /\ PlayedTo(codec, made, n, h, R, decoding, played)
  BY <1>8, <1>10 DEF StreamedTo
<1>12. played = AllPlayed(h, H, Ahead(codec), Behind(n, made.latency))
  BY <1>11 DEF PlayedTo, H
<1> QED BY <1>4, <1>6, <1>8, <1>11, <1>12 DEF n, H, F

LEMMA StreamTyped ==
  ASSUME StreamInv
  PROVE  CodecTypeOK
<1> DEFINE n == Len(codes)  H == Hops(codec)  L == made.latency  q == codec.quantizer  A == Ahead(codec)
<1>1. Len(recorded) <= MaxHeard
  BY DEF StreamInv
<1>2. CASE ~made.makes
  <2>1. codes = <<>>
    BY <1>2 DEF StreamInv
  <2> QED BY <1>1, <1>2, <2>1 DEF CodecTypeOK
<1>3. CASE made.makes
  <2>1. codec \in Codecs /\ made = SpectroStreamOf(codec) /\ n \in Nat
    BY DEF StreamInv, CodecInv
  <2>2. H \in Positive /\ L \in Nat /\ QuantizerConfig(q) /\ QuantizerMakes(q)
    BY <1>3, <2>1, CodecRuns
  <2>3. PICK w, g, h \in Signals :
          /\ codes = CodedTo(codec.quantizer, g, made.latency, Len(codes))
          /\ played = AllPlayed(h, Hops(codec), Ahead(codec), Behind(Len(codes), made.latency))
    BY <1>3, StreamExplained
  <2>4. codes = CodedTo(q, g, L, n) /\ played = AllPlayed(h, H, A, Behind(n, L))
    BY <2>3
  <2> HIDE DEF n, H, L, q, A
  <2>5. Len(played) = H * Behind(n, L)
    <3> DEFINE m == H * Behind(n, L)
    <3>1. m \in Nat
      <4>1. Behind(n, L) \in Nat
        BY <2>1, <2>2 DEF Behind, Larger
      <4> QED BY <2>2, <4>1 DEF Positive
    <3>2. played = [t \in 1 .. m |-> h[H * 0 + t - A]]
      BY <2>4 DEF AllPlayed, Playing
    <3> HIDE DEF m
    <3>3. played = [t \in 1 .. m |-> played[t]]
      BY <3>2
    <3>4. Len(played) = m
      BY <3>1, <3>3, ListFrom
    <3> QED BY <3>4 DEF m
  <2>6. ASSUME NEW t \in DOMAIN codes PROVE codes[t] = NoCodes \/ Len(codes[t]) = NumExpectedOutputCodes(q)
    <3> DEFINE u == 0 + t - L
    <3>1. t \in 1 .. n /\ codes[t] = CodeOf(q, g[u])
      <4>1. codes = [i \in 1 .. n |-> CodeOf(q, g[0 + i - L])]
        BY <2>4 DEF CodedTo, Coding
      <4> QED BY <4>1, <2>6
    <3>2. u \in Int
      BY <2>2, <3>1
    <3> HIDE DEF u
    <3>3. g[u] \in Int
      BY <3>2, SignalReads
    <3>4. CASE g[u] = Absent
      BY <3>1, <3>4 DEF CodeOf
    <3>5. CASE g[u] # Absent
      BY <2>2, <3>1, <3>3, <3>5, FrameIsCoded
    <3> QED BY <3>4, <3>5
  <2> QED BY <1>1, <2>5, <2>6 DEF CodecTypeOK, Behind, n, H, L, q
<1> QED BY <1>2, <1>3

\* The wave of the first frames is the beginning of the signal.
LEMMA WaveOfAll ==
  ASSUME NEW H \in Positive, NEW N \in Nat, NEW r \in 0 .. N, NEW F, NEW w, FedBy(F, H, w, N),
         NEW b, Follows(b, F, 0, r)
  PROVE  WaveIn(b, H, r) = Upto(w, H * r)
<1> DEFINE z == 0
<1>1. z \in Nat /\ r \in Nat /\ Adds(z, r, r) /\ Follows(b, F, z, r)
  BY DEF Adds
<1>2. FedBy(F, H, w, r)
  <2>1. H * r <= H * N /\ H * r \in Int /\ H * N \in Int
    <3>1. H * (N - r) >= 0 /\ H * (N - r) = H * N - H * r /\ H * N \in Int /\ H * r \in Int
      BY DEF Positive
    <3> QED BY <3>1
  <2>2. \A t \in 1 .. H * r : t \in 1 .. H * N
    BY <2>1
  <2> QED BY <2>2 DEF FedBy
<1> HIDE DEF z
<1>3. WaveIn(b, H, r) = Block(w, Place(0, H), z, r)
  BY <1>1, <1>2, WaveIs
<1>4. Block(w, Place(0, H), z, r) = [t \in 1 .. H * r |-> w[H * z - 0 + t]]
  BY DEF Block, Place
<1>5. H * z = 0
  BY DEF z, Positive
<1> DEFINE m == H * r
<1>6. \A t \in 1 .. m : w[H * z - 0 + t] = w[t]
  BY <1>5
<1>7. [t \in 1 .. m |-> w[H * z - 0 + t]] = [t \in 1 .. m |-> w[t]]
  BY <1>6
<1> QED BY <1>3, <1>4, <1>7 DEF Upto

\* The whole of a signal through the encoder, and through the decoder.
LEMMA EncodedWhole ==
  ASSUME NEW c, NEW d, NEW w, NEW g, NEW S, Encodes(c, d, w, g, S), NEW M \in Nat, Silent(w, Hops(c) * M)
  PROVE  Silent(g, M) /\ WholeCodec(d.encode, Upto(w, Hops(c) * M)) = Upto(g, M)
<1> DEFINE x == Place(0, Hops(c))  y == Place(d.latency, 1)
<1>1. x.rate = Hops(c) /\ y.rate = 1 /\ 1 * M = M
  BY DEF Place
<1>2. Flows(1, InTime(d.encode), x, y, w, g, S)
  BY DEF Encodes
<1> HIDE DEF x, y
<1>3. Silent(g, y.rate * M) /\ WhollyAll(1, InTime(d.encode), Upto(w, x.rate * M)) = Upto(g, y.rate * M)
  BY <1>1, <1>2 DEF Flows
<1> QED BY <1>1, <1>3 DEF WhollyAll, WholeCodec

LEMMA DecodedWhole ==
  ASSUME NEW c, NEW d, NEW g, NEW h, NEW R, Decodes(c, d, g, h, R), NEW M \in Nat, Silent(Again(c.quantizer, g), M)
  PROVE  WholeCodec(d.decode, Upto(Again(c.quantizer, g), M)) = Upto(h, Hops(c) * M)
<1> DEFINE x == Place(0, 1)  y == Place(Ahead(c), Hops(c))  f == Again(c.quantizer, g)
<1>1. x.rate = 1 /\ y.rate = Hops(c) /\ 1 * M = M
  BY DEF Place
<1>2. Flows(1, InTime(d.decode), x, y, f, h, R)
  BY DEF Decodes
<1> HIDE DEF x, y, f
<1>3. Silent(f, M)
  BY DEF f
<1>4. WhollyAll(1, InTime(d.decode), Upto(f, x.rate * M)) = Upto(h, y.rate * M)
  BY <1>1, <1>2, <1>3 DEF Flows
<1> QED BY <1>1, <1>4 DEF WhollyAll, WholeCodec, f

\* The codes of the first M values of a signal, in both backends.
Coded(q, g, M) == [t \in 1 .. M |-> CodeOf(q, g[t])]

LEMMA CodesOfWhole ==
  ASSUME NEW q, QuantizerConfig(q), QuantizerMakes(q), NEW g \in Signals, NEW M \in Nat
  PROVE  /\ CodesOf(q, Upto(g, M)) = Coded(q, g, M)
         /\ q.encoded = Unset => JaxCodesOf(q, Upto(g, M)) = Coded(q, g, M)
<1> DEFINE e == Upto(g, M)
<1>1. e = [t \in 1 .. M |-> g[t]] /\ DOMAIN e = 1 .. M /\ \A t \in 1 .. M : e[t] = g[t]
  BY DEF Upto
<1> DEFINE s == [t \in 1 .. M |-> IF e[t] = Absent THEN NoCodes ELSE EmbeddingsToCodes(q, Embedding(e[t]), Unset)]
           k == [t \in 1 .. M |-> IF e[t] = Absent THEN NoCodes ELSE JaxEmbeddingsToCodes(q, Embedding(e[t]), Unset)]
<1>2. CodesOf(q, e) = Listed(s) /\ JaxCodesOf(q, e) = Listed(k)
  BY <1>1 DEF CodesOf, JaxCodesOf
<1> HIDE DEF e
<1>3. s = Coded(q, g, M)
  BY <1>1 DEF Coded, CodeOf
<1>4. q.encoded = Unset => k = Coded(q, g, M)
  <2> SUFFICES ASSUME q.encoded = Unset PROVE k = Coded(q, g, M)
    OBVIOUS
  <2>1. \A t \in 1 .. M : g[t] \in Int
    BY SignalReads
  <2>2. \A t \in 1 .. M : (IF e[t] = Absent THEN NoCodes ELSE JaxEmbeddingsToCodes(q, Embedding(e[t]), Unset)) = CodeOf(q, g[t])
    <3> SUFFICES ASSUME NEW t \in 1 .. M
                 PROVE  (IF e[t] = Absent THEN NoCodes ELSE JaxEmbeddingsToCodes(q, Embedding(e[t]), Unset)) = CodeOf(q, g[t])
      OBVIOUS
    <3> DEFINE v == g[t]
    <3>1. v \in Int /\ e[t] = v
      BY <1>1, <2>1
    <3> HIDE DEF v
    <3>2. CASE v = Absent
      BY <3>1, <3>2 DEF CodeOf, v
    <3>3. CASE v # Absent
      <4>1. JaxEmbeddingsToCodes(q, Embedding(v), Unset) = CodeOf(q, v)
        BY <3>1, <3>3, FrameIsCoded
      <4> QED BY <3>1, <3>3, <4>1 DEF v
    <3> QED BY <3>2, <3>3
  <2> QED BY <2>2 DEF Coded
<1>5. s = [t \in 1 .. M |-> s[t]] /\ k = [t \in 1 .. M |-> k[t]]
  OBVIOUS
<1> HIDE DEF s, k
<1>6. Listed(s) = s /\ Listed(k) = k
  BY <1>5, ListedIs
<1> QED BY <1>2, <1>3, <1>4, <1>6 DEF e

\* What is decoded of them, by look-up and by one-hot.
AllTruncated(q, ref) == [t \in DOMAIN ref |-> Truncated(q, ref[t])]
LookedUp(q, cs) == Listed([t \in DOMAIN cs |-> IF cs[t] = NoCodes THEN Absent ELSE CodesToEmbeddings(q, cs[t], TRUE)])
FromOneHot(q, cs) ==
  Listed([t \in DOMAIN cs |-> IF cs[t] = NoCodes THEN Absent ELSE JaxCodesToEmbeddings(q, cs[t], FALSE)])

LEMMA ValuesOfWhole ==
  ASSUME NEW q, QuantizerConfig(q), QuantizerMakes(q), NEW g \in Signals, NEW M \in Nat,
         NEW ref, ref = Coded(q, g, M), NEW trunc, trunc = AllTruncated(q, ref)
  PROVE  LookedUp(q, trunc) = Upto(Again(q, g), M) /\ FromOneHot(q, trunc) = Upto(Again(q, g), M)
<1>1. DOMAIN ref = 1 .. M /\ DOMAIN trunc = 1 .. M /\ \A t \in 1 .. M : trunc[t] = Truncated(q, CodeOf(q, g[t]))
  BY DEF Coded, AllTruncated
<1> DEFINE s == [t \in 1 .. M |-> IF trunc[t] = NoCodes THEN Absent ELSE CodesToEmbeddings(q, trunc[t], TRUE)]
           k == [t \in 1 .. M |-> IF trunc[t] = NoCodes THEN Absent ELSE JaxCodesToEmbeddings(q, trunc[t], FALSE)]
           f == Again(q, g)
<1>2. f \in Signals /\ \A t \in Int : f[t] = ValueOf(q, CodeOf(q, g[t]))
  BY AgainSignal
<1>3. ASSUME NEW t \in 1 .. M
      PROVE  /\ (IF trunc[t] = NoCodes THEN Absent ELSE CodesToEmbeddings(q, trunc[t], TRUE)) = f[t]
             /\ (IF trunc[t] = NoCodes THEN Absent ELSE JaxCodesToEmbeddings(q, trunc[t], FALSE)) = f[t]
  <2> DEFINE v == g[t]  u == trunc[t]
  <2>1. v \in Int /\ u = Truncated(q, CodeOf(q, v)) /\ f[t] = ValueOf(q, CodeOf(q, v))
    BY <1>1, <1>2, SignalReads
  <2> HIDE DEF v, u, f
  <2>2. CASE v = Absent
    <3>1. CodeOf(q, v) = NoCodes
      BY <2>2 DEF CodeOf
    <3>2. Truncated(q, NoCodes) = NoCodes
      <4>1. Len(NoCodes) = 0 /\ NumExpectedInputCodes(q) \in Nat
        BY DEF NoCodes, NumExpectedInputCodes, QuantizerConfig
      <4> QED BY <4>1 DEF Truncated
    <3> QED BY <2>1, <3>1, <3>2 DEF ValueOf, u
  <2>3. CASE v # Absent
    <3>1. /\ CodeOf(q, v) # NoCodes /\ Truncated(q, CodeOf(q, v)) # NoCodes
          /\ JaxCodesToEmbeddings(q, Truncated(q, CodeOf(q, v)), FALSE)
             = CodesToEmbeddings(q, Truncated(q, CodeOf(q, v)), TRUE)
      BY <2>1, <2>3, FrameIsCoded
    <3> QED BY <2>1, <3>1 DEF ValueOf, u
  <2> QED BY <2>2, <2>3
<1>4. Upto(f, M) = [t \in 1 .. M |-> f[t]]
  BY DEF Upto
<1>5. s = Upto(f, M) /\ k = Upto(f, M)
  <2> HIDE DEF f
  <2> QED BY <1>3, <1>4
<1>6. s = [t \in 1 .. M |-> s[t]] /\ k = [t \in 1 .. M |-> k[t]]
  OBVIOUS
<1>7. Listed(s) = s /\ Listed(k) = k
  <2> HIDE DEF s, k
  <2> QED BY <1>6, ListedIs
<1> QED BY <1>1, <1>5, <1>7 DEF LookedUp, FromOneHot

\* The M frames of the whole are out after n, L and a later; A is a in hops.
Ended(n, M, L, a, A, H) == n = M + L + a /\ A = a * H
SameCodes(q, g, L, M, cs) == \A t \in 1 .. M : cs[t + L] = Coded(q, g, M)[t]
SameAudio(h, H, M, A, out) == \A t \in 1 .. M * H : out[t + A] = Upto(h, H * M)[t]

LEMMA LateBy ==
  ASSUME NEW q, NEW g, NEW h, NEW H \in Positive, NEW L \in Nat, NEW a \in Nat, NEW M \in Nat,
         NEW n, NEW A, Ended(n, M, L, a, A, H), NEW cs, cs = CodedTo(q, g, L, n),
         NEW out, out = AllPlayed(h, H, A, Behind(n, L))
  PROVE  SameCodes(q, g, L, M, cs) /\ SameAudio(h, H, M, A, out)
<1>s. n = M + L + a /\ A = a * H
  BY DEF Ended
<1>0. n \in Nat
  BY <1>s
<1>1. Behind(n, L) = M + a
  BY <1>s DEF Behind, Larger
<1>2. ASSUME NEW t \in 1 .. M PROVE cs[t + L] = Coded(q, g, M)[t]
  <2> DEFINE u == t + L
  <2>1. u \in 1 .. n /\ 0 + u - L = t
    BY <1>s
  <2>2. cs = [i \in 1 .. n |-> CodeOf(q, g[0 + i - L])]
    BY DEF CodedTo, Coding
  <2> HIDE DEF u
  <2>3. cs[u] = CodeOf(q, g[t])
    BY <2>1, <2>2
  <2> QED BY <2>3 DEF u, Coded
<1>3. ASSUME NEW t \in 1 .. M * H PROVE out[t + A] = Upto(h, H * M)[t]
  <2> DEFINE d == A  u == t + d  m == H * (M + a)  k == H * M
  <2>1. d \in Nat /\ k \in Nat /\ m = k + d /\ t \in 1 .. k /\ H * 0 = 0
    BY <1>s DEF Positive
  <2>2. out = [i \in 1 .. m |-> h[H * 0 + i - d]]
    BY <1>1 DEF AllPlayed, Playing
  <2> HIDE DEF d, m, k
  <2>3. u \in 1 .. m /\ H * 0 + u - d = t
    BY <2>1
  <2> HIDE DEF u
  <2>4. out[u] = h[t]
    BY <2>2, <2>3
  <2> QED BY <2>1, <2>4 DEF u, d, k, Upto
<1> QED BY <1>2, <1>3 DEF SameCodes, SameAudio

LEMMA StreamLate ==
  ASSUME StreamInv, Flushed
  PROVE  LET reference == WaveformToCodes(made, codec.quantizer, WaveOf(recorded))
             trunc == [t \in DOMAIN reference |-> Truncated(codec.quantizer, reference[t])]
             wave == CodesToWaveform(made, codec.quantizer, trunc)
             jax == JaxSpectroStreamOf(codec)
         IN /\ \A t \in DOMAIN recorded : codes[t + made.latency] = reference[t]
            /\ codec.quantizer.encoded = Unset => JaxWaveformToCodes(jax, codec.quantizer, WaveOf(recorded)) = reference
            /\ JaxCodesToWaveform(jax, codec.quantizer, trunc) = wave
            /\ \A t \in 1 .. MaxHeard * Hops(codec) : played[t + codec.lookahead * Hops(codec)] = wave[t]
<1> DEFINE reference == WaveformToCodes(made, codec.quantizer, WaveOf(recorded))
           trunc == [t \in DOMAIN reference |-> Truncated(codec.quantizer, reference[t])]
           wave == CodesToWaveform(made, codec.quantizer, trunc)
           jax == JaxSpectroStreamOf(codec)
           n == Len(codes)  H == Hops(codec)  L == made.latency  q == codec.quantizer  a == codec.lookahead  M == MaxHeard
<1>1. codec \in Codecs /\ made = SpectroStreamOf(codec) /\ made.makes /\ Len(recorded) = M /\ n = M + L + a
      /\ M \in Nat /\ DOMAIN recorded = 1 .. M
  BY CodecAssumption DEF StreamInv, CodecInv, Flushed
<1>2. H \in Positive /\ L \in Nat /\ a \in Nat /\ Ahead(codec) = a * H /\ QuantizerConfig(q) /\ QuantizerMakes(q)
  BY <1>1, CodecRuns
<1>3. jax.encode = made.encode /\ jax.decode = made.decode
  BY <1>1 DEF JaxSpectroStreamOf, SpectroStreamOf, JaxSpectrostreamStftConfig, JaxSpectrostreamEncoderConfig,
              JaxSpectrostreamDecoderConfig, JaxSpectrostreamInverseStftConfig
<1>4. PICK w, g, h \in Signals : \E S, R :
        /\ FedBy(Sounds, Hops(codec), w, Len(codes)) /\ Silent(w, Hops(codec) * Len(recorded))
        /\ Encodes(codec, made, w, g, S) /\ Decodes(codec, made, g, h, R)
        /\ codes = CodedTo(codec.quantizer, g, made.latency, Len(codes))
        /\ played = AllPlayed(h, Hops(codec), Ahead(codec), Behind(Len(codes), made.latency))
  BY <1>1, StreamExplained
<1>5. PICK S, R :
        /\ FedBy(Sounds, Hops(codec), w, Len(codes)) /\ Silent(w, Hops(codec) * Len(recorded))
        /\ Encodes(codec, made, w, g, S) /\ Decodes(codec, made, g, h, R)
        /\ codes = CodedTo(codec.quantizer, g, made.latency, Len(codes))
        /\ played = AllPlayed(h, Hops(codec), Ahead(codec), Behind(Len(codes), made.latency))
  BY <1>4
<1>6. WaveOf(recorded) = Upto(w, H * M)
  <2> DEFINE F == Sounds  b == recorded
  <2>1. WaveOf(b) = WaveIn(b, H, M)
    BY <1>1 DEF WaveOf, WaveIn
  <2>2. Follows(b, F, 0, M)
    BY <1>1 DEF Follows, Sounds
  <2>3. FedBy(F, H, w, n) /\ n \in Nat /\ M \in 0 .. n
    BY <1>1, <1>2, <1>5
  <2> HIDE DEF F, b, H, M, n
  <2>4. WaveIn(b, H, M) = Upto(w, H * M)
    BY <1>2, <2>2, <2>3, WaveOfAll
  <2> QED BY <2>1, <2>4 DEF b
<1>7. /\ Silent(g, M) /\ WholeCodec(made.encode, Upto(w, H * M)) = Upto(g, M)
  BY <1>1, <1>5, EncodedWhole
<1>8. CodesOf(q, Upto(g, M)) = Coded(q, g, M) /\ (q.encoded = Unset => JaxCodesOf(q, Upto(g, M)) = Coded(q, g, M))
  BY <1>1, <1>2, CodesOfWhole
<1>9. reference = Coded(q, g, M)
  BY <1>6, <1>7, <1>8 DEF WaveformToCodes
<1>10. q.encoded = Unset => JaxWaveformToCodes(jax, q, WaveOf(recorded)) = reference
  BY <1>3, <1>6, <1>7, <1>8, <1>9 DEF JaxWaveformToCodes
<1> HIDE DEF reference, jax
<1>11. LookedUp(q, trunc) = Upto(Again(q, g), M) /\ FromOneHot(q, trunc) = Upto(Again(q, g), M)
  <2> DEFINE s == reference  u == trunc
  <2>1. s = Coded(q, g, M) /\ u = AllTruncated(q, s) /\ M \in Nat
    BY <1>1, <1>9 DEF AllTruncated
  <2> HIDE DEF s, u, trunc, q, M
  <2>2. LookedUp(q, u) = Upto(Again(q, g), M) /\ FromOneHot(q, u) = Upto(Again(q, g), M)
    BY <1>2, <2>1, ValuesOfWhole
  <2> QED BY <2>2 DEF u
<1>12. Silent(Again(q, g), M)
  <2>1. \A t \in Int : Again(q, g)[t] = ValueOf(q, CodeOf(q, g[t]))
    BY <1>2, AgainSignal
  <2> QED BY <1>7, <2>1 DEF Silent, CodeOf, ValueOf
<1>13. WholeCodec(made.decode, Upto(Again(q, g), M)) = Upto(h, H * M)
  BY <1>1, <1>5, <1>12, DecodedWhole
<1> HIDE DEF trunc
<1>14. wave = Upto(h, H * M) /\ JaxCodesToWaveform(jax, q, trunc) = wave
  BY <1>3, <1>11, <1>13 DEF CodesToWaveform, JaxCodesToWaveform, LookedUp, FromOneHot
<1>15. codes = CodedTo(q, g, L, n) /\ played = AllPlayed(h, H, a * H, Behind(n, L))
  BY <1>2, <1>5
<1> HIDE DEF wave
<1>16. /\ \A t \in 1 .. M : codes[t + L] = Coded(q, g, M)[t]
       /\ \A t \in 1 .. M * H : played[t + a * H] = Upto(h, H * M)[t]
  <2> DEFINE cs == codes  out == played  A == a * H
  <2>1. cs = CodedTo(q, g, L, n) /\ out = AllPlayed(h, H, A, Behind(n, L)) /\ Ended(n, M, L, a, A, H)
    BY <1>1, <1>15 DEF Ended
  <2>2. M \in Nat /\ H \in Positive /\ L \in Nat /\ a \in Nat
    BY <1>1, <1>2
  <2> HIDE DEF n, H, L, q, a, M, cs, out, A
  <2>3. SameCodes(q, g, L, M, cs) /\ SameAudio(h, H, M, A, out)
    BY <2>1, <2>2, LateBy
  <2> QED BY <2>3 DEF cs, out, A, SameCodes, SameAudio
<1>17. \A t \in DOMAIN recorded : codes[t + L] = reference[t]
  BY <1>1, <1>9, <1>16
<1>18. \A t \in 1 .. M * H : played[t + a * H] = wave[t]
  BY <1>14, <1>16
<1> QED BY <1>10, <1>14, <1>17, <1>18 DEF reference, trunc, wave, jax

\* A stream of audio, cut into blocks in any way, gives the codes and the audio
\* of the whole of it, as late as the codec says, and both backends give the
\* same: for every configuration, every sound and every length.
THEOREM CodecStreamsAreWhole == CodecSpec => []CodecStreams
<1>1. CodecInit => StreamInv
  BY StreamInit
<1>2. StreamInv /\ [CodecNext]_cvars => StreamInv'
  BY StreamNext
<1>3. StreamInv => CodecStreams
  <2> SUFFICES ASSUME StreamInv PROVE CodecStreams
    OBVIOUS
  <2>1. CodecTypeOK
    BY StreamTyped
  <2>2. StreamIsLate
    BY StreamLate DEF StreamIsLate
  <2> QED BY <2>1, <2>2 DEF CodecStreams
<1> QED BY <1>1, <1>2, <1>3, PTL DEF CodecSpec
================================================================================
