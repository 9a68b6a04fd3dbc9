----------------------------- MODULE RingBuffer -----------------------------
(***************************************************************************)
(* core/include/magentart/ring_buffer.h: the lock-free single-producer,     *)
(* single-consumer ring that carries one channel of audio from the          *)
(* inference thread to the audio callback.                                  *)
(*                                                                          *)
(* Every load, store and sample copy of write(), read() and drain() is a    *)
(* step of its own, so that the two threads interleave as they do on two    *)
(* cores.  The cursors are size_t counters of samples since the last reset; *)
(* MaxPos bounds them (2^64 samples are six million years of audio).        *)
(***************************************************************************)
EXTENDS Integers, Sequences

CONSTANTS Samples,     \* the values a sample can have
          Silence,     \* 0.0f
          KCapacity,   \* kCapacity, the number of cells
          Capacities,  \* the arguments of set_virtual_capacity
          Chunks,      \* the sample sequences the producer writes
          Counts,      \* the sample counts the consumer asks for
          MaxPos       \* bound on writePos

ASSUME RingAssumption ==
  /\ Silence \in Samples
  /\ KCapacity \in Nat \ {0}
  /\ Capacities \subseteq Nat
  /\ Chunks \subseteq Seq(Samples)
  /\ Counts \subseteq Nat
  /\ MaxPos \in Nat

VARIABLES
  buffer,           \* buffer_, KCapacity cells
  writePos,         \* write_pos_, stored by the producer only
  readPos,          \* read_pos_, stored by the consumer only
  virtualCapacity,  \* virtual_capacity_, stored by the control thread
  producer,         \* where the producer thread is inside write()
  avail,            \* free_space(): the value available() returned
  data,             \* write(): the samples being written
  copied,           \* write(): how many of them are in buffer
  consumer,         \* where the consumer thread is inside read() or drain()
  count,            \* read(): samples asked for
  target,           \* read(): readPos to publish; drain(): the loaded writePos
  dest,             \* read(): samples copied out so far
  heard             \* what the last completed read() left in its destination

shared == <<buffer, writePos, readPos, virtualCapacity>>
producerVars == <<producer, avail, data, copied>>
consumerVars == <<consumer, count, target, dest, heard>>
vars == <<shared, producerVars, consumerVars>>

-----------------------------------------------------------------------------
\* buffer_[pos & (kCapacity - 1)]
Cell(pos) == pos % KCapacity

Available == writePos - readPos

\* free_space() for a loaded number of available samples.
FreeSpace(available) ==
  IF virtualCapacity > available THEN virtualCapacity - available ELSE 0

\* read() pads the destination with zeroes up to n samples.
Padded(s, n) == [i \in 1..n |-> IF i <= Len(s) THEN s[i] ELSE Silence]

Init ==
  /\ buffer = [c \in 0..KCapacity-1 |-> Silence]
  /\ writePos = 0 /\ readPos = 0
  /\ virtualCapacity \in Capacities /\ virtualCapacity <= KCapacity
  /\ producer = "idle" /\ avail = 0 /\ data = <<>> /\ copied = 0
  /\ consumer = "idle" /\ count = 0 /\ target = 0 /\ dest = <<>>
  /\ heard = <<>>

-----------------------------------------------------------------------------
(* The control thread. *)

\* The value set_virtual_capacity stores.
Clamped(cap) == IF cap > KCapacity THEN KCapacity ELSE cap

SetVirtualCapacity(cap) ==
  /\ virtualCapacity' = Clamped(cap)
  /\ UNCHANGED <<buffer, writePos, readPos, producerVars, consumerVars>>

\* Mutant: reset() while the consumer is inside read().
ResetWhileReading ==
  /\ producer = "idle"
  /\ writePos' = 0 /\ readPos' = 0
  /\ UNCHANGED <<buffer, virtualCapacity, producerVars, consumerVars>>

\* reset(), by a thread that has paused both sides, as the header demands.
Reset ==
  /\ producer = "idle" /\ consumer = "idle"
  /\ writePos' = 0 /\ readPos' = 0
  /\ UNCHANGED <<buffer, virtualCapacity, producerVars, consumerVars>>

-----------------------------------------------------------------------------
(* The producer: write(data, count). *)

\* free_space() loads the cursors.
WriteBegin(chunk) ==
  /\ producer = "idle"
  /\ writePos + Len(chunk) <= MaxPos
  /\ producer' = "check"
  /\ avail' = Available
  /\ data' = chunk
  /\ UNCHANGED <<shared, copied, consumerVars>>

\* free_space() loads the capacity; too little room: return false.
WriteRefuse ==
  /\ producer = "check"
  /\ FreeSpace(avail) < Len(data)
  /\ producer' = "idle"
  /\ UNCHANGED <<shared, avail, data, copied, consumerVars>>

WriteAccept ==
  /\ producer = "check"
  /\ FreeSpace(avail) >= Len(data)
  /\ producer' = "copy"
  /\ copied' = 0
  /\ UNCHANGED <<shared, avail, data, consumerVars>>

WriteSample ==
  /\ producer = "copy" /\ copied < Len(data)
  /\ buffer' = [buffer EXCEPT ![Cell(writePos + copied)] = data[copied + 1]]
  /\ copied' = copied + 1
  /\ UNCHANGED <<writePos, readPos, virtualCapacity, producer, avail, data,
                 consumerVars>>

\* Mutant: the cursor published before the samples are copied.
WritePublishEarly ==
  /\ producer = "copy"
  /\ writePos' = writePos + Len(data)
  /\ producer' = "idle"
  /\ UNCHANGED <<buffer, readPos, virtualCapacity, avail, data, copied,
                 consumerVars>>

WritePublish ==
  /\ producer = "copy" /\ copied = Len(data)
  /\ writePos' = writePos + Len(data)
  /\ producer' = "idle"
  /\ UNCHANGED <<buffer, readPos, virtualCapacity, avail, data, copied,
                 consumerVars>>

-----------------------------------------------------------------------------
(* The consumer: read(dest, count) and drain(). *)

\* to_read = min(available(), count)
ToRead(n) == IF Available < n THEN Available ELSE n

ReadBegin(n) ==
  /\ consumer = "idle"
  /\ consumer' = "copy"
  /\ count' = n
  /\ target' = readPos + ToRead(n)
  /\ dest' = <<>>
  /\ UNCHANGED <<shared, heard, producerVars>>

ReadSample ==
  /\ consumer = "copy" /\ readPos + Len(dest) < target
  /\ dest' = Append(dest, buffer[Cell(readPos + Len(dest))])
  /\ UNCHANGED <<shared, consumer, count, target, heard, producerVars>>

ReadPublish ==
  /\ consumer = "copy" /\ readPos + Len(dest) = target
  /\ heard' = Padded(dest, count)
  /\ readPos' = target
  /\ consumer' = "idle"
  /\ UNCHANGED <<buffer, writePos, virtualCapacity, count, target, dest,
                 producerVars>>

DrainBegin ==
  /\ consumer = "idle"
  /\ consumer' = "drain"
  /\ target' = writePos
  /\ UNCHANGED <<shared, count, dest, heard, producerVars>>

DrainPublish ==
  /\ consumer = "drain"
  /\ readPos' = target
  /\ consumer' = "idle"
  /\ UNCHANGED <<buffer, writePos, virtualCapacity, count, target, dest, heard,
                 producerVars>>

-----------------------------------------------------------------------------
Next ==
  \/ \E cap \in Capacities : SetVirtualCapacity(cap)
  \/ Reset
  \/ \E chunk \in Chunks : WriteBegin(chunk)
  \/ WriteRefuse \/ WriteAccept \/ WriteSample \/ WritePublish
  \/ \E n \in Counts : ReadBegin(n)
  \/ ReadSample \/ ReadPublish
  \/ DrainBegin \/ DrainPublish

Spec == Init /\ [][Next]_vars
-----------------------------------------------------------------------------
(* Properties. *)

\* The cells a write() in progress is still to store into.
CellsBeingWritten ==
  IF producer = "copy"
  THEN {Cell(writePos + i) : i \in copied..Len(data)-1} ELSE {}

\* The cells that hold published samples the consumer has not released.
CellsUnread == {Cell(pos) : pos \in readPos..writePos-1}

\* Each variable of ring_buffer.h, and each local of a call in progress, has
\* its type; the capacity stored by set_virtual_capacity never exceeds the
\* cells that exist.
TypeOK ==
  /\ buffer \in [0..KCapacity-1 -> Samples]
  /\ writePos \in Nat /\ readPos \in Nat
  /\ virtualCapacity \in 0..KCapacity
  /\ producer \in {"idle", "check", "copy"}
  /\ avail \in Int /\ data \in Seq(Samples) /\ copied \in Nat
  /\ consumer \in {"idle", "copy", "drain"}
  /\ count \in Nat /\ target \in Nat /\ dest \in Seq(Samples)
  /\ heard \in Seq(Samples)

\* The reader never passes the writer and the writer never laps the reader:
\* available() is a number of samples that the cells can hold, and the
\* unsigned subtraction in it never wraps.
WindowOK == readPos <= writePos /\ writePos <= readPos + KCapacity

\* The room an accepted write() was promised stays its own until it publishes,
\* whatever the consumer and set_virtual_capacity do meanwhile, and what it
\* has copied stays in place.
ProducerOK ==
  /\ producer # "idle" => data \in Chunks
  /\ producer = "check" => Available <= avail
  /\ producer = "copy" =>
       /\ writePos + Len(data) <= readPos + KCapacity
       /\ copied <= Len(data)
       /\ \A i \in 0..copied-1 : buffer[Cell(writePos + i)] = data[i + 1]

\* What a read() or drain() in progress means to consume stays published, and
\* what read() has copied out is what the cells still hold: no write() changes
\* a sample under the reader.
ConsumerOK ==
  /\ consumer # "idle" => readPos <= target /\ target <= writePos
  /\ consumer = "copy" =>
       /\ count \in Counts
       /\ readPos + Len(dest) <= target
       /\ target <= readPos + count
       /\ \A i \in 1..Len(dest) : dest[i] = buffer[Cell(readPos + i - 1)]

\* The inductive invariant.
IInv == TypeOK /\ WindowOK /\ ProducerOK /\ ConsumerOK

\* write() and read() never touch the same cell: the cells a write() in
\* progress is still to fill hold no sample the consumer may be copying.
NoOverlap == CellsBeingWritten \cap CellsUnread = {}

\* The samples of the cells b from position r up to position w.
Window(b, r, w) == [i \in 1..(w - r) |-> b[Cell(r + i - 1)]]

\* The published, unreleased samples in order.
Queue == Window(buffer, readPos, writePos)

Fifo == INSTANCE AudioFifo WITH queue <- Queue

\* The ring is the bounded FIFO of AudioFifo: whole chunks in, each sample out
\* once, in order, uncorrupted, with silence only in the place of samples that
\* were not there.
FifoSpec == Fifo!Spec
=============================================================================
