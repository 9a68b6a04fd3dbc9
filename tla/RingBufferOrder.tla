-------------------------- MODULE RingBufferOrder --------------------------
(***************************************************************************)
(* The memory orders of ring_buffer.h.  RingBuffer interleaves atomic       *)
(* steps; the C++ memory model also asks that a sample stored by one thread  *)
(* and loaded by the other be ordered by a release store that an acquire    *)
(* load reads.  Two variables follow what each thread has learnt that way.  *)
(*                                                                          *)
(* available() loads write_pos_ with acquire and read_pos_ relaxed, on      *)
(* whichever thread calls it: read() through available(), write() through   *)
(* free_space().                                                            *)
(***************************************************************************)
EXTENDS RingBuffer

VARIABLES
  knownRead,     \* samples whose copying out happens before the producer's next step
  knownWritten   \* samples whose storing happens before the consumer's next step

orderVars == <<knownRead, knownWritten>>

\* What a thread knows of the samples before pos after a load of the cursor
\* that yields pos, when it knew known before.
AcquireLoad(pos, known) == pos
RelaxedLoad(pos, known) == known

\* Mutant: the acquire of write_pos_ weakened to relaxed.
LoadWritePosRelaxed(known) == RelaxedLoad(writePos, known)

LoadWritePos(known) == AcquireLoad(writePos, known)
LoadReadPos(known) == RelaxedLoad(readPos, known)

OrderInit == Init /\ knownRead = 0 /\ knownWritten = 0

OrderReset ==
  /\ Reset   \* the thread that paused both sides orders their steps
  /\ knownRead' = 0 /\ knownWritten' = 0

OrderWriteBegin(chunk) ==
  /\ WriteBegin(chunk)
  /\ knownRead' = LoadReadPos(knownRead)
  /\ UNCHANGED knownWritten

OrderReadBegin(n) ==
  /\ ReadBegin(n)
  /\ knownWritten' = LoadWritePos(knownWritten)
  /\ UNCHANGED knownRead

OrderDrainBegin ==
  /\ DrainBegin
  /\ knownWritten' = LoadWritePos(knownWritten)
  /\ UNCHANGED knownRead

OrderNext ==
  \/ OrderReset
  \/ \E chunk \in Chunks : OrderWriteBegin(chunk)
  \/ \E n \in Counts : OrderReadBegin(n)
  \/ OrderDrainBegin
  \/ /\ \/ \E cap \in Capacities : SetVirtualCapacity(cap)
        \/ WriteRefuse \/ WriteAccept \/ WriteSample \/ WritePublish
        \/ ReadSample \/ ReadPublish \/ DrainPublish
     /\ UNCHANGED orderVars

OrderSpec == OrderInit /\ [][OrderNext]_<<vars, orderVars>>

\* read() copies only samples whose stores happen before it: the audio
\* callback never races with the inference thread's stores.
ConsumerSynchronized == consumer = "copy" => target <= knownWritten
=============================================================================
