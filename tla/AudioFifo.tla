------------------------------ MODULE AudioFifo ------------------------------
(***************************************************************************)
(* What one channel of the audio path promises, without cursors, cells or  *)
(* threads: a bounded FIFO queue of samples.  The producer appends a whole  *)
(* chunk or nothing, the consumer takes samples from the front, in order    *)
(* and each at most once, and hears silence for what is missing.            *)
(* RingBuffer implements this specification.                                *)
(***************************************************************************)
EXTENDS Integers, Sequences

CONSTANTS Samples,     \* the values a sample can have
          Silence,     \* the sample that pads an underrun (0.0f)
          KCapacity,   \* samples the queue can hold
          Chunks,      \* the sample sequences the producer may write
          Counts       \* the numbers of samples the consumer may ask for

VARIABLES queue,       \* samples written and not yet consumed, oldest first
          heard        \* what the last completed read delivered

vars == <<queue, heard>>

\* The n samples of a read that found only the samples of s.
Padded(s, n) == [i \in 1..n |-> IF i <= Len(s) THEN s[i] ELSE Silence]

Init == queue = <<>> /\ heard = <<>>

Put(chunk) ==
  /\ Len(queue) + Len(chunk) <= KCapacity
  /\ queue' = queue \o chunk
  /\ UNCHANGED heard

Take(n, k) ==
  /\ k <= Len(queue)
  /\ heard' = Padded(SubSeq(queue, 1, k), n)
  /\ queue' = SubSeq(queue, k + 1, Len(queue))

Drop(k) ==
  /\ queue' = SubSeq(queue, k + 1, Len(queue))
  /\ UNCHANGED heard

Next ==
  \/ \E chunk \in Chunks : Put(chunk)
  \/ \E n \in Counts : \E k \in 0..n : Take(n, k)
  \/ \E k \in 0..Len(queue) : Drop(k)

Spec == Init /\ [][Next]_vars
=============================================================================
