------------------------------- MODULE LiveRing -------------------------------
(***************************************************************************)
(* The audio ring between the Python producer and the ALSA host            *)
(* (magenta_rt/live_ring.py, tools/mrt-alsa-host/src/main.rs).  The ring   *)
(* is a file both processes map: a header that holds both cursors and the  *)
(* counters, and Capacity rows.  Each side loads the WHOLE header, copies  *)
(* rows, and stores the WHOLE header back, without any lock.               *)
(*                                                                         *)
(* An audio frame is a stamp: the producer numbers its frames 1, 2, ...;   *)
(* 0 is the silence a new file holds.                                      *)
(***************************************************************************)
EXTENDS Naturals, Sequences

CONSTANTS
  Capacity,    \* rows of the ring (capacity_frames)
  Period,      \* frames the host plays at a time
  Threshold,   \* --start-threshold-frames
  Sizes,       \* the lengths a chunk may have
  MaxFrames,   \* bound: frames the producer makes
  MaxRestarts, \* bound: restarts of the producer
  Modes        \* the configurations of the producer, see Init

ASSUMPTION LiveRingAssumption ==
  /\ {Capacity, Period} \subseteq Nat \ {0}
  /\ {Threshold, MaxFrames, MaxRestarts} \subseteq Nat
  /\ Sizes \subseteq Nat \ {0}
  /\ Modes \subseteq {"paced", "timed", "raw", "local"}

\* The host waits for Threshold frames and the producer for room, so the
\* threshold must leave room for the longest chunk.
ASSUMPTION ThresholdFits ==
  \A n \in Sizes : Threshold + (IF n < Capacity THEN n ELSE Capacity) <= Capacity + 1
                    \/ Threshold = 0

VARIABLES
  hdr,      \* the header in the file, or NoHeader while it is zeros
  data,     \* the rows in the file
  mode,     \* pacing with no timeout, with one, none, or one process
  prod,     \* the producer: [pc, len, copy, row, drop]
  pacing,   \* PacingRingWriter: [status, timeouts, stops]
  stop,     \* what should_stop() answers
  host,     \* the ALSA host: [pc, copy, got]
  next,     \* the stamp of the next frame
  played,   \* history: the stamps played
  lost,     \* history: frames dropped, skipped, or cut off by a restart
  restarts,
  clash     \* history: a header was stored over one its writer had not read

vars == <<hdr, data, mode, prod, pacing, stop, host, next, played, lost,
          restarts, clash>>

Lesser(a, b) == IF a < b THEN a ELSE b
Excess(a, b) == IF a > b THEN a - b ELSE 0   \* max(0, a - b)

NoHeader == [none |-> TRUE]
FreshHeader == [w |-> 0, r |-> 0, under |-> 0, over |-> 0, low |-> Capacity]
Rows == 0 .. Capacity - 1
Silence == [i \in Rows |-> 0]

Avail(h) == h.w - h.r
\* Mutant: a full ring has one row left.
FreeOneMore(h) == Capacity - Avail(h) + 1
Free(h) == Capacity - Avail(h)
Kept(n) == Lesser(n, Capacity)     \* a longer chunk keeps its last rows
\* Mutant: waits for the room of the whole chunk, which a small ring never has.
NeededUnclipped(n) == n
Needed(n) == Lesser(n, Capacity)   \* what the pacing writer waits for
Slot(cursor) == cursor % Capacity
FreeEnough(h, n) == Free(h) >= Needed(n)

\* The header after a write of n frames: a full ring drops its oldest rows.
AfterWrite(h, n) ==
  LET overflow == Excess(Avail(h) + Kept(n), Capacity)
  IN  [h EXCEPT !.w = @ + Kept(n), !.r = @ + overflow, !.over = @ + overflow,
                !.low = Lesser(@, Avail(h) + Kept(n) - overflow)]

\* Mutant: the read cursor moves by what was asked for.
AfterReadUnclipped(h, n) == [h EXCEPT !.r = @ + n, !.low = Lesser(@, Excess(Avail(h), n))]
\* Mutant: the last frame of every read is left in the ring.
AfterReadOneShort(h, n) == [h EXCEPT !.r = @ + Excess(Lesser(n, Avail(h)), 1)]

\* The header after a read of n frames, the missing ones filled with zeros.
AfterRead(h, n) ==
  LET readable == Lesser(n, Avail(h))
  IN  [h EXCEPT !.r = @ + readable, !.under = @ + (n - readable),
                !.low = Lesser(@, Avail(h) - readable)]

\* The rows of a chunk whose first stamp is s, stored from cursor h.w on.
StoredRow(h, s, n, i) == [data EXCEPT ![Slot(h.w + i)] = s + (n - Kept(n)) + i]
Overwritten(h, s, n) ==
  [i \in Rows |-> IF \E k \in 0 .. Kept(n) - 1 : Slot(h.w + k) = i
                  THEN s + (n - Kept(n)) + CHOOSE k \in 0 .. Kept(n) - 1 : Slot(h.w + k) = i
                  ELSE data[i]]
ReadRows(h, n) == [k \in 1 .. Lesser(n, Avail(h)) |-> data[Slot(h.r + k - 1)]]

-----------------------------------------------------------------------------
Idle == [pc |-> "idle", len |-> 0, copy |-> FreshHeader, row |-> 0, drop |-> 0]

Init ==
  /\ hdr = FreshHeader
  /\ data = Silence
  /\ mode \in Modes
  /\ prod = Idle
  /\ pacing = [status |-> "ready", timeouts |-> 0, stops |-> 0]
  /\ stop = FALSE
  /\ host = [pc |-> IF mode = "local" THEN "gone"
                    ELSE IF Threshold = 0 THEN "idle" ELSE "start",
             copy |-> FreshHeader, got |-> <<>>]
  /\ next = 1
  /\ played = <<>>
  /\ lost = 0
  /\ restarts = 0
  /\ clash = FALSE

-----------------------------------------------------------------------------
(* The producer.  A paced write waits for room, a raw one goes on to load. *)
WriteBegin(n) ==
  /\ prod.pc = "idle" /\ mode # "local"
  /\ next + n - 1 <= MaxFrames
  /\ prod' = [prod EXCEPT !.pc = IF mode = "raw" THEN "load" ELSE "wait", !.len = n]
  /\ pacing' = [pacing EXCEPT !.status = "ready"]
  /\ UNCHANGED <<hdr, data, mode, stop, host, next, played, lost, restarts, clash>>

PaceReady ==
  /\ prod.pc = "wait" /\ FreeEnough(hdr, prod.len)
  /\ prod' = [prod EXCEPT !.pc = "load"]
  /\ UNCHANGED <<hdr, data, mode, pacing, stop, host, next, played, lost, restarts, clash>>

\* Nothing is written: the chunk is gone, and its caller is not told apart.
PaceStopped ==
  /\ prod.pc = "wait" /\ ~FreeEnough(hdr, prod.len) /\ stop
  /\ prod' = Idle
  /\ pacing' = [pacing EXCEPT !.status = "stopped", !.stops = @ + 1]
  /\ next' = next + prod.len
  /\ lost' = lost + prod.len
  /\ UNCHANGED <<hdr, data, mode, stop, host, played, restarts, clash>>

PaceTimeout ==
  /\ prod.pc = "wait" /\ ~FreeEnough(hdr, prod.len) /\ ~stop /\ mode = "timed"
  /\ prod' = [prod EXCEPT !.pc = "load"]
  /\ pacing' = [pacing EXCEPT !.status = "timeout", !.timeouts = @ + 1]
  /\ UNCHANGED <<hdr, data, mode, stop, host, next, played, lost, restarts, clash>>

WriteLoad ==
  /\ prod.pc = "load"
  /\ prod' = [prod EXCEPT !.pc = "rows", !.copy = hdr, !.row = 0,
                          !.drop = AfterWrite(hdr, prod.len).over - hdr.over]
  /\ UNCHANGED <<hdr, data, mode, pacing, stop, host, next, played, lost, restarts, clash>>

WriteRow ==
  /\ prod.pc = "rows" /\ prod.row < Kept(prod.len)
  /\ data' = StoredRow(prod.copy, next, prod.len, prod.row)
  /\ prod' = [prod EXCEPT !.row = @ + 1]
  /\ UNCHANGED <<hdr, mode, pacing, stop, host, next, played, lost, restarts, clash>>

WriteStore ==
  /\ prod.pc = "rows" /\ prod.row = Kept(prod.len)
  /\ hdr' = AfterWrite(prod.copy, prod.len)
  /\ clash' = (clash \/ hdr # prod.copy)
  /\ next' = next + prod.len
  /\ lost' = lost + prod.drop + (prod.len - Kept(prod.len))
  /\ prod' = Idle
  /\ UNCHANGED <<data, mode, pacing, stop, host, played, restarts>>

\* The in-process ring: the same write and read, each in one piece.
LocalWrite(n) ==
  /\ mode = "local" /\ next + n - 1 <= MaxFrames
  /\ hdr' = AfterWrite(hdr, n)
  /\ data' = Overwritten(hdr, next, n)
  /\ next' = next + n
  /\ lost' = lost + (hdr'.over - hdr.over) + (n - Kept(n))
  /\ UNCHANGED <<mode, prod, pacing, stop, host, played, restarts, clash>>

LocalRead(n) ==
  /\ mode = "local" /\ hdr.under < Period
  /\ hdr' = AfterRead(hdr, n)
  /\ played' = played \o ReadRows(hdr, n)
  /\ UNCHANGED <<data, mode, prod, pacing, stop, host, next, lost, restarts, clash>>

LocalReset ==
  /\ mode = "local" /\ restarts < MaxRestarts
  /\ hdr' = FreshHeader
  /\ data' = Silence
  /\ lost' = lost + Avail(hdr)
  /\ restarts' = restarts + 1
  /\ UNCHANGED <<mode, prod, pacing, stop, host, next, played, clash>>

\* SIGTERM: the flag should_stop() reads.
Stop ==
  /\ ~stop /\ mode # "local"
  /\ stop' = TRUE
  /\ UNCHANGED <<hdr, data, mode, prod, pacing, host, next, played, lost, restarts, clash>>

\* The process ends at any point, and a new one opens the file: "w+b" cuts it
\* to nothing, the header follows, the rows are zeroed last.
Restart ==
  /\ restarts < MaxRestarts /\ mode # "local" /\ prod.pc \notin {"open", "fill"}
  /\ restarts' = restarts + 1
  /\ lost' = lost + Avail(hdr) + (IF prod.pc = "rows" THEN prod.len ELSE 0)
  /\ next' = next + (IF prod.pc = "rows" THEN prod.len ELSE 0)
  /\ hdr' = NoHeader
  /\ data' = Silence
  /\ prod' = [Idle EXCEPT !.pc = "open"]
  /\ pacing' = [status |-> "ready", timeouts |-> 0, stops |-> 0]
  /\ stop' = FALSE
  /\ clash' = (clash \/ host.pc = "rows" \/ (prod.pc = "rows" /\ prod.drop > 0))
  /\ UNCHANGED <<mode, host, played>>

OpenHeader ==
  /\ prod.pc = "open"
  /\ hdr' = FreshHeader
  /\ prod' = [prod EXCEPT !.pc = "fill"]
  /\ UNCHANGED <<data, mode, pacing, stop, host, next, played, lost, restarts, clash>>

OpenFill ==
  /\ prod.pc = "fill"
  /\ data' = Silence
  /\ prod' = Idle
  /\ UNCHANGED <<hdr, mode, pacing, stop, host, next, played, lost, restarts, clash>>

-----------------------------------------------------------------------------
(* The ALSA host.                                                          *)
ValidHeader(h) == h # NoHeader /\ h.r <= h.w /\ Avail(h) <= Capacity

HostStart ==
  /\ host.pc = "start" /\ ValidHeader(hdr)
  /\ Avail(hdr) >= Lesser(Threshold, Capacity)
  /\ host' = [host EXCEPT !.pc = "idle"]
  /\ UNCHANGED <<hdr, data, mode, prod, pacing, stop, next, played, lost, restarts, clash>>

\* An unreadable header, sixty seconds below the threshold, or the end of
\* --duration-seconds: the process ends.
HostExit ==
  /\ \/ host.pc = "start"
     \/ host.pc = "idle"
  /\ host' = [host EXCEPT !.pc = "gone"]
  /\ UNCHANGED <<hdr, data, mode, prod, pacing, stop, next, played, lost, restarts, clash>>

HostLoad ==
  /\ host.pc = "idle" /\ ValidHeader(hdr)
  /\ Avail(hdr) > 0 \/ hdr.under < Period   \* bound on the underruns
  /\ host' = [pc |-> "rows", copy |-> hdr, got |-> <<>>]
  /\ UNCHANGED <<hdr, data, mode, prod, pacing, stop, next, played, lost, restarts, clash>>

HostRow ==
  /\ host.pc = "rows" /\ Len(host.got) < Lesser(Period, Avail(host.copy))
  /\ host' = [host EXCEPT !.got = Append(@, data[Slot(host.copy.r + Len(@))])]
  /\ UNCHANGED <<hdr, data, mode, prod, pacing, stop, next, played, lost, restarts, clash>>

HostStore ==
  /\ host.pc = "rows" /\ Len(host.got) = Lesser(Period, Avail(host.copy))
  /\ hdr' = AfterRead(host.copy, Period)
  /\ clash' = (clash \/ hdr # host.copy)
  /\ played' = played \o host.got
  /\ host' = [pc |-> "idle", copy |-> FreshHeader, got |-> <<>>]
  /\ UNCHANGED <<data, mode, prod, pacing, stop, next, lost, restarts>>

-----------------------------------------------------------------------------
Producer ==
  \/ \E n \in Sizes : WriteBegin(n)
  \/ PaceReady \/ PaceStopped \/ PaceTimeout
  \/ WriteLoad \/ WriteRow \/ WriteStore
  \/ OpenHeader \/ OpenFill
Local == \/ \E n \in Sizes : LocalWrite(n)
         \/ LocalRead(Period)
         \/ LocalReset
Host == HostStart \/ HostLoad \/ HostRow \/ HostStore
Next == Producer \/ Local \/ Stop \/ Restart \/ Host \/ HostExit

\* The producer's process and the host's loop run; nobody has to stop them.
Fairness == /\ WF_vars(PaceReady) /\ WF_vars(PaceStopped) /\ WF_vars(PaceTimeout)
            /\ WF_vars(WriteLoad \/ WriteRow \/ WriteStore \/ OpenHeader \/ OpenFill)
            /\ WF_vars(Host)
            /\ WF_vars(host.pc = "start" /\ HostExit)
Spec == Init /\ [][Next]_vars /\ Fairness
-----------------------------------------------------------------------------
(* Properties.                                                             *)
HeaderType == [w : Nat, r : Nat, under : Nat, over : Nat, low : 0 .. Capacity]

TypeOK ==
  /\ hdr \in HeaderType \/ (hdr = NoHeader /\ prod.pc = "open")
  /\ data \in [Rows -> Nat]
  /\ mode \in {"paced", "timed", "raw", "local"}
  /\ prod \in [pc : {"idle", "wait", "load", "rows", "open", "fill"},
               len : Nat, copy : HeaderType, row : Nat, drop : Nat]
  /\ pacing \in [status : {"ready", "stopped", "timeout"}, timeouts : Nat, stops : Nat]
  /\ stop \in BOOLEAN /\ clash \in BOOLEAN
  /\ host \in [pc : {"start", "idle", "rows", "gone"}, copy : HeaderType, got : Seq(Nat)]
  /\ next \in Nat \ {0} /\ lost \in Nat /\ restarts \in Nat
  /\ played \in Seq(Nat)

\* No header anyone stores, however stale the copy it was made from, makes the
\* host refuse the ring: the reader never passes the writer and the writer is
\* never more than a ring ahead (lib.rs validate, read_ring_header).
HeaderSound == /\ TypeOK
               /\ hdr = NoHeader \/ ValidHeader(hdr)
               /\ ValidHeader(prod.copy) /\ ValidHeader(host.copy)

Paced == mode \in {"paced", "timed"} /\ pacing.timeouts = 0 /\ restarts = 0
\* A paced write drops nothing of what its header says is queued, although it
\* loads the header again after the wait and the host may have stored one in
\* between (PacingRingWriter.write, SharedMemoryInt16InterleavedStereoRing.write).
PacedKeepsQueue == Paced /\ prod.pc = "rows" => prod.drop = 0

\* The rows the producer is storing and the rows the host is copying are
\* different ones, even after headers were lost.
RowsApart ==
  Paced /\ prod.pc = "rows" /\ host.pc = "rows" =>
    \A i \in 0 .. Kept(prod.len) - 1, k \in 0 .. Lesser(Period, Avail(host.copy)) - 1 :
      Slot(prod.copy.w + i) # Slot(host.copy.r + k)
\* What pacing is for: a paced producer takes no frame from the host, neither
\* from the queue nor from under its copy, until a wait times out, or the
\* producer is started again under a host that copies: its old header may then
\* take back the room the wait has seen.
PacingHolds == PacedKeepsQueue /\ RowsApart

\* As long as no header was lost and no row overwritten under the host, what is
\* played is the stream in its order: nothing twice, no hole filled with zeros.
Torn == clash \/ (prod.pc = "rows" /\ prod.drop > 0)
InOrder ==
  Torn \/ \A i \in DOMAIN played :
            played[i] > IF i = 1 THEN 0 ELSE played[i - 1]

\* ... and every frame made is played, queued, or counted as lost.
Accounted == Torn \/ prod.pc = "open" \/ next - 1 = Len(played) + Avail(hdr) + lost
\* The stream of the producer is the stream of the host.
StreamKept == InOrder /\ Accounted

\* A producer that waits for room gets it as long as the host plays; the two
\* never wait for each other (wait_for_start_threshold, _wait_for_free_frames).
WaitEnds == (prod.pc = "wait") ~> (prod.pc # "wait" \/ host.pc = "gone")

\* SIGTERM ends the wait even when the host is gone.
StopEnds == (prod.pc = "wait" /\ stop) ~> (prod.pc # "wait")
\* No wait of the producer is for ever.
WaitsEnd == WaitEnds /\ StopEnds

\* The manual of the live bridge: with backpressure, the producer "waits for
\* the ALSA host instead of overwriting queued audio".
QueuedAudioKept ==
  (mode = "paced" /\ restarts = 0 /\ pacing.stops = 0)
    => next - 1 = Len(played) + Avail(hdr)
=============================================================================
