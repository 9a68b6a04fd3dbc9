----------------------------- MODULE LiveProducer -----------------------------
(***************************************************************************)
(* JaxLiveProducer (magenta_rt/jax/live_producer.py): a prepared schedule  *)
(* of conditioning frames is run through the streaming model in one of     *)
(* five modes, which differ in when the device is synchronised and in how  *)
(* many frames reach the ring at a time.  The model state is donated to    *)
(* every step: a handle is used once.                                      *)
(*                                                                         *)
(* A step's output is told apart by the steps made before it, the frame    *)
(* and the style tokens it was conditioned on.                             *)
(***************************************************************************)
EXTENDS Naturals, Sequences, FiniteSets, SequencesExt

CONSTANTS
  Modes,      \* the modes calls are made in
  Schedules,  \* numbers of frames a schedule may have
  ChunkSizes, \* values of chunk_frames
  Updates,    \* the lists of prompt updates: sequences of [at, style]
  MaxCalls,   \* bound: calls of generate_int16()
  Base        \* the style tokens of the prompt the session starts with

ASSUMPTION LiveProducerAssumption ==
  /\ Modes \subseteq {"serial", "sync-diagnosis", "pipeline-1", "chunked", "scan-chunked"}
  /\ Schedules \subseteq Nat
  /\ ChunkSizes \subseteq Nat \ {0}
  /\ \A u \in Updates : u \in Seq(ToSet(u)) /\ \A i \in DOMAIN u : u[i].at \in Nat
  /\ MaxCalls \in Nat

VARIABLES
  call,     \* the call in progress: [mode, frames, cf, upd, pc]
  prepared, \* PreparedSchedule.frames: sequence of [frame, style, gen]
  at,       \* frames stepped so far in this call
  state,    \* handle of the model state: the steps behind it
  donated,  \* handles given away
  pending,  \* pipeline-1: the output not yet copied, at most one
  outputs,  \* the chunks copied to the host in this call
  ring,     \* the chunks the ring writer took in this call
  compiled, \* chunk lengths with a compiled scan
  calls

vars == <<call, prepared, at, state, donated, pending, outputs, ring, compiled, calls>>

-----------------------------------------------------------------------------
(* The schedule. *)
\* Mutant: the boundary before the frame asked for.
AlignDown(at_, cf) == (at_ \div cf) * cf
AlignUpdate(at_, cf) == ((at_ + cf - 1) \div cf) * cf

\* The updates at their chunk boundaries, sorted; updates that meet at one
\* boundary stay in the order they were given in.
Earlier(x, y) == x.at < y.at \/ (x.at = y.at /\ x.seq < y.seq)
NormalizeUpdates(u, cf) ==
  LET aligned == {[at |-> AlignUpdate(u[i].at, cf), style |-> u[i].style, seq |-> i] : i \in DOMAIN u}
  IN  CHOOSE s \in [DOMAIN u -> aligned] : \A i, j \in DOMAIN u : i < j => Earlier(s[i], s[j])

\* The generation of a frame counts the updates up to the first that is later.
Generation(norm, f) == Cardinality({i \in DOMAIN norm : \A j \in 1 .. i : norm[j].at <= f})
StyleForFrame(norm, f) ==
  IF Generation(norm, f) = 0 THEN Base ELSE norm[Generation(norm, f)].style

PrepareSchedule(n, cf, u) ==
  LET norm == NormalizeUpdates(u, cf)
  IN  [i \in 1 .. n |-> [frame |-> i - 1, style |-> StyleForFrame(norm, i - 1),
                         gen |-> Generation(norm, i - 1)]]

\* The chunk that starts at a frame ends cf frames later or with the schedule.
ChunkEnd(n, cf, start) == IF start + cf < n THEN start + cf ELSE n

\* _step(): the output of the state with k steps behind it on a frame.
Output(k, p) == [step |-> k, frame |-> p.frame, style |-> p.style]
StepsOf(from, to) == [i \in 1 .. to - from |-> Output(state + i - 1, prepared[from + i])]

Init ==
  /\ call = [mode |-> "serial", frames |-> 0, cf |-> 1, upd |-> <<>>, pc |-> "idle"]
  /\ prepared = <<>>
  /\ at = 0
  /\ state = 0
  /\ donated = {}
  /\ pending = <<>>
  /\ outputs = <<>>
  /\ ring = <<>>
  /\ compiled = {}
  /\ calls = 0

\* prepare_schedule() and generate_int16() on the state the last call returned.
Call(m, n, cf, u) ==
  /\ call.pc = "idle" /\ calls < MaxCalls
  /\ call' = [mode |-> m, frames |-> n, cf |-> cf, upd |-> u, pc |-> "run"]
  /\ prepared' = PrepareSchedule(n, cf, u)
  /\ at' = 0 /\ pending' = <<>> /\ outputs' = <<>> /\ ring' = <<>>
  /\ calls' = calls + 1
  /\ UNCHANGED <<state, donated, compiled>>

\* precompile_scan_chunks() for the chunk lengths of a schedule.
Precompile(n, cf) ==
  /\ call.pc = "idle" /\ calls < MaxCalls
  /\ compiled' = compiled \cup {ChunkEnd(n, cf, s) - s : s \in {k \in 0 .. n : k < n /\ k % cf = 0}}
  /\ UNCHANGED <<call, prepared, at, state, donated, pending, outputs, ring, calls>>

Advance(k) == /\ at' = at + k
              /\ state' = state + k
              /\ donated' = donated \cup (state .. state + k - 1)
Emit(chunk) == /\ outputs' = Append(outputs, chunk)
               /\ ring' = Append(ring, chunk)
Running(m) == call.pc = "run" /\ call.mode \in m /\ at < call.frames

\* One frame: step, wait for it, copy it, write it.
SerialFrame ==
  /\ Running({"serial", "sync-diagnosis"})
  /\ Emit(StepsOf(at, at + 1))
  /\ Advance(1)
  /\ UNCHANGED <<call, prepared, pending, compiled, calls>>

\* One frame: step, and only then copy and write the frame before.
Pipeline1Frame ==
  /\ Running({"pipeline-1"})
  /\ IF pending = <<>> THEN UNCHANGED <<outputs, ring>> ELSE Emit(pending)
  /\ pending' = StepsOf(at, at + 1)
  /\ Advance(1)
  /\ UNCHANGED <<call, prepared, compiled, calls>>

Pipeline1Last ==
  /\ call.pc = "run" /\ call.mode = "pipeline-1" /\ at = call.frames /\ pending # <<>>
  /\ Emit(pending)
  /\ pending' = <<>>
  /\ UNCHANGED <<call, prepared, at, state, donated, compiled, calls>>

\* The frames of a chunk one after the other, copied and written together.
ChunkedChunk ==
  /\ Running({"chunked"})
  /\ LET end == ChunkEnd(call.frames, call.cf, at)
     IN  Emit(StepsOf(at, end)) /\ Advance(end - at)
  /\ UNCHANGED <<call, prepared, pending, compiled, calls>>

\* Mutant: the last scan is padded to a whole chunk.
ScanChunkPadded ==
  /\ Running({"scan-chunked"})
  /\ LET end == ChunkEnd(call.frames, call.cf, at)
     IN  /\ compiled' = compiled \cup {end - at}
         /\ Emit(StepsOf(at, end))
         /\ at' = end
         /\ state' = state + call.cf
         /\ donated' = donated \cup {state}
  /\ UNCHANGED <<call, prepared, pending, calls>>

\* The frames of a chunk in one compiled scan; the state is donated once, and
\* the handles in between never leave the device.
ScanChunk ==
  /\ Running({"scan-chunked"})
  /\ LET end == ChunkEnd(call.frames, call.cf, at)
     IN  /\ compiled' = compiled \cup {end - at}
         /\ Emit(StepsOf(at, end))
         /\ at' = end
         /\ state' = state + (end - at)
         /\ donated' = donated \cup {state}
  /\ UNCHANGED <<call, prepared, pending, calls>>

\* _finish(): samples, state and metrics go back to the caller.
Finish ==
  /\ call.pc = "run" /\ at = call.frames /\ pending = <<>>
  /\ call' = [call EXCEPT !.pc = "idle"]
  /\ UNCHANGED <<prepared, at, state, donated, pending, outputs, ring, compiled, calls>>

\* The copy or the ring writer raises after the device has stepped: the caller
\* keeps the handle it passed, which is gone, and ends.
Raise ==
  /\ call.pc = "run" /\ at > 0
  /\ call' = [call EXCEPT !.pc = "failed"]
  /\ UNCHANGED <<prepared, at, state, donated, pending, outputs, ring, compiled, calls>>

Next ==
  \/ \E m \in Modes, n \in Schedules, cf \in ChunkSizes, u \in Updates : Call(m, n, cf, u)
  \/ \E n \in Schedules, cf \in ChunkSizes : Precompile(n, cf)
  \/ SerialFrame \/ Pipeline1Frame \/ Pipeline1Last \/ ChunkedChunk \/ ScanChunk
  \/ Finish \/ Raise

Spec == Init /\ [][Next]_vars

-----------------------------------------------------------------------------
OutputType == [step : Nat, frame : Nat, style : {Base} \cup UNION {{u[i].style : i \in DOMAIN u} : u \in Updates}]
TypeOK ==
  /\ call \in [mode : {"serial", "sync-diagnosis", "pipeline-1", "chunked", "scan-chunked"},
               frames : Nat, cf : Nat \ {0}, upd : Updates \cup {<<>>}, pc : {"run", "idle", "failed"}]
  /\ at \in 0 .. call.frames /\ state \in Nat /\ calls \in 0 .. MaxCalls
  /\ donated \in SUBSET Nat
  /\ pending \in Seq(OutputType) /\ Len(pending) <= 1
  /\ compiled \in SUBSET (Nat \ {0})

\* Every mode makes the audio the serial loop makes: frame i of the schedule,
\* with its style, on the state that has seen everything before it, once and in
\* order - whatever the chunking, the lag or the modes of the calls before.
Heard == FlattenSeq(outputs) \o pending
SameAudio ==
  call.pc = "run" =>
    Heard = [i \in 1 .. at |-> Output(state - at + i - 1, prepared[i])]
\* ... and all of it when the call returns.
AllHeard == call.pc = "idle" => Len(FlattenSeq(outputs)) = call.frames

\* The ring is given what the caller is given, in the same pieces, and no piece
\* is longer than a chunk.
RingFollows ==
  /\ ring = outputs
  /\ \A i \in DOMAIN ring : Len(ring[i]) \in 1 .. call.cf

\* No step is made on a state that was given away (donate_argnums).
NeverDonatedTwice == call.pc \in {"run", "idle"} => state \notin donated

\* The five ways of running a schedule give the caller and the ring one stream.
ScheduleServed == TypeOK /\ SameAudio /\ AllHeard /\ RingFollows /\ NeverDonatedTwice

\* A prompt change is heard from a chunk boundary on: not before the frame it
\* was asked for, less than a chunk after it, and never inside a chunk.
PromptOnBoundary ==
  \A f \in DOMAIN prepared :
    /\ prepared[f].gen = Cardinality({i \in DOMAIN call.upd :
         \E b \in call.upd[i].at .. call.upd[i].at + call.cf - 1 : b % call.cf = 0 /\ b < f})
    /\ f > 1 /\ (f - 1) % call.cf # 0 => prepared[f].style = prepared[f - 1].style
=============================================================================
