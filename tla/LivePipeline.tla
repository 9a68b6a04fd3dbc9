----------------------------- MODULE LivePipeline -----------------------------
(***************************************************************************)
(* PipelinedStreamGenerator (magenta_rt/live_pipeline.py): the frame loop  *)
(* that steps frame i and copies frame i-1 while the device works, with a  *)
(* PlanHolder through which a control thread changes the conditioning, and *)
(* a wait for room in the ring before each write.                          *)
(***************************************************************************)
EXTENDS Naturals, Sequences, SequencesExt

CONSTANTS
  Plans,     \* what plans may be asked for: [id, notes, drums], two row counts
  Warmups,   \* values of warmup_frames
  Lives,     \* values of max_frames
  MaxFrames, \* bound: steps of the model
  RingSize   \* model frames the ring holds

ASSUMPTION LivePipelineAssumption ==
  /\ \A p \in Plans : p.notes \in Nat /\ p.drums \in Nat
  /\ Warmups \subseteq Nat /\ Lives \subseteq Nat
  /\ MaxFrames \in Nat /\ RingSize \in Nat \ {0}

VARIABLES
  gpc,     \* the generator: idle, warmup, live, room, sink
  plan,    \* the plan in the holder
  taken,   \* the plan of the step being made
  index,   \* _frame_index
  gstate,  \* steps behind the model state since it was initialised
  epoch,   \* times the state was initialised
  inflight,\* _pending
  produced,\* frames the loop has drained
  limit,   \* the frames the warm-up and the live loop of this run ask for
  gstop,   \* should_stop()
  queued,  \* frames in the ring
  emitted, \* history: the frames given to the sink
  stepped, \* history: the steps made
  unroomed \* history: writes made without room

pvars == <<gpc, plan, taken, index, gstate, epoch, inflight, produced, limit, gstop,
           queued, emitted, stepped, unroomed>>

\* build_conditioning_plan(): both arrays have the same, positive number of
\* rows, and a block is built ahead for each.
Buildable(p) == p.notes = p.drums /\ p.notes > 0
Built == {p \in Plans : Buildable(p)}
Period(p) == p.notes

NoFrame == [epoch |-> 0]
PInit ==
  /\ gpc = "idle"
  /\ plan \in Built /\ taken = plan
  /\ index = 0 /\ gstate = 0 /\ epoch = 0
  /\ inflight = NoFrame
  /\ produced = 0 /\ limit = [warmup |-> 0, live |-> 0]
  /\ gstop = FALSE
  /\ queued = 0
  /\ emitted = <<>> /\ stepped = <<>>
  /\ unroomed = 0

\* The control thread: PlanHolder.set() and the stop flag.
SetPlan(p) ==
  /\ p # plan /\ Buildable(p) /\ Len(stepped) < MaxFrames
  /\ plan' = p
  /\ UNCHANGED <<gpc, taken, index, gstate, epoch, inflight, produced, limit, gstop,
                 queued, emitted, stepped, unroomed>>
StopLive ==
  /\ ~gstop /\ gpc # "idle"
  /\ gstop' = TRUE
  /\ UNCHANGED <<gpc, plan, taken, index, gstate, epoch, inflight, produced, limit,
                 queued, emitted, stepped, unroomed>>

\* The consumer of the ring.
Consume ==
  /\ queued > 0
  /\ queued' = queued - 1
  /\ UNCHANGED <<gpc, plan, taken, index, gstate, epoch, inflight, produced, limit,
                 gstop, emitted, stepped, unroomed>>

\* reset(): a new state, and whatever is in flight is dropped.
ResetGenerator(restart) ==
  /\ gpc = "idle" /\ epoch < 2
  /\ epoch' = epoch + 1 /\ gstate' = 0
  /\ inflight' = NoFrame
  /\ index' = IF restart THEN 0 ELSE index
  /\ UNCHANGED <<gpc, plan, taken, produced, limit, gstop, queued, emitted, stepped, unroomed>>

\* run(): the first one initialises the state; warm-up, then the live loop.
Run(w, n) ==
  /\ gpc = "idle" /\ ~gstop
  /\ gpc' = IF w > 0 THEN "warmup" ELSE "live"
  /\ epoch' = IF epoch = 0 THEN 1 ELSE epoch
  /\ produced' = 0
  /\ limit' = [warmup |-> w, live |-> n]
  /\ UNCHANGED <<plan, taken, index, gstate, inflight, gstop, queued, emitted, stepped, unroomed>>

Enough == produced >= IF gpc = "warmup" THEN limit.warmup ELSE limit.live

\* The head of the loop: stop or enough frames end it.
LoopEnd ==
  /\ gpc \in {"warmup", "live"} /\ (gstop \/ Enough)
  /\ gpc' = IF gpc = "warmup" THEN "live" ELSE "idle"
  /\ produced' = 0
  /\ UNCHANGED <<plan, taken, index, gstate, epoch, inflight, limit, gstop,
                 queued, emitted, stepped, unroomed>>

\* holder.get(): the plan of one whole step.
TakePlan ==
  /\ gpc \in {"warmup", "live"} /\ ~gstop /\ ~Enough /\ Len(stepped) < MaxFrames
  /\ taken' = plan
  /\ gpc' = IF gpc = "warmup" THEN "stepwarm" ELSE "step"
  /\ UNCHANGED <<plan, index, gstate, epoch, inflight, produced, limit, gstop,
                 queued, emitted, stepped, unroomed>>

StepOutput == [epoch |-> epoch, step |-> gstate, plan |-> taken,
               row |-> index % Period(taken), warm |-> gpc = "stepwarm"]

\* Dispatch frame i.  In warm-up the frame before is copied and dropped.
StepWarm ==
  /\ gpc = "stepwarm"
  /\ stepped' = Append(stepped, StepOutput)
  /\ gstate' = gstate + 1 /\ index' = index + 1
  /\ produced' = IF inflight = NoFrame THEN produced ELSE produced + 1
  /\ inflight' = StepOutput
  /\ gpc' = "warmup"
  /\ UNCHANGED <<plan, taken, epoch, limit, gstop, queued, emitted, unroomed>>

\* Live, the frame before goes to the ring once there is room for it.
Step ==
  /\ gpc = "step"
  /\ stepped' = Append(stepped, StepOutput)
  /\ gstate' = gstate + 1 /\ index' = index + 1
  /\ IF inflight = NoFrame
     THEN gpc' = "live" /\ inflight' = StepOutput
     ELSE gpc' = "room" /\ UNCHANGED inflight
  /\ UNCHANGED <<plan, taken, epoch, produced, limit, gstop, queued, emitted, unroomed>>

\* Mutant: stop is not looked at while the ring is full.
HasRoomDeaf == queued < RingSize
\* make_poll_backpressure(): room for one frame, or stop.
HasRoom == queued < RingSize \/ gstop
Room ==
  /\ gpc \in {"room", "flushroom"} /\ HasRoom
  /\ gpc' = IF gpc = "room" THEN "sink" ELSE "flush"
  /\ UNCHANGED <<plan, taken, index, gstate, epoch, inflight, produced, limit, gstop,
                 queued, emitted, stepped, unroomed>>

\* A ring without room drops its oldest frame.
Deliver == /\ emitted' = Append(emitted, inflight)
           /\ queued' = IF queued < RingSize THEN queued + 1 ELSE queued
           /\ unroomed' = IF queued < RingSize THEN unroomed ELSE unroomed + 1

\* Mutant: the newest step goes to the sink, the one in flight is lost.
SinkNewest ==
  /\ gpc = "sink"
  /\ emitted' = Append(emitted, stepped[Len(stepped)])
  /\ queued' = IF queued < RingSize THEN queued + 1 ELSE queued
  /\ unroomed' = IF queued < RingSize THEN unroomed ELSE unroomed + 1
  /\ inflight' = stepped[Len(stepped)]
  /\ produced' = produced + 1
  /\ gpc' = "live"
  /\ UNCHANGED <<plan, taken, index, gstate, epoch, limit, gstop, stepped>>
Sink ==
  /\ gpc = "sink"
  /\ Deliver
  /\ inflight' = stepped[Len(stepped)]
  /\ produced' = produced + 1
  /\ gpc' = "live"
  /\ UNCHANGED <<plan, taken, index, gstate, epoch, limit, gstop, stepped>>

\* flush(): the last frame in flight, after the run.
FlushBegin ==
  /\ gpc = "idle" /\ inflight # NoFrame
  /\ gpc' = "flushroom"
  /\ UNCHANGED <<plan, taken, index, gstate, epoch, inflight, produced, limit, gstop,
                 queued, emitted, stepped, unroomed>>
Flush ==
  /\ gpc = "flush"
  /\ Deliver
  /\ inflight' = NoFrame
  /\ gpc' = "idle"
  /\ UNCHANGED <<plan, taken, index, gstate, epoch, produced, limit, gstop, stepped>>

Generator == LoopEnd \/ TakePlan \/ StepWarm \/ Step \/ Room \/ Sink \/ Flush
PNext ==
  \/ \E p \in Plans : SetPlan(p)
  \/ StopLive \/ Consume
  \/ \E restart \in BOOLEAN : ResetGenerator(restart)
  \/ \E w \in Warmups, n \in Lives : Run(w, n)
  \/ FlushBegin \/ Generator

PSpec == PInit /\ [][PNext]_pvars /\ WF_pvars(Generator)

-----------------------------------------------------------------------------
PTypeOK ==
  /\ gpc \in {"idle", "warmup", "live", "stepwarm", "step", "room", "sink", "flushroom", "flush"}
  /\ plan \in Built /\ taken \in Built
  /\ index \in Nat /\ gstate \in Nat /\ epoch \in 0 .. 2
  /\ inflight \in {NoFrame} \cup {stepped[i] : i \in DOMAIN stepped}
  /\ queued \in 0 .. RingSize /\ unroomed \in Nat
  /\ gstop \in BOOLEAN

\* The sink is given the frames in the order they were made, each once, across
\* runs, flushes and resets.
Before(a, b) == a.epoch < b.epoch \/ (a.epoch = b.epoch /\ a.step < b.step)
EmittedInOrder == \A i \in 1 .. Len(emitted) - 1 : Before(emitted[i], emitted[i + 1])

\* With one step in flight no frame is lost: each one is given to the sink,
\* unless the step after it was made to warm up, or a reset came first.
Handed(f) == f = inflight \/ \E i \in DOMAIN emitted : emitted[i] = f
LostToWarmupOnly ==
  \A k \in 1 .. Len(stepped) - 1 :
    ~stepped[k + 1].warm /\ stepped[k].epoch = stepped[k + 1].epoch => Handed(stepped[k])

\* A stop is never swallowed by a full ring, and costs at most two frames of
\* queued audio: the one in the loop and the one flushed.
StopOverwrites == unroomed <= (IF gstop THEN 2 ELSE 0)
StopEndsLoop == gstop ~> gpc = "idle"
StopServed == []StopOverwrites /\ StopEndsLoop

\* The schedule goes round: from one step to the next the row goes on by one,
\* at the plan's own period, and starts again only when a reset says so.
RowsGoRound ==
  \A k \in 1 .. Len(stepped) - 1 :
    stepped[k].plan = stepped[k + 1].plan /\ stepped[k].epoch = stepped[k + 1].epoch =>
      stepped[k + 1].row = (stepped[k].row + 1) % Period(stepped[k].plan)
\* So what the sink hears is the plan, frame after frame.
PlanHeard == PTypeOK /\ EmittedInOrder /\ LostToWarmupOnly /\ RowsGoRound
=============================================================================
