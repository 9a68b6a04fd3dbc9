------------------------------ MODULE LiveProofs ------------------------------
(***************************************************************************)
(* LivePipeline and LiveProducer for every plan, schedule, chunk size and  *)
(* ring: the pipelined generator gives the sink each frame once and in     *)
(* order and goes round its plan, and every mode of the producer makes the *)
(* stream the serial loop makes.                                           *)
(***************************************************************************)
EXTENDS LiveProducer, LivePipeline, FiniteSetTheorems, FunctionTheorems, SequenceTheorems,
        WellFoundedInduction, TLAPS

-----------------------------------------------------------------------------
(* The pipelined generator.                                                *)

Outputs == [epoch : Nat \ {0}, step : Nat, plan : Built, row : Nat, warm : BOOLEAN]
Loop == {"warmup", "live", "stepwarm", "step", "room", "sink"}
Handover == {"room", "sink"}
\* Where the next step will be.
Ahead == [epoch |-> epoch, step |-> gstate]

GeneratorTypes ==
  /\ PTypeOK
  /\ stepped \in Seq(Outputs) /\ emitted \in Seq(Outputs)
  /\ inflight \in {NoFrame} \cup Outputs
  /\ gpc \in Loop \cup {"flushroom", "flush"} => epoch # 0

\* A frame in flight is the last step made, or, while it waits for the sink,
\* the one before.
InFlight ==
  /\ gpc \in Handover => /\ Len(stepped) >= 2 /\ inflight = stepped[Len(stepped) - 1]
                         /\ stepped[Len(stepped)].epoch = inflight.epoch
  /\ gpc \notin Handover /\ inflight # NoFrame =>
       stepped # <<>> /\ inflight = stepped[Len(stepped)]
  /\ gpc \in {"flushroom", "flush"} => inflight # NoFrame
  /\ inflight # NoFrame => inflight.epoch = epoch

\* Steps are made, and given to the sink, in the order of their epochs and
\* numbers; what is in flight comes after all the sink has.
StepOrder ==
  /\ \A i \in DOMAIN stepped : Before(stepped[i], Ahead)
  /\ \A i, j \in DOMAIN stepped : i < j => Before(stepped[i], stepped[j])
SinkOrder ==
  /\ \A i \in DOMAIN emitted : Before(emitted[i], Ahead)
  /\ \A i \in DOMAIN emitted : inflight # NoFrame => Before(emitted[i], inflight)
  /\ \A i, j \in DOMAIN emitted : i < j => Before(emitted[i], emitted[j])

\* The last step of this state is on its way, and made on the row before.
LastStep ==
  stepped # <<>> /\ stepped[Len(stepped)].epoch = epoch =>
    /\ gpc \notin Handover => Handed(stepped[Len(stepped)])
    /\ index > 0
    /\ stepped[Len(stepped)].row = (index - 1) % Period(stepped[Len(stepped)].plan)

GeneratorInv ==
  GeneratorTypes /\ InFlight /\ StepOrder /\ SinkOrder /\ LastStep /\ LostToWarmupOnly /\ RowsGoRound

\* How many writes without room a stop can still lead to: the frame in the
\* loop and the one in flight behind it.
Owed ==
  IF gpc \in {"step", "room", "sink"} THEN 2
  ELSE IF gpc = "idle" /\ inflight = NoFrame THEN 0 ELSE 1
RoomInv ==
  /\ ~gstop => unroomed = 0
  /\ gstop => unroomed + Owed <= 2
  /\ gpc \in {"sink", "flush"} /\ ~gstop => queued < RingSize

-----------------------------------------------------------------------------

LEMMA Appended ==
  ASSUME NEW S, NEW s \in Seq(S), NEW e \in S
  PROVE  /\ Append(s, e) \in Seq(S) /\ Len(s) \in Nat
         /\ Len(Append(s, e)) = Len(s) + 1
         /\ DOMAIN s = 1 .. Len(s) /\ DOMAIN Append(s, e) = 1 .. Len(s) + 1
         /\ \A i \in 1 .. Len(s) : Append(s, e)[i] = s[i] /\ s[i] \in S
         /\ Append(s, e)[Len(s) + 1] = e
         /\ Append(s, e) # <<>>
OBVIOUS

LEMMA SomeFrame ==
  ASSUME NEW f \in Outputs
  PROVE  f # NoFrame /\ f.epoch \in Nat /\ f.epoch # 0 /\ f.step \in Nat
BY DEF Outputs, NoFrame

\* The row after a row, round a period.
LEMMA RowAfter ==
  ASSUME NEW n \in Nat \ {0}, NEW i \in Nat, i > 0
  PROVE  i % n = (((i - 1) % n) + 1) % n
<1> DEFINE q == (i - 1) \div n  r == (i - 1) % n
<1>1. q \in Int /\ r \in 0 .. n - 1 /\ i - 1 = n * q + r
  OBVIOUS
<1> HIDE DEF q, r
<1>2. CASE r + 1 < n
  <2>1. i = n * q + (r + 1) /\ r + 1 \in 0 .. n - 1
    BY <1>1, <1>2
  <2>2. i % n = r + 1 /\ (r + 1) % n = r + 1
    BY <1>1, <2>1
  <2> QED BY <2>2 DEF r
<1>3. CASE r + 1 = n
  <2>1. i = n * (q + 1)
    BY <1>1, <1>3
  <2>2. i % n = 0 /\ n % n = 0
    BY <1>1, <2>1
  <2> QED BY <1>3, <2>2 DEF r
<1> QED BY <1>1, <1>2, <1>3

LEMMA GeneratorInit == PInit => GeneratorInv /\ RoomInv
<1> SUFFICES ASSUME PInit PROVE GeneratorInv /\ RoomInv
  OBVIOUS
<1> USE LivePipelineAssumption
<1>1. GeneratorTypes
  <2>1. PTypeOK
    <3>1. queued \in 0 .. RingSize /\ unroomed \in Nat /\ epoch \in 0 .. 2
      BY DEF PInit
    <3>2. inflight \in {NoFrame} \cup {stepped[i] : i \in DOMAIN stepped}
      BY DEF PInit
    <3> QED BY <3>1, <3>2 DEF PInit, PTypeOK
  <2>2. stepped \in Seq(Outputs) /\ emitted \in Seq(Outputs)
    BY DEF PInit
  <2> QED BY <2>1, <2>2 DEF PInit, GeneratorTypes, Loop
<1>2. InFlight /\ LastStep /\ RoomInv
  BY DEF PInit, InFlight, LastStep, RoomInv, Owed, Handover
<1>3. StepOrder /\ SinkOrder /\ LostToWarmupOnly /\ RowsGoRound
  BY DEF PInit, StepOrder, SinkOrder, LostToWarmupOnly, RowsGoRound
<1> QED BY <1>1, <1>2, <1>3 DEF GeneratorInv

LEMMA BuiltPlan ==
  ASSUME NEW p \in Built
  PROVE  Period(p) \in Nat \ {0}
BY LivePipelineAssumption DEF Built, Buildable, Period

\* A step that makes, moves and gives away no frame.
Quiet ==
  \/ \E p \in Plans : SetPlan(p)
  \/ StopLive \/ Consume \/ LoopEnd \/ TakePlan \/ Room \/ FlushBegin
  \/ \E w \in Warmups, n \in Lives : Run(w, n)
  \/ UNCHANGED pvars

LEMMA QuietStep == GeneratorInv /\ Quiet => GeneratorInv'
<1> SUFFICES ASSUME GeneratorInv, Quiet PROVE GeneratorInv'
  OBVIOUS
<1> USE DEF GeneratorInv
<1>1. UNCHANGED <<stepped, emitted, inflight, index, gstate>>
  BY DEF Quiet, SetPlan, StopLive, Consume, LoopEnd, TakePlan, Room, FlushBegin, Run, pvars
<1>2. /\ epoch' = epoch \/ (epoch = 0 /\ epoch' = 1)
      /\ gpc' = gpc \/ epoch' # 0
      /\ epoch' \in 0 .. 2
  BY DEF Quiet, SetPlan, StopLive, Consume, LoopEnd, TakePlan, Room, FlushBegin, Run, pvars,
    GeneratorTypes, PTypeOK, Loop, InFlight, NoFrame, Outputs
<1>3. epoch = 0 => stepped = <<>> /\ emitted = <<>> /\ inflight = NoFrame
  <2> SUFFICES ASSUME epoch = 0 PROVE stepped = <<>> /\ emitted = <<>> /\ inflight = NoFrame
    OBVIOUS
  <2>1. \A f \in Outputs : ~Before(f, Ahead)
    BY DEF Outputs, Before, Ahead
  <2>2. DOMAIN stepped = {} /\ DOMAIN emitted = {}
    BY <2>1 DEF StepOrder, SinkOrder, GeneratorTypes
  <2> QED BY <2>2 DEF GeneratorTypes, InFlight, Outputs
<1>4. GeneratorTypes'
  <2>1. queued' \in 0 .. RingSize
    BY LivePipelineAssumption DEF Quiet, SetPlan, StopLive, Consume, LoopEnd, TakePlan, Room, FlushBegin, Run, pvars,
      GeneratorTypes, PTypeOK
  <2>2. plan' \in Built /\ taken' \in Built /\ gstop' \in BOOLEAN /\ unroomed' \in Nat
        /\ gpc' \in {"idle", "warmup", "live", "stepwarm", "step", "room", "sink", "flushroom", "flush"}
    BY DEF Quiet, SetPlan, StopLive, Consume, LoopEnd, TakePlan, Room, FlushBegin, Run, pvars,
      GeneratorTypes, PTypeOK, Built
  <2> QED BY <1>1, <1>2, <2>1, <2>2 DEF GeneratorTypes, PTypeOK
<1>5. /\ gpc' \in Handover <=> gpc \in Handover
      /\ gpc' \in {"flushroom", "flush"} => gpc \in {"flushroom", "flush"} \/ inflight # NoFrame
  BY DEF Quiet, SetPlan, StopLive, Consume, LoopEnd, TakePlan, Room, FlushBegin, Run, pvars,
    Handover
<1>6. InFlight' /\ LastStep'
  BY <1>1, <1>2, <1>3, <1>5 DEF InFlight, LastStep, Handed
<1>7. StepOrder' /\ SinkOrder'
  <2>1. CASE epoch' = epoch
    BY <1>1, <2>1 DEF StepOrder, SinkOrder, Before, Ahead
  <2>2. CASE epoch = 0
    BY <1>1, <1>3, <2>2 DEF StepOrder, SinkOrder
  <2> QED BY <1>2, <2>1, <2>2
<1>8. LostToWarmupOnly' /\ RowsGoRound'
  BY <1>1 DEF LostToWarmupOnly, RowsGoRound, Handed
<1> QED BY <1>4, <1>6, <1>7, <1>8

\* The frame that a step makes.
LEMMA OutputMade ==
  ASSUME GeneratorInv, gpc \in Loop
  PROVE  /\ StepOutput \in Outputs
         /\ StepOutput.epoch = epoch /\ StepOutput.step = gstate
         /\ StepOutput.plan = taken /\ StepOutput.row = index % Period(taken)
         /\ StepOutput.warm = (gpc = "stepwarm")
         /\ \A f \in Outputs : Before(f, Ahead) => Before(f, StepOutput) /\ f # StepOutput
<1>1. epoch \in Nat \ {0} /\ gstate \in Nat /\ index \in Nat /\ taken \in Built
  BY DEF GeneratorInv, GeneratorTypes, PTypeOK
<1>2. index % Period(taken) \in Nat
  BY <1>1, BuiltPlan
<1> QED BY <1>1, <1>2 DEF StepOutput, Outputs, Before, Ahead

LEMMA MakeStep == GeneratorInv /\ (StepWarm \/ Step) => GeneratorInv'
<1> SUFFICES ASSUME GeneratorInv, StepWarm \/ Step PROVE GeneratorInv'
  OBVIOUS
<1> DEFINE F == StepOutput  n == Len(stepped)
<1>0. GeneratorTypes /\ InFlight /\ StepOrder /\ SinkOrder /\ LastStep /\ LostToWarmupOnly /\ RowsGoRound
  BY DEF GeneratorInv
<1>1. /\ stepped' = Append(stepped, F) /\ gstate' = gstate + 1 /\ index' = index + 1
      /\ UNCHANGED <<plan, taken, epoch, gstop, queued, emitted, unroomed>>
      /\ gpc \in Loop /\ gpc \notin Handover
      /\ F.warm <=> gpc = "stepwarm"
  BY OutputMade DEF StepWarm, Step, Loop, Handover
<1>2. \/ inflight' = F /\ gpc' \in {"warmup", "live"} /\ (F.warm \/ inflight = NoFrame)
      \/ inflight' = inflight /\ gpc' = "room" /\ inflight # NoFrame /\ ~F.warm
  BY <1>1 DEF StepWarm, Step
<1>3. /\ F \in Outputs /\ F.epoch = epoch /\ F.step = gstate
      /\ F.plan = taken /\ F.row = index % Period(taken)
      /\ \A f \in Outputs : Before(f, Ahead) => Before(f, F) /\ f # F
  BY <1>1, OutputMade
<1>4. /\ stepped \in Seq(Outputs) /\ emitted \in Seq(Outputs) /\ inflight \in {NoFrame} \cup Outputs
      /\ epoch \in Nat \ {0} /\ gstate \in Nat /\ index \in Nat /\ taken \in Built
  BY <1>0, <1>1 DEF GeneratorTypes, PTypeOK
<1> HIDE DEF F
<1>5. /\ stepped' \in Seq(Outputs) /\ n \in Nat /\ Len(stepped') = n + 1
      /\ DOMAIN stepped = 1 .. n /\ DOMAIN stepped' = 1 .. n + 1
      /\ \A i \in 1 .. n : stepped'[i] = stepped[i] /\ stepped[i] \in Outputs
      /\ stepped'[n + 1] = F /\ stepped' # <<>>
  BY <1>1, <1>3, <1>4, Appended
<1>6. \A f \in Outputs : Before(f, Ahead) => Before(f, Ahead')
  BY <1>1, <1>4 DEF Before, Ahead, Outputs
<1>7. Before(F, Ahead')
  BY <1>1, <1>3, <1>4 DEF Before, Ahead
<1>8. inflight # NoFrame => n \in 1 .. n /\ inflight = stepped[n] /\ inflight.epoch = epoch
  BY <1>0, <1>1, <1>4, <1>5 DEF InFlight
<1>9. GeneratorTypes'
  <2>1. inflight' \in {NoFrame} \cup {stepped'[i] : i \in DOMAIN stepped'}
    BY <1>2, <1>5, <1>8
  <2>2. inflight' \in {NoFrame} \cup Outputs
    BY <1>2, <1>3, <1>4
  <2> QED BY <1>0, <1>1, <1>2, <1>4, <1>5, <2>1, <2>2 DEF GeneratorTypes, PTypeOK, Loop
<1>10. InFlight'
  <2>1. CASE inflight' = F /\ gpc' \in {"warmup", "live"}
    BY <1>1, <1>2, <1>3, <1>5, <2>1, SomeFrame DEF InFlight, Handover
  <2>2. CASE inflight' = inflight /\ gpc' = "room" /\ inflight # NoFrame
    BY <1>1, <1>3, <1>5, <1>8, <2>2 DEF InFlight, Handover
  <2> QED BY <1>2, <2>1, <2>2
<1>11. StepOrder'
  BY <1>0, <1>3, <1>5, <1>6, <1>7 DEF StepOrder
<1>12. SinkOrder'
  BY <1>0, <1>1, <1>2, <1>3, <1>4, <1>6 DEF SinkOrder
<1>13. LastStep'
  BY <1>1, <1>2, <1>3, <1>4, <1>5 DEF LastStep, Handed, Handover
<1>14. n \in Nat
  BY <1>4
<1>15. LostToWarmupOnly'
  <2> SUFFICES ASSUME NEW k \in 1 .. n, ~stepped'[k + 1].warm, stepped'[k].epoch = stepped'[k + 1].epoch
               PROVE  Handed(stepped[k])'
    BY <1>5 DEF LostToWarmupOnly, Handed
  <2>1. CASE k = n
    <3>1. ~F.warm /\ stepped[n].epoch = epoch
      BY <1>3, <1>5, <2>1
    <3>2. Handed(stepped[n])
      BY <1>0, <1>1, <1>5, <2>1, <3>1 DEF LastStep
    <3> QED BY <1>1, <1>2, <1>3, <1>5, <2>1, <3>1, <3>2, <1>0, SomeFrame DEF Handed, StepOrder
  <2>2. CASE k < n
    <3>1. k \in 1 .. n - 1 /\ k + 1 \in 1 .. n
      BY <1>5, <2>2
    <3>2. Handed(stepped[k]) /\ stepped[k] \in Outputs
      BY <1>0, <1>5, <3>1 DEF LostToWarmupOnly
    <3>3. stepped[k] # inflight
      <4>1. Before(stepped[k], stepped[n])
        BY <1>0, <1>5, <2>2, <3>1 DEF StepOrder
      <4>2. stepped[k] # stepped[n]
        BY <3>2, <4>1, SomeFrame DEF Before
      <4> QED BY <1>8, <3>2, <4>2, SomeFrame
    <3>4. \E i \in DOMAIN emitted : emitted[i] = stepped[k]
      BY <3>2, <3>3 DEF Handed
    <3>5. \E i \in DOMAIN emitted' : emitted'[i] = stepped'[k]
      BY <1>1, <1>5, <3>4
    <3> QED BY <3>5 DEF Handed
  <2>3. k = n \/ k < n
    BY <1>14
  <2> QED BY <2>1, <2>2, <2>3
<1>16. RowsGoRound'
  <2>0. Len(stepped') - 1 = n
    BY <1>5
  <2> SUFFICES ASSUME NEW k \in 1 .. n, stepped'[k].plan = stepped'[k + 1].plan,
                      stepped'[k].epoch = stepped'[k + 1].epoch
               PROVE  stepped'[k + 1].row = (stepped'[k].row + 1) % Period(stepped'[k].plan)
    BY <2>0 DEF RowsGoRound
  <2>1. CASE k = n
    <3>1. index > 0 /\ stepped[n].row = (index - 1) % Period(taken) /\ stepped[n].plan = taken
      BY <1>0, <1>3, <1>5, <2>1 DEF LastStep
    <3>2. index % Period(taken) = (((index - 1) % Period(taken)) + 1) % Period(taken)
      BY <1>4, <3>1, RowAfter, BuiltPlan
    <3> QED BY <1>3, <1>5, <2>1, <3>1, <3>2
  <2>2. CASE k < n
    <3>1. k \in 1 .. Len(stepped) - 1 /\ stepped'[k] = stepped[k] /\ stepped'[k + 1] = stepped[k + 1]
      BY <1>5, <2>2
    <3>2. stepped[k].plan = stepped[k + 1].plan /\ stepped[k].epoch = stepped[k + 1].epoch
      BY <3>1
    <3>3. stepped[k + 1].row = (stepped[k].row + 1) % Period(stepped[k].plan)
      BY <1>0, <3>1, <3>2 DEF RowsGoRound
    <3> QED BY <3>1, <3>3 DEF Period
  <2>3. k = n \/ k < n
    BY <1>14
  <2> QED BY <2>1, <2>2, <2>3
<1> QED BY <1>9, <1>10, <1>11, <1>12, <1>13, <1>15, <1>16 DEF GeneratorInv

\* The sink is given the frame in flight; the next in flight, if there is one,
\* is the last step, which comes after it.
LEMMA GiveStep == GeneratorInv /\ (Sink \/ Flush) => GeneratorInv'
<1> SUFFICES ASSUME GeneratorInv, Sink \/ Flush PROVE GeneratorInv'
  OBVIOUS
<1> DEFINE n == Len(stepped)  m == Len(emitted)
<1>0. GeneratorTypes /\ InFlight /\ StepOrder /\ SinkOrder /\ LastStep /\ LostToWarmupOnly /\ RowsGoRound
  BY DEF GeneratorInv
<1>1. /\ emitted' = Append(emitted, inflight)
      /\ UNCHANGED <<plan, taken, epoch, index, gstate, gstop, stepped>>
      /\ queued' = IF queued < RingSize THEN queued + 1 ELSE queued
      /\ unroomed' = IF queued < RingSize THEN unroomed ELSE unroomed + 1
  BY DEF Sink, Flush, Deliver
<1>2. \/ gpc = "sink" /\ gpc' = "live" /\ inflight' = stepped[n]
      \/ gpc = "flush" /\ gpc' = "idle" /\ inflight' = NoFrame
  BY DEF Sink, Flush
<1>3. /\ stepped \in Seq(Outputs) /\ emitted \in Seq(Outputs)
      /\ n \in Nat /\ m \in Nat /\ DOMAIN stepped = 1 .. n /\ DOMAIN emitted = 1 .. m
      /\ \A i \in 1 .. n : stepped[i] \in Outputs
      /\ epoch \in Nat \ {0} /\ gstate \in Nat
  BY <1>0, <1>2 DEF GeneratorTypes, PTypeOK, Loop
<1>4. /\ inflight \in Outputs /\ inflight.epoch = epoch /\ n > 0
      /\ gpc = "sink" => n >= 2 /\ inflight = stepped[n - 1] /\ stepped[n].epoch = epoch
      /\ gpc = "flush" => inflight = stepped[n]
  <2>1. CASE gpc = "sink"
    <3>1. n >= 2 /\ inflight = stepped[n - 1] /\ stepped[n].epoch = inflight.epoch
      BY <1>0, <2>1 DEF InFlight, Handover
    <3>2. inflight \in Outputs /\ inflight # NoFrame
      BY <1>3, <3>1, SomeFrame
    <3> QED BY <1>0, <1>3, <2>1, <3>1, <3>2 DEF InFlight
  <2>2. CASE gpc = "flush"
    <3>1. inflight # NoFrame /\ stepped # <<>> /\ inflight = stepped[n]
      BY <1>0, <2>2 DEF InFlight, Handover
    <3> QED BY <1>0, <1>3, <2>2, <3>1 DEF InFlight, GeneratorTypes
  <2> QED BY <1>2, <2>1, <2>2
<1>5. /\ emitted' \in Seq(Outputs) /\ Len(emitted') = m + 1
      /\ DOMAIN emitted' = 1 .. m + 1
      /\ \A i \in 1 .. m : emitted'[i] = emitted[i] /\ emitted[i] \in Outputs
      /\ emitted'[m + 1] = inflight
  BY <1>1, <1>3, <1>4, Appended
<1>6. gpc = "sink" => inflight' \in Outputs /\ Before(inflight, inflight') /\ inflight'.epoch = epoch
                      /\ inflight' # NoFrame
  <2> SUFFICES ASSUME gpc = "sink"
               PROVE  inflight' \in Outputs /\ Before(inflight, inflight') /\ inflight'.epoch = epoch
                      /\ inflight' # NoFrame
    OBVIOUS
  <2>1. n - 1 \in 1 .. n /\ n \in 1 .. n /\ inflight' = stepped[n]
    BY <1>2, <1>3, <1>4
  <2>2. Before(stepped[n - 1], stepped[n])
    BY <1>0, <1>3, <2>1 DEF StepOrder
  <2>3. stepped[n] \in Outputs
    BY <1>3, <2>1
  <2> QED BY <1>4, <2>1, <2>2, <2>3, SomeFrame
<1>7. GeneratorTypes'
  <2>1. queued' \in 0 .. RingSize /\ unroomed' \in Nat
    BY <1>0, <1>1, LivePipelineAssumption DEF GeneratorTypes, PTypeOK
  <2>2. inflight' \in {NoFrame} \cup {stepped[i] : i \in DOMAIN stepped}
    BY <1>2, <1>3, <1>4
  <2> QED BY <1>0, <1>1, <1>2, <1>3, <1>5, <1>6, <2>1, <2>2 DEF GeneratorTypes, PTypeOK, Loop
<1>8. InFlight'
  BY <1>1, <1>2, <1>3, <1>4, <1>6 DEF InFlight, Handover
<1>9. StepOrder' /\ RowsGoRound'
  BY <1>0, <1>1 DEF StepOrder, RowsGoRound, Ahead, Before
<1>10. SinkOrder'
  <2>1. Before(inflight, Ahead)
    BY <1>0, <1>2, <1>3, <1>4 DEF StepOrder
  <2>2. \A i \in 1 .. m : Before(emitted[i], inflight) /\ Before(emitted[i], Ahead)
    BY <1>0, <1>3, <1>4, SomeFrame DEF SinkOrder
  <2>3. \A f \in Outputs : gpc = "sink" /\ Before(f, inflight) => Before(f, inflight')
    BY <1>4, <1>6 DEF Before, Outputs
  <2>4. Ahead' = Ahead
    BY <1>1 DEF Ahead
  <2>5. \A i \in DOMAIN emitted' : Before(emitted[i]', Ahead')
    BY <1>5, <2>1, <2>2, <2>4
  <2>6. \A i \in DOMAIN emitted' : inflight' # NoFrame => Before(emitted[i]', inflight')
    BY <1>2, <1>5, <1>6, <2>2, <2>3
  <2>7. \A i, j \in DOMAIN emitted' : i < j => Before(emitted'[i], emitted'[j])
    BY <1>0, <1>3, <1>5, <2>2 DEF SinkOrder
  <2> QED BY <2>5, <2>6, <2>7 DEF SinkOrder, Before
<1>11. \A f : Handed(f) => Handed(f)'
  <2> SUFFICES ASSUME NEW f, Handed(f) PROVE \E i \in DOMAIN emitted' : emitted'[i] = f
    BY DEF Handed
  <2> QED BY <1>3, <1>5 DEF Handed
<1>12. Handed(stepped[n])'
  <2>1. stepped'[n] = inflight' \/ stepped'[n] = emitted'[m + 1]
    BY <1>1, <1>2, <1>4, <1>5
  <2> QED BY <1>1, <1>3, <1>5, <2>1 DEF Handed
<1>13. LastStep'
  BY <1>0, <1>1, <1>12 DEF LastStep, Handed
<1>14. LostToWarmupOnly'
  BY <1>0, <1>1, <1>11 DEF LostToWarmupOnly, Handed
<1> QED BY <1>7, <1>8, <1>9, <1>10, <1>13, <1>14 DEF GeneratorInv

\* A new state comes after all that was made of the old one.
LEMMA ResetStep ==
  ASSUME NEW restart \in BOOLEAN, GeneratorInv, ResetGenerator(restart)
  PROVE  GeneratorInv'
<1> DEFINE n == Len(stepped)
<1>0. GeneratorTypes /\ InFlight /\ StepOrder /\ SinkOrder /\ LastStep /\ LostToWarmupOnly /\ RowsGoRound
  BY DEF GeneratorInv
<1>1. /\ gpc = "idle" /\ gpc' = gpc /\ epoch < 2 /\ epoch' = epoch + 1 /\ gstate' = 0
      /\ inflight' = NoFrame /\ index' \in {0, index}
      /\ UNCHANGED <<plan, taken, gstop, queued, emitted, stepped, unroomed>>
  BY DEF ResetGenerator
<1>2. /\ stepped \in Seq(Outputs) /\ emitted \in Seq(Outputs) /\ epoch \in Nat /\ gstate \in Nat
      /\ n \in Nat /\ DOMAIN stepped = 1 .. n
      /\ \A i \in 1 .. n : stepped[i] \in Outputs
      /\ \A i \in DOMAIN emitted : emitted[i] \in Outputs
  BY <1>0 DEF GeneratorTypes, PTypeOK
<1>3. \A f \in Outputs : Before(f, Ahead) => Before(f, Ahead') /\ f.epoch # epoch'
  BY <1>1, <1>2 DEF Before, Ahead, Outputs
<1>4. GeneratorTypes'
  BY <1>0, <1>1 DEF GeneratorTypes, PTypeOK, Loop
<1>5. InFlight'
  BY <1>1 DEF InFlight, Handover
<1>6. StepOrder'
  BY <1>0, <1>1, <1>2, <1>3 DEF StepOrder
<1>7. SinkOrder'
  BY <1>0, <1>1, <1>2, <1>3 DEF SinkOrder
<1>8. LastStep'
  <2>1. stepped # <<>> => n \in 1 .. n
    BY <1>2
  <2>2. stepped # <<>> => stepped[n].epoch # epoch'
    BY <1>0, <1>2, <1>3, <2>1 DEF StepOrder
  <2> QED BY <1>1, <2>2 DEF LastStep
<1>9. RowsGoRound'
  BY <1>0, <1>1 DEF RowsGoRound
<1>10. LostToWarmupOnly'
  <2> SUFFICES ASSUME NEW k \in 1 .. n - 1, Handed(stepped[k])
               PROVE  \E i \in DOMAIN emitted : emitted[i] = stepped[k]
    BY <1>0, <1>1 DEF LostToWarmupOnly, Handed
  <2>1. k \in 1 .. n /\ n \in 1 .. n /\ k < n
    BY <1>2
  <2>2. Before(stepped[k], stepped[n]) /\ stepped[k] \in Outputs
    BY <1>0, <1>2, <2>1 DEF StepOrder
  <2>3. stepped[k] # stepped[n] /\ stepped[k] # NoFrame
    BY <2>2, SomeFrame DEF Before
  <2>4. inflight = NoFrame \/ inflight = stepped[n]
    BY <1>0, <1>1 DEF InFlight, Handover
  <2> QED BY <2>3, <2>4 DEF Handed
<1> QED BY <1>4, <1>5, <1>6, <1>7, <1>8, <1>9, <1>10 DEF GeneratorInv

LEMMA GeneratorStep == GeneratorInv /\ [PNext]_pvars => GeneratorInv'
<1> SUFFICES ASSUME GeneratorInv, [PNext]_pvars PROVE GeneratorInv'
  OBVIOUS
<1>1. Quiet \/ StepWarm \/ Step \/ Sink \/ Flush \/ \E restart \in BOOLEAN : ResetGenerator(restart)
  BY DEF PNext, Generator, Quiet
<1> QED BY <1>1, QuietStep, MakeStep, GiveStep, ResetStep

\* The order of all that was emitted is in particular that of neighbours.
LEMMA PlanHeardFrom == ASSUME GeneratorInv PROVE PlanHeard
<1>1. \A i \in 1 .. Len(emitted) - 1 :
        i \in DOMAIN emitted /\ i + 1 \in DOMAIN emitted /\ i < i + 1
  BY DEF GeneratorInv, GeneratorTypes
<1>2. EmittedInOrder
  BY <1>1 DEF GeneratorInv, SinkOrder, EmittedInOrder
<1> QED BY <1>2 DEF GeneratorInv, GeneratorTypes, PlanHeard

\* Whatever the plans and their periods, the warm-ups, the runs, the resets,
\* the changes of plan in mid-frame and the stops: the sink is given the frames
\* in the order they were made and none twice, a frame is lost to a warm-up or a
\* reset only, and the rows of a plan follow each other round its period
\* (PipelinedStreamGenerator.run(), reset(), flush() and PlanHolder).
THEOREM PlanIsHeard == PSpec => []PlanHeard
<1>1. PInit => GeneratorInv
  BY GeneratorInit
<1>2. GeneratorInv /\ [PNext]_pvars => GeneratorInv'
  BY GeneratorStep
<1>3. GeneratorInv => PlanHeard
  BY PlanHeardFrom
<1> QED BY <1>1, <1>2, <1>3, PTL DEF PSpec

-----------------------------------------------------------------------------
(* Room in the ring.                                                       *)

LEMMA RoomStep == GeneratorInv /\ RoomInv /\ [PNext]_pvars => RoomInv'
<1> SUFFICES ASSUME GeneratorInv, RoomInv, [PNext]_pvars PROVE RoomInv'
  OBVIOUS
<1> USE DEF RoomInv
<1>0. /\ GeneratorTypes /\ InFlight
      /\ queued \in Nat /\ RingSize \in Nat /\ unroomed \in Nat /\ gstop \in BOOLEAN
  BY LivePipelineAssumption DEF GeneratorInv, GeneratorTypes, PTypeOK
<1>1. ASSUME NEW p \in Plans, SetPlan(p) PROVE RoomInv'
  BY <1>1 DEF SetPlan, Owed
<1>2. CASE StopLive
  BY <1>0, <1>2 DEF StopLive, Owed
<1>3. CASE Consume
  BY <1>0, <1>3 DEF Consume, Owed
<1>4. ASSUME NEW restart \in BOOLEAN, ResetGenerator(restart) PROVE RoomInv'
  BY <1>0, <1>4 DEF ResetGenerator, Owed
<1>5. ASSUME NEW w \in Warmups, NEW n \in Lives, Run(w, n) PROVE RoomInv'
  BY <1>0, <1>5 DEF Run, Owed
<1>6. CASE FlushBegin
  BY <1>0, <1>6 DEF FlushBegin, Owed
<1>7. CASE LoopEnd
  BY <1>0, <1>7 DEF LoopEnd, Owed
<1>8. CASE TakePlan
  BY <1>0, <1>8 DEF TakePlan, Owed
<1>9. CASE StepWarm \/ Step
  BY <1>0, <1>9 DEF StepWarm, Step, Owed
<1>10. CASE Room
  BY <1>0, <1>10 DEF Room, HasRoom, Owed
<1>11. CASE Sink
  BY <1>0, <1>11 DEF Sink, Deliver, Owed
<1>12. CASE Flush
  BY <1>0, <1>12 DEF Flush, Deliver, Owed
<1>13. CASE UNCHANGED pvars
  BY <1>13 DEF pvars, Owed
<1> QED
  BY <1>1, <1>2, <1>3, <1>4, <1>5, <1>6, <1>7, <1>8, <1>9, <1>10, <1>11, <1>12, <1>13
  DEF PNext, Generator

\* A frame is written without room only after a stop, and then at most two: the
\* one in the loop and the one behind it, whatever the consumer does
\* (make_poll_backpressure() gives up on a stop, so the write after it may drop).
THEOREM StopOverwritesTwo == PSpec => []StopOverwrites
<1>1. PInit => GeneratorInv /\ RoomInv
  BY GeneratorInit
<1>2. GeneratorInv /\ RoomInv /\ [PNext]_pvars => (GeneratorInv /\ RoomInv)'
  BY GeneratorStep, RoomStep
<1>3. GeneratorInv /\ RoomInv => StopOverwrites
  BY DEF RoomInv, StopOverwrites, Owed, GeneratorInv, GeneratorTypes, PTypeOK
<1> QED BY <1>1, <1>2, <1>3, PTL DEF PSpec

-----------------------------------------------------------------------------
(* JaxLiveProducer.  The library's induction is over predicates; over sets *)
(* it follows from the order of the numbers being well-founded.            *)

LEMMA LeastElement ==
  ASSUME NEW T, T \subseteq Nat, T # {}
  PROVE  \E m \in T : \A k \in T : ~(k < m)
<1>1. \E m \in T : \A k \in T : ~(<<k, m>> \in OpToRel(<, Nat))
  BY NatLessThanWellFounded, WFMin
<1> QED BY <1>1 DEF OpToRel

LEMMA SetInduction ==
  ASSUME NEW N \in Nat, NEW T, 1 \in T, \A n \in 1 .. N - 1 : n \in T => n + 1 \in T
  PROVE  \A n \in 1 .. N : n \in T
<1> DEFINE U == (1 .. N) \ T
<1> SUFFICES ASSUME U # {} PROVE FALSE
  OBVIOUS
<1>1. U \subseteq Nat
  OBVIOUS
<1> HIDE DEF U
<1>2. PICK m \in U : \A k \in U : ~(k < m)
  BY <1>1, LeastElement
<1> USE DEF U
<1>3. m # 1 /\ m - 1 \in 1 .. N - 1
  BY <1>2
<1>4. m - 1 \in T
  BY <1>2, <1>3
<1> QED BY <1>2, <1>3, <1>4

LEMMA MultipleIs ==
  ASSUME NEW q \in Int, NEW cf \in Nat \ {0}
  PROVE  (q * cf) % cf = 0
<1> DEFINE n == q * cf
<1>1. n \in Int /\ n % cf \in 0 .. cf - 1 /\ n = cf * (n \div cf) + (n % cf) /\ n \div cf \in Int
  OBVIOUS
<1> DEFINE d == n \div cf  r == n % cf
<1>2. cf * (q - d) = r /\ r \in 0 .. cf - 1 /\ q - d \in Int
  BY <1>1
<1> HIDE DEF n, d, r
<1>3. CASE q - d >= 1
  <2>1. cf * (q - d) >= cf
    BY <1>2, <1>3
  <2> QED BY <1>2, <2>1
<1>4. CASE q - d <= -1
  <2>1. cf * (q - d) <= -cf
    BY <1>2, <1>4
  <2> QED BY <1>2, <2>1
<1>5. CASE q - d = 0
  <2>1. r = 0
    BY <1>2, <1>5
  <2> QED BY <2>1 DEF r, n
<1> QED BY <1>2, <1>3, <1>4, <1>5

\* An update is heard at the one chunk boundary from the frame it was asked for
\* to a chunk later.
LEMMA AlignedToBoundary ==
  ASSUME NEW a \in Nat, NEW cf \in Nat \ {0}
  PROVE  /\ AlignUpdate(a, cf) \in a .. a + cf - 1
         /\ AlignUpdate(a, cf) % cf = 0
         /\ \A b \in a .. a + cf - 1 : b % cf = 0 => b = AlignUpdate(a, cf)
<1> DEFINE n == a + cf - 1  q == n \div cf
<1>1. n \in Nat /\ q \in Int /\ n % cf \in 0 .. cf - 1 /\ n = cf * q + (n % cf)
  OBVIOUS
<1>2. AlignUpdate(a, cf) = q * cf
  BY DEF AlignUpdate
<1>3. q * cf \in a .. a + cf - 1
  <2>1. q * cf \in Int /\ q * cf = cf * q
    BY <1>1
  <2> HIDE DEF q
  <2> QED BY <1>1, <2>1
<1>4. (q * cf) % cf = 0
  BY <1>1, MultipleIs
<1>5. ASSUME NEW b \in a .. a + cf - 1, b % cf = 0 PROVE b = q * cf
  <2> DEFINE p == b \div cf
  <2>1. p \in Int /\ b = cf * p
    BY <1>5
  <2> HIDE DEF p, q, n
  <2>2. CASE p - q >= 1
    <3>1. cf * (p - q) >= cf /\ cf * (p - q) = cf * p - cf * q
      BY <1>1, <2>1, <2>2
    <3> QED BY <1>1, <1>3, <2>1, <3>1
  <2>3. CASE p - q <= -1
    <3>1. cf * (p - q) <= -cf /\ cf * (p - q) = cf * p - cf * q
      BY <1>1, <2>1, <2>3
    <3> QED BY <1>1, <1>3, <2>1, <3>1
  <2>4. CASE p = q
    BY <1>1, <2>1, <2>4
  <2> QED BY <1>1, <2>1, <2>2, <2>3, <2>4
<1> QED BY <1>2, <1>3, <1>4, <1>5

InOrder(s, m) == \A i, j \in 1 .. m : i < j => Earlier(s[i], s[j])
IsUpdates(u) == u \in Seq(ToSet(u)) /\ \A i \in DOMAIN u : u[i].at \in Nat
Aligned(u, cf, i) == [at |-> AlignUpdate(u[i].at, cf), style |-> u[i].style, seq |-> i]
AlignedTo(u, cf, m) == {Aligned(u, cf, i) : i \in 1 .. m}

LEMMA UpdatesLength ==
  ASSUME NEW u, IsUpdates(u)
  PROVE  /\ Len(u) \in Nat /\ DOMAIN u = 1 .. Len(u)
         /\ \A i \in 1 .. Len(u) : u[i].at \in Nat
BY DEF IsUpdates

LEMMA AlignedFields ==
  ASSUME NEW u, IsUpdates(u), NEW cf \in Nat \ {0}, NEW i \in 1 .. Len(u)
  PROVE  /\ Aligned(u, cf, i).at = AlignUpdate(u[i].at, cf) /\ Aligned(u, cf, i).at \in Nat
         /\ Aligned(u, cf, i).seq = i
         /\ Aligned(u, cf, i).style = u[i].style
<1>1. u[i].at \in Nat
  BY UpdatesLength
<1>2. AlignUpdate(u[i].at, cf) \in u[i].at .. u[i].at + cf - 1
  BY <1>1, AlignedToBoundary
<1>3. AlignUpdate(u[i].at, cf) \in Nat
  BY <1>1, <1>2
<1> QED BY <1>3 DEF Aligned

\* The updates before an element of a sorted list and those after it: an element
\* can be put between them.
LEMMA Insertion ==
  ASSUME NEW m \in Nat, NEW s, InOrder(s, m), NEW x, x.at \in Nat, x.seq \in Nat,
         \A i \in 1 .. m : s[i].at \in Nat /\ s[i].seq \in Nat /\ s[i].seq < x.seq
  PROVE  \E p \in 1 .. m + 1 : /\ \A i \in 1 .. p - 1 : Earlier(s[i], x)
                               /\ \A i \in p .. m : Earlier(x, s[i])
<1> DEFINE P == {p \in 1 .. m + 1 : \A i \in p .. m : Earlier(x, s[i])}
<1>1. m + 1 \in P
  OBVIOUS
<1>2. P \subseteq Nat /\ P # {}
  BY <1>1
<1> HIDE DEF P
<1>3. PICK p \in P : \A k \in P : ~(k < p)
  BY <1>2, LeastElement
<1> USE DEF P
<1>4. p \in 1 .. m + 1 /\ \A i \in p .. m : Earlier(x, s[i])
  BY <1>3
<1>5. ASSUME NEW i \in 1 .. p - 1 PROVE Earlier(s[i], x)
  <2>1. p - 1 \in 1 .. m /\ p - 1 < p /\ p - 1 \in 1 .. m + 1 /\ i \in 1 .. m
    BY <1>4, <1>5
  <2>2. p - 1 \notin P
    BY <1>3, <2>1
  <2>3. PICK j \in p - 1 .. m : ~Earlier(x, s[j])
    BY <2>1, <2>2
  <2>4. j = p - 1
    BY <1>4, <2>1, <2>3
  <2>5. Earlier(s[p - 1], x)
    BY <2>1, <2>3, <2>4 DEF Earlier
  <2>6. CASE i < p - 1
    <3>1. Earlier(s[i], s[p - 1])
      BY <2>1, <2>6 DEF InOrder
    <3> QED BY <2>1, <2>5, <3>1 DEF Earlier
  <2>7. CASE i = p - 1
    BY <2>5, <2>7
  <2> QED BY <2>1, <2>6, <2>7
<1> QED BY <1>4, <1>5

LEMMA SortedExists ==
  ASSUME NEW u, IsUpdates(u), NEW cf \in Nat \ {0}
  PROVE  \A m \in 1 .. Len(u) : \E s \in [1 .. m -> AlignedTo(u, cf, m)] : InOrder(s, m)
<1> DEFINE T == {m \in 1 .. Len(u) : \E s \in [1 .. m -> AlignedTo(u, cf, m)] : InOrder(s, m)}
<1>0. Len(u) \in Nat
  BY UpdatesLength
<1>1. ASSUME Len(u) > 0 PROVE 1 \in T
  <2> DEFINE s == [i \in 1 .. 1 |-> Aligned(u, cf, 1)]
  <2>1. s \in [1 .. 1 -> AlignedTo(u, cf, 1)]
    BY DEF AlignedTo
  <2>2. InOrder(s, 1)
    BY DEF InOrder
  <2>3. 1 \in 1 .. Len(u)
    BY <1>0, <1>1
  <2> QED BY <2>1, <2>2, <2>3
<1>2. ASSUME NEW m \in 1 .. Len(u) - 1, m \in T PROVE m + 1 \in T
  <2>1. PICK s \in [1 .. m -> AlignedTo(u, cf, m)] : InOrder(s, m)
    BY <1>2
  <2> HIDE DEF T
  <2> DEFINE x == Aligned(u, cf, m + 1)
  <2>2. m \in Nat /\ m + 1 \in 1 .. Len(u)
    BY <1>0
  <2>3. x.at \in Nat /\ x.seq = m + 1
    BY <2>2, AlignedFields
  <2>4. ASSUME NEW i \in 1 .. m PROVE s[i].at \in Nat /\ s[i].seq \in 1 .. m
    <3>1. PICK k \in 1 .. m : s[i] = Aligned(u, cf, k)
      BY <2>1 DEF AlignedTo
    <3>2. k \in 1 .. Len(u)
      BY <2>2
    <3> QED BY <3>1, <3>2, AlignedFields
  <2> HIDE DEF x
  <2>5. PICK p \in 1 .. m + 1 : /\ \A i \in 1 .. p - 1 : Earlier(s[i], x)
                                /\ \A i \in p .. m : Earlier(x, s[i])
    <3>1. \A i \in 1 .. m : s[i].at \in Nat /\ s[i].seq \in Nat /\ s[i].seq < x.seq
      BY <2>2, <2>3, <2>4
    <3>2. x.seq \in Nat
      BY <2>2, <2>3
    <3> QED BY <2>1, <2>2, <2>3, <3>1, <3>2, Insertion
  <2> DEFINE t == [i \in 1 .. m + 1 |-> IF i < p THEN s[i] ELSE IF i = p THEN x ELSE s[i - 1]]
  <2>6. t \in [1 .. m + 1 -> AlignedTo(u, cf, m + 1)]
    <3>1. x \in AlignedTo(u, cf, m + 1)
      BY <2>2 DEF AlignedTo, x
    <3>2. AlignedTo(u, cf, m) \subseteq AlignedTo(u, cf, m + 1)
      BY <2>2 DEF AlignedTo
    <3>3. ASSUME NEW i \in 1 .. m + 1 PROVE t[i] \in AlignedTo(u, cf, m + 1)
      <4>1. CASE i < p
        BY <2>1, <2>2, <3>2, <4>1
      <4>2. CASE i = p
        BY <3>1, <4>2
      <4>3. CASE i > p
        <5>1. t[i] = s[i - 1] /\ i - 1 \in 1 .. m
          BY <2>2, <4>3
        <5> QED BY <2>1, <3>2, <5>1
      <4> QED BY <2>2, <4>1, <4>2, <4>3
    <3> QED BY <3>3
  <2>7. InOrder(t, m + 1)
    <3> SUFFICES ASSUME NEW i \in 1 .. m + 1, NEW j \in 1 .. m + 1, i < j
                 PROVE  Earlier(t[i], t[j])
      BY DEF InOrder
    <3>1. CASE j < p
      <4>1. t[i] = s[i] /\ t[j] = s[j] /\ i \in 1 .. m /\ j \in 1 .. m
        BY <2>2, <3>1
      <4> QED BY <2>1, <4>1 DEF InOrder
    <3>2. CASE j = p
      <4>1. t[i] = s[i] /\ t[j] = x /\ i \in 1 .. p - 1
        BY <2>2, <3>2
      <4> QED BY <2>5, <4>1
    <3>3. CASE j > p /\ i < p
      <4>1. t[i] = s[i] /\ t[j] = s[j - 1] /\ i \in 1 .. m /\ j - 1 \in 1 .. m /\ i < j - 1
        BY <2>2, <3>3
      <4> QED BY <2>1, <4>1 DEF InOrder
    <3>4. CASE j > p /\ i = p
      <4>1. t[i] = x /\ t[j] = s[j - 1] /\ j - 1 \in p .. m
        BY <2>2, <3>4
      <4> QED BY <2>5, <4>1
    <3>5. CASE j > p /\ i > p
      <4>1. t[i] = s[i - 1] /\ t[j] = s[j - 1] /\ i - 1 \in 1 .. m /\ j - 1 \in 1 .. m /\ i - 1 < j - 1
        BY <2>2, <3>5
      <4> QED BY <2>1, <4>1 DEF InOrder
    <3> QED BY <2>2, <3>1, <3>2, <3>3, <3>4, <3>5
  <2> HIDE DEF t
  <2> QED BY <2>2, <2>6, <2>7 DEF T
<1> HIDE DEF T
<1>3. CASE Len(u) > 0
  <2>1. \A m \in 1 .. Len(u) - 1 : m \in T => m + 1 \in T
    BY <1>2
  <2>2. 1 \in T
    BY <1>1, <1>3
  <2>3. \A m \in 1 .. Len(u) : m \in T
    BY <1>0, <2>1, <2>2, SetInduction
  <2> QED BY <2>3 DEF T
<1>4. CASE Len(u) = 0
  BY <1>4
<1> QED BY <1>0, <1>3, <1>4

\* Sorting the updates at their boundaries loses none and invents none.
LEMMA Normalized ==
  ASSUME NEW u, IsUpdates(u), NEW cf \in Nat \ {0}
  PROVE  LET norm == NormalizeUpdates(u, cf) IN
         /\ norm \in [1 .. Len(u) -> AlignedTo(u, cf, Len(u))]
         /\ InOrder(norm, Len(u))
<1> DEFINE al == {[at |-> AlignUpdate(u[i].at, cf), style |-> u[i].style, seq |-> i] : i \in DOMAIN u}
           norm == NormalizeUpdates(u, cf)
<1>1. DOMAIN u = 1 .. Len(u) /\ Len(u) \in Nat
  BY UpdatesLength
<1>2. al = AlignedTo(u, cf, Len(u))
  BY <1>1 DEF AlignedTo, Aligned
<1>3. \E s \in [DOMAIN u -> al] : \A i, j \in DOMAIN u : i < j => Earlier(s[i], s[j])
  <2>1. CASE Len(u) > 0
    <3>1. Len(u) \in 1 .. Len(u)
      BY <1>1, <2>1
    <3>2. PICK s \in [1 .. Len(u) -> AlignedTo(u, cf, Len(u))] : InOrder(s, Len(u))
      BY <3>1, SortedExists
    <3> HIDE DEF al
    <3> QED BY <1>1, <1>2, <3>2 DEF InOrder
  <2>2. CASE Len(u) = 0
    <3>1. DOMAIN u = {}
      BY <1>1, <2>2
    <3> DEFINE s == [i \in {} |-> i]
    <3>2. s \in [DOMAIN u -> al]
      BY <3>1
    <3>3. \A i, j \in DOMAIN u : i < j => Earlier(s[i], s[j])
      BY <3>1
    <3> QED BY <3>2, <3>3
  <2> QED BY <1>1, <2>1, <2>2
<1>4. norm \in [DOMAIN u -> al] /\ \A i, j \in DOMAIN u : i < j => Earlier(norm[i], norm[j])
  BY <1>3 DEF NormalizeUpdates
<1> HIDE DEF al, norm
<1>5. norm \in [1 .. Len(u) -> AlignedTo(u, cf, Len(u))] /\ InOrder(norm, Len(u))
  BY <1>1, <1>2, <1>4 DEF InOrder
<1> QED BY <1>5 DEF norm

LEMMA NormalizedAt ==
  ASSUME NEW u, IsUpdates(u), NEW cf \in Nat \ {0}, NEW k \in 1 .. Len(u)
  PROVE  LET x == NormalizeUpdates(u, cf)[k] IN
         /\ x.seq \in 1 .. Len(u) /\ x = Aligned(u, cf, x.seq)
         /\ x.at \in Nat /\ x.at = AlignUpdate(u[x.seq].at, cf) /\ x.style = u[x.seq].style
<1> DEFINE norm == NormalizeUpdates(u, cf)
<1>1. norm \in [1 .. Len(u) -> AlignedTo(u, cf, Len(u))]
  BY Normalized
<1> HIDE DEF norm
<1>2. PICK i \in 1 .. Len(u) : norm[k] = Aligned(u, cf, i)
  BY <1>1 DEF AlignedTo
<1>3. norm[k].seq = i /\ norm[k].at = AlignUpdate(u[i].at, cf) /\ norm[k].at \in Nat /\ norm[k].style = u[i].style
  BY <1>2, AlignedFields
<1> QED BY <1>2, <1>3 DEF norm

\* The updates already heard at a frame, in the order they are heard in ...
HeardBy(u, cf, f) == {i \in 1 .. Len(u) : \A j \in 1 .. i : NormalizeUpdates(u, cf)[j].at <= f}
\* ... and as they were given.
AskedBy(u, cf, f) == {i \in 1 .. Len(u) : AlignUpdate(u[i].at, cf) <= f}

LEMMA GenerationIs ==
  ASSUME NEW u, IsUpdates(u), NEW cf \in Nat \ {0}, NEW f \in Nat
  PROVE  /\ Generation(NormalizeUpdates(u, cf), f) = Cardinality(HeardBy(u, cf, f))
         /\ Generation(NormalizeUpdates(u, cf), f) \in 0 .. Len(u)
<1> DEFINE norm == NormalizeUpdates(u, cf)
<1>1. Len(u) \in Nat /\ DOMAIN norm = 1 .. Len(u)
  BY UpdatesLength, Normalized
<1>2. Generation(norm, f) = Cardinality(HeardBy(u, cf, f))
  BY <1>1 DEF Generation, HeardBy
<1>3. HeardBy(u, cf, f) \subseteq 1 .. Len(u)
  BY DEF HeardBy
<1>4. IsFiniteSet(1 .. Len(u)) /\ Cardinality(1 .. Len(u)) = Len(u)
  <2>1. 1 \in Int /\ Len(u) \in Int
    BY <1>1
  <2>2. IsFiniteSet(1 .. Len(u))
    BY <2>1, FS_Interval
  <2>3. Cardinality(1 .. Len(u)) = IF 1 > Len(u) THEN 0 ELSE Len(u) - 1 + 1
    BY <2>1, FS_Interval
  <2> QED BY <1>1, <2>2, <2>3
<1>5. Cardinality(HeardBy(u, cf, f)) \in Nat /\ Cardinality(HeardBy(u, cf, f)) <= Len(u)
  BY <1>3, <1>4, FS_Subset, FS_CardinalityType
<1> QED BY <1>1, <1>2, <1>5

LEMMA StyleIs ==
  ASSUME NEW u, IsUpdates(u), NEW cf \in Nat \ {0}, NEW f \in Nat
  PROVE  StyleForFrame(NormalizeUpdates(u, cf), f) \in {Base} \cup {u[i].style : i \in DOMAIN u}
<1> DEFINE norm == NormalizeUpdates(u, cf)  g == Generation(norm, f)
<1>1. g \in 0 .. Len(u) /\ Len(u) \in Nat /\ DOMAIN u = 1 .. Len(u)
  BY GenerationIs, UpdatesLength
<1> HIDE DEF g
<1>2. CASE g = 0
  BY <1>2 DEF StyleForFrame, g
<1>3. CASE g # 0
  <2>1. g \in 1 .. Len(u)
    BY <1>1, <1>3
  <2>2. norm[g].seq \in 1 .. Len(u) /\ norm[g].style = u[norm[g].seq].style
    BY <2>1, NormalizedAt
  <2>3. StyleForFrame(norm, f) = norm[g].style
    BY <1>3 DEF StyleForFrame, g
  <2> QED BY <1>1, <2>2, <2>3
<1> QED BY <1>2, <1>3

\* The order updates are heard in is a permutation of the order they were given in.
LEMMA NormalizedPermutes ==
  ASSUME NEW u, IsUpdates(u), NEW cf \in Nat \ {0}
  PROVE  [k \in 1 .. Len(u) |-> NormalizeUpdates(u, cf)[k].seq] \in Bijection(1 .. Len(u), 1 .. Len(u))
<1> DEFINE norm == NormalizeUpdates(u, cf)  n == Len(u)  h == [k \in 1 .. n |-> norm[k].seq]
<1>1. n \in Nat /\ InOrder(norm, n)
  BY UpdatesLength, Normalized
<1>2. \A k \in 1 .. n : norm[k].seq \in 1 .. n /\ norm[k].at \in Nat
  BY NormalizedAt
<1>3. h \in [1 .. n -> 1 .. n]
  BY <1>2
<1>4. ASSUME NEW i \in 1 .. n, NEW j \in 1 .. n, h[i] = h[j] PROVE i = j
  <2>1. norm[i].seq = norm[j].seq /\ norm[i] = Aligned(u, cf, norm[i].seq) /\ norm[j] = Aligned(u, cf, norm[j].seq)
    BY <1>4, NormalizedAt
  <2>2. norm[i].at = norm[j].at /\ norm[i].at \in Nat /\ norm[i].seq \in Nat
    BY <1>2, <2>1
  <2> HIDE DEF norm, n
  <2>3. ~Earlier(norm[i], norm[j]) /\ ~Earlier(norm[j], norm[i])
    BY <2>1, <2>2 DEF Earlier
  <2>4. i \in Int /\ j \in Int /\ ~(i < j) /\ ~(j < i)
    BY <1>1, <2>3 DEF InOrder
  <2> QED BY <2>4
<1> HIDE DEF h
<1>5. h \in Injection(1 .. n, 1 .. n)
  BY <1>3, <1>4 DEF Injection, IsInjective
<1>6. IsFiniteSet(1 .. n)
  <2>1. 1 \in Int /\ n \in Int
    BY <1>1
  <2> QED BY <2>1, FS_Interval
<1>7. h \in Surjection(1 .. n, 1 .. n)
  BY <1>5, <1>6, FS_Injection
<1> QED BY <1>5, <1>7 DEF Bijection, h

\* As many updates are heard at a frame as have their boundary at or before it:
\* the loop that stops at the first later update misses none.
LEMMA HeardIsAsked ==
  ASSUME NEW u, IsUpdates(u), NEW cf \in Nat \ {0}, NEW f \in Nat
  PROVE  Cardinality(HeardBy(u, cf, f)) = Cardinality(AskedBy(u, cf, f))
<1> DEFINE norm == NormalizeUpdates(u, cf)  n == Len(u)
           h == [k \in 1 .. n |-> norm[k].seq]
           A == HeardBy(u, cf, f)  B == AskedBy(u, cf, f)
           g == [k \in A |-> h[k]]
<1>1. n \in Nat /\ InOrder(norm, n)
  BY UpdatesLength, Normalized
<1>2. \A k \in 1 .. n : /\ norm[k].seq \in 1 .. n /\ norm[k].at \in Nat
                        /\ norm[k].at = AlignUpdate(u[norm[k].seq].at, cf)
  BY NormalizedAt
<1>3. h \in Bijection(1 .. n, 1 .. n)
  BY NormalizedPermutes
<1>4. A = {k \in 1 .. n : norm[k].at <= f}
  <2>1. ASSUME NEW k \in 1 .. n, norm[k].at <= f, NEW j \in 1 .. k PROVE norm[j].at <= f
    <3>1. j \in 1 .. n /\ (j = k \/ j < k)
      BY <1>1
    <3>2. norm[j].at <= norm[k].at
      <4>1. CASE j = k
        BY <1>2, <4>1
      <4>2. CASE j < k
        <5>1. Earlier(norm[j], norm[k])
          BY <1>1, <3>1, <4>2 DEF InOrder
        <5> QED BY <1>2, <3>1, <5>1 DEF Earlier
      <4> QED BY <3>1, <4>1, <4>2
    <3>3. norm[j].at \in Nat /\ norm[k].at \in Nat
      BY <1>2, <3>1
    <3> HIDE DEF norm
    <3> QED BY <2>1, <3>2, <3>3
  <2>2. \A k \in 1 .. n : k \in 1 .. k
    BY <1>1
  <2> HIDE DEF norm
  <2> QED BY <2>1, <2>2 DEF HeardBy, norm
<1> HIDE DEF A, h, norm
<1>5. \A k \in 1 .. n : h[k] = norm[k].seq /\ h[k] \in 1 .. n
  BY <1>2 DEF h
<1>6. \A k \in 1 .. n : k \in A <=> h[k] \in B
  BY <1>2, <1>4, <1>5 DEF AskedBy
<1>7. \A i, j \in 1 .. n : h[i] = h[j] => i = j
  BY <1>3 DEF Bijection, Injection, IsInjective, h
<1>8. \A b \in 1 .. n : \E k \in 1 .. n : h[k] = b
  BY <1>3 DEF Bijection, Surjection
<1>9. A \subseteq 1 .. n /\ B \subseteq 1 .. n
  BY <1>4 DEF AskedBy
<1> HIDE DEF B
<1>10. g \in Bijection(A, B)
  <2>1. g \in [A -> B]
    BY <1>6, <1>9
  <2>2. \A i, j \in A : g[i] = g[j] => i = j
    BY <1>7, <1>9
  <2>3. \A b \in B : \E k \in A : g[k] = b
    <3> SUFFICES ASSUME NEW b \in B PROVE \E k \in A : g[k] = b
      OBVIOUS
    <3>1. PICK k \in 1 .. n : h[k] = b
      BY <1>8, <1>9
    <3> QED BY <1>6, <3>1
  <2> HIDE DEF g
  <2>4. g \in Injection(A, B)
    BY <2>1, <2>2 DEF Injection, IsInjective
  <2>5. g \in Surjection(A, B)
    BY <2>1, <2>3 DEF Surjection
  <2> QED BY <2>4, <2>5 DEF Bijection
<1>11. IsFiniteSet(A)
  <2>1. 1 \in Int /\ n \in Int
    BY <1>1
  <2> QED BY <1>9, <2>1, FS_Interval, FS_Subset
<1>12. Cardinality(A) = Cardinality(B)
  BY <1>10, <1>11, FS_Bijection, FS_SameCardinalityBij DEF ExistsBijection
<1> QED BY <1>12 DEF A, B

LEMMA BoundaryIs ==
  ASSUME NEW u, IsUpdates(u), NEW cf \in Nat \ {0}, NEW f \in Nat \ {0}
  PROVE  AskedBy(u, cf, f - 1) = {i \in DOMAIN u : \E b \in u[i].at .. u[i].at + cf - 1 : b % cf = 0 /\ b < f}
<1>1. DOMAIN u = 1 .. Len(u)
  BY UpdatesLength
<1>2. ASSUME NEW i \in 1 .. Len(u)
      PROVE  AlignUpdate(u[i].at, cf) <= f - 1 <=> \E b \in u[i].at .. u[i].at + cf - 1 : b % cf = 0 /\ b < f
  <2>1. u[i].at \in Nat
    BY UpdatesLength
  <2> DEFINE a == u[i].at  al == AlignUpdate(u[i].at, cf)
  <2>2. al \in a .. a + cf - 1 /\ al % cf = 0 /\ \A b \in a .. a + cf - 1 : b % cf = 0 => b = al
    BY <2>1, AlignedToBoundary
  <2> HIDE DEF a, al
  <2>3. a \in Nat
    BY <2>1 DEF a
  <2>4. al \in Int /\ (al <= f - 1 <=> al < f)
    BY <2>2, <2>3
  <2>5. al <= f - 1 <=> \E b \in a .. a + cf - 1 : b % cf = 0 /\ b < f
    BY <2>2, <2>4
  <2> QED BY <2>5 DEF a, al
<1> QED BY <1>1, <1>2 DEF AskedBy

\* No update falls inside a chunk.
LEMMA InsideChunk ==
  ASSUME NEW u, IsUpdates(u), NEW cf \in Nat \ {0}, NEW f \in Nat \ {0}, f % cf # 0
  PROVE  HeardBy(u, cf, f) = HeardBy(u, cf, f - 1)
<1>1. ASSUME NEW j \in 1 .. Len(u)
      PROVE  NormalizeUpdates(u, cf)[j].at <= f <=> NormalizeUpdates(u, cf)[j].at <= f - 1
  <2> DEFINE a == NormalizeUpdates(u, cf)[j].at
  <2>1. PICK i \in 1 .. Len(u) : a = AlignUpdate(u[i].at, cf) /\ a \in Nat
    BY NormalizedAt
  <2>2. a % cf = 0
    <3>1. u[i].at \in Nat
      BY UpdatesLength
    <3> QED BY <2>1, <3>1, AlignedToBoundary
  <2>3. a # f
    BY <2>2
  <2>4. a \in Nat
    BY <2>1
  <2> HIDE DEF a
  <2>5. a <= f <=> a <= f - 1
    BY <2>3, <2>4
  <2> QED BY <2>5 DEF a
<1>2. \A i \in 1 .. Len(u) : 1 .. i \subseteq 1 .. Len(u)
  BY UpdatesLength
<1> QED BY <1>1, <1>2 DEF HeardBy

LEMMA PreparedIs ==
  ASSUME NEW n \in Nat, NEW cf \in Nat \ {0}, NEW u, IsUpdates(u)
  PROVE  /\ DOMAIN PrepareSchedule(n, cf, u) = 1 .. n
         /\ \A f \in 1 .. n :
              LET p == PrepareSchedule(n, cf, u)[f] IN
              /\ p.frame = f - 1 /\ p.frame \in Nat
              /\ p.gen = Cardinality(HeardBy(u, cf, f - 1))
              /\ p.style = StyleForFrame(NormalizeUpdates(u, cf), f - 1)
              /\ p.style \in {Base} \cup {u[i].style : i \in DOMAIN u}
<1>1. \A f \in 1 .. n : f - 1 \in Nat
  OBVIOUS
<1>2. \A f \in 1 .. n :
        /\ Generation(NormalizeUpdates(u, cf), f - 1) = Cardinality(HeardBy(u, cf, f - 1))
        /\ StyleForFrame(NormalizeUpdates(u, cf), f - 1) \in {Base} \cup {u[i].style : i \in DOMAIN u}
  BY <1>1, GenerationIs, StyleIs
<1> QED BY <1>1, <1>2 DEF PrepareSchedule

-----------------------------------------------------------------------------
\* The schedule in work is the one the call asked for.
Called == call.upd \in Updates \cup {<<>>} /\ call.frames \in Nat /\ call.cf \in Nat \ {0}
PreparedInv == Called /\ prepared = PrepareSchedule(call.frames, call.cf, call.upd)

LEMMA AllUpdates ==
  ASSUME NEW u \in Updates \cup {<<>>}
  PROVE  IsUpdates(u)
<1>1. CASE u = <<>>
  <2>1. DOMAIN u = {} /\ u \in Seq(ToSet(u))
    BY <1>1
  <2> QED BY <2>1 DEF IsUpdates
<1>2. CASE u \in Updates
  BY <1>2, LiveProducerAssumption DEF IsUpdates
<1> QED BY <1>1, <1>2

LEMMA PreparedInit == Init => PreparedInv
<1> SUFFICES ASSUME Init PROVE PreparedInv
  OBVIOUS
<1>1. call.upd = <<>> /\ call.frames = 0 /\ call.cf = 1 /\ prepared = <<>>
  BY DEF Init
<1>2. Called
  BY <1>1 DEF Called
<1>3. PrepareSchedule(0, 1, <<>>) = <<>>
  BY DEF PrepareSchedule
<1> QED BY <1>1, <1>2, <1>3 DEF PreparedInv

LEMMA PreparedStep == PreparedInv /\ [Next]_vars => PreparedInv'
<1> SUFFICES ASSUME PreparedInv, [Next]_vars PROVE PreparedInv'
  OBVIOUS
<1> USE DEF PreparedInv, Called
<1>1. ASSUME NEW m \in Modes, NEW n \in Schedules, NEW cf \in ChunkSizes, NEW u \in Updates, Call(m, n, cf, u)
      PROVE  PreparedInv'
  BY <1>1, LiveProducerAssumption DEF Call
<1>2. ASSUME NEW n \in Schedules, NEW cf \in ChunkSizes, Precompile(n, cf)
      PROVE  PreparedInv'
  BY <1>2 DEF Precompile
<1>3. CASE SerialFrame \/ Pipeline1Frame \/ Pipeline1Last \/ ChunkedChunk \/ ScanChunk
  BY <1>3 DEF SerialFrame, Pipeline1Frame, Pipeline1Last, ChunkedChunk, ScanChunk
<1>4. CASE Finish \/ Raise
  <2>1. prepared' = prepared /\ \E pc \in {"idle", "failed"} : call' = [call EXCEPT !.pc = pc]
    BY <1>4 DEF Finish, Raise
  <2>2. call'.frames = call.frames /\ call'.cf = call.cf /\ call'.upd = call.upd
    BY <2>1
  <2> QED BY <2>1, <2>2
<1>5. CASE UNCHANGED vars
  BY <1>5 DEF vars
<1> QED BY <1>1, <1>2, <1>3, <1>4, <1>5 DEF Next

\* A prompt change is heard from the one chunk boundary between the frame it was
\* asked for and a chunk later, whichever others it is sorted among, and never
\* inside a chunk (normalize_prompt_updates(), prepare_schedule()).
THEOREM PromptChangesOnBoundary == Spec => []PromptOnBoundary
<1>1. PreparedInv => PromptOnBoundary
  <2> SUFFICES ASSUME PreparedInv, NEW f \in DOMAIN prepared
               PROVE  /\ prepared[f].gen = Cardinality({i \in DOMAIN call.upd :
                           \E b \in call.upd[i].at .. call.upd[i].at + call.cf - 1 : b % call.cf = 0 /\ b < f})
                      /\ f > 1 /\ (f - 1) % call.cf # 0 => prepared[f].style = prepared[f - 1].style
    BY DEF PromptOnBoundary
  <2> DEFINE n == call.frames  cf == call.cf  u == call.upd
  <2>1. n \in Nat /\ cf \in Nat \ {0} /\ IsUpdates(u) /\ prepared = PrepareSchedule(n, cf, u)
    BY AllUpdates DEF PreparedInv, Called
  <2> HIDE DEF n, cf, u
  <2>2. f \in 1 .. n
    BY <2>1, PreparedIs
  <2>3. f \in Nat \ {0} /\ f - 1 \in Nat
    BY <2>1, <2>2
  <2>4. prepared[f].gen = Cardinality({i \in DOMAIN u : \E b \in u[i].at .. u[i].at + cf - 1 : b % cf = 0 /\ b < f})
    <3>1. prepared[f].gen = Cardinality(HeardBy(u, cf, f - 1))
      BY <2>1, <2>2, PreparedIs
    <3>2. Cardinality(HeardBy(u, cf, f - 1)) = Cardinality(AskedBy(u, cf, f - 1))
      BY <2>1, <2>3, HeardIsAsked
    <3>3. AskedBy(u, cf, f - 1) = {i \in DOMAIN u : \E b \in u[i].at .. u[i].at + cf - 1 : b % cf = 0 /\ b < f}
      BY <2>1, <2>3, BoundaryIs
    <3> QED BY <3>1, <3>2, <3>3
  <2>5. ASSUME f > 1, (f - 1) % cf # 0 PROVE prepared[f].style = prepared[f - 1].style
    <3>1. f - 1 \in 1 .. n /\ f - 1 \in Nat \ {0} /\ f - 1 - 1 \in Nat
      BY <2>1, <2>2, <2>5
    <3>2. /\ prepared[f].style = StyleForFrame(NormalizeUpdates(u, cf), f - 1)
          /\ prepared[f - 1].style = StyleForFrame(NormalizeUpdates(u, cf), f - 1 - 1)
      BY <2>1, <2>2, <3>1, PreparedIs
    <3>3. HeardBy(u, cf, f - 1) = HeardBy(u, cf, f - 1 - 1)
      BY <2>1, <2>5, <3>1, InsideChunk
    <3>4. Generation(NormalizeUpdates(u, cf), f - 1) = Generation(NormalizeUpdates(u, cf), f - 1 - 1)
      BY <2>1, <3>1, <3>3, GenerationIs
    <3> QED BY <3>2, <3>4 DEF StyleForFrame
  <2> QED BY <2>4, <2>5 DEF n, cf, u
<1> QED BY <1>1, PreparedInit, PreparedStep, PTL DEF Spec

-----------------------------------------------------------------------------
\* What FlattenSeq computes as it goes through the chunks.
IsFlattening(f, s) ==
  f = [i \in 1 .. Len(s) |-> IF i = 1 THEN s[i] ELSE f[i - 1] \o s[i]]
Flattening(s) == CHOOSE f : IsFlattening(f, s)

LEMMA FlattenIs ==
  ASSUME NEW s, Len(s) # 0
  PROVE  FlattenSeq(s) = Flattening(s)[Len(s)]
BY DEF FlattenSeq, Flattening, IsFlattening

LEMMA FlattenEmpty == FlattenSeq(<<>>) = <<>>
BY DEF FlattenSeq

LEMMA FlatteningExists ==
  ASSUME NEW S, NEW s \in Seq(S), Len(s) > 0
  PROVE  IsFlattening(Flattening(s), s)
<1> DEFINE Upto(f, k) == f = [i \in 1 .. k |-> IF i = 1 THEN s[i] ELSE f[i - 1] \o s[i]]
           T == {k \in 1 .. Len(s) : \E f : Upto(f, k)}
<1>0. Len(s) \in Nat
  OBVIOUS
<1>1. 1 \in T
  <2> DEFINE h == [i \in 1 .. 1 |-> s[1]]
  <2>1. h = [i \in 1 .. 1 |-> IF i = 1 THEN s[i] ELSE h[i - 1] \o s[i]]
    OBVIOUS
  <2> HIDE DEF h
  <2>2. Upto(h, 1)
    BY <2>1
  <2>3. 1 \in 1 .. Len(s)
    BY <1>0
  <2> QED BY <2>2, <2>3
<1>2. ASSUME NEW k \in 1 .. Len(s) - 1, k \in T PROVE k + 1 \in T
  <2>1. PICK f : f = [i \in 1 .. k |-> IF i = 1 THEN s[i] ELSE f[i - 1] \o s[i]]
    BY <1>2
  <2> HIDE DEF Upto, T
  <2> DEFINE g == [i \in 1 .. k + 1 |-> IF i <= k THEN f[i] ELSE f[k] \o s[i]]
  <2>2. ASSUME NEW i \in 1 .. k + 1 PROVE g[i] = IF i = 1 THEN s[i] ELSE g[i - 1] \o s[i]
    <3>1. CASE i = 1
      BY <2>1, <3>1
    <3>2. CASE i # 1 /\ i <= k
      <4>1. g[i] = f[i] /\ i - 1 \in 1 .. k + 1 /\ i - 1 <= k /\ i \in 1 .. k
        BY <3>2
      <4>2. g[i - 1] = f[i - 1]
        BY <4>1
      <4>3. f[i] = f[i - 1] \o s[i]
        BY <2>1, <3>2, <4>1
      <4> HIDE DEF g
      <4> QED BY <3>2, <4>1, <4>2, <4>3
    <3>3. CASE i = k + 1
      <4>1. ~(i <= k) /\ i - 1 = k /\ k \in 1 .. k + 1 /\ k <= k /\ i # 1
        BY <3>3
      <4>2. g[i] = f[k] \o s[i]
        BY <4>1
      <4>3. g[i - 1] = f[k]
        BY <4>1
      <4> HIDE DEF g
      <4> QED BY <4>1, <4>2, <4>3
    <3> QED BY <3>1, <3>2, <3>3
  <2>3. g = [i \in 1 .. k + 1 |-> IF i = 1 THEN s[i] ELSE g[i - 1] \o s[i]]
    BY <2>2
  <2> HIDE DEF g
  <2>4. Upto(g, k + 1)
    BY <2>3 DEF Upto
  <2>5. k + 1 \in 1 .. Len(s)
    BY <1>0
  <2> QED BY <2>4, <2>5 DEF T
<1> HIDE DEF T
<1>3. \A n \in 1 .. Len(s) : n \in T
  <2>1. \A n \in 1 .. Len(s) - 1 : n \in T => n + 1 \in T
    BY <1>2
  <2> QED BY <1>0, <1>1, <2>1, SetInduction
<1>4. Len(s) \in T
  BY <1>0, <1>3
<1>5. \E f : IsFlattening(f, s)
  BY <1>4 DEF T, IsFlattening
<1> QED BY <1>5 DEF Flattening

\* One more chunk is appended at the end.
LEMMA FlattenAppend ==
  ASSUME NEW E, NEW s \in Seq(Seq(E)), NEW c \in Seq(E)
  PROVE  /\ FlattenSeq(s) \in Seq(E)
         /\ FlattenSeq(Append(s, c)) = FlattenSeq(s) \o c
<1> DEFINE t == Append(s, c)  f == Flattening(s)  g == Flattening(t)
<1>1. /\ t \in Seq(Seq(E)) /\ Len(t) = Len(s) + 1 /\ Len(s) \in Nat
      /\ \A i \in 1 .. Len(s) : t[i] = s[i] /\ s[i] \in Seq(E)
      /\ t[Len(s) + 1] = c
  OBVIOUS
<1>a. Len(t) > 0 /\ Len(t) # 0
  BY <1>1
<1> HIDE DEF t
<1>2. g = [i \in 1 .. Len(t) |-> IF i = 1 THEN t[i] ELSE g[i - 1] \o t[i]]
  <2>1. IsFlattening(Flattening(t), t)
    BY <1>1, <1>a, FlatteningExists
  <2> QED BY <2>1 DEF IsFlattening
<1> HIDE DEF g
<1>3. FlattenSeq(t) = g[Len(s) + 1]
  BY <1>1, <1>a, FlattenIs DEF g
<1>b. \A i \in 1 .. Len(s) + 1 : g[i] = IF i = 1 THEN t[i] ELSE g[i - 1] \o t[i]
  BY <1>1, <1>2
<1>4. CASE Len(s) = 0
  <2>1. s = <<>> /\ FlattenSeq(s) = <<>>
    BY <1>4, FlattenEmpty
  <2>2. g[1] = c
    BY <1>1, <1>b, <1>4
  <2>3. FlattenSeq(t) = c /\ <<>> \o c = c /\ <<>> \in Seq(E)
    BY <1>3, <1>4, <2>2
  <2> QED BY <2>1, <2>3 DEF t
<1>5. CASE Len(s) > 0
  <2>1. f = [i \in 1 .. Len(s) |-> IF i = 1 THEN s[i] ELSE f[i - 1] \o s[i]]
    <3>1. IsFlattening(Flattening(s), s)
      BY <1>1, <1>5, FlatteningExists
    <3> QED BY <3>1 DEF IsFlattening
  <2>2. FlattenSeq(s) = f[Len(s)]
    <3>1. Len(s) # 0
      BY <1>1, <1>5
    <3> QED BY <3>1, FlattenIs
  <2> HIDE DEF f
  <2>a. \A i \in 1 .. Len(s) : f[i] = IF i = 1 THEN s[i] ELSE f[i - 1] \o s[i]
    BY <2>1
  <2> DEFINE T == {i \in 1 .. Len(s) : f[i] = g[i] /\ f[i] \in Seq(E)}
  <2>3. 1 \in T
    <3>1. 1 \in 1 .. Len(s) /\ 1 \in 1 .. Len(s) + 1
      BY <1>1, <1>5
    <3> QED BY <1>1, <1>b, <2>a, <3>1
  <2>4. ASSUME NEW n \in 1 .. Len(s) - 1, n \in T PROVE n + 1 \in T
    <3> DEFINE m == n + 1
    <3>1. m \in 1 .. Len(s) /\ m \in 1 .. Len(s) + 1 /\ m # 1 /\ m - 1 = n
      BY <1>1
    <3> HIDE DEF m
    <3>2. f[m] = f[n] \o s[m]
      BY <2>a, <3>1
    <3>3. g[m] = g[n] \o t[m]
      BY <1>b, <3>1
    <3>4. t[m] = s[m] /\ s[m] \in Seq(E) /\ f[n] = g[n] /\ f[n] \in Seq(E)
      BY <1>1, <2>4, <3>1
    <3>5. f[n] \o s[m] \in Seq(E)
      BY <3>4
    <3>6. m \in T
      BY <3>1, <3>2, <3>3, <3>4, <3>5
    <3> QED BY <3>6 DEF m
  <2> HIDE DEF T
  <2>5. \A n \in 1 .. Len(s) : n \in T
    <3>1. \A n \in 1 .. Len(s) - 1 : n \in T => n + 1 \in T
      BY <2>4
    <3> QED BY <1>1, <2>3, <3>1, SetInduction
  <2>6. f[Len(s)] = g[Len(s)] /\ f[Len(s)] \in Seq(E)
    <3>1. Len(s) \in 1 .. Len(s)
      BY <1>1, <1>5
    <3> QED BY <2>5, <3>1 DEF T
  <2>7. g[Len(s) + 1] = g[Len(s)] \o c
    <3> DEFINE m == Len(s) + 1
    <3>1. m \in 1 .. Len(s) + 1 /\ m # 1 /\ m - 1 = Len(s) /\ t[m] = c
      BY <1>1, <1>5
    <3> HIDE DEF m
    <3>2. g[m] = g[Len(s)] \o c
      BY <1>b, <3>1
    <3> QED BY <3>2 DEF m
  <2> QED BY <1>3, <2>2, <2>6, <2>7 DEF t
<1> QED BY <1>1, <1>4, <1>5

\* The first k frames of the schedule, on a state that has n steps behind it.
Played(k, n) == [i \in 1 .. k |-> Output(n + i - 1, prepared[i])]

ProducerInv ==
  /\ PreparedInv /\ TypeOK
  /\ outputs \in Seq(Seq(OutputType))
  /\ at <= state
  /\ Heard = Played(at, state - at)
  /\ pending # <<>> => call.mode = "pipeline-1"
  /\ call.pc = "idle" => at = call.frames /\ pending = <<>>
  /\ RingFollows
  /\ donated \subseteq 0 .. state - 1

LEMMA PlayedGrows ==
  ASSUME PreparedInv, at \in Nat, state \in Nat, at <= state,
         NEW to \in at + 1 .. call.frames
  PROVE  /\ StepsOf(at, to) \in Seq(OutputType)
         /\ Len(StepsOf(at, to)) = to - at
         /\ Played(at, state - at) \o StepsOf(at, to) = Played(to, state - at)
<1> DEFINE n == call.frames  cf == call.cf  u == call.upd  chunk == StepsOf(at, to)
<1>1. n \in Nat /\ cf \in Nat \ {0} /\ u \in Updates \cup {<<>>} /\ IsUpdates(u)
      /\ prepared = PrepareSchedule(n, cf, u)
  BY AllUpdates DEF PreparedInv, Called
<1>2. to \in Nat /\ to - at \in Nat /\ at < to /\ to <= n
  BY <1>1
<1> HIDE DEF n, cf, u
<1>3. ASSUME NEW k \in Nat, NEW f \in 1 .. n PROVE Output(k, prepared[f]) \in OutputType
  <2>1. /\ prepared[f].frame \in Nat
        /\ prepared[f].style \in {Base} \cup {u[i].style : i \in DOMAIN u}
    <3>1. cf \in Nat \ {0} /\ n \in Nat /\ IsUpdates(u)
      BY <1>1
    <3>2. /\ PrepareSchedule(n, cf, u)[f].frame \in Nat
          /\ PrepareSchedule(n, cf, u)[f].style \in {Base} \cup {u[i].style : i \in DOMAIN u}
      BY <3>1, PreparedIs
    <3> QED BY <1>1, <3>2
  <2>2. prepared[f].style \in {Base} \cup UNION {{v[i].style : i \in DOMAIN v} : v \in Updates}
    <3>1. CASE u \in Updates
      BY <2>1, <3>1
    <3>2. CASE u = <<>>
      BY <2>1, <3>2
    <3> QED BY <1>1, <3>1, <3>2
  <2> QED BY <2>1, <2>2 DEF Output, OutputType
<1>4. chunk = [i \in 1 .. to - at |-> Output(state + i - 1, prepared[at + i])]
  BY DEF StepsOf
<1>5. chunk \in Seq(OutputType) /\ Len(chunk) = to - at
  <2>1. \A i \in 1 .. to - at : state + i - 1 \in Nat /\ at + i \in 1 .. n
    BY <1>1, <1>2
  <2>2. \A i \in 1 .. to - at : chunk[i] \in OutputType
    BY <1>3, <1>4, <2>1
  <2> QED BY <1>2, <1>4, <2>2
<1> HIDE DEF chunk
<1>6. Played(at, state - at) \o chunk = Played(to, state - at)
  <2> DEFINE p == Played(at, state - at)  q == Played(to, state - at)
  <2>1. p = [i \in 1 .. at |-> Output(state - at + i - 1, prepared[i])]
    BY DEF Played
  <2>2. q = [i \in 1 .. to |-> Output(state - at + i - 1, prepared[i])]
    BY DEF Played
  <2>3. p \in Seq(OutputType) /\ Len(p) = at
    <3>1. \A i \in 1 .. at : state - at + i - 1 \in Nat /\ i \in 1 .. n
      BY <1>1, <1>2
    <3>2. \A i \in 1 .. at : p[i] \in OutputType
      BY <1>3, <2>1, <3>1
    <3> QED BY <2>1, <3>2
  <2>4. q \in Seq(OutputType) /\ Len(q) = to
    <3>1. \A i \in 1 .. to : state - at + i - 1 \in Nat /\ i \in 1 .. n
      BY <1>1, <1>2
    <3>2. \A i \in 1 .. to : q[i] \in OutputType
      BY <1>3, <2>2, <3>1
    <3> QED BY <1>2, <2>2, <3>2
  <2> HIDE DEF p, q
  <2>5. p \o chunk \in Seq(OutputType) /\ Len(p \o chunk) = to
    BY <1>2, <1>5, <2>3
  <2>6. ASSUME NEW i \in 1 .. to PROVE (p \o chunk)[i] = q[i]
    <3>1. CASE i <= at
      <4>1. i \in 1 .. at /\ i \in 1 .. Len(p)
        BY <1>2, <2>3, <3>1
      <4>2. (p \o chunk)[i] = p[i]
        BY <1>5, <2>3, <4>1
      <4>3. p[i] = Output(state - at + i - 1, prepared[i])
        BY <2>1, <4>1
      <4>4. q[i] = Output(state - at + i - 1, prepared[i])
        BY <2>2
      <4> QED BY <4>2, <4>3, <4>4
    <3>2. CASE i > at
      <4> DEFINE j == i - at
      <4>1. j \in 1 .. to - at /\ at + j = i /\ state + j = state - at + i /\ j \in 1 .. Len(chunk)
        BY <1>2, <1>5, <3>2
      <4>2. (p \o chunk)[i] = chunk[j]
        BY <1>2, <1>5, <2>3, <3>2
      <4> HIDE DEF j
      <4>3. chunk[j] = Output(state + j - 1, prepared[at + j])
        BY <1>4, <4>1
      <4>4. chunk[j] = Output(state - at + i - 1, prepared[i])
        BY <4>1, <4>3
      <4>5. q[i] = Output(state - at + i - 1, prepared[i])
        BY <2>2
      <4> QED BY <4>2, <4>4, <4>5
    <3>3. i <= at \/ i > at
      BY <1>2
    <3> QED BY <3>1, <3>2, <3>3
  <2>7. p \o chunk = q
    BY <2>4, <2>5, <2>6, SeqEqual
  <2> QED BY <2>7 DEF p, q
<1> QED BY <1>5, <1>6 DEF chunk

LEMMA Emitted ==
  ASSUME outputs \in Seq(Seq(OutputType)), RingFollows, call' = call,
         NEW chunk \in Seq(OutputType), Len(chunk) \in 1 .. call.cf, Emit(chunk)
  PROVE  /\ outputs' \in Seq(Seq(OutputType))
         /\ FlattenSeq(outputs) \in Seq(OutputType)
         /\ FlattenSeq(outputs') = FlattenSeq(outputs) \o chunk
         /\ RingFollows'
<1>1. outputs' = Append(outputs, chunk) /\ ring' = Append(ring, chunk)
  BY DEF Emit
<1>2. /\ FlattenSeq(outputs) \in Seq(OutputType)
      /\ FlattenSeq(Append(outputs, chunk)) = FlattenSeq(outputs) \o chunk
  BY FlattenAppend
<1>3. outputs' \in Seq(Seq(OutputType))
  BY <1>1
<1>4. ring' = outputs'
  BY <1>1 DEF RingFollows
<1>5. ASSUME NEW i \in DOMAIN ring' PROVE Len(ring'[i]) \in 1 .. call.cf
  <2>1. i \in 1 .. Len(outputs) + 1 /\ Len(outputs) \in Nat
    BY <1>1, <1>4, <1>5
  <2>2. CASE i \in 1 .. Len(outputs)
    <3>1. ring'[i] = ring[i] /\ i \in DOMAIN ring
      BY <1>1, <1>4, <2>2 DEF RingFollows
    <3> QED BY <3>1 DEF RingFollows
  <2>3. CASE i = Len(outputs) + 1
    <3>1. ring'[i] = chunk
      BY <1>1, <1>4, <2>3
    <3> QED BY <3>1
  <2> QED BY <2>1, <2>2, <2>3
<1> QED BY <1>1, <1>2, <1>3, <1>4, <1>5 DEF RingFollows

LEMMA ProducerInit == Init => ProducerInv
<1> SUFFICES ASSUME Init PROVE ProducerInv
  OBVIOUS
<1>1. PreparedInv
  BY PreparedInit
<1>2. TypeOK
  BY LiveProducerAssumption DEF Init, TypeOK
<1>3. outputs \in Seq(Seq(OutputType)) /\ outputs = <<>> /\ pending = <<>> /\ at = 0 /\ state = 0 /\ ring = <<>>
      /\ donated = {} /\ call.frames = 0 /\ prepared = <<>>
  BY DEF Init
<1>4. Heard = Played(at, state - at)
  <2>1. Heard = <<>>
    BY <1>3, FlattenEmpty DEF Heard
  <2>2. Played(at, state - at) = <<>>
    BY <1>3 DEF Played
  <2> QED BY <2>1, <2>2
<1>5. RingFollows
  BY <1>3 DEF RingFollows
<1> QED BY <1>1, <1>2, <1>3, <1>4, <1>5 DEF ProducerInv

LEMMA ChunkEndIs ==
  ASSUME NEW n \in Nat, NEW cf \in Nat \ {0}, NEW s \in Nat, s < n
  PROVE  ChunkEnd(n, cf, s) \in s + 1 .. n /\ ChunkEnd(n, cf, s) - s \in 1 .. cf
BY DEF ChunkEnd

\* A step of the loop that makes the frames up to one and puts out a chunk of
\* them, or keeps them for the next.
LEMMA SteppedInv ==
  ASSUME ProducerInv, call.pc = "run", call' = call, prepared' = prepared, calls' = calls,
         NEW to \in at + 1 .. call.frames, at' = to, state' = state + (to - at),
         compiled' \in SUBSET (Nat \ {0}),
         donated' \subseteq donated \cup (state .. state + (to - at) - 1),
         pending' \in Seq(OutputType), Len(pending') <= 1, pending' # <<>> => call.mode = "pipeline-1",
         outputs' \in Seq(Seq(OutputType)), RingFollows',
         FlattenSeq(outputs') \o pending' = Heard \o StepsOf(at, to)
  PROVE  ProducerInv'
<1>1. /\ at \in Nat /\ state \in Nat /\ at <= state /\ call.frames \in Nat /\ to \in Nat
      /\ at < to /\ to <= call.frames /\ PreparedInv
  BY DEF ProducerInv, TypeOK
<1>2. PreparedInv'
  BY <1>1 DEF PreparedInv, Called
<1>3. state' \in Nat /\ at' <= state' /\ at' \in 0 .. call.frames /\ state' - at' = state - at
  BY <1>1
<1>4. Heard' = Played(to, state - at)
  <2>1. Heard = Played(at, state - at)
    BY DEF ProducerInv
  <2>2. Played(at, state - at) \o StepsOf(at, to) = Played(to, state - at)
    BY <1>1, PlayedGrows
  <2> QED BY <2>1, <2>2 DEF Heard
<1>5. Heard' = Played(at, state - at)'
  <2>1. Played(at, state - at)' = Played(to, state' - at')
    BY DEF Played
  <2> QED BY <1>3, <1>4, <2>1
<1>6. donated' \subseteq 0 .. state' - 1 /\ donated' \subseteq Nat
  <2>1. donated \subseteq 0 .. state - 1
    BY DEF ProducerInv
  <2>2. 0 .. state - 1 \subseteq 0 .. state + (to - at) - 1 /\ state .. state + (to - at) - 1 \subseteq 0 .. state + (to - at) - 1
    BY <1>1
  <2>3. donated' \subseteq 0 .. state + (to - at) - 1
    BY <2>1, <2>2
  <2>4. 0 .. state + (to - at) - 1 = 0 .. state' - 1 /\ 0 .. state' - 1 \subseteq Nat
    BY <1>1
  <2> QED BY <2>3, <2>4
<1>7. TypeOK'
  BY <1>3, <1>6 DEF ProducerInv, TypeOK
<1> QED BY <1>2, <1>3, <1>5, <1>6, <1>7 DEF ProducerInv

LEMMA ProducerStep == ProducerInv /\ [Next]_vars => ProducerInv'
<1> SUFFICES ASSUME ProducerInv, [Next]_vars PROVE ProducerInv'
  OBVIOUS
<1>0. /\ at \in Nat /\ state \in Nat /\ at <= state /\ call.frames \in Nat /\ call.cf \in Nat \ {0}
      /\ PreparedInv /\ RingFollows /\ outputs \in Seq(Seq(OutputType))
      /\ pending \in Seq(OutputType) /\ Len(pending) <= 1 /\ compiled \in SUBSET (Nat \ {0})
  BY DEF ProducerInv, TypeOK
<1>a. PreparedInv'
  BY <1>0, PreparedStep
<1>b. FlattenSeq(outputs) \in Seq(OutputType)
  BY <1>0, FlattenAppend
<1>c. ASSUME pending = <<>> PROVE Heard = FlattenSeq(outputs)
  BY <1>b, <1>c DEF Heard
<1>d. \A q \in Seq(OutputType) : q \o <<>> = q /\ <<>> \in Seq(OutputType) /\ Len(<<>>) = 0
  OBVIOUS
<1>1. ASSUME NEW m \in Modes, NEW n \in Schedules, NEW cf \in ChunkSizes, NEW u \in Updates, Call(m, n, cf, u)
      PROVE  ProducerInv'
  <2>1. /\ call' = [mode |-> m, frames |-> n, cf |-> cf, upd |-> u, pc |-> "run"]
        /\ at' = 0 /\ pending' = <<>> /\ outputs' = <<>> /\ ring' = <<>>
        /\ calls' = calls + 1 /\ calls < MaxCalls
        /\ state' = state /\ donated' = donated /\ compiled' = compiled
    BY <1>1 DEF Call
  <2>2. m \in {"serial", "sync-diagnosis", "pipeline-1", "chunked", "scan-chunked"} /\ n \in Nat /\ cf \in Nat \ {0}
    BY LiveProducerAssumption
  <2>3. TypeOK'
    BY <2>1, <2>2, LiveProducerAssumption DEF TypeOK, ProducerInv
  <2>4. Heard' = Played(at, state - at)'
    <3>1. Heard' = <<>>
      BY <2>1, FlattenEmpty DEF Heard
    <3>2. Played(at, state - at)' = <<>>
      BY <2>1 DEF Played
    <3> QED BY <3>1, <3>2
  <2>5. RingFollows'
    BY <2>1 DEF RingFollows
  <2> QED BY <1>0, <1>a, <2>1, <2>3, <2>4, <2>5 DEF ProducerInv
<1>2. ASSUME NEW n \in Schedules, NEW cf \in ChunkSizes, Precompile(n, cf)
      PROVE  ProducerInv'
  <2>1. /\ call' = call /\ prepared' = prepared /\ at' = at /\ state' = state /\ donated' = donated
        /\ pending' = pending /\ outputs' = outputs /\ ring' = ring /\ calls' = calls
        /\ compiled' = compiled \cup {ChunkEnd(n, cf, s) - s : s \in {k \in 0 .. n : k < n /\ k % cf = 0}}
    BY <1>2 DEF Precompile
  <2>2. n \in Nat /\ cf \in Nat \ {0}
    BY LiveProducerAssumption
  <2>3. \A s \in {k \in 0 .. n : k < n /\ k % cf = 0} : ChunkEnd(n, cf, s) - s \in Nat \ {0}
    <3> SUFFICES ASSUME NEW s \in 0 .. n, s < n PROVE ChunkEnd(n, cf, s) - s \in Nat \ {0}
      OBVIOUS
    <3>1. ChunkEnd(n, cf, s) - s \in 1 .. cf
      BY <2>2, ChunkEndIs
    <3> QED BY <2>2, <3>1
  <2>4. compiled' \in SUBSET (Nat \ {0})
    BY <1>0, <2>1, <2>3
  <2>5. TypeOK'
    BY <2>1, <2>4 DEF TypeOK, ProducerInv
  <2>6. Heard' = Heard /\ Played(at, state - at)' = Played(at, state - at) /\ RingFollows'
    BY <1>0, <2>1 DEF Heard, Played, RingFollows
  <2> QED BY <1>a, <2>1, <2>5, <2>6 DEF ProducerInv
<1>3. CASE SerialFrame
  <2> DEFINE to == at + 1  chunk == StepsOf(at, to)
  <2>1. /\ call.pc = "run" /\ call.mode \in {"serial", "sync-diagnosis"} /\ at < call.frames
        /\ Emit(chunk) /\ Advance(1)
        /\ call' = call /\ prepared' = prepared /\ pending' = pending /\ compiled' = compiled /\ calls' = calls
    BY <1>3 DEF SerialFrame, Running
  <2>2. to \in at + 1 .. call.frames /\ to - at = 1
    BY <1>0, <2>1
  <2>3. chunk \in Seq(OutputType) /\ Len(chunk) = 1
    <3>1. chunk \in Seq(OutputType) /\ Len(chunk) = to - at
      BY <1>0, <2>2, PlayedGrows
    <3> HIDE DEF chunk, to
    <3> QED BY <2>2, <3>1
  <2>4. pending = <<>>
    BY <2>1 DEF ProducerInv
  <2> HIDE DEF chunk, to
  <2>5. Len(chunk) \in 1 .. call.cf
    <3>1. 1 \in 1 .. call.cf
      BY <1>0
    <3> QED BY <2>3, <3>1
  <2>6. outputs' \in Seq(Seq(OutputType)) /\ FlattenSeq(outputs') = FlattenSeq(outputs) \o chunk /\ RingFollows'
    BY <1>0, <2>1, <2>3, <2>5, Emitted
  <2>7. FlattenSeq(outputs') \o pending' = Heard \o chunk
    <3>1. FlattenSeq(outputs) \o chunk \in Seq(OutputType)
      BY <1>b, <2>3
    <3> QED BY <1>c, <1>d, <2>1, <2>4, <2>6, <3>1
  <2>8. /\ at' = to /\ state' = state + (to - at)
        /\ donated' \subseteq donated \cup (state .. state + (to - at) - 1)
    BY <1>0, <2>1, <2>2 DEF Advance, to
  <2>9. pending' \in Seq(OutputType) /\ Len(pending') <= 1 /\ (pending' # <<>> => call.mode = "pipeline-1")
    BY <1>0, <2>1, <2>4
  <2>10. compiled' \in SUBSET (Nat \ {0})
    BY <1>0, <2>1
  <2> QED BY <2>1, <2>2, <2>6, <2>7, <2>8, <2>9, <2>10, SteppedInv DEF chunk
<1>4. CASE Pipeline1Frame
  <2> DEFINE to == at + 1  chunk == StepsOf(at, to)
  <2>1. /\ call.pc = "run" /\ call.mode = "pipeline-1" /\ at < call.frames
        /\ IF pending = <<>> THEN UNCHANGED <<outputs, ring>> ELSE Emit(pending)
        /\ pending' = chunk /\ Advance(1)
        /\ call' = call /\ prepared' = prepared /\ compiled' = compiled /\ calls' = calls
    BY <1>4 DEF Pipeline1Frame, Running
  <2>2. to \in at + 1 .. call.frames /\ to - at = 1
    BY <1>0, <2>1
  <2>3. chunk \in Seq(OutputType) /\ Len(chunk) = 1
    <3>1. chunk \in Seq(OutputType) /\ Len(chunk) = to - at
      BY <1>0, <2>2, PlayedGrows
    <3> HIDE DEF chunk, to
    <3> QED BY <2>2, <3>1
  <2> HIDE DEF chunk, to
  <2>4. outputs' \in Seq(Seq(OutputType)) /\ FlattenSeq(outputs') = Heard /\ RingFollows'
    <3>1. CASE pending = <<>>
      <4>1. outputs' = outputs /\ ring' = ring
        BY <2>1, <3>1
      <4> QED BY <1>0, <1>c, <2>1, <3>1, <4>1 DEF RingFollows
    <3>2. CASE pending # <<>>
      <4>1. Emit(pending)
        BY <2>1, <3>2
      <4>2. Len(pending) \in 1 .. call.cf
        BY <1>0, <3>2
      <4> QED BY <1>0, <2>1, <4>1, <4>2, Emitted DEF Heard
    <3> QED BY <3>1, <3>2
  <2>5. /\ at' = to /\ state' = state + (to - at)
        /\ donated' \subseteq donated \cup (state .. state + (to - at) - 1)
    BY <1>0, <2>1, <2>2 DEF Advance, to
  <2>6. FlattenSeq(outputs') \o pending' = Heard \o chunk
    BY <2>1, <2>4
  <2>7. pending' \in Seq(OutputType) /\ Len(pending') <= 1 /\ (pending' # <<>> => call.mode = "pipeline-1")
    BY <2>1, <2>3
  <2> QED BY <1>0, <2>1, <2>2, <2>4, <2>5, <2>6, <2>7, SteppedInv DEF chunk
<1>5. CASE Pipeline1Last
  <2>1. /\ call.pc = "run" /\ pending # <<>> /\ Emit(pending) /\ pending' = <<>>
        /\ call' = call /\ prepared' = prepared /\ at' = at /\ state' = state /\ donated' = donated
        /\ compiled' = compiled /\ calls' = calls
    BY <1>5 DEF Pipeline1Last
  <2>2. Len(pending) \in 1 .. call.cf
    BY <1>0, <2>1
  <2>3. /\ outputs' \in Seq(Seq(OutputType)) /\ FlattenSeq(outputs') = FlattenSeq(outputs) \o pending
        /\ RingFollows'
    BY <1>0, <2>1, <2>2, Emitted
  <2>4. Heard' = Heard
    <3>1. FlattenSeq(outputs) \o pending \in Seq(OutputType)
      BY <1>0, <1>b
    <3>2. Heard' = (FlattenSeq(outputs) \o pending) \o <<>>
      BY <2>1, <2>3 DEF Heard
    <3> QED BY <1>d, <3>1, <3>2 DEF Heard
  <2>5. Played(at, state - at)' = Played(at, state - at)
    BY <2>1 DEF Played
  <2>6. TypeOK'
    BY <2>1 DEF TypeOK, ProducerInv
  <2> QED BY <1>a, <2>1, <2>3, <2>4, <2>5, <2>6 DEF ProducerInv
<1>6. CASE ChunkedChunk \/ ScanChunk
  <2> DEFINE to == ChunkEnd(call.frames, call.cf, at)  chunk == StepsOf(at, to)
  <2>1. /\ call.pc = "run" /\ call.mode \in {"chunked", "scan-chunked"} /\ at < call.frames /\ Emit(chunk)
        /\ call' = call /\ prepared' = prepared /\ pending' = pending /\ calls' = calls
    BY <1>6 DEF ChunkedChunk, ScanChunk, Running
  <2>2. to \in at + 1 .. call.frames /\ to - at \in 1 .. call.cf
    BY <1>0, <2>1, ChunkEndIs
  <2>3. chunk \in Seq(OutputType) /\ Len(chunk) = to - at
    BY <1>0, <2>2, PlayedGrows
  <2>4. pending = <<>>
    BY <2>1 DEF ProducerInv
  <2>5. /\ at' = to /\ state' = state + (to - at)
        /\ donated' \subseteq donated \cup (state .. state + (to - at) - 1)
        /\ compiled' \subseteq compiled \cup {to - at}
    <3>1. CASE ChunkedChunk
      <4>1. at' = at + (to - at) /\ state' = state + (to - at) /\ compiled' = compiled
            /\ donated' = donated \cup (state .. state + (to - at) - 1)
        BY <3>1 DEF ChunkedChunk, Advance
      <4> HIDE DEF to
      <4> QED BY <1>0, <2>2, <4>1
    <3>2. CASE ScanChunk
      <4>1. at' = to /\ state' = state + (to - at) /\ compiled' = compiled \cup {to - at}
            /\ donated' = donated \cup {state}
        BY <3>2 DEF ScanChunk
      <4> HIDE DEF to
      <4>2. state \in state .. state + (to - at) - 1
        BY <1>0, <2>2
      <4> QED BY <4>1, <4>2
    <3> QED BY <1>6, <3>1, <3>2
  <2> HIDE DEF chunk, to
  <2>6. outputs' \in Seq(Seq(OutputType)) /\ FlattenSeq(outputs') = FlattenSeq(outputs) \o chunk /\ RingFollows'
    <3>1. Len(chunk) \in 1 .. call.cf
      BY <2>2, <2>3
    <3> QED BY <1>0, <2>1, <2>3, <3>1, Emitted
  <2>7. FlattenSeq(outputs') \o pending' = Heard \o chunk
    <3>1. FlattenSeq(outputs) \o chunk \in Seq(OutputType)
      BY <1>b, <2>3
    <3> QED BY <1>c, <1>d, <2>1, <2>4, <2>6, <3>1
  <2>8. compiled' \in SUBSET (Nat \ {0})
    <3>1. to - at \in Nat \ {0}
      BY <1>0, <2>2
    <3> QED BY <1>0, <2>5, <3>1
  <2>9. pending' \in Seq(OutputType) /\ Len(pending') <= 1 /\ (pending' # <<>> => call.mode = "pipeline-1")
    BY <1>0, <2>1, <2>4
  <2> QED BY <1>0, <2>1, <2>2, <2>5, <2>6, <2>7, <2>8, <2>9, SteppedInv DEF chunk
<1>7. CASE Finish \/ Raise
  <2>1. /\ prepared' = prepared /\ at' = at /\ state' = state /\ donated' = donated /\ pending' = pending
        /\ outputs' = outputs /\ ring' = ring /\ compiled' = compiled /\ calls' = calls
        /\ \E pc \in {"idle", "failed"} :
             /\ call' = [call EXCEPT !.pc = pc]
             /\ pc = "idle" => at = call.frames /\ pending = <<>>
    BY <1>7 DEF Finish, Raise
  <2>2. TypeOK'
    BY <2>1 DEF TypeOK, ProducerInv
  <2>3. call'.frames = call.frames /\ call'.cf = call.cf /\ call'.mode = call.mode
        /\ (call'.pc = "idle" => at = call.frames /\ pending = <<>>)
    BY <2>1 DEF TypeOK, ProducerInv
  <2>4. Heard' = Heard /\ Played(at, state - at)' = Played(at, state - at)
    BY <2>1 DEF Heard, Played
  <2>5. RingFollows'
    BY <1>0, <2>1, <2>3 DEF RingFollows
  <2> QED BY <1>a, <2>1, <2>2, <2>3, <2>4, <2>5 DEF ProducerInv
<1>8. CASE UNCHANGED vars
  <2>1. TypeOK' /\ Heard' = Heard /\ Played(at, state - at)' = Played(at, state - at) /\ RingFollows'
    BY <1>8 DEF vars, TypeOK, ProducerInv, Heard, Played, RingFollows
  <2> QED BY <1>8, <1>a, <2>1 DEF vars, ProducerInv
<1> QED BY <1>1, <1>2, <1>3, <1>4, <1>5, <1>6, <1>7, <1>8 DEF Next

\* Whatever the mode, the chunking and the calls before, a schedule is played
\* once and in order on the state that has seen everything before it, the ring
\* gets what the caller gets, and no state is stepped that was given away.
THEOREM SchedulesAreServed == Spec => []ScheduleServed
<1>1. ProducerInv => ScheduleServed
  <2> SUFFICES ASSUME ProducerInv PROVE ScheduleServed
    OBVIOUS
  <2>1. TypeOK /\ RingFollows
    BY DEF ProducerInv
  <2>2. SameAudio
    BY DEF SameAudio, ProducerInv, Played
  <2>3. AllHeard
    <3> SUFFICES ASSUME call.pc = "idle" PROVE Len(FlattenSeq(outputs)) = call.frames
      BY DEF AllHeard
    <3>1. FlattenSeq(outputs) \in Seq(OutputType) /\ pending = <<>> /\ at = call.frames /\ at \in Nat
      BY FlattenAppend DEF ProducerInv, TypeOK
    <3>2. FlattenSeq(outputs) = Played(at, state - at)
      BY <3>1 DEF ProducerInv, Heard
    <3>3. Len(Played(at, state - at)) = at
      BY <3>1 DEF Played
    <3> QED BY <3>1, <3>2, <3>3
  <2>4. NeverDonatedTwice
    BY DEF NeverDonatedTwice, ProducerInv, TypeOK
  <2> QED BY <2>1, <2>2, <2>3, <2>4 DEF ScheduleServed
<1> QED BY <1>1, ProducerInit, ProducerStep, PTL DEF Spec
=============================================================================
