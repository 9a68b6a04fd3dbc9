----------------------- MODULE RealtimeRunnerProofs -----------------------
(***************************************************************************)
(* The lifecycle of RealtimeRunner, for any number of controllers, any        *)
(* operations and any ring sizes: type correctness, one user of the engine at *)
(* a time, and no inference thread without a model; and the two rings it      *)
(* shares with the audio callback: they never hold more than they may, and a   *)
(* frame that was waited for fits.                                            *)
(***************************************************************************)
EXTENDS RealtimeRunner, TLAPS

\* The methods that reach the engine itself.
EngineOperations == AllOperations \ {"start", "stop", "load_musiccoca_model"}

\* A controller is between its lock and its unlock exactly while it holds the mutex.
MutexHeld == \A c \in Controllers : controller[c].pc \in LockedPcs <=> mutex = c

\* There is a thread to join exactly while there is one; it runs only then, and
\* with the mutex free it has not been told to stop.
ThreadJoinable ==
  /\ joinable <=> loop.pc # "absent"
  /\ running => joinable
  /\ mutex = Nobody => (joinable => running)

\* What a controller knows where it is.
Knows(c) ==
  /\ controller[c].pc \in EnginePcs => ~joinable
  /\ controller[c].pc = "unlock" => (joinable => running)
  /\ controller[c].pc \in {"readWeights", "applyWeights", "rebuild"} => engine.loaded
  /\ controller[c].pc \in {"stop", "join"} => controller[c].op # "start"
  /\ controller[c].pc = "engine" => controller[c].op \in EngineOperations
  /\ controller[c].pc \in {"readRunning", "lock", "stop", "join"} => controller[c].op # "none"
  /\ controller[c].pc \in {"join", "rejoin"} => ~running
HolderKnows == \A c \in Controllers : Knows(c)

\* The conjuncts of TypeOK.
RingType == [write : Cursors, read : Cursors, capacity : BufferSizes]
LoopType == [pc : LoopPcs, generation : 0..MaxGeneration]
AudioType == [pc : AudioPcs, count : {0} \cup Counts, pos : Cursors]
RebuildType == [by : {Nobody, "loop"} \cup Controllers, step : 0..10, last : {0, 4, 10}]
ControllerType == [pc : ControllerPcs, op : {"none"} \cup AllOperations,
                   was : BOOLEAN, weights : 0..MaxGeneration]
BlendType == [weights : 0..MaxGeneration, generation : 0..MaxGeneration,
              last : 0..MaxGeneration, tokens : 0..MaxGeneration]
StreamTyped == rings \in [Sides -> RingType] /\ audio \in AudioType /\ resizing \in {0} \cup BufferSizes
EngineTyped == engine \in Engines /\ blend \in BlendType /\ rebuild \in RebuildType
FlagsTyped == /\ running \in BOOLEAN /\ joinable \in BOOLEAN /\ bypass \in BOOLEAN
              /\ skip \in BOOLEAN /\ raced \in BOOLEAN
              /\ request \in {"None"} \cup Requests
ThreadsTyped == /\ loop \in LoopType /\ controller \in [Controllers -> ControllerType]
                /\ mutex \in {Nobody} \cup Controllers

Life == MutexHeld /\ ThreadJoinable /\ HolderKnows /\ LoadedWhileAlive

Inv == TypeOK /\ Life

-----------------------------------------------------------------------------
(* The engine. *)

LEMMA OutcomeParts ==
  ASSUME NEW e
  PROVE  /\ Success(e).engine = e /\ Success(e).ok \in BOOLEAN
         /\ Failure(e).engine = e /\ Failure(e).ok \in BOOLEAN
BY DEF Success, Failure

\* A reset of the live state leaves the functions alone.
LEMMA ResetKeepsLoaded ==
  ASSUME NEW e \in Engines
  PROVE  ResetState(e) \in Engines /\ ResetState(e).loaded = e.loaded
BY DEF ResetState, Engines, Origins

LEMMA PrefillTyped ==
  ASSUME NEW e \in Engines, NEW o \in Origins, NEW r \in PrefillTokens(e, o)
  PROVE  r.engine \in Engines /\ r.ok \in BOOLEAN
<1> DEFINE fed == [e EXCEPT !.live = o]
           kept == [fed EXCEPT !.initial = o]
<1>1. fed \in Engines
  BY DEF Engines
<1>2. kept \in Engines
  <2> HIDE DEF fed
  <2> QED
    BY <1>1 DEF Engines
<1>3. r \in {Failure(e), Success(kept), Failure(fed)}
  BY DEF PrefillTokens
<1> HIDE DEF fed, kept
<1> QED
  BY <1>1, <1>2, <1>3, OutcomeParts

LEMMA LoadStateTyped ==
  ASSUME NEW e \in Engines, NEW o \in Origins, NEW r \in LoadState(e, o)
  PROVE  r.engine \in Engines /\ r.ok \in BOOLEAN
<1> DEFINE kept == [e EXCEPT !.initial = o]
<1>1. kept \in Engines
  BY DEF Engines
<1>2. r \in {Failure(e), Success(kept)}
  BY DEF LoadState
<1> HIDE DEF kept
<1> QED
  BY <1>1, <1>2, OutcomeParts

LEMMA LoadModelTyped ==
  ASSUME NEW e \in Engines, NEW r \in LoadModel(e)
  PROVE  r.engine \in Engines /\ r.ok \in BOOLEAN
<1> DEFINE full == [loaded |-> TRUE, ready |-> TRUE, factory |-> "factory",
                    initial |-> "factory", live |-> "factory"]
           bare == [EmptyEngine EXCEPT !.ready = e.ready]
           some == [bare EXCEPT !.loaded = TRUE]
           last == [full EXCEPT !.loaded = FALSE, !.ready = e.ready]
<1>1. full \in Engines /\ bare \in Engines /\ e.ready \in BOOLEAN
  BY DEF Engines, EmptyEngine, Origins
<1>2. r \in {Success(full), Failure(bare), Failure(some), Failure(last)}
  BY DEF LoadModel
<1> HIDE DEF full, bare
<1>3. some \in Engines /\ last \in Engines
  BY <1>1 DEF Engines
<1> HIDE DEF some, last
<1> QED
  BY <1>1, <1>2, <1>3, OutcomeParts

\* Every outcome of a method of the engine leaves an engine.
LEMMA OutcomesTyped ==
  ASSUME engine \in Engines, NEW op \in EngineOperations, NEW r \in Outcomes(op)
  PROVE  r.engine \in Engines /\ r.ok \in BOOLEAN
<1>1. "audio" \in Origins /\ "silence" \in Origins /\ engine.live \in Origins
  BY DEF Origins, Engines
<1>2. CASE op = "load_model"
  BY <1>2, LoadModelTyped DEF Outcomes
<1>3. CASE op = "unload"
  <2>1. Unload(engine) \in Engines
    BY DEF Unload, Engines, EmptyEngine, Origins
  <2> QED
    BY <1>3, <2>1, OutcomeParts DEF Outcomes
<1>4. CASE op = "prefill_state"
  BY <1>1, <1>4, PrefillTyped, OutcomeParts DEF Outcomes, PrefillState
<1>5. CASE op = "prefill_silence"
  <2>1. ResetState(engine) \in Engines
    BY ResetKeepsLoaded
  <2> QED
    BY <1>1, <1>5, <2>1, PrefillTyped, OutcomeParts DEF Outcomes, PrefillSilence
<1>6. CASE op = "reset"
  BY <1>6, ResetKeepsLoaded, OutcomeParts DEF Outcomes
<1>7. CASE op = "reset_to_factory"
  <2>1. [engine EXCEPT !.initial = engine.factory] \in Engines
    BY DEF Engines
  <2>2. ResetToFactory(engine) \in Engines
    BY <2>1, ResetKeepsLoaded DEF ResetToFactory
  <2> QED
    BY <1>7, <2>2, OutcomeParts DEF Outcomes
<1>8. CASE op = "save_state"
  <2>1. \A q \in LoadState(engine, engine.live) : q.engine \in Engines
    BY <1>1, LoadStateTyped
  <2> QED
    BY <1>8, <2>1, OutcomeParts DEF Outcomes, SaveState
<1>9. CASE op = "load_state"
  BY <1>1, <1>9, LoadStateTyped DEF Outcomes
<1> QED
  BY <1>2, <1>3, <1>4, <1>5, <1>6, <1>7, <1>8, <1>9 DEF EngineOperations, AllOperations

-----------------------------------------------------------------------------
(* Types. *)

LEMMA TypeParts ==
  /\ TypeOK <=> StreamTyped /\ EngineTyped /\ FlagsTyped /\ ThreadsTyped
  /\ TypeOK' <=> StreamTyped' /\ EngineTyped' /\ FlagsTyped' /\ ThreadsTyped'
BY DEF TypeOK, StreamTyped, EngineTyped, FlagsTyped, ThreadsTyped, RingType, LoopType,
       AudioType, RebuildType, ControllerType, BlendType

\* There is a cursor, so SizeT is positive, and a sum of two is one again.
LEMMA CursorRange ==
  ASSUME StreamTyped, NEW n \in Int
  PROVE  n % SizeT \in Cursors
<1>1. SizeT \in Nat
  BY RunnerAssumption
<1>2. audio.pos \in 0..(SizeT - 1)
  BY DEF StreamTyped, AudioType, Cursors
<1>3. SizeT > 0
  BY <1>1, <1>2
<1> QED
  BY <1>1, <1>3 DEF Cursors

LEMMA WrittenTyped ==
  ASSUME StreamTyped, NEW s \in Sides
  PROVE  Written(s) \in [Sides -> RingType]
<1> DEFINE n == (rings[s].write + Frame) % SizeT
           ring == [rings[s] EXCEPT !.write = n]
<1>1. rings \in [Sides -> RingType] /\ rings[s] \in RingType /\ rings[s].write \in Int
  BY DEF StreamTyped, RingType, Cursors
<1>2. n \in Cursors
  BY <1>1, RunnerAssumption, CursorRange
<1> HIDE DEF n
<1>3. ring \in RingType
  BY <1>1, <1>2 DEF RingType
<1>4. Written(s) = rings \/ Written(s) = [rings EXCEPT ![s] = ring]
  BY DEF Written, n
<1> HIDE DEF ring
<1> QED
  BY <1>1, <1>3, <1>4

\* A controller that goes elsewhere keeps its locals, and no other one moves.
LEMMA GoTyped ==
  ASSUME controller \in [Controllers -> ControllerType],
         NEW c \in Controllers, NEW pc \in ControllerPcs, Go(c, pc)
  PROVE  /\ controller' \in [Controllers -> ControllerType]
         /\ controller'[c].pc = pc /\ controller'[c].op = controller[c].op
         /\ \A d \in Controllers \ {c} : controller'[d] = controller[d]
<1> DEFINE new == [controller[c] EXCEPT !.pc = pc]
<1>1. new \in ControllerType /\ new.pc = pc /\ new.op = controller[c].op
  BY DEF ControllerType
<1>2. controller' = [controller EXCEPT ![c] = new]
  BY DEF Go
<1> HIDE DEF new
<1> QED
  BY <1>1, <1>2

\* What a step does to the loop's record when it only moves the loop.
LEMMA LoopGoTyped ==
  ASSUME loop \in LoopType, NEW pc \in LoopPcs, loop' = [loop EXCEPT !.pc = pc]
  PROVE  loop' \in LoopType /\ loop'.pc = pc
BY DEF LoopType

-----------------------------------------------------------------------------
(* The lifecycle. *)

\* A step of the audio callback, of a setter, of the rings or of the inference
\* thread that is there: nothing the lifecycle rests on changes.
LEMMA QuietStep ==
  ASSUME Life, UNCHANGED <<running, joinable, controller, mutex>>,
         engine'.loaded = engine.loaded, loop'.pc = "absent" <=> loop.pc = "absent", Alive' => Alive
  PROVE  Life'
BY DEF Life, MutexHeld, ThreadJoinable, HolderKnows, Knows, LoadedWhileAlive

\* A step of a controller that neither holds nor takes the mutex.
LEMMA OutsideStep ==
  ASSUME Life, NEW c \in Controllers, UNCHANGED <<running, joinable, engine, loop, mutex>>,
         \A d \in Controllers \ {c} : controller'[d] = controller[d],
         controller[c].pc \notin LockedPcs, controller'[c].pc \notin LockedPcs,
         controller'[c].pc \in {"readRunning", "lock"} => controller'[c].op # "none"
  PROVE  Life'
<1>1. MutexHeld'
  BY DEF Life, MutexHeld
<1>2. ASSUME NEW d \in Controllers PROVE Knows(d)'
  <2>1. CASE d = c
    BY <2>1 DEF Knows, LockedPcs, EnginePcs
  <2>2. CASE d # c
    BY <2>2 DEF Life, HolderKnows, Knows
  <2> QED
    BY <2>1, <2>2
<1> QED
  BY <1>1, <1>2 DEF Life, ThreadJoinable, HolderKnows, LoadedWhileAlive, Alive

\* A step of the controller that holds the mutex and keeps it.
LEMMA HolderStep ==
  ASSUME Life, NEW c \in Controllers, controller[c].pc \in LockedPcs, mutex' = mutex,
         \A d \in Controllers \ {c} : controller'[d] = controller[d],
         controller'[c].pc \in LockedPcs, Knows(c)'
  PROVE  mutex = c /\ MutexHeld' /\ HolderKnows'
<1>1. mutex = c
  BY DEF Life, MutexHeld
<1>2. ASSUME NEW d \in Controllers \ {c} PROVE controller'[d].pc \notin LockedPcs /\ Knows(d)'
  <2>1. controller'[d] = controller[d] /\ controller[d].pc \notin LockedPcs
    BY <1>1 DEF Life, MutexHeld
  <2> QED
    BY <2>1 DEF Life, HolderKnows, Knows, LockedPcs, EnginePcs
<1> QED
  BY <1>1, <1>2 DEF MutexHeld, HolderKnows

LEMMA NobodyElse == Nobody \notin Controllers
BY RunnerAssumption DEF Nobody

-----------------------------------------------------------------------------
(* The steps. *)

LEMMA InitInv == Init => Inv
<1> SUFFICES ASSUME Init PROVE Inv
  OBVIOUS
<1>1. PICK n \in BufferSizes : rings = [s \in Sides |-> EmptyRing(n)]
  BY DEF Init
<1>2. 0 \in Cursors
  <2>1. SizeT \in Nat /\ n < SizeT /\ n \in Nat
    BY RunnerAssumption
  <2> QED
    BY <2>1 DEF Cursors
<1>3. StreamTyped
  <2>1. EmptyRing(n) \in RingType
    BY <1>2 DEF EmptyRing, RingType
  <2> QED
    BY <1>1, <1>2, <2>1 DEF Init, StreamTyped, AudioType, AudioPcs
<1>4. MaxGeneration \in Nat
  BY RunnerAssumption
<1>5. EngineTyped /\ FlagsTyped
  <2>1. NoRebuild \in RebuildType /\ EmptyEngine \in Engines
    BY DEF RebuildType, NoRebuild, EmptyEngine, Engines, Origins
  <2>2. 0 \in 0..MaxGeneration
    BY <1>4
  <2> QED
    BY <2>1, <2>2 DEF Init, EngineTyped, FlagsTyped, BlendType
<1>6. ThreadsTyped
  <2>1. IdleController \in ControllerType
    BY <1>4 DEF IdleController, ControllerType, ControllerPcs
  <2> QED
    BY <1>4, <2>1 DEF Init, ThreadsTyped, LoopType, LoopPcs
<1>7. \A c \in Controllers : controller[c].pc = "idle"
  BY DEF Init, IdleController
<1>8. MutexHeld
  BY <1>7, NobodyElse DEF Init, MutexHeld, LockedPcs
<1>9. Life
  BY <1>7, <1>8 DEF Init, Life, ThreadJoinable, HolderKnows, Knows, LoadedWhileAlive, Alive,
              EnginePcs
<1> QED
  BY <1>3, <1>5, <1>6, <1>9, TypeParts DEF Inv

\* The steps of a rebuild in progress.
LEMMA RebuildStepInv ==
  ASSUME Inv, RebuildStep
  PROVE  Inv'
<1> USE TypeParts DEF Inv
<1> DEFINE new == [rebuild EXCEPT !.step = @ + 1]
<1>1. rebuild' = new /\ rebuild.step < 10 /\ raced' \in BOOLEAN
  <2>1. rebuild' = new
    BY DEF RebuildStep, RebuildReset, PrimeLeft, PrimeRight
  <2>2. rebuild.step < 10
    BY DEF RebuildStep, RebuildReset, PrimeLeft, PrimeRight, EngineTyped, RebuildType
  <2>3. raced' \in BOOLEAN
    BY DEF RebuildStep, RebuildReset, PrimeLeft, PrimeRight, FlagsTyped
  <2> QED
    BY <2>1, <2>2, <2>3
<1>2. new \in RebuildType
  BY <1>1 DEF EngineTyped, RebuildType
<1> HIDE DEF new
<1>3. rings' \in [Sides -> RingType]
  <2>1. ASSUME NEW s \in Sides PROVE [rings EXCEPT ![s].write = 0] \in [Sides -> RingType]
                                  /\ [rings EXCEPT ![s].read = 0] \in [Sides -> RingType]
    <3>1. 0 \in Cursors
      BY CursorRange, RunnerAssumption DEF Cursors, StreamTyped, AudioType
    <3>2. [rings[s] EXCEPT !.write = 0] \in RingType /\ [rings[s] EXCEPT !.read = 0] \in RingType
      BY <3>1 DEF StreamTyped, RingType
    <3> QED
      BY <3>2 DEF StreamTyped
  <2>2. CASE RebuildReset
    <3>1. rebuild.step \in 0..3
      BY <2>2 DEF RebuildReset, EngineTyped, RebuildType
    <3>2. ResetStores[rebuild.step + 1].side \in Sides
      BY <3>1 DEF ResetStores, Sides
    <3> QED
      BY <2>1, <2>2, <3>2 DEF RebuildReset
  <2>3. CASE PrimeLeft
    BY <2>3, WrittenTyped DEF PrimeLeft, Sides
  <2>4. CASE PrimeRight
    BY <2>4, WrittenTyped DEF PrimeRight, Sides
  <2> QED
    BY <2>2, <2>3, <2>4 DEF RebuildStep
<1>4. UNCHANGED <<running, joinable, engine, bypass, request, skip, loop, audio,
                  controller, mutex, blend, resizing>>
  BY DEF RebuildStep, RebuildReset, PrimeLeft, PrimeRight
<1>5. TypeOK'
  BY <1>1, <1>2, <1>3, <1>4 DEF StreamTyped, EngineTyped, FlagsTyped, ThreadsTyped
<1> QED
  BY <1>4, <1>5, QuietStep DEF Alive

\* The steps of the inference thread: it never becomes absent, and what it does
\* to the engine leaves the functions alone.
LEMMA LoopStepInv ==
  ASSUME Inv, LoopStep
  PROVE  Inv'
<1> USE TypeParts DEF Inv
<1>1. loop.pc \notin {"absent", "exited"}
  BY DEF LoopStep, LoopTop, TakeRequest, LoopReset, LoopRebuilt, LoadGeneration, Reblend,
         Generate, WaitForSpace, PutLeft, PutRight, Put
<1>2. loop' \in LoopType /\ loop'.pc # "absent"
  <2>1. ASSUME NEW pc \in LoopPcs \ {"absent"}, loop' = [loop EXCEPT !.pc = pc]
        PROVE  loop' \in LoopType /\ loop'.pc # "absent"
    BY <2>1, LoopGoTyped DEF ThreadsTyped
  <2>2. CASE LoadGeneration
    BY <2>2 DEF LoadGeneration, ThreadsTyped, EngineTyped, LoopType, BlendType, LoopPcs
  <2>3. CASE LoopTop
    BY <2>1, <2>3 DEF LoopTop, LoopPcs
  <2>4. CASE TakeRequest
    BY <2>1, <2>4 DEF TakeRequest, LoopPcs
  <2>5. CASE LoopReset \/ LoopRebuilt
    BY <2>1, <2>5 DEF LoopReset, LoopRebuilt, LoopPcs
  <2>6. CASE \E ok \in BOOLEAN : Reblend(ok)
    BY <2>1, <2>6 DEF Reblend, LoopPcs
  <2>7. CASE Generate
    BY <2>1, <2>7 DEF Generate, LoopPcs
  <2>8. CASE WaitForSpace
    BY <2>1, <2>8 DEF WaitForSpace, LoopPcs
  <2>9. CASE PutLeft \/ PutRight
    BY <2>1, <2>9 DEF PutLeft, PutRight, Put, LoopPcs
  <2> QED
    BY <2>2, <2>3, <2>4, <2>5, <2>6, <2>7, <2>8, <2>9 DEF LoopStep
<1>3. rings' \in [Sides -> RingType]
  <2>1. CASE PutLeft \/ PutRight
    BY <2>1, WrittenTyped DEF PutLeft, PutRight, Put, Sides
  <2>2. CASE UNCHANGED rings
    BY <2>2 DEF StreamTyped
  <2> QED
    BY <2>1, <2>2 DEF LoopStep, LoopTop, TakeRequest, LoopReset, LoopRebuilt, LoadGeneration,
                      Reblend, Generate, WaitForSpace
<1>4. engine' \in Engines /\ engine'.loaded = engine.loaded
  <2>1. CASE LoopReset
    BY <2>1, ResetKeepsLoaded DEF LoopReset, EngineTyped
  <2>2. CASE UNCHANGED engine
    BY <2>2 DEF EngineTyped
  <2> QED
    BY <2>1, <2>2 DEF LoopStep, LoopTop, TakeRequest, LoopRebuilt, LoadGeneration,
                      Reblend, Generate, WaitForSpace, PutLeft, PutRight, Put
<1>5. rebuild' \in RebuildType
  <2>1. CASE LoopReset
    BY <2>1 DEF LoopReset, BeginResetAndPrime, RebuildType
  <2>2. CASE LoopRebuilt
    BY <2>2 DEF LoopRebuilt, NoRebuild, RebuildType
  <2>3. CASE UNCHANGED rebuild
    BY <2>3 DEF EngineTyped
  <2> QED
    BY <2>1, <2>2, <2>3 DEF LoopStep, LoopTop, TakeRequest, LoadGeneration,
                      Reblend, Generate, WaitForSpace, PutLeft, PutRight, Put
<1>6. blend' \in BlendType
  <2>1. CASE \E ok \in BOOLEAN : Reblend(ok)
    BY <2>1 DEF Reblend, EngineTyped, BlendType, ThreadsTyped, LoopType
  <2>2. CASE UNCHANGED blend
    BY <2>2 DEF EngineTyped
  <2> QED
    BY <2>1, <2>2 DEF LoopStep, LoopTop, TakeRequest, LoopReset, LoopRebuilt, LoadGeneration,
                      Generate, WaitForSpace, PutLeft, PutRight, Put
<1>7. request' \in {"None"} \cup Requests /\ skip' \in BOOLEAN
  <2>1. CASE TakeRequest
    BY <2>1 DEF TakeRequest, FlagsTyped
  <2>2. CASE UNCHANGED <<request, skip>>
    BY <2>2 DEF FlagsTyped
  <2> QED
    BY <2>1, <2>2 DEF LoopStep, LoopTop, LoopReset, LoopRebuilt, LoadGeneration,
                      Reblend, Generate, WaitForSpace, PutLeft, PutRight, Put
<1>8. UNCHANGED <<running, joinable, bypass, audio, controller, mutex, resizing, raced>>
  BY DEF LoopStep, LoopTop, TakeRequest, LoopReset, LoopRebuilt, LoadGeneration,
         Reblend, Generate, WaitForSpace, PutLeft, PutRight, Put, loopOnly
<1>9. TypeOK'
  BY <1>2, <1>3, <1>4, <1>5, <1>6, <1>7, <1>8
     DEF StreamTyped, EngineTyped, FlagsTyped, ThreadsTyped
<1> QED
  BY <1>1, <1>2, <1>4, <1>8, <1>9, QuietStep DEF Alive

\* The steps of the audio callback.
LEMMA AudioStepInv ==
  ASSUME Inv, HostCall \/ AudioStep
  PROVE  Inv'
<1> USE TypeParts DEF Inv
<1>1. 0 \in Cursors
  BY CursorRange, RunnerAssumption DEF Cursors, StreamTyped, AudioType
<1>2. ASSUME NEW side \in Sides, NEW here \in AudioPcs, NEW next \in AudioPcs, NEW n,
             LoadCursor(side, here, next, n), n = SizeT \/ n = audio.count
      PROVE  rings' \in [Sides -> RingType] /\ audio' \in AudioType /\ raced' \in BOOLEAN
  <2> DEFINE pos == (rings[side].read + Min2(Available(side), n)) % SizeT
  <2>1. n \in Int /\ rings[side].read \in Int /\ rings[side].write \in Int
    <3>1. SizeT \in Int /\ \A m \in Counts : m \in Int
      <4>1. SizeT \in Nat /\ \A m \in Counts : m \in Nat
        BY RunnerAssumption
      <4> QED
        BY <4>1
    <3>2. audio.count \in Int
      BY <3>1, 0 \in Int DEF StreamTyped, AudioType
    <3>3. rings[side] \in RingType
      BY DEF StreamTyped
    <3>4. rings[side].read \in Cursors /\ rings[side].write \in Cursors
      BY <3>3 DEF RingType
    <3> QED
      BY <1>2, <3>1, <3>2, <3>4 DEF Cursors
  <2>2. Available(side) \in Int
    BY <2>1, CursorRange DEF Available, Cursors
  <2>3. pos \in Cursors
    BY <2>1, <2>2, CursorRange DEF Min2
  <2>4. audio' = [audio EXCEPT !.pc = next, !.pos = pos]
    BY <1>2 DEF LoadCursor
  <2> HIDE DEF pos
  <2>5. audio' \in AudioType
    BY <2>3, <2>4 DEF StreamTyped, AudioType
  <2>6. raced' \in BOOLEAN
    BY <1>2 DEF LoadCursor, FlagsTyped
  <2> QED
    BY <1>2, <2>5, <2>6 DEF LoadCursor, StreamTyped
<1>3. ASSUME NEW side \in Sides, NEW here \in AudioPcs, NEW next \in AudioPcs,
             StoreCursor(side, here, next)
      PROVE  rings' \in [Sides -> RingType] /\ audio' \in AudioType /\ raced' \in BOOLEAN
  <2> DEFINE ring == [rings[side] EXCEPT !.read = audio.pos]
  <2>1. ring \in RingType
    BY DEF StreamTyped, AudioType, RingType
  <2>2. rings' = [rings EXCEPT ![side] = ring]
    BY <1>3 DEF StoreCursor
  <2> HIDE DEF ring
  <2>3. rings' \in [Sides -> RingType]
    BY <2>1, <2>2 DEF StreamTyped
  <2>4. audio' \in AudioType
    BY <1>1, <1>3 DEF StoreCursor, StreamTyped, AudioType
  <2>5. raced' \in BOOLEAN
    BY <1>3 DEF StoreCursor, FlagsTyped
  <2> QED
    BY <2>3, <2>4, <2>5
<1>4. rings' \in [Sides -> RingType] /\ audio' \in AudioType /\ raced' \in BOOLEAN
  <2>1. CASE ReadLeft \/ ReadRight \/ DrainLeft \/ DrainRight
    BY <1>2, <2>1 DEF ReadLeft, ReadRight, DrainLeft, DrainRight, Sides, AudioPcs
  <2>2. CASE StoreLeft \/ StoreRight \/ DrainedLeft \/ DrainedRight
    BY <1>3, <2>2 DEF StoreLeft, StoreRight, DrainedLeft, DrainedRight, Sides, AudioPcs
  <2>3. CASE HostCall
    BY <1>1, <2>3 DEF HostCall, ReadAudio, ResetForPlayback, StreamTyped, FlagsTyped, AudioType,
                      AudioPcs
  <2>4. CASE ReadBlocks
    BY <2>4 DEF ReadBlocks, StreamTyped, FlagsTyped, AudioType, AudioPcs
  <2> QED
    BY <2>1, <2>2, <2>3, <2>4 DEF AudioStep
<1>5. UNCHANGED <<running, joinable, engine, bypass, request, skip, loop, rebuild,
                  controller, mutex, blend, resizing>>
  BY DEF HostCall, ReadAudio, ResetForPlayback, AudioStep, ReadBlocks, ReadLeft, StoreLeft,
         ReadRight, StoreRight, DrainLeft, DrainedLeft, DrainRight, DrainedRight,
         LoadCursor, StoreCursor, audioOnly
<1>6. TypeOK'
  BY <1>4, <1>5 DEF StreamTyped, EngineTyped, FlagsTyped, ThreadsTyped
<1> QED
  BY <1>5, <1>6, QuietStep DEF Alive

\* The setters.
LEMMA SetInv ==
  ASSUME Inv, Set
  PROVE  Inv'
<1> USE TypeParts DEF Inv
<1>1. rings' \in [Sides -> RingType] /\ resizing' \in {0} \cup BufferSizes
  <2>1. ASSUME NEW s \in Sides, NEW n \in BufferSizes
        PROVE  [rings EXCEPT ![s].capacity = n] \in [Sides -> RingType]
    <3>1. [rings[s] EXCEPT !.capacity = n] \in RingType
      BY DEF StreamTyped, RingType
    <3> QED
      BY <3>1 DEF StreamTyped
  <2>2. CASE \E n \in BufferSizes : ResizeLeft(n)
    BY <2>1, <2>2 DEF ResizeLeft, Sides
  <2>3. CASE ResizeRight
    BY <2>1, <2>3 DEF ResizeRight, Sides, StreamTyped
  <2>4. CASE UNCHANGED <<rings, resizing>>
    BY <2>4 DEF StreamTyped
  <2> QED
    BY <2>2, <2>3, <2>4 DEF Set, TriggerReset, TriggerTransportReset, SetBypass, StoreWeight,
                            BumpGeneration
<1>2. request' \in {"None"} \cup Requests /\ bypass' \in BOOLEAN
  BY DEF Set, TriggerReset, TriggerTransportReset, SetBypass, ResizeLeft, ResizeRight,
         StoreWeight, BumpGeneration, FlagsTyped
<1>3. blend' \in BlendType
  <2>1. MaxGeneration \in Nat
    BY RunnerAssumption
  <2>2. CASE StoreWeight
    BY <2>1, <2>2 DEF StoreWeight, EngineTyped, BlendType
  <2>3. CASE BumpGeneration
    BY <2>1, <2>3 DEF BumpGeneration, EngineTyped, BlendType
  <2>4. CASE UNCHANGED blend
    BY <2>4 DEF EngineTyped
  <2> QED
    BY <2>2, <2>3, <2>4 DEF Set, TriggerReset, TriggerTransportReset, SetBypass, ResizeLeft,
                            ResizeRight
<1>4. UNCHANGED <<running, joinable, engine, skip, loop, audio, rebuild, controller,
                  mutex, raced>>
  BY DEF Set, TriggerReset, TriggerTransportReset, SetBypass, ResizeLeft, ResizeRight,
         StoreWeight, BumpGeneration, setterOnly
<1>5. TypeOK'
  BY <1>1, <1>2, <1>3, <1>4 DEF StreamTyped, EngineTyped, FlagsTyped, ThreadsTyped
<1> QED
  BY <1>4, <1>5, QuietStep DEF Alive

-----------------------------------------------------------------------------
(* The steps of a controller. *)

\* Outside the mutex.
LEMMA CallInv ==
  ASSUME Inv, NEW c \in Controllers, NEW op \in Operations, Call(c, op)
  PROVE  Inv'
<1> USE TypeParts DEF Inv
<1> DEFINE new == [controller[c] EXCEPT !.op = op,
                     !.pc = IF op = "load_musiccoca_model" THEN "readRunning" ELSE "lock"]
<1>1. op \in AllOperations /\ op # "none"
  BY RunnerAssumption DEF AllOperations
<1>2. /\ new \in ControllerType /\ new.op = op /\ new.pc \in {"readRunning", "lock"}
      /\ controller' = [controller EXCEPT ![c] = new]
  <2>1. controller[c] \in ControllerType
    BY DEF ThreadsTyped
  <2>2. new \in ControllerType /\ new.op = op /\ new.pc \in {"readRunning", "lock"}
    BY <1>1, <2>1 DEF ControllerType, ControllerPcs
  <2> QED
    BY <2>2 DEF Call
<1> HIDE DEF new
<1>3. controller' \in [Controllers -> ControllerType] /\ controller'[c] = new
      /\ \A d \in Controllers \ {c} : controller'[d] = controller[d]
  BY <1>2 DEF ThreadsTyped
<1>4. UNCHANGED <<rings, running, joinable, engine, skip, loop, rebuild, mutex, blend, raced,
                  bypass, request, audio, resizing>> /\ controller[c].pc = "idle"
  BY DEF Call, At, controllerOnly
<1>5. TypeOK'
  BY <1>3, <1>4 DEF StreamTyped, EngineTyped, FlagsTyped, ThreadsTyped
<1>6. Life'
  BY <1>1, <1>2, <1>3, <1>4, OutsideStep DEF LockedPcs
<1> QED
  BY <1>5, <1>6

LEMMA ReadRunningInv ==
  ASSUME Inv, NEW c \in Controllers, ReadRunning(c)
  PROVE  Inv'
<1> USE TypeParts DEF Inv
<1> DEFINE new == [controller[c] EXCEPT !.was = running,
                     !.pc = IF running THEN "lock" ELSE "assets"]
<1>1. /\ new \in ControllerType /\ new.op = controller[c].op /\ new.pc \in {"lock", "assets"}
      /\ controller' = [controller EXCEPT ![c] = new]
  <2>1. controller[c] \in ControllerType /\ running \in BOOLEAN
    BY DEF ThreadsTyped, FlagsTyped
  <2>2. new \in ControllerType /\ new.op = controller[c].op /\ new.pc \in {"lock", "assets"}
    BY <2>1 DEF ControllerType, ControllerPcs
  <2> QED
    BY <2>2 DEF ReadRunning
<1> HIDE DEF new
<1>2. controller' \in [Controllers -> ControllerType] /\ controller'[c] = new
      /\ \A d \in Controllers \ {c} : controller'[d] = controller[d]
  BY <1>1 DEF ThreadsTyped
<1>3. UNCHANGED <<rings, running, joinable, engine, skip, loop, rebuild, mutex, blend, raced,
                  bypass, request, audio, resizing>> /\ controller[c].pc = "readRunning"
  BY DEF ReadRunning, At, controllerOnly
<1>4. controller[c].op # "none"
  BY <1>3 DEF Life, HolderKnows, Knows
<1>5. TypeOK'
  BY <1>2, <1>3 DEF StreamTyped, EngineTyped, FlagsTyped, ThreadsTyped
<1>6. Life'
  BY <1>1, <1>2, <1>3, <1>4, OutsideStep DEF LockedPcs
<1> QED
  BY <1>5, <1>6

LEMMA InitAssetsInv ==
  ASSUME Inv, NEW c \in Controllers, NEW ok \in BOOLEAN, InitAssets(c, ok)
  PROVE  Inv'
<1> USE TypeParts DEF Inv
<1> DEFINE new == IF controller[c].was /\ ok
                  THEN [IdleController EXCEPT !.pc = "lock", !.op = "start"]
                  ELSE IdleController
<1>1. /\ new \in ControllerType /\ new.pc \in {"lock", "idle"}
      /\ new.pc = "lock" => new.op # "none"
  <2>1. 0 \in 0..MaxGeneration
    BY RunnerAssumption
  <2> QED
    BY <2>1 DEF IdleController, ControllerType, ControllerPcs, AllOperations
<1>2. controller' = [controller EXCEPT ![c] = new]
  BY DEF InitAssets
<1> HIDE DEF new
<1>3. controller' \in [Controllers -> ControllerType] /\ controller'[c] = new
      /\ \A d \in Controllers \ {c} : controller'[d] = controller[d]
  BY <1>1, <1>2 DEF ThreadsTyped
<1>4. UNCHANGED <<rings, running, joinable, engine, skip, loop, rebuild, mutex, blend, raced,
                  bypass, request, audio, resizing>> /\ controller[c].pc = "assets"
  BY DEF InitAssets, At, controllerOnly
<1>5. TypeOK'
  BY <1>3, <1>4 DEF StreamTyped, EngineTyped, FlagsTyped, ThreadsTyped
<1>6. Life'
  BY <1>1, <1>3, <1>4, OutsideStep DEF LockedPcs
<1> QED
  BY <1>5, <1>6

\* Into the mutex: a restoring method that found the thread stopped finds it gone.
LEMMA LockInv ==
  ASSUME Inv, NEW c \in Controllers, Lock(c)
  PROVE  Inv'
<1> USE TypeParts DEF Inv
<1> DEFINE op == controller[c].op
           new == [controller[c] EXCEPT !.was = IF op \in Restoring THEN running ELSE @,
                     !.pc = IF op = "start" THEN "startJoin"
                            ELSE IF op \in Restoring /\ ~running THEN "engine" ELSE "stop"]
<1>1. controller[c] \in ControllerType /\ running \in BOOLEAN
  BY DEF ThreadsTyped, FlagsTyped
<1>2. op \in AllOperations
  BY <1>1 DEF Lock, At, Life, HolderKnows, Knows, ControllerType
<1>3. /\ new \in ControllerType /\ new.op = op /\ new.pc \in {"startJoin", "engine", "stop"}
      /\ new.pc = "engine" => ~running /\ op \in EngineOperations
      /\ new.pc = "stop" => op # "start"
  BY <1>1, <1>2 DEF ControllerType, ControllerPcs, LockedPcs, Restoring, EngineOperations
<1>4. controller' = [controller EXCEPT ![c] = new]
  BY DEF Lock
<1> HIDE DEF new
<1>5. controller' \in [Controllers -> ControllerType] /\ controller'[c] = new
      /\ \A d \in Controllers \ {c} : controller'[d] = controller[d]
  BY <1>3, <1>4 DEF ThreadsTyped
<1>6. UNCHANGED <<rings, running, joinable, engine, skip, loop, rebuild, blend, raced,
                  bypass, request, audio, resizing>> /\ mutex = Nobody /\ mutex' = c
  BY DEF Lock, controllerOnly
<1>7. TypeOK'
  BY <1>5, <1>6 DEF StreamTyped, EngineTyped, FlagsTyped, ThreadsTyped
<1>8. ~running => ~joinable
  BY <1>6 DEF Life, ThreadJoinable
<1>9. ASSUME NEW d \in Controllers
      PROVE  Knows(d)' /\ (controller'[d].pc \in LockedPcs <=> d = c)
  <2>1. CASE d = c
    BY <1>2, <1>3, <1>5, <1>6, <1>8, <2>1 DEF Knows, EnginePcs, LockedPcs, AllOperations
  <2>2. CASE d # c
    <3>1. controller'[d] = controller[d] /\ controller[d].pc \notin LockedPcs
      BY <1>5, <1>6, <2>2, NobodyElse DEF Life, MutexHeld
    <3> QED
      BY <1>6, <2>2, <3>1 DEF Life, HolderKnows, Knows
  <2> QED
    BY <2>1, <2>2
<1>10. MutexHeld'
  BY <1>6, <1>9 DEF MutexHeld
<1>11. ThreadJoinable' /\ LoadedWhileAlive'
  BY <1>6, NobodyElse DEF Life, ThreadJoinable, LoadedWhileAlive, Alive
<1> QED
  BY <1>7, <1>9, <1>10, <1>11 DEF Life, HolderKnows

\* Out of the mutex.
LEMMA UnlockInv ==
  ASSUME Inv, NEW c \in Controllers, Unlock(c)
  PROVE  Inv'
<1> USE TypeParts DEF Inv
<1> DEFINE new == IF controller[c].op = "load_musiccoca_model"
                  THEN [controller[c] EXCEPT !.pc = "assets"] ELSE IdleController
<1>1. new \in ControllerType /\ new.pc \in {"assets", "idle"}
  <2>1. 0 \in 0..MaxGeneration
    BY RunnerAssumption
  <2>2. controller[c] \in ControllerType
    BY DEF ThreadsTyped
  <2> QED
    BY <2>1, <2>2 DEF IdleController, ControllerType, ControllerPcs
<1>2. controller' = [controller EXCEPT ![c] = new]
  BY DEF Unlock
<1> HIDE DEF new
<1>3. controller' \in [Controllers -> ControllerType] /\ controller'[c] = new
      /\ \A d \in Controllers \ {c} : controller'[d] = controller[d]
  BY <1>1, <1>2 DEF ThreadsTyped
<1>4. UNCHANGED <<rings, running, joinable, engine, skip, loop, rebuild, blend, raced,
                  bypass, request, audio, resizing>> /\ controller[c].pc = "unlock"
      /\ mutex' = Nobody
  BY DEF Unlock, At, controllerOnly
<1>5. TypeOK'
  BY <1>3, <1>4 DEF StreamTyped, EngineTyped, FlagsTyped, ThreadsTyped
<1>6. mutex = c /\ (joinable => running)
  BY <1>4 DEF Life, MutexHeld, HolderKnows, Knows, LockedPcs
<1>7. ASSUME NEW d \in Controllers
      PROVE  Knows(d)' /\ controller'[d].pc \notin LockedPcs
  <2>1. CASE d = c
    BY <1>1, <1>3, <2>1 DEF Knows, EnginePcs, LockedPcs
  <2>2. CASE d # c
    <3>1. controller'[d] = controller[d] /\ controller[d].pc \notin LockedPcs
      BY <1>3, <1>6, <2>2 DEF Life, MutexHeld
    <3> QED
      BY <1>4, <3>1 DEF Life, HolderKnows, Knows
  <2> QED
    BY <2>1, <2>2
<1>8. MutexHeld'
  BY <1>4, <1>7, NobodyElse DEF MutexHeld
<1>9. ThreadJoinable' /\ LoadedWhileAlive'
  BY <1>4, <1>6 DEF Life, ThreadJoinable, LoadedWhileAlive, Alive
<1> QED
  BY <1>5, <1>7, <1>8, <1>9 DEF Life, HolderKnows

-----------------------------------------------------------------------------
(* Inside the mutex. *)

\* The parts a controller's step leaves alone whatever it is.
LEMMA HolderFrame ==
  ASSUME Inv, UNCHANGED <<rings, bypass, request, audio, resizing, mutex, raced>>,
         running' \in BOOLEAN, joinable' \in BOOLEAN, skip' \in BOOLEAN, EngineTyped',
         loop' \in LoopType, controller' \in [Controllers -> ControllerType]
  PROVE  TypeOK'
BY TypeParts DEF Inv, StreamTyped, FlagsTyped, ThreadsTyped

\* Where a method goes once the thread is joined, it may be.
LEMMA AfterStopKnows ==
  ASSUME NEW c \in Controllers, controller[c].op \in AllOperations \ {"start"}
  PROVE  /\ AfterStop(c) \in {"unlock", "engine"}
         /\ AfterStop(c) = "engine" => controller[c].op \in EngineOperations
BY DEF AfterStop, EngineOperations

LEMMA StopStoreInv ==
  ASSUME Inv, NEW c \in Controllers, StopStore(c)
  PROVE  Inv'
<1> USE TypeParts DEF Inv
<1> DEFINE pc == IF joinable THEN "join" ELSE AfterStop(c)
<1>1. controller[c].op \in AllOperations \ {"start"} /\ controller[c].pc = "stop"
  <2>1. controller[c] \in ControllerType /\ controller[c].pc = "stop"
    BY DEF ThreadsTyped, StopStore, At
  <2> QED
    BY <2>1 DEF Life, HolderKnows, Knows, ControllerType
<1>2. /\ pc \in {"join", "unlock", "engine"} /\ (pc = "join" <=> joinable)
      /\ pc = "engine" => controller[c].op \in EngineOperations
  BY <1>1, AfterStopKnows
<1>3. Go(c, pc) /\ pc \in ControllerPcs /\ pc \in LockedPcs
  BY <1>2 DEF StopStore, ControllerPcs, LockedPcs
<1>4. UNCHANGED <<rings, joinable, engine, skip, loop, rebuild, mutex, blend, raced,
                  bypass, request, audio, resizing>> /\ running' = FALSE
  BY DEF StopStore, controllerOnly
<1> HIDE DEF pc
<1>5. /\ controller' \in [Controllers -> ControllerType]
      /\ controller'[c].pc = pc /\ controller'[c].op = controller[c].op
      /\ \A d \in Controllers \ {c} : controller'[d] = controller[d]
  BY <1>3, GoTyped DEF ThreadsTyped
<1>6. TypeOK'
  BY <1>4, <1>5, HolderFrame DEF EngineTyped, FlagsTyped, ThreadsTyped
<1>7. Knows(c)'
  BY <1>1, <1>2, <1>4, <1>5 DEF Knows, EnginePcs, AllOperations
<1>8. mutex = c /\ MutexHeld' /\ HolderKnows'
  BY <1>1, <1>3, <1>4, <1>5, <1>7, HolderStep DEF LockedPcs
<1>9. ThreadJoinable' /\ LoadedWhileAlive'
  BY <1>4, <1>8, NobodyElse DEF Life, ThreadJoinable, LoadedWhileAlive, Alive
<1> QED
  BY <1>6, <1>8, <1>9 DEF Life

\* The join of stop_locked() or of start_locked().
LEMMA JoinInv ==
  ASSUME Inv, NEW c \in Controllers, Join(c) \/ Rejoin(c)
  PROVE  Inv'
<1> USE TypeParts DEF Inv
<1> DEFINE pc == IF Join(c) THEN AfterStop(c) ELSE "begin"
<1>1. controller[c].pc \in {"join", "rejoin"} /\ ~running
  BY DEF Join, Rejoin, At, Life, HolderKnows, Knows
<1>2. Join(c) => controller[c].op \in AllOperations \ {"start"}
  <2>1. controller[c] \in ControllerType
    BY DEF ThreadsTyped
  <2> QED
    BY <2>1 DEF Join, At, Life, HolderKnows, Knows, ControllerType
<1>3. /\ pc \in {"begin", "unlock", "engine"}
      /\ pc = "engine" => controller[c].op \in EngineOperations
  BY <1>2, AfterStopKnows
<1>4. Go(c, pc) /\ pc \in ControllerPcs /\ pc \in LockedPcs
  BY <1>3 DEF Join, Rejoin, ControllerPcs, LockedPcs
<1>5. UNCHANGED <<rings, running, engine, skip, rebuild, mutex, blend, raced,
                  bypass, request, audio, resizing>> /\ joinable' = FALSE
      /\ loop' = [loop EXCEPT !.pc = "absent"]
  BY DEF Join, Rejoin, controllerOnly
<1> HIDE DEF pc
<1>6. /\ controller' \in [Controllers -> ControllerType]
      /\ controller'[c].pc = pc /\ controller'[c].op = controller[c].op
      /\ \A d \in Controllers \ {c} : controller'[d] = controller[d]
  BY <1>4, GoTyped DEF ThreadsTyped
<1>7. loop' \in LoopType /\ loop'.pc = "absent"
  BY <1>5, LoopGoTyped DEF ThreadsTyped, LoopPcs
<1>8. TypeOK'
  BY <1>5, <1>6, <1>7, HolderFrame DEF EngineTyped, FlagsTyped
<1>9. Knows(c)'
  BY <1>3, <1>5, <1>6 DEF Knows, EnginePcs
<1>10. mutex = c /\ MutexHeld' /\ HolderKnows'
  BY <1>1, <1>4, <1>5, <1>6, <1>9, HolderStep DEF LockedPcs
<1>11. ThreadJoinable' /\ LoadedWhileAlive'
  BY <1>1, <1>5, <1>7, <1>10, NobodyElse DEF ThreadJoinable, LoadedWhileAlive, Alive
<1> QED
  BY <1>8, <1>10, <1>11 DEF Life

\* A method of the engine: there is no inference thread to notice.
LEMMA UseEngineInv ==
  ASSUME Inv, NEW c \in Controllers, UseEngine(c)
  PROVE  Inv'
<1> USE TypeParts DEF Inv
<1>1. /\ controller[c].pc = "engine" /\ controller[c].op \in EngineOperations /\ ~joinable
      /\ loop.pc = "absent"
  BY DEF UseEngine, At, Life, HolderKnows, Knows, EnginePcs, ThreadJoinable
<1>2. engine' \in Engines /\ skip' \in BOOLEAN
  <2>1. PICK outcome \in Outcomes(controller[c].op) :
          /\ engine' = outcome.engine
          /\ skip' = (skip \/ (outcome.ok /\ controller[c].op \in {"prefill_state", "prefill_silence"}))
    BY DEF UseEngine
  <2>2. outcome.engine \in Engines
    BY <1>1, OutcomesTyped DEF EngineTyped
  <2> QED
    BY <2>1, <2>2
<1>3. rebuild' \in RebuildType
  <2>1. CASE BeginReset(c)
    BY <2>1 DEF BeginReset, RebuildType
  <2>2. CASE UNCHANGED rebuild
    BY <2>2 DEF EngineTyped
  <2> QED
    BY <2>1, <2>2 DEF UseEngine
<1>4. PICK pc \in {"resetRings", "startJoin", "unlock"} : Go(c, pc)
  BY DEF UseEngine
<1>5. pc \in ControllerPcs /\ pc \in LockedPcs
  BY DEF ControllerPcs, LockedPcs
<1>6. UNCHANGED <<rings, running, joinable, loop, mutex, blend, raced,
                  bypass, request, audio, resizing>>
  BY DEF UseEngine, controllerOnly
<1>7. /\ controller' \in [Controllers -> ControllerType]
      /\ controller'[c].pc = pc /\ controller'[c].op = controller[c].op
      /\ \A d \in Controllers \ {c} : controller'[d] = controller[d]
  BY <1>4, <1>5, GoTyped DEF ThreadsTyped
<1>8. TypeOK'
  <2>1. EngineTyped'
    BY <1>2, <1>3, <1>6 DEF EngineTyped
  <2> QED
    BY <2>1, <1>2, <1>6, <1>7, HolderFrame DEF FlagsTyped, ThreadsTyped
<1>9. Knows(c)'
  BY <1>1, <1>6, <1>7 DEF Knows, EnginePcs
<1>10. mutex = c /\ MutexHeld' /\ HolderKnows'
  BY <1>1, <1>5, <1>6, <1>7, <1>9, HolderStep DEF LockedPcs
<1>11. ThreadJoinable' /\ LoadedWhileAlive'
  BY <1>1, <1>6, <1>10, NobodyElse DEF Life, ThreadJoinable, LoadedWhileAlive, Alive
<1> QED
  BY <1>8, <1>10, <1>11 DEF Life

\* The steps between two starts or ends of a thread: the mutex, the flags and
\* the inference thread stay as they are.
LEMMA BetweenStep ==
  ASSUME Inv, NEW c \in Controllers, controller[c].pc \in EnginePcs,
         UNCHANGED <<rings, running, joinable, skip, loop, mutex, raced, bypass, request, audio,
                     resizing>>,
         EngineTyped', controller' \in [Controllers -> ControllerType],
         controller'[c].pc \in (EnginePcs \ {"engine"}) \cup {"unlock"},
         \A d \in Controllers \ {c} : controller'[d] = controller[d],
         controller'[c].pc \in {"readWeights", "applyWeights", "rebuild"} => engine'.loaded
  PROVE  Inv'
<1> USE TypeParts DEF Inv
<1>1. TypeOK'
  BY HolderFrame DEF FlagsTyped, ThreadsTyped
<1>2. ~joinable /\ loop.pc = "absent" /\ controller[c].pc \in LockedPcs
  BY DEF Life, HolderKnows, Knows, ThreadJoinable, EnginePcs, LockedPcs
<1>3. Knows(c)'
  BY <1>2 DEF Knows, EnginePcs
<1>4. mutex = c /\ MutexHeld' /\ HolderKnows'
  BY <1>2, <1>3, HolderStep DEF LockedPcs, EnginePcs
<1>5. ThreadJoinable' /\ LoadedWhileAlive'
  BY <1>2, <1>4, NobodyElse DEF Life, ThreadJoinable, LoadedWhileAlive, Alive
<1> QED
  BY <1>1, <1>4, <1>5 DEF Life

LEMMA RingsResetInv ==
  ASSUME Inv, NEW c \in Controllers, RingsReset(c)
  PROVE  Inv'
<1> USE TypeParts DEF Inv
<1>1. PICK pc \in {"startJoin", "unlock"} : Go(c, pc)
  BY DEF RingsReset
<1>2. /\ controller' \in [Controllers -> ControllerType] /\ controller'[c].pc = pc
      /\ \A d \in Controllers \ {c} : controller'[d] = controller[d]
  BY <1>1, GoTyped DEF ThreadsTyped, ControllerPcs, LockedPcs
<1>3. UNCHANGED <<rings, running, joinable, engine, skip, loop, mutex, blend, raced,
                  bypass, request, audio, resizing>> /\ controller[c].pc = "resetRings"
      /\ rebuild' = NoRebuild
  BY DEF RingsReset, At, controllerOnly
<1>4. EngineTyped'
  BY <1>3 DEF EngineTyped, RebuildType, NoRebuild
<1>5. ~joinable /\ controller[c].pc \in LockedPcs
  BY <1>3 DEF Life, HolderKnows, Knows, EnginePcs, LockedPcs
<1>6. TypeOK'
  BY <1>2, <1>3, <1>4, HolderFrame DEF FlagsTyped, ThreadsTyped
<1>7. Knows(c)'
  BY <1>2, <1>3, <1>5 DEF Knows, EnginePcs
<1>8. mutex = c /\ MutexHeld' /\ HolderKnows'
  BY <1>2, <1>3, <1>5, <1>7, HolderStep DEF LockedPcs
<1>9. ThreadJoinable' /\ LoadedWhileAlive'
  BY <1>3, <1>8, NobodyElse DEF Life, ThreadJoinable, LoadedWhileAlive, Alive
<1> QED
  BY <1>6, <1>8, <1>9 DEF Life

LEMMA StartJoinInv ==
  ASSUME Inv, NEW c \in Controllers, StartJoin(c)
  PROVE  Inv'
<1> USE TypeParts DEF Inv
<1> DEFINE pc == IF joinable THEN "rejoin" ELSE "begin"
<1>1. pc \in {"rejoin", "begin"} /\ (pc = "rejoin" <=> joinable) /\ Go(c, pc)
  BY DEF StartJoin
<1> HIDE DEF pc
<1>2. /\ controller' \in [Controllers -> ControllerType] /\ controller'[c].pc = pc
      /\ \A d \in Controllers \ {c} : controller'[d] = controller[d]
  BY <1>1, GoTyped DEF ThreadsTyped, ControllerPcs, LockedPcs
<1>3. UNCHANGED <<rings, joinable, engine, skip, loop, rebuild, mutex, blend, raced,
                  bypass, request, audio, resizing>> /\ controller[c].pc = "startJoin"
  BY DEF StartJoin, At, controllerOnly
<1>4. running' = FALSE
  BY DEF StartJoin, Life, ThreadJoinable, FlagsTyped
<1>5. TypeOK'
  BY <1>2, <1>3, <1>4, HolderFrame DEF EngineTyped, FlagsTyped, ThreadsTyped
<1>6. Knows(c)'
  BY <1>1, <1>2, <1>3, <1>4 DEF Knows, EnginePcs
<1>7. mutex = c /\ MutexHeld' /\ HolderKnows'
  BY <1>1, <1>2, <1>3, <1>6, HolderStep DEF LockedPcs
<1>8. ThreadJoinable' /\ LoadedWhileAlive'
  BY <1>3, <1>4, <1>7, NobodyElse DEF Life, ThreadJoinable, LoadedWhileAlive, Alive
<1> QED
  BY <1>5, <1>7, <1>8 DEF Life

LEMMA BeginInv ==
  ASSUME Inv, NEW c \in Controllers, Begin(c)
  PROVE  Inv'
<1> USE TypeParts DEF Inv
<1> DEFINE pc == IF engine.loaded THEN "readWeights" ELSE "unlock"
<1>1. pc \in {"readWeights", "unlock"} /\ (pc = "readWeights" => engine.loaded) /\ Go(c, pc)
  BY DEF Begin
<1> HIDE DEF pc
<1>2. /\ controller' \in [Controllers -> ControllerType] /\ controller'[c].pc = pc
      /\ \A d \in Controllers \ {c} : controller'[d] = controller[d]
  BY <1>1, GoTyped DEF ThreadsTyped, ControllerPcs, LockedPcs
<1>3. engine' \in Engines /\ engine'.loaded = engine.loaded
  <2>1. engine \in Engines
    BY DEF EngineTyped
  <2> QED
    BY <2>1, ResetKeepsLoaded DEF Begin
<1>4. UNCHANGED <<rings, running, joinable, skip, loop, rebuild, mutex, blend, raced,
                  bypass, request, audio, resizing>> /\ controller[c].pc = "begin"
  BY DEF Begin, At, controllerOnly
<1>5. EngineTyped'
  BY <1>3, <1>4 DEF EngineTyped
<1> QED
  BY <1>1, <1>2, <1>3, <1>4, <1>5, BetweenStep DEF EnginePcs

LEMMA ReadWeightsInv ==
  ASSUME Inv, NEW c \in Controllers, ReadWeights(c)
  PROVE  Inv'
<1> USE TypeParts DEF Inv
<1> DEFINE new == [controller[c] EXCEPT !.pc = "applyWeights", !.weights = blend.weights]
<1>1. new \in ControllerType /\ new.pc = "applyWeights"
  <2>1. controller[c] \in ControllerType /\ blend.weights \in 0..MaxGeneration
    BY DEF ThreadsTyped, EngineTyped, BlendType
  <2> QED
    BY <2>1 DEF ControllerType, ControllerPcs, LockedPcs
<1>2. controller' = [controller EXCEPT ![c] = new]
  BY DEF ReadWeights
<1> HIDE DEF new
<1>3. /\ controller' \in [Controllers -> ControllerType] /\ controller'[c].pc = "applyWeights"
      /\ \A d \in Controllers \ {c} : controller'[d] = controller[d]
  BY <1>1, <1>2 DEF ThreadsTyped
<1>4. UNCHANGED <<rings, running, joinable, engine, skip, loop, rebuild, mutex, blend, raced,
                  bypass, request, audio, resizing>> /\ controller[c].pc = "readWeights"
  BY DEF ReadWeights, At, controllerOnly
<1>5. engine.loaded
  BY <1>4 DEF Life, HolderKnows, Knows
<1>6. EngineTyped'
  BY <1>4 DEF EngineTyped
<1> QED
  BY <1>3, <1>4, <1>5, <1>6, BetweenStep DEF EnginePcs

LEMMA ApplyWeightsInv ==
  ASSUME Inv, NEW c \in Controllers, NEW ok \in BOOLEAN, ApplyWeights(c, ok)
  PROVE  Inv'
<1> USE TypeParts DEF Inv
<1>1. Go(c, "rebuild") /\ "rebuild" \in ControllerPcs
  BY DEF ApplyWeights, ControllerPcs, LockedPcs
<1>2. /\ controller' \in [Controllers -> ControllerType] /\ controller'[c].pc = "rebuild"
      /\ \A d \in Controllers \ {c} : controller'[d] = controller[d]
  BY <1>1, GoTyped DEF ThreadsTyped
<1>3. UNCHANGED <<rings, running, joinable, engine, skip, loop, mutex, raced,
                  bypass, request, audio, resizing>> /\ controller[c].pc = "applyWeights"
  BY DEF ApplyWeights, At, controllerOnly
<1>4. engine.loaded
  BY <1>3 DEF Life, HolderKnows, Knows
<1>5. blend' \in BlendType
  <2>1. controller[c] \in ControllerType /\ blend \in BlendType
    BY DEF ThreadsTyped, EngineTyped
  <2>2. controller[c].weights \in 0..MaxGeneration /\ blend.generation \in 0..MaxGeneration
    BY <2>1 DEF ControllerType, BlendType
  <2> QED
    BY <2>1, <2>2 DEF ApplyWeights, BlendType
<1>6. EngineTyped'
  BY <1>3, <1>5 DEF ApplyWeights, BeginResetAndPrime, EngineTyped, RebuildType
<1> QED
  BY <1>2, <1>3, <1>4, <1>6, BetweenStep DEF EnginePcs

\* A thread is started on a loaded engine only.
LEMMA SpawnInv ==
  ASSUME Inv, NEW c \in Controllers, Spawn(c)
  PROVE  Inv'
<1> USE TypeParts DEF Inv
<1>1. Go(c, "unlock") /\ "unlock" \in ControllerPcs
  BY DEF Spawn, ControllerPcs, LockedPcs
<1>2. /\ controller' \in [Controllers -> ControllerType] /\ controller'[c].pc = "unlock"
      /\ \A d \in Controllers \ {c} : controller'[d] = controller[d]
  BY <1>1, GoTyped DEF ThreadsTyped
<1>3. UNCHANGED <<rings, engine, skip, mutex, blend, raced, bypass, request, audio, resizing>>
      /\ running' = TRUE /\ joinable' = TRUE /\ rebuild' = NoRebuild
      /\ loop' = [loop EXCEPT !.pc = "top"] /\ controller[c].pc = "rebuild"
  BY DEF Spawn, At, controllerOnly
<1>4. loop' \in LoopType /\ loop'.pc = "top"
  BY <1>3, LoopGoTyped DEF ThreadsTyped, LoopPcs
<1>5. engine.loaded
  BY <1>3 DEF Life, HolderKnows, Knows
<1>6. EngineTyped'
  BY <1>3 DEF EngineTyped, RebuildType, NoRebuild
<1>7. TypeOK'
  BY <1>2, <1>3, <1>4, <1>6, HolderFrame DEF FlagsTyped
<1>8. Knows(c)'
  BY <1>2, <1>3 DEF Knows, EnginePcs
<1>9. mutex = c /\ MutexHeld' /\ HolderKnows'
  BY <1>2, <1>3, <1>8, HolderStep DEF LockedPcs
<1>10. ThreadJoinable' /\ LoadedWhileAlive'
  BY <1>3, <1>4, <1>5 DEF ThreadJoinable, LoadedWhileAlive, Alive
<1> QED
  BY <1>7, <1>9, <1>10 DEF Life

-----------------------------------------------------------------------------
(* The theorems. *)

LEMMA NextInv == Inv /\ [Next]_vars => Inv'
<1> SUFFICES ASSUME Inv, [Next]_vars PROVE Inv'
  OBVIOUS
<1>1. CASE LoopStep
  BY <1>1, LoopStepInv
<1>2. CASE RebuildStep
  BY <1>2, RebuildStepInv
<1>3. CASE HostCall \/ AudioStep
  BY <1>3, AudioStepInv
<1>4. CASE Set
  BY <1>4, SetInv
<1>5. CASE \E c \in Controllers, op \in Operations : Call(c, op)
  BY <1>5, CallInv
<1>6. ASSUME NEW c \in Controllers, ControllerStep(c) PROVE Inv'
  <2>1. CASE ReadRunning(c)
    BY <2>1, ReadRunningInv
  <2>2. CASE Lock(c)
    BY <2>2, LockInv
  <2>3. CASE StopStore(c)
    BY <2>3, StopStoreInv
  <2>4. CASE Join(c) \/ Rejoin(c)
    BY <2>4, JoinInv
  <2>5. CASE UseEngine(c)
    BY <2>5, UseEngineInv
  <2>6. CASE RingsReset(c)
    BY <2>6, RingsResetInv
  <2>7. CASE StartJoin(c)
    BY <2>7, StartJoinInv
  <2>8. CASE Begin(c)
    BY <2>8, BeginInv
  <2>9. CASE ReadWeights(c)
    BY <2>9, ReadWeightsInv
  <2>10. CASE \E ok \in BOOLEAN : ApplyWeights(c, ok)
    BY <2>10, ApplyWeightsInv
  <2>11. CASE Spawn(c)
    BY <2>11, SpawnInv
  <2>12. CASE Unlock(c)
    BY <2>12, UnlockInv
  <2>13. CASE \E ok \in BOOLEAN : InitAssets(c, ok)
    BY <2>13, InitAssetsInv
  <2> QED
    BY <1>6, <2>1, <2>2, <2>3, <2>4, <2>5, <2>6, <2>7, <2>8, <2>9, <2>10, <2>11, <2>12, <2>13
       DEF ControllerStep
<1>7. CASE UNCHANGED vars
  BY <1>7 DEF vars, Inv, TypeOK, Life, MutexHeld, ThreadJoinable, HolderKnows, Knows,
              LoadedWhileAlive, Alive
<1> QED
  BY <1>1, <1>2, <1>3, <1>4, <1>5, <1>6, <1>7 DEF Next

\* The inductive invariant.
THEOREM Invariance == Spec => []Inv
BY InitInv, NextInv, PTL DEF Spec

\* Every variable keeps its type, whatever threads call whatever methods.
THEOREM TypeCorrect == Spec => []TypeOK
<1>1. Inv => TypeOK
  BY DEF Inv
<1> QED
  BY <1>1, Invariance, PTL

\* The methods that hold lifecycle_mutex_ reach the engine and the write
\* cursors only after the inference thread is joined: one user at a time.
THEOREM EngineIsExclusive == Spec => []EngineExclusive
<1>1. Inv => EngineExclusive
  BY DEF Inv, Life, HolderKnows, Knows, ThreadJoinable, EngineExclusive, Alive
<1> QED
  BY <1>1, Invariance, PTL

\* start_locked()'s is_loaded() test and the stop before every method that
\* takes the functions away keep the inference thread off an unloaded engine.
THEOREM ThreadFindsModel == Spec => []LoadedWhileAlive
<1>1. Inv => LoadedWhileAlive
  BY DEF Inv, Life
<1> QED
  BY <1>1, Invariance, PTL

\* The compare-exchange of trigger_transport_reset() and the test of skip only
\* for a transport reset: a user reset is always carried out.
THEOREM UserResetIsKept == Spec => UserResetKept
<1>1. ASSUME Inv, [Next]_vars PROVE [request = "User" /\ request' # "User" => loop'.pc = "reset"]_vars
  <2> SUFFICES ASSUME request = "User", request' # "User" PROVE loop'.pc = "reset"
    OBVIOUS
  <2>1. CASE TakeRequest
    <3>1. loop' = [loop EXCEPT !.pc = "reset"]
      BY <2>1 DEF TakeRequest
    <3>2. loop \in LoopType
      BY <1>1, TypeParts DEF Inv, ThreadsTyped
    <3> QED
      BY <3>1, <3>2 DEF LoopType
  <2>2. CASE TriggerTransportReset
    BY <2>2 DEF TriggerTransportReset
  <2>3. CASE TriggerReset
    BY <2>3 DEF TriggerReset
  <2>4. CASE UNCHANGED request
    BY <2>4
  <2> QED
    BY <1>1, <2>1, <2>2, <2>3, <2>4
       DEF Next, LoopStep, LoopTop, LoopReset, LoopRebuilt, LoadGeneration, Reblend, Generate,
           WaitForSpace, PutLeft, PutRight, Put, RebuildStep, RebuildReset, PrimeLeft, PrimeRight,
           HostCall, ReadAudio, ResetForPlayback, AudioStep, ReadBlocks, ReadLeft, StoreLeft,
           ReadRight, StoreRight, DrainLeft, DrainedLeft, DrainRight, DrainedRight, LoadCursor,
           StoreCursor, Set, SetBypass, ResizeLeft, ResizeRight, StoreWeight, BumpGeneration,
           Call, ControllerStep, ReadRunning, Lock, StopStore, Join, UseEngine, RingsReset,
           StartJoin, Rejoin, Begin, ReadWeights, ApplyWeights, Spawn, Unlock, InitAssets,
           loopOnly, audioOnly, setterOnly, controllerOnly, vars
<1> QED
  BY <1>1, Invariance, PTL DEF Spec, UserResetKept

-----------------------------------------------------------------------------
(* The rings, in the arithmetic of a size_t.                                *)

\* What is in a ring of cursors modulo S.
Between(r, w, S) == (w - r) % S

LEMMA ModOnce ==
  ASSUME NEW S \in Nat \ {0}, NEW n \in Int
  PROVE  /\ 0 <= n /\ n < S => n % S = n
         /\ -S <= n /\ n < 0 => n % S = n + S
         /\ S <= n /\ n < 2 * S => n % S = n - S
         /\ n % S \in 0 .. S - 1
<1> DEFINE q == n \div S  r == n % S
<1>1. q \in Int /\ r \in 0 .. S - 1 /\ n = S * q + r
  OBVIOUS
<1> HIDE DEF q, r
<1>2. CASE q >= 2
  <2>1. S * q >= 2 * S
    BY <1>1, <1>2
  <2> QED BY <1>1, <1>2, <2>1 DEF r
<1>3. CASE q = 1
  BY <1>1, <1>3 DEF r
<1>4. CASE q = 0
  BY <1>1, <1>4 DEF r
<1>5. CASE q = -1
  BY <1>1, <1>5 DEF r
<1>6. CASE q <= -2
  <2>1. S * q <= -2 * S
    BY <1>1, <1>6
  <2> QED BY <1>1, <1>6, <2>1 DEF r
<1> QED BY <1>1, <1>2, <1>3, <1>4, <1>5, <1>6

LEMMA BetweenIs ==
  ASSUME NEW S \in Nat \ {0}, NEW r \in 0 .. S - 1, NEW w \in 0 .. S - 1
  PROVE  /\ Between(r, w, S) = IF w >= r THEN w - r ELSE w - r + S
         /\ Between(r, w, S) \in 0 .. S - 1
<1>1. w - r \in Int /\ (w >= r => 0 <= w - r /\ w - r < S) /\ (w < r => -S <= w - r /\ w - r < 0)
  OBVIOUS
<1> DEFINE d == w - r
<1>2. d % S = IF w >= r THEN d ELSE d + S
  <2> HIDE DEF d
  <2>1. d \in Int /\ (w >= r => 0 <= d /\ d < S) /\ (w < r => -S <= d /\ d < 0)
    BY <1>1 DEF d
  <2>2. CASE w >= r
    <3>1. d \in Int /\ 0 <= d /\ d < S
      BY <2>1, <2>2
    <3>2. d % S = d
      BY <3>1, ModOnce
    <3> QED BY <2>2, <3>2
  <2>3. CASE w < r
    <3>1. d \in Int /\ -S <= d /\ d < 0
      BY <2>1, <2>3
    <3>2. d % S = d + S
      BY <3>1, ModOnce
    <3>3. ~(w >= r)
      BY <2>3
    <3> QED BY <3>2, <3>3
  <2> QED BY <2>2, <2>3
<1>3. Between(r, w, S) = d % S
  BY DEF Between
<1> QED BY <1>1, <1>2, <1>3

\* The writer puts f more in.
LEMMA PutBetween ==
  ASSUME NEW S \in Nat \ {0}, NEW r \in 0 .. S - 1, NEW w \in 0 .. S - 1, NEW f \in Nat,
         Between(r, w, S) + f < S
  PROVE  /\ Between(r, (w + f) % S, S) = Between(r, w, S) + f
         /\ (w + f) % S \in 0 .. S - 1
         /\ f > 0 => (w + f) % S # w
<1> DEFINE v == (w + f) % S  n == w + f
<1>1. Between(r, w, S) = IF w >= r THEN w - r ELSE w - r + S
  BY BetweenIs
<1>2. n \in Nat /\ n < 2 * S
  BY <1>1
<1>3. v = IF n < S THEN n ELSE n - S
  <2> HIDE DEF n
  <2>1. CASE n < S
    <3>1. n \in Int /\ 0 <= n
      BY <1>2
    <3>2. n % S = n
      BY <2>1, <3>1, ModOnce
    <3> QED BY <2>1, <3>2 DEF n
  <2>2. CASE ~(n < S)
    <3>1. n \in Int /\ S <= n /\ n < 2 * S
      BY <1>2, <2>2
    <3>2. n % S = n - S
      BY <3>1, ModOnce
    <3> QED BY <2>2, <3>2 DEF n
  <2> QED BY <2>1, <2>2
<1>4. v \in 0 .. S - 1
  BY <1>2, <1>3
<1>5. Between(r, v, S) = IF v >= r THEN v - r ELSE v - r + S
  <2> HIDE DEF v
  <2> QED BY <1>4, BetweenIs
<1> HIDE DEF v
<1>6. Between(r, v, S) = Between(r, w, S) + f
  BY <1>1, <1>3, <1>5
<1>7. f > 0 => v # w
  BY <1>1, <1>3
<1> QED BY <1>4, <1>6, <1>7 DEF v

\* The reader goes on to p, which is not beyond the writer.
LEMMA TakeBetween ==
  ASSUME NEW S \in Nat \ {0}, NEW r \in 0 .. S - 1, NEW w \in 0 .. S - 1, NEW p \in 0 .. S - 1,
         Between(r, p, S) <= Between(r, w, S)
  PROVE  Between(p, w, S) = Between(r, w, S) - Between(r, p, S)
<1>1. /\ Between(r, w, S) = IF w >= r THEN w - r ELSE w - r + S
      /\ Between(r, p, S) = IF p >= r THEN p - r ELSE p - r + S
      /\ Between(p, w, S) = IF w >= p THEN w - p ELSE w - p + S
  BY BetweenIs
<1> QED BY <1>1

LEMMA GoOnBetween ==
  ASSUME NEW S \in Nat \ {0}, NEW r \in 0 .. S - 1, NEW k \in 0 .. S - 1
  PROVE  (r + k) % S \in 0 .. S - 1 /\ Between(r, (r + k) % S, S) = k
<1>1. Between(r, r, S) = 0
  BY BetweenIs
<1> QED BY <1>1, PutBetween

-----------------------------------------------------------------------------
(* One thread resets and primes the rings.                                  *)

Building == {"resetRings", "rebuild"}
OwnerInv ==
  /\ rebuild.by = "loop" <=> loop.pc = "rebuild"
  /\ \A c \in Controllers : rebuild.by = c <=> controller[c].pc \in Building

LEMMA GoPc ==
  ASSUME controller \in [Controllers -> ControllerType], NEW c \in Controllers, NEW pc, Go(c, pc)
  PROVE  controller'[c].pc = pc /\ \A d \in Controllers \ {c} : controller'[d] = controller[d]
<1> DEFINE new == [controller[c] EXCEPT !.pc = pc]
<1>1. new.pc = pc
  BY DEF ControllerType
<1>2. controller' = [controller EXCEPT ![c] = new]
  BY DEF Go
<1> HIDE DEF new
<1> QED BY <1>1, <1>2

LEMMA Names == "loop" # Nobody /\ "loop" \notin Controllers /\ Nobody \notin Controllers
BY RunnerAssumption DEF Nobody

\* A step that begins and ends no rebuilding.
LEMMA OwnerKept ==
  ASSUME OwnerInv, rebuild'.by = rebuild.by, loop'.pc = "rebuild" <=> loop.pc = "rebuild",
         \A c \in Controllers : controller'[c].pc \in Building <=> controller[c].pc \in Building
  PROVE  OwnerInv'
BY DEF OwnerInv

LEMMA OwnerController ==
  ASSUME Inv, OwnerInv, NEW c \in Controllers, ControllerStep(c)
  PROVE  OwnerInv'
<1> USE DEF Building
<1>0. /\ controller \in [Controllers -> ControllerType] /\ loop \in LoopType
      /\ controller[c].pc \in EnginePcs => loop.pc = "absent"
  BY TypeParts DEF Inv, ThreadsTyped, Life, HolderKnows, Knows, ThreadJoinable
<1>1. CASE ReadRunning(c)
  BY <1>0, <1>1, OwnerKept DEF ReadRunning, At, ControllerType
<1>2. CASE Lock(c)
  BY <1>0, <1>2, OwnerKept DEF Lock, At, ControllerType
<1>3. CASE StopStore(c)
  <2>1. Go(c, IF joinable THEN "join" ELSE AfterStop(c)) /\ rebuild' = rebuild /\ loop' = loop /\ controller[c].pc = "stop"
    BY <1>3 DEF StopStore, At
  <2> QED BY <1>0, <2>1, GoPc, OwnerKept DEF AfterStop
<1>4. CASE Join(c)
  <2>1. Go(c, AfterStop(c)) /\ rebuild' = rebuild /\ loop.pc = "exited" /\ loop'.pc = "absent" /\ controller[c].pc = "join"
    BY <1>0, <1>4 DEF Join, At, LoopType
  <2> QED BY <1>0, <2>1, GoPc, OwnerKept DEF AfterStop
<1>5. CASE Rejoin(c)
  <2>1. Go(c, "begin") /\ rebuild' = rebuild /\ loop.pc = "exited" /\ loop'.pc = "absent" /\ controller[c].pc = "rejoin"
    BY <1>0, <1>5 DEF Rejoin, At, LoopType
  <2> QED BY <1>0, <2>1, GoPc, OwnerKept
<1>6. ASSUME UNCHANGED loop, controller[c].pc \in {"engine", "applyWeights"},
             rebuild'.by = c, NEW pc \in Building, Go(c, pc)
      PROVE  OwnerInv'
  <2>1. loop.pc = "absent" /\ mutex = c
    BY <1>0, <1>6 DEF EnginePcs, Inv, Life, MutexHeld, LockedPcs
  <2>2. \A d \in Controllers \ {c} : controller'[d].pc \notin Building
    BY <1>0, <1>6, <2>1, GoPc DEF Inv, Life, MutexHeld, LockedPcs
  <2> QED BY <1>0, <1>6, <2>1, <2>2, GoPc, Names DEF OwnerInv
<1>7. CASE UseEngine(c)
  <2>1. loop' = loop /\ controller[c].pc = "engine"
    BY <1>7 DEF UseEngine, At
  <2>2. CASE controller[c].op \in {"reset", "reset_to_factory"}
    <3>1. BeginReset(c) /\ Go(c, "resetRings")
      BY <1>7, <2>2 DEF UseEngine
    <3> QED BY <1>6, <2>1, <3>1 DEF BeginReset
  <2>3. CASE controller[c].op \notin {"reset", "reset_to_factory"}
    <3>1. rebuild' = rebuild /\ \E pc \in {"startJoin", "unlock"} : Go(c, pc)
      BY <1>7, <2>3 DEF UseEngine
    <3> QED BY <1>0, <2>1, <3>1, GoPc, OwnerKept
  <2> QED BY <2>2, <2>3
<1>8. CASE \E ok \in BOOLEAN : ApplyWeights(c, ok)
  BY <1>6, <1>8 DEF ApplyWeights, At, BeginResetAndPrime
<1>9. ASSUME rebuild' = NoRebuild, controller[c].pc \in Building, loop'.pc # "rebuild",
             NEW pc, pc \notin Building, Go(c, pc)
      PROVE  OwnerInv'
  <2>1. rebuild.by = c /\ \A d \in Controllers \ {c} : controller[d].pc \notin Building
    BY <1>9 DEF OwnerInv
  <2>2. \A d \in Controllers : controller'[d].pc \notin Building
    BY <1>0, <1>9, <2>1, GoPc
  <2> QED BY <1>9, <2>2, Names DEF OwnerInv, NoRebuild
<1>10. CASE RingsReset(c)
  <2>1. /\ rebuild' = NoRebuild /\ controller[c].pc = "resetRings" /\ loop' = loop
        /\ Go(c, IF controller[c].was THEN "startJoin" ELSE "unlock")
    BY <1>10 DEF RingsReset, At
  <2>2. loop'.pc # "rebuild"
    BY <1>0, <2>1 DEF EnginePcs
  <2> QED BY <1>9, <2>1, <2>2
<1>11. CASE Spawn(c)
  <2>1. /\ rebuild' = NoRebuild /\ controller[c].pc = "rebuild" /\ loop'.pc = "top" /\ Go(c, "unlock")
    BY <1>0, <1>11 DEF Spawn, At, LoopType
  <2> QED BY <1>9, <2>1
<1>12. CASE StartJoin(c)
  <2>1. Go(c, IF joinable THEN "rejoin" ELSE "begin") /\ rebuild' = rebuild /\ loop' = loop /\ controller[c].pc = "startJoin"
    BY <1>12 DEF StartJoin, At
  <2> QED BY <1>0, <2>1, GoPc, OwnerKept
<1>13. CASE Begin(c)
  <2>1. Go(c, IF engine.loaded THEN "readWeights" ELSE "unlock") /\ rebuild' = rebuild /\ loop' = loop /\ controller[c].pc = "begin"
    BY <1>13 DEF Begin, At
  <2> QED BY <1>0, <2>1, GoPc, OwnerKept
<1>14. CASE ReadWeights(c)
  BY <1>0, <1>14, OwnerKept DEF ReadWeights, At, ControllerType
<1>15. CASE Unlock(c)
  BY <1>0, <1>15, OwnerKept DEF Unlock, At, ControllerType, IdleController
<1>16. CASE \E ok \in BOOLEAN : InitAssets(c, ok)
  BY <1>0, <1>16, OwnerKept DEF InitAssets, At, ControllerType, IdleController
<1> QED
  BY <1>1, <1>2, <1>3, <1>4, <1>5, <1>7, <1>8, <1>10, <1>11, <1>12, <1>13, <1>14, <1>15, <1>16
  DEF ControllerStep

LEMMA OwnerStep == Inv /\ OwnerInv /\ [Next]_vars => OwnerInv'
<1> SUFFICES ASSUME Inv, OwnerInv, [Next]_vars PROVE OwnerInv'
  OBVIOUS
<1>0. /\ controller \in [Controllers -> ControllerType] /\ loop \in LoopType /\ rebuild \in RebuildType
      /\ Alive => \A c \in Controllers : controller[c].pc \notin Building
  BY TypeParts DEF Inv, ThreadsTyped, EngineTyped, Life, HolderKnows, Knows, ThreadJoinable, Alive, EnginePcs, Building
<1>1. CASE LoopReset
  <2>1. loop.pc = "reset" /\ loop'.pc = "rebuild" /\ rebuild'.by = "loop" /\ controller' = controller
    BY <1>0, <1>1 DEF LoopReset, BeginResetAndPrime, loopOnly, LoopType
  <2> QED BY <1>0, <2>1, Names DEF OwnerInv, Alive
<1>2. CASE LoopRebuilt
  <2>1. loop.pc = "rebuild" /\ loop'.pc = "top" /\ rebuild' = NoRebuild /\ controller' = controller
    BY <1>0, <1>2 DEF LoopRebuilt, loopOnly, LoopType
  <2> QED BY <1>0, <2>1, Names DEF OwnerInv, Alive, NoRebuild
<1>3. CASE LoopTop \/ TakeRequest \/ LoadGeneration \/ (\E ok \in BOOLEAN : Reblend(ok)) \/ Generate
           \/ WaitForSpace \/ PutLeft \/ PutRight
  <2>1. rebuild' = rebuild /\ controller' = controller /\ loop.pc # "rebuild" /\ loop'.pc # "rebuild"
    BY <1>0, <1>3 DEF LoopTop, TakeRequest, LoadGeneration, Reblend, Generate, WaitForSpace, PutLeft, PutRight,
      Put, loopOnly, LoopType
  <2> QED BY <2>1, OwnerKept
<1>4. CASE RebuildStep
  <2>1. rebuild'.by = rebuild.by /\ controller' = controller /\ loop' = loop
    BY <1>0, <1>4 DEF RebuildStep, RebuildReset, PrimeLeft, PrimeRight, RebuildType
  <2> QED BY <2>1, OwnerKept
<1>5. CASE HostCall \/ AudioStep \/ Set \/ UNCHANGED vars
  <2>1. rebuild' = rebuild /\ controller' = controller /\ loop' = loop
    BY <1>5 DEF HostCall, ReadAudio, ResetForPlayback, AudioStep, ReadBlocks, ReadLeft, StoreLeft,
           ReadRight, StoreRight, DrainLeft, DrainedLeft, DrainRight, DrainedRight, LoadCursor,
           StoreCursor, Set, TriggerReset, TriggerTransportReset, SetBypass, ResizeLeft, ResizeRight, StoreWeight, BumpGeneration,
           audioOnly, setterOnly, vars
  <2> QED BY <2>1, OwnerKept
<1>6. ASSUME NEW c \in Controllers, NEW op \in Operations, Call(c, op) PROVE OwnerInv'
  BY <1>0, <1>6, OwnerKept DEF Call, At, ControllerType, Building, controllerOnly
<1>7. ASSUME NEW c \in Controllers, ControllerStep(c) PROVE OwnerInv'
  BY <1>7, OwnerController
<1> QED BY <1>1, <1>2, <1>3, <1>4, <1>5, <1>6, <1>7 DEF Next, LoopStep

-----------------------------------------------------------------------------
(* What the rings hold.                                                     *)

\* The reader has loaded a position of a ring that it will store.
Pending(s) == audio.pc \in IF s = "L" THEN {"storeL", "drainedL"} ELSE {"storeR", "drainedR"}

\* The rings hold no more than m, and a position to be stored is not beyond the
\* writer.
Holds(m) ==
  \A s \in Sides : /\ Available(s) <= m
                   /\ Pending(s) => Between(rings[s].read, audio.pos, SizeT) <= Available(s)

ResetSoFar ==
  /\ audio.pc \notin ReadingPcs
  /\ rings["L"].write = 0
  /\ rebuild.step >= 2 => rings["L"].read = 0
  /\ rebuild.step >= 3 => rings["R"].write = 0

Bounded(m) == \A s \in Sides : rings[s].capacity <= m
RingInv(m) == raced \/ IF MidReset THEN ResetSoFar ELSE Holds(m)

LEMMA RingFacts ==
  ASSUME StreamTyped, NEW s \in Sides
  PROVE  /\ SizeT \in Nat \ {0}
         /\ rings[s].write \in 0 .. SizeT - 1 /\ rings[s].read \in 0 .. SizeT - 1 /\ audio.pos \in 0 .. SizeT - 1
         /\ rings[s].capacity \in Nat /\ rings[s].capacity < SizeT
         /\ Available(s) = Between(rings[s].read, rings[s].write, SizeT)
         /\ Available(s) \in 0 .. SizeT - 1
<1>1. /\ rings[s] \in RingType /\ audio.pos \in Cursors /\ SizeT \in Nat
  BY RunnerAssumption DEF StreamTyped, AudioType
<1>2. /\ rings[s].write \in 0 .. SizeT - 1 /\ rings[s].read \in 0 .. SizeT - 1 /\ audio.pos \in 0 .. SizeT - 1
      /\ rings[s].capacity \in BufferSizes
  BY <1>1 DEF RingType, Cursors
<1>3. SizeT \in Nat \ {0}
  BY <1>1, <1>2
<1>4. Available(s) = Between(rings[s].read, rings[s].write, SizeT)
  BY DEF Available, Between
<1>5. Available(s) \in 0 .. SizeT - 1
  BY <1>2, <1>3, <1>4, BetweenIs
<1> QED BY <1>2, <1>3, <1>4, <1>5, RunnerAssumption

\* write() takes a whole frame, and only where it fits.
LEMMA WriteHolds ==
  ASSUME StreamTyped, NEW m \in Nat, m < SizeT, NEW s \in Sides, rings[s].capacity <= m,
         Holds(m), rings' = Written(s), audio' = audio
  PROVE  Holds(m)' /\ (FreeSpace(s) >= Frame => rings' # rings)
<1>0. Frame \in Nat \ {0}
  BY RunnerAssumption
<1>1. CASE FreeSpace(s) < Frame
  <2>1. FreeSpace(s) \in Int
    BY RingFacts DEF FreeSpace
  <2>2. ~(FreeSpace(s) >= Frame)
    BY <1>0, <1>1, <2>1
  <2> QED BY <1>1, <2>2 DEF Written, Holds, Available, Pending
<1>2. CASE ~(FreeSpace(s) < Frame)
  <2> DEFINE r == rings[s].read  w == rings[s].write  v == (w + Frame) % SizeT
  <2>1. Available(s) + Frame <= rings[s].capacity
    BY <1>0, <1>2, RingFacts DEF FreeSpace
  <2>2. /\ SizeT \in Nat \ {0} /\ r \in 0 .. SizeT - 1 /\ w \in 0 .. SizeT - 1 /\ rings[s].capacity < SizeT
        /\ Available(s) = Between(r, w, SizeT) /\ Between(r, w, SizeT) + Frame < SizeT
        /\ Between(r, w, SizeT) \in Nat
    BY <1>0, <2>1, RingFacts
  <2>3. Between(r, v, SizeT) = Between(r, w, SizeT) + Frame /\ v \in 0 .. SizeT - 1 /\ v # w
    <3> HIDE DEF r, w
    <3> QED BY <1>0, <2>2, PutBetween
  <2>4. rings' = [rings EXCEPT ![s].write = v] /\ rings \in [Sides -> RingType]
    BY <1>2 DEF Written, StreamTyped
  <2>5. rings'[s].write = v /\ rings'[s].read = r /\ \A t \in Sides \ {s} : rings'[t] = rings[t]
    BY <2>4 DEF RingType
  <2> HIDE DEF v
  <2>6. Available(s)' = Between(r, v, SizeT)
    BY <2>5 DEF Available, Between
  <2>7. Available(s)' = Available(s) + Frame
    BY <2>2, <2>3, <2>6
  <2>8. Available(s)' <= m /\ Available(s) <= Available(s)'
    <3>1. rings[s].capacity \in Nat /\ Available(s) \in Nat
      BY <2>2, RingFacts
    <3> QED BY <1>0, <2>1, <2>7, <3>1
  <2>9. Pending(s)' => Between(rings'[s].read, audio'.pos, SizeT) <= Available(s)'
    <3>1. Pending(s)' => Between(r, audio.pos, SizeT) <= Available(s)
      BY DEF Pending, Holds
    <3>2. Between(r, audio.pos, SizeT) \in Int /\ Available(s) \in Int /\ Available(s)' \in Int
      <4> HIDE DEF r
      <4>1. audio.pos \in 0 .. SizeT - 1
        BY RingFacts
      <4>2. Between(r, audio.pos, SizeT) \in 0 .. SizeT - 1
        BY <2>2, <4>1, BetweenIs
      <4> QED BY <1>0, <2>2, <2>7, <4>2
    <3>3. rings'[s].read = r /\ audio'.pos = audio.pos
      BY <2>5
    <3> HIDE DEF r
    <3> QED BY <2>8, <3>1, <3>2, <3>3
  <2>10. \A t \in Sides \ {s} : /\ Available(t)' <= m
                                /\ Pending(t)' => Between(rings'[t].read, audio'.pos, SizeT) <= Available(t)'
    BY <2>5 DEF Holds, Available, Pending
  <2>11. Holds(m)'
    BY <2>8, <2>9, <2>10 DEF Holds
  <2> QED BY <2>3, <2>5, <2>11
<1> QED BY <1>1, <1>2

\* The reader stores a position that is not beyond the writer.
LEMMA StoreHolds ==
  ASSUME StreamTyped, NEW m \in Nat, NEW s \in Sides, Holds(m), Pending(s),
         rings' = [rings EXCEPT ![s].read = audio.pos], \A t \in Sides : ~Pending(t)'
  PROVE  Holds(m)' /\ Available(s)' <= Available(s) /\ \A t \in Sides \ {s} : Available(t)' = Available(t)
<1> DEFINE r == rings[s].read  w == rings[s].write  p == audio.pos
<1>1. /\ SizeT \in Nat \ {0} /\ r \in 0 .. SizeT - 1 /\ w \in 0 .. SizeT - 1 /\ p \in 0 .. SizeT - 1
      /\ Available(s) = Between(r, w, SizeT)
  BY RingFacts
<1>2. Between(r, p, SizeT) <= Between(r, w, SizeT)
  BY <1>1 DEF Holds
<1>3. rings \in [Sides -> RingType]
  BY DEF StreamTyped
<1>4. rings'[s].read = p /\ rings'[s].write = w /\ \A t \in Sides \ {s} : rings'[t] = rings[t]
  BY <1>3 DEF RingType
<1>5. Available(s)' = Between(p, w, SizeT)
  BY <1>4 DEF Available, Between
<1> HIDE DEF r, w, p
<1>6. Between(p, w, SizeT) = Between(r, w, SizeT) - Between(r, p, SizeT)
  BY <1>1, <1>2, TakeBetween
<1>7. Between(r, p, SizeT) \in Nat /\ Between(r, w, SizeT) \in Nat
  BY <1>1, BetweenIs
<1>8. Available(s)' <= Available(s) /\ Available(s)' \in Int /\ Available(s) \in Int
  BY <1>1, <1>5, <1>6, <1>7
<1>9. Available(s) <= m /\ \A t \in Sides \ {s} : Available(t)' = Available(t) /\ Available(t) <= m
  BY <1>4 DEF Holds, Available
<1>10. Available(s)' <= m
  BY <1>8, <1>9
<1> QED BY <1>8, <1>9, <1>10 DEF Holds

\* The reader loads a position that is not beyond the writer.
LEMMA LoadHolds ==
  ASSUME StreamTyped, NEW m \in Nat, NEW s \in Sides, NEW n \in Nat, Holds(m), rings' = rings,
         audio'.pos = (rings[s].read + Min2(Available(s), n)) % SizeT,
         \A t \in Sides \ {s} : ~Pending(t)'
  PROVE  Holds(m)'
<1> DEFINE r == rings[s].read  k == Min2(Available(s), n)  p == (r + k) % SizeT
<1>1. /\ SizeT \in Nat \ {0} /\ r \in 0 .. SizeT - 1 /\ Available(s) \in 0 .. SizeT - 1
  BY RingFacts
<1>2. k \in 0 .. SizeT - 1 /\ k <= Available(s)
  BY <1>1 DEF Min2
<1> HIDE DEF r, k
<1>3. Between(r, p, SizeT) = k
  BY <1>1, <1>2, GoOnBetween
<1>4. audio'.pos = p
  BY DEF r, k
<1> HIDE DEF p
<1>5. Between(rings'[s].read, audio'.pos, SizeT) <= Available(s)'
  BY <1>2, <1>3, <1>4 DEF r, Available
<1>6. \A t \in Sides : Available(t)' = Available(t)
  BY DEF Available
<1> QED BY <1>5, <1>6 DEF Holds

\* While the rings are reset nobody else writes to them.
LEMMA ResetAlone ==
  ASSUME Inv, OwnerInv, MidReset
  PROVE  loop.pc \in {"rebuild", "absent"}
<1>1. rebuild.by \in {"loop"} \cup Controllers
  BY TypeParts DEF Inv, EngineTyped, RebuildType, MidReset
<1>2. ASSUME NEW c \in Controllers, rebuild.by = c PROVE loop.pc = "absent"
  BY <1>2 DEF OwnerInv, Inv, Life, HolderKnows, Knows, ThreadJoinable, EnginePcs, Building
<1> QED BY <1>1, <1>2 DEF OwnerInv

LEMMA RingKept ==
  ASSUME NEW m, RingInv(m), rings' = rings, MidReset' = MidReset, rebuild' = rebuild, raced' = raced,
         audio' = audio
  PROVE  RingInv(m)'
BY DEF RingInv, Holds, ResetSoFar, Available, Pending

LEMMA RingRebuild ==
  ASSUME Inv, OwnerInv, NEW m \in Nat, m < SizeT, Bounded(m), RingInv(m), RebuildStep
  PROVE  RingInv(m)'
<1>0. /\ StreamTyped /\ rebuild \in RebuildType /\ rings \in [Sides -> RingType]
  BY TypeParts DEF Inv, EngineTyped, StreamTyped
<1>1. CASE RebuildReset
  <2>1. /\ rebuild' = [rebuild EXCEPT !.step = @ + 1] /\ rebuild.step < 4 /\ rebuild.by # Nobody
        /\ audio' = audio /\ raced' = (raced \/ audio.pc \in ReadingPcs) /\ rebuild.step \in 0 .. 3
    BY <1>0, <1>1 DEF RebuildReset, Rebuilding, RebuildType
  <2>2. rebuild'.step = rebuild.step + 1 /\ rebuild'.by = rebuild.by
    BY <1>0, <2>1 DEF RebuildType
  <2> SUFFICES ASSUME ~raced, audio.pc \notin ReadingPcs PROVE RingInv(m)'
    BY <2>1 DEF RingInv
  <2>a. MidReset' <=> rebuild.step + 1 \in 1 .. 3
    BY <2>1, <2>2 DEF MidReset
  <2>b. rebuild.step # 0 => ResetSoFar
    BY <2>1 DEF MidReset, RingInv
  <2>c. /\ rebuild.step = 0 => rings' = [rings EXCEPT !["L"].write = 0]
        /\ rebuild.step = 1 => rings' = [rings EXCEPT !["L"].read = 0]
        /\ rebuild.step = 2 => rings' = [rings EXCEPT !["R"].write = 0]
        /\ rebuild.step = 3 => rings' = [rings EXCEPT !["R"].read = 0]
    <3>1. /\ ResetStores[1] = [side |-> "L", cursor |-> "write"] /\ ResetStores[2] = [side |-> "L", cursor |-> "read"]
          /\ ResetStores[3] = [side |-> "R", cursor |-> "write"] /\ ResetStores[4] = [side |-> "R", cursor |-> "read"]
      BY DEF ResetStores
    <3> DEFINE store == ResetStores[rebuild.step + 1]
    <3>2. rings' = IF store.cursor = "write" THEN [rings EXCEPT ![store.side].write = 0]
                   ELSE [rings EXCEPT ![store.side].read = 0]
      BY <1>1 DEF RebuildReset
    <3>3. ASSUME rebuild.step = 0 PROVE rings' = [rings EXCEPT !["L"].write = 0]
      <4>1. store.side = "L" /\ store.cursor = "write"
        BY <3>1, <3>3
      <4> HIDE DEF store
      <4> QED BY <3>2, <4>1
    <3>4. ASSUME rebuild.step = 1 PROVE rings' = [rings EXCEPT !["L"].read = 0]
      <4>1. store.side = "L" /\ store.cursor = "read"
        BY <3>1, <3>4
      <4> HIDE DEF store
      <4> QED BY <3>2, <4>1
    <3>5. ASSUME rebuild.step = 2 PROVE rings' = [rings EXCEPT !["R"].write = 0]
      <4>1. store.side = "R" /\ store.cursor = "write"
        BY <3>1, <3>5
      <4> HIDE DEF store
      <4> QED BY <3>2, <4>1
    <3>6. ASSUME rebuild.step = 3 PROVE rings' = [rings EXCEPT !["R"].read = 0]
      <4>1. store.side = "R" /\ store.cursor = "read"
        BY <3>1, <3>6
      <4> HIDE DEF store
      <4> QED BY <3>2, <4>1
    <3> QED BY <3>3, <3>4, <3>5, <3>6
  <2>3. CASE rebuild.step = 0
    <3>1. rings' = [rings EXCEPT !["L"].write = 0] /\ MidReset'
      BY <2>3, <2>a, <2>b, <2>c
    <3>2. rings'["L"].write = 0
      BY <1>0, <3>1 DEF Sides, RingType
    <3> QED BY <2>1, <2>2, <2>3, <3>1, <3>2 DEF RingInv, ResetSoFar
  <2>4. CASE rebuild.step = 1
    <3>1. rings' = [rings EXCEPT !["L"].read = 0] /\ MidReset' /\ ResetSoFar
      BY <2>4, <2>a, <2>b, <2>c
    <3>2. rings'["L"].write = 0 /\ rings'["L"].read = 0
      BY <1>0, <3>1 DEF Sides, RingType, ResetSoFar
    <3> QED BY <2>1, <2>2, <2>4, <3>1, <3>2 DEF RingInv, ResetSoFar
  <2>5. CASE rebuild.step = 2
    <3>1. rings' = [rings EXCEPT !["R"].write = 0] /\ MidReset' /\ ResetSoFar
      BY <2>5, <2>a, <2>b, <2>c
    <3>2. rings'["L"] = rings["L"] /\ rings'["R"].write = 0
      BY <1>0, <3>1 DEF Sides, RingType
    <3>3. rings["L"].write = 0 /\ rings["L"].read = 0
      BY <2>5, <3>1 DEF ResetSoFar
    <3> QED BY <2>1, <2>2, <2>5, <3>1, <3>2, <3>3 DEF RingInv, ResetSoFar
  <2>6. CASE rebuild.step = 3
    <3>1. rings' = [rings EXCEPT !["R"].read = 0] /\ ~MidReset' /\ ResetSoFar
      BY <2>6, <2>a, <2>b, <2>c
    <3>2. \A s \in Sides : rings'[s].write = 0 /\ rings'[s].read = 0
      BY <1>0, <2>6, <3>1 DEF Sides, RingType, ResetSoFar
    <3>3. \A s \in Sides : Available(s)' = 0
      <4>1. SizeT \in Nat \ {0} /\ 0 \in 0 .. SizeT - 1
        BY <1>0, RingFacts DEF Sides
      <4>2. Between(0, 0, SizeT) = 0
        BY <4>1, BetweenIs
      <4> QED BY <3>2, <4>2 DEF Available, Between
    <3>4. \A s \in Sides : ~Pending(s)'
      BY <2>1 DEF Pending, ReadingPcs
    <3> QED BY <3>1, <3>3, <3>4 DEF RingInv, Holds
  <2> QED BY <2>1, <2>3, <2>4, <2>5, <2>6
<1>2. ASSUME NEW s \in Sides, rings' = Written(s), rebuild' = [rebuild EXCEPT !.step = @ + 1],
             rebuild.step >= 4, UNCHANGED <<audio, raced>>
      PROVE  RingInv(m)'
  <2>1. ~MidReset /\ ~MidReset'
    BY <1>0, <1>2 DEF MidReset, RebuildType
  <2> SUFFICES ASSUME ~raced PROVE Holds(m)'
    BY <1>2, <2>1 DEF RingInv
  <2>2. Holds(m) /\ rings[s].capacity <= m
    BY <2>1 DEF RingInv, Bounded
  <2> QED BY <1>0, <1>2, <2>2, WriteHolds
<1>3. CASE PrimeLeft
  BY <1>2, <1>3 DEF PrimeLeft, Sides
<1>4. CASE PrimeRight
  BY <1>2, <1>4 DEF PrimeRight, Sides
<1> QED BY <1>1, <1>3, <1>4 DEF RebuildStep

LEMMA RingAudio ==
  ASSUME Inv, NEW m \in Nat, RingInv(m), HostCall \/ AudioStep
  PROVE  RingInv(m)' /\ (raced' \/ \A s \in Sides : MidReset \/ (Available(s)' <= Available(s)))
<1>0. /\ StreamTyped /\ audio \in AudioType /\ rebuild' = rebuild /\ SizeT \in Nat
      /\ \A s \in Sides : Available(s) \in Nat
  <2>1. \A s \in Sides : Available(s) \in Nat
    BY TypeParts, RingFacts DEF Inv
  <2> QED BY <2>1, RunnerAssumption, TypeParts DEF Inv, StreamTyped, HostCall, ReadAudio, ResetForPlayback, AudioStep, ReadBlocks, ReadLeft, StoreLeft,
           ReadRight, StoreRight, DrainLeft, DrainedLeft, DrainRight, DrainedRight, LoadCursor,
           StoreCursor, audioOnly
<1>a. MidReset' = MidReset
  BY <1>0 DEF MidReset
<1>1. ASSUME UNCHANGED <<rings, raced>>, audio.pc \in {"idle", "block"}, audio'.pc \in {"block", "loadL", "drainL"}
      PROVE  RingInv(m)' /\ \A s \in Sides : Available(s)' <= Available(s)
  <2>1. \A s \in Sides : ~Pending(s)' /\ Available(s)' = Available(s)
    BY <1>1 DEF Pending, Sides, Available
  <2>2. audio'.pc \notin ReadingPcs
    BY <1>1 DEF ReadingPcs
  <2> QED BY <1>0, <1>1, <1>a, <2>1, <2>2 DEF RingInv, Holds, ResetSoFar
<1>2. ASSUME NEW s \in Sides, NEW n \in Nat, NEW next \in IF s = "L" THEN {"storeL", "drainedL"} ELSE {"storeR", "drainedR"},
             NEW here, LoadCursor(s, here, next, n)
      PROVE  RingInv(m)' /\ (raced' \/ \A t \in Sides : MidReset \/ (Available(t)' <= Available(t)))
  <2>1. /\ rings' = rings /\ raced' = (raced \/ MidReset) /\ audio'.pc = next
        /\ audio'.pos = (rings[s].read + Min2(Available(s), n)) % SizeT
    BY <1>0, <1>2 DEF LoadCursor, AudioType
  <2> SUFFICES ASSUME ~raced, ~MidReset PROVE Holds(m)' /\ \A t \in Sides : Available(t)' <= Available(t)
    BY <1>a, <2>1 DEF RingInv
  <2>2. Holds(m)
    BY DEF RingInv
  <2>3. \A t \in Sides \ {s} : ~Pending(t)'
    BY <2>1 DEF Pending, Sides
  <2>4. \A t \in Sides : Available(t)' = Available(t)
    BY <2>1 DEF Available
  <2>5. Holds(m)'
    BY <1>0, <2>1, <2>2, <2>3, LoadHolds
  <2> QED BY <1>0, <2>4, <2>5
<1>3. ASSUME NEW s \in Sides, NEW here \in IF s = "L" THEN {"storeL", "drainedL"} ELSE {"storeR", "drainedR"},
             NEW next \in {"loadR", "drainR", "idle"}, StoreCursor(s, here, next)
      PROVE  RingInv(m)' /\ (raced' \/ \A t \in Sides : MidReset \/ (Available(t)' <= Available(t)))
  <2>1. /\ rings' = [rings EXCEPT ![s].read = audio.pos] /\ raced' = raced /\ audio'.pc = next /\ audio.pc = here
    BY <1>0, <1>3 DEF StoreCursor, AudioType
  <2> SUFFICES ASSUME ~raced PROVE RingInv(m)' /\ \A t \in Sides : Available(t)' <= Available(t)
    BY <2>1 DEF RingInv
  <2>2. Pending(s) /\ \A t \in Sides : ~Pending(t)'
    BY <2>1 DEF Pending, Sides
  <2>3. ~MidReset
    BY <2>1 DEF RingInv, ResetSoFar, ReadingPcs, Sides
  <2>4. Holds(m)
    BY <2>3 DEF RingInv
  <2>5. Holds(m)' /\ Available(s)' <= Available(s) /\ \A t \in Sides \ {s} : Available(t)' = Available(t)
    BY <1>0, <2>1, <2>2, <2>4, StoreHolds
  <2> QED BY <1>0, <1>a, <2>3, <2>5 DEF RingInv
<1>4. audio.count \in Nat
  <2>1. audio.count = 0 \/ audio.count \in Counts
    BY <1>0 DEF AudioType
  <2>2. Counts \subseteq Nat
    BY RunnerAssumption
  <2>3. 0 \in Nat
    OBVIOUS
  <2> QED BY <2>1, <2>2, <2>3, Zenon
<1>5. CASE HostCall \/ ReadBlocks
  BY <1>0, <1>1, <1>5 DEF HostCall, ReadAudio, ResetForPlayback, ReadBlocks, AudioType
<1>6. CASE ReadLeft \/ DrainLeft
  BY <1>0, <1>2, <1>4, <1>6 DEF ReadLeft, DrainLeft, Sides
<1>7. CASE ReadRight \/ DrainRight
  BY <1>0, <1>2, <1>4, <1>7 DEF ReadRight, DrainRight, Sides
<1>8. CASE StoreLeft \/ DrainedLeft
  BY <1>3, <1>8 DEF StoreLeft, DrainedLeft, Sides
<1>9. CASE StoreRight \/ DrainedRight
  BY <1>3, <1>9 DEF StoreRight, DrainedRight, Sides
<1> QED BY <1>5, <1>6, <1>7, <1>8, <1>9 DEF AudioStep

\* The rings are left to the inference thread that writes to them.
LEMMA WriterAlone ==
  ASSUME Inv, OwnerInv, Alive, loop.pc # "rebuild"
  PROVE  rebuild.by = Nobody /\ ~MidReset
<1>1. rebuild.by \in {Nobody, "loop"} \cup Controllers
  BY TypeParts DEF Inv, EngineTyped, RebuildType
<1>2. \A c \in Controllers : controller[c].pc \notin Building
  BY DEF Inv, Life, HolderKnows, Knows, ThreadJoinable, EnginePcs, Building, Alive
<1> QED BY <1>1, <1>2 DEF OwnerInv, MidReset

\* A rebuilding that begins finds none in progress, and one that ends is over.
LEMMA RingTurn ==
  ASSUME NEW m, RingInv(m), UNCHANGED <<rings, audio, raced>>, ~MidReset, ~MidReset'
  PROVE  RingInv(m)'
BY DEF RingInv, Holds, Available, Pending

LEMMA RingLoop ==
  ASSUME Inv, OwnerInv, NEW m \in Nat, m < SizeT, Bounded(m), RingInv(m), LoopStep
  PROVE  RingInv(m)'
<1>0. StreamTyped /\ loop \in LoopType /\ rebuild \in RebuildType
  BY TypeParts DEF Inv, ThreadsTyped, EngineTyped
<1>1. CASE LoopTop \/ TakeRequest \/ LoadGeneration \/ (\E ok \in BOOLEAN : Reblend(ok)) \/ Generate \/ WaitForSpace
  <2>1. UNCHANGED <<rings, audio, raced, rebuild>>
    BY <1>1 DEF LoopTop, TakeRequest, LoadGeneration, Reblend, Generate, WaitForSpace, loopOnly
  <2> QED BY <2>1, RingKept DEF MidReset
<1>2. CASE LoopReset
  <2>1. UNCHANGED <<rings, audio, raced>> /\ ~MidReset'
    BY <1>2 DEF LoopReset, loopOnly, BeginResetAndPrime, MidReset
  <2>2. ~MidReset
    BY <1>2, WriterAlone DEF LoopReset, Alive
  <2> QED BY <2>1, <2>2, RingTurn
<1>3. CASE LoopRebuilt
  <2>1. UNCHANGED <<rings, audio, raced>> /\ ~MidReset' /\ ~MidReset
    BY <1>0, <1>3 DEF LoopRebuilt, loopOnly, NoRebuild, MidReset, Rebuilt, RebuildType
  <2> QED BY <2>1, RingTurn
<1>4. ASSUME NEW s \in Sides, NEW here \in {"putL", "putR"}, NEW next, Put(s, here, next) PROVE RingInv(m)'
  <2>1. rings' = Written(s) /\ UNCHANGED <<audio, raced, rebuild>>
    BY <1>4 DEF Put, loopOnly
  <2>2. ~MidReset /\ ~MidReset'
    BY <1>4, <2>1, WriterAlone DEF Put, Alive, MidReset
  <2> SUFFICES ASSUME ~raced PROVE Holds(m)'
    BY <2>1, <2>2 DEF RingInv
  <2>3. Holds(m) /\ rings[s].capacity <= m
    BY <2>2 DEF RingInv, Bounded
  <2> QED BY <1>0, <2>1, <2>3, WriteHolds
<1> QED BY <1>1, <1>2, <1>3, <1>4 DEF LoopStep, PutLeft, PutRight, Sides

\* A new size leaves what the rings hold alone.
LEMMA RingSet ==
  ASSUME Inv, NEW m, RingInv(m), Set
  PROVE  RingInv(m)'
<1>1. StreamTyped
  BY TypeParts DEF Inv
<1>2. UNCHANGED <<audio, raced, rebuild>> /\ \A s \in Sides : rings'[s].write = rings[s].write /\ rings'[s].read = rings[s].read
  BY <1>1 DEF Set, TriggerReset, TriggerTransportReset, SetBypass, ResizeLeft, ResizeRight, StoreWeight, BumpGeneration,
    setterOnly, StreamTyped, RingType, Sides
<1> QED BY <1>2 DEF RingInv, Holds, ResetSoFar, Available, Pending, MidReset, Sides

\* Only lifecycle methods with the inference thread joined rebuild the rings.
LEMMA RingController ==
  ASSUME Inv, OwnerInv, NEW m, RingInv(m), NEW c \in Controllers, ControllerStep(c)
  PROVE  RingInv(m)' /\ rings' = rings /\ raced' = raced
<1>0. rebuild \in RebuildType
  BY TypeParts DEF Inv, EngineTyped
<1>1. UNCHANGED <<rings, raced, audio>>
  BY DEF ControllerStep, ReadRunning, Lock, StopStore, Join, UseEngine, RingsReset,
         StartJoin, Rejoin, Begin, ReadWeights, ApplyWeights, Spawn, Unlock, InitAssets, controllerOnly
<1>2. CASE rebuild' = rebuild
  BY <1>1, <1>2, RingKept DEF MidReset
<1>3. CASE RingsReset(c) \/ Spawn(c)
  <2>1. ~MidReset' /\ ~MidReset
    BY <1>0, <1>3 DEF RingsReset, Spawn, NoRebuild, MidReset, Rebuilt, RebuildType
  <2> QED BY <1>1, <2>1, RingTurn
<1>4. CASE rebuild' # rebuild /\ (UseEngine(c) \/ (\E ok \in BOOLEAN : ApplyWeights(c, ok)))
  <2>1. controller[c].pc \in {"engine", "applyWeights"} /\ ~MidReset'
    BY <1>4 DEF UseEngine, ApplyWeights, At, BeginReset, BeginResetAndPrime, MidReset
  <2>2. loop.pc = "absent" /\ \A d \in Controllers : controller[d].pc \in Building => d = c
    BY <2>1 DEF Inv, Life, HolderKnows, Knows, ThreadJoinable, EnginePcs, MutexHeld, LockedPcs, Building
  <2>3. ~MidReset
    <3>1. rebuild.by \in {Nobody, "loop"} \cup Controllers
      BY <1>0 DEF RebuildType
    <3> QED BY <2>1, <2>2, <3>1 DEF OwnerInv, MidReset, Building
  <2> QED BY <1>1, <2>1, <2>3, RingTurn
<1> QED BY <1>1, <1>2, <1>3, <1>4 DEF ControllerStep, ReadRunning, Lock, StopStore, Join,
         StartJoin, Rejoin, Begin, ReadWeights, Unlock, InitAssets

LEMMA RingStep ==
  ASSUME NEW m \in Nat, m < SizeT, Inv, OwnerInv, Bounded(m), RingInv(m), [Next]_vars
  PROVE  RingInv(m)'
<1>1. CASE LoopStep
  BY <1>1, RingLoop
<1>2. CASE RebuildStep
  BY <1>2, RingRebuild
<1>3. CASE HostCall \/ AudioStep
  BY <1>3, RingAudio
<1>4. CASE Set
  BY <1>4, RingSet
<1>5. ASSUME NEW c \in Controllers, NEW op \in Operations, Call(c, op) PROVE RingInv(m)'
  BY <1>5, RingKept DEF Call, controllerOnly, MidReset
<1>6. ASSUME NEW c \in Controllers, ControllerStep(c) PROVE RingInv(m)'
  BY <1>6, RingController
<1>7. CASE UNCHANGED vars
  BY <1>7, RingKept DEF vars, MidReset
<1> QED BY <1>1, <1>2, <1>3, <1>4, <1>5, <1>6, <1>7 DEF Next

LEMMA RingInit ==
  ASSUME NEW m \in Nat, Init
  PROVE  OwnerInv /\ RingInv(m) /\ resizing = 0 /\ loop.pc = "absent"
         /\ \E n \in BufferSizes : \A s \in Sides : rings[s].capacity = n
<1>1. OwnerInv
  BY Names DEF Init, OwnerInv, NoRebuild, IdleController, Building
<1>2. \E n \in BufferSizes : \A s \in Sides : rings[s] = EmptyRing(n)
  BY DEF Init
<1>3. \A s \in Sides : Available(s) = 0 /\ ~Pending(s)
  <2>1. StreamTyped
    BY InitInv, TypeParts DEF Inv
  <2>2. SizeT \in Nat \ {0} /\ 0 \in 0 .. SizeT - 1
    BY <2>1, RingFacts DEF Sides
  <2>3. Between(0, 0, SizeT) = 0
    BY <2>2, BetweenIs
  <2>4. \A s \in Sides : rings[s].read = 0 /\ rings[s].write = 0
    BY <1>2 DEF EmptyRing
  <2>5. \A s \in Sides : Available(s) = 0
    BY <2>3, <2>4 DEF Available, Between
  <2> QED BY <2>5 DEF Pending, Init
<1>4. ~MidReset
  BY DEF MidReset, Init, NoRebuild
<1>5. RingInv(m)
  BY <1>3, <1>4 DEF RingInv, Holds
<1> QED BY <1>1, <1>2, <1>5 DEF Init, EmptyRing

\* Whatever sizes the buffer is given, between the resets a ring holds no more
\* than the largest of them.
THEOREM RingsNeverOverfull ==
  ASSUME NEW m \in Nat, m < SizeT, \A n \in BufferSizes : n <= m
  PROVE  Spec => [](raced \/ MidReset \/ \A s \in Sides : Available(s) <= m)
<1> DEFINE I == Inv /\ OwnerInv /\ RingInv(m)
<1>1. Init => I
  BY InitInv, RingInit
<1>2. Inv => Bounded(m)
  BY TypeParts DEF Inv, StreamTyped, RingType, Bounded
<1>3. I /\ [Next]_vars => I'
  BY <1>2, NextInv, OwnerStep, RingStep
<1>4. I => (raced \/ MidReset \/ \A s \in Sides : Available(s) <= m)
  BY DEF RingInv, Holds
<1> HIDE DEF I
<1> QED BY <1>1, <1>3, <1>4, PTL DEF Spec

-----------------------------------------------------------------------------
(* The frame the inference thread has waited for fits, with one size.        *)

\* Both rings are of the size n, and stay so while nobody sets another.
OfSize(n) == resizing = 0 /\ \A s \in Sides : rings[s].capacity = n

\* The inference thread about to write has the room it waited for.
LeftRoom == loop.pc = "putL" => raced \/ FreeSpace("L") >= Frame

FitInv == Inv /\ OwnerInv /\ LeftRoom /\ \E n \in BufferSizes : OfSize(n) /\ RingInv(n)

LEMMA WrittenSize ==
  ASSUME StreamTyped, NEW s \in Sides, rings' = Written(s)
  PROVE  \A t \in Sides : rings'[t].capacity = rings[t].capacity
BY DEF Written, StreamTyped, RingType

LEMMA SizeFixed ==
  ASSUME Resizing = FALSE, Inv, NEW n, OfSize(n), [Next]_vars
  PROVE  OfSize(n)'
<1>0. StreamTyped /\ resizing = 0 /\ rings \in [Sides -> RingType]
  BY TypeParts DEF Inv, OfSize, StreamTyped
<1>1. ASSUME UNCHANGED <<rings, resizing>> PROVE OfSize(n)'
  BY <1>1 DEF OfSize
<1>2. ASSUME NEW s \in Sides, rings' = Written(s), resizing' = resizing PROVE OfSize(n)'
  BY <1>0, <1>2, WrittenSize DEF OfSize
<1>3. ASSUME NEW s \in Sides, NEW p, resizing' = resizing,
             rings' = [rings EXCEPT ![s].read = p] \/ rings' = [rings EXCEPT ![s].write = p]
      PROVE  OfSize(n)'
  BY <1>0, <1>3 DEF OfSize, RingType
<1>4. CASE LoopTop \/ TakeRequest \/ LoopReset \/ LoopRebuilt \/ LoadGeneration
           \/ (\E ok \in BOOLEAN : Reblend(ok)) \/ Generate \/ WaitForSpace
  BY <1>1, <1>4 DEF LoopTop, TakeRequest, LoopReset, LoopRebuilt, LoadGeneration, Reblend,
         Generate, WaitForSpace, loopOnly
<1>5. CASE PutLeft \/ PutRight
  BY <1>2, <1>5 DEF PutLeft, PutRight, Put, loopOnly, Sides
<1>6. CASE PrimeLeft \/ PrimeRight
  BY <1>2, <1>6 DEF PrimeLeft, PrimeRight, Sides
<1>7. CASE RebuildReset
  <2> DEFINE store == ResetStores[rebuild.step + 1]
  <2>1. /\ rings' = IF store.cursor = "write" THEN [rings EXCEPT ![store.side].write = 0]
                    ELSE [rings EXCEPT ![store.side].read = 0]
        /\ resizing' = resizing /\ rebuild.step < 4
    BY <1>7 DEF RebuildReset
  <2>2. rebuild.step \in 0 .. 3
    BY <2>1, TypeParts DEF Inv, EngineTyped, RebuildType
  <2>3. store.side \in Sides
    BY <2>2 DEF ResetStores, Sides
  <2> HIDE DEF store
  <2> QED BY <1>3, <2>1, <2>3
<1>8. CASE HostCall \/ ReadBlocks \/ ReadLeft \/ ReadRight \/ DrainLeft \/ DrainRight
  BY <1>1, <1>8 DEF HostCall, ReadAudio, ResetForPlayback, ReadBlocks, ReadLeft, ReadRight,
         DrainLeft, DrainRight, LoadCursor, audioOnly
<1>9. CASE StoreLeft \/ DrainedLeft \/ StoreRight \/ DrainedRight
  BY <1>3, <1>9 DEF StoreLeft, DrainedLeft, StoreRight, DrainedRight, StoreCursor, audioOnly, Sides
<1>10. CASE Set
  BY <1>0, <1>1, <1>10 DEF Set, TriggerReset, TriggerTransportReset, SetBypass, ResizeLeft,
         ResizeRight, StoreWeight, BumpGeneration
<1>11. ASSUME NEW c \in Controllers, NEW op \in Operations, Call(c, op) PROVE OfSize(n)'
  BY <1>1, <1>11 DEF Call, controllerOnly
<1>12. ASSUME NEW c \in Controllers, ControllerStep(c) PROVE OfSize(n)'
  BY <1>1, <1>12 DEF ControllerStep, ReadRunning, Lock, StopStore, Join, UseEngine, RingsReset,
         StartJoin, Rejoin, Begin, ReadWeights, ApplyWeights, Spawn, Unlock, InitAssets, controllerOnly
<1>13. CASE UNCHANGED vars
  BY <1>1, <1>13 DEF vars
<1> QED BY <1>4, <1>5, <1>6, <1>7, <1>8, <1>9, <1>10, <1>11, <1>12, <1>13
        DEF Next, LoopStep, RebuildStep, AudioStep

\* Only the reader touches the left ring between the wait and the write, and it
\* makes room.
LEMMA LeftRoomStep ==
  ASSUME Resizing = FALSE, Inv, OwnerInv, LeftRoom, NEW n \in BufferSizes, OfSize(n), RingInv(n),
         [Next]_vars
  PROVE  LeftRoom'
<1>0. /\ StreamTyped /\ loop \in LoopType /\ resizing = 0 /\ n \in Nat
      /\ Frame \in Nat /\ Available("L") \in Nat /\ rings["L"].capacity = n
  BY TypeParts, RingFacts, RunnerAssumption DEF Inv, ThreadsTyped, OfSize, Sides
<1>1. ASSUME UNCHANGED <<rings, raced>>, loop' = loop PROVE LeftRoom'
  BY <1>1 DEF LeftRoom, FreeSpace, Available
<1>2. CASE LoopStep
  <2>1. CASE WaitForSpace
    BY <1>0, <2>1 DEF WaitForSpace, LeftRoom, FreeSpace, Available, LoopType
  <2>2. CASE ~WaitForSpace
    <3>1. loop'.pc # "putL"
      BY <1>0, <1>2, <2>2 DEF LoopStep, LoopTop, TakeRequest, LoopReset, LoopRebuilt, LoadGeneration,
             Reblend, Generate, PutLeft, PutRight, Put, LoopType
    <3> QED BY <3>1 DEF LeftRoom
  <2> QED BY <2>1, <2>2
<1>3. CASE RebuildStep
  <2>1. rebuild.by # Nobody /\ loop' = loop
    BY <1>3 DEF RebuildStep, RebuildReset, PrimeLeft, PrimeRight, Rebuilding
  <2>2. loop.pc # "putL"
    BY <2>1, WriterAlone DEF Alive
  <2> QED BY <2>1, <2>2 DEF LeftRoom
<1>4. CASE HostCall \/ AudioStep
  <2>a. ASSUME HostCall \/ ReadBlocks \/ StoreLeft \/ DrainedLeft \/ StoreRight \/ DrainedRight
      PROVE  loop' = loop /\ (raced => raced')
    <3>1. loop' = loop /\ raced' = raced
      BY <2>a DEF HostCall, ReadAudio, ResetForPlayback, ReadBlocks, StoreLeft,
             StoreRight, DrainedLeft, DrainedRight, StoreCursor, audioOnly
    <3> QED BY <3>1
  <2>b. ASSUME ReadLeft \/ ReadRight \/ DrainLeft \/ DrainRight
      PROVE  loop' = loop /\ (raced => raced')
    <3>1. loop' = loop /\ raced' = (raced \/ MidReset)
      BY <2>b DEF ReadLeft, ReadRight, DrainLeft, DrainRight, LoadCursor, audioOnly
    <3> QED BY <3>1, Zenon
  <2>1. loop' = loop /\ (raced => raced')
    BY <1>4, <2>a, <2>b DEF AudioStep
  <2> SUFFICES ASSUME loop.pc = "putL", ~raced' PROVE FreeSpace("L")' >= Frame
    BY <2>1 DEF LeftRoom
  <2>2. ~MidReset /\ FreeSpace("L") >= Frame
    BY <2>1, WriterAlone DEF Alive, LeftRoom
  <2>3. Available("L")' <= Available("L")
    BY <1>0, <1>4, <2>2, RingAudio DEF Sides
  <2>4. rings'["L"].capacity = n /\ StreamTyped'
    BY SizeFixed, NextInv, TypeParts DEF OfSize, Sides, Inv, StreamTyped
  <2>5. Available("L")' \in Nat
    <3>1. SizeT \in Nat \ {0} /\ rings'["L"].write \in 0 .. SizeT - 1 /\ rings'["L"].read \in 0 .. SizeT - 1
      BY <1>0, <2>4, RingFacts DEF StreamTyped, RingType, Sides, Cursors
    <3>2. Available("L")' = Between(rings'["L"].read, rings'["L"].write, SizeT)
      BY DEF Available, Between
    <3> DEFINE r == rings'["L"].read  w == rings'["L"].write
    <3>3. Between(r, w, SizeT) \in 0 .. SizeT - 1
      <4>1. SizeT \in Nat \ {0} /\ w \in 0 .. SizeT - 1 /\ r \in 0 .. SizeT - 1
        BY <3>1
      <4> HIDE DEF r, w
      <4> QED BY <4>1, BetweenIs
    <3>4. Available("L")' = Between(r, w, SizeT)
      BY <3>2
    <3> HIDE DEF r, w
    <3> QED BY <3>1, <3>3, <3>4
  <2> QED BY <1>0, <2>2, <2>3, <2>4, <2>5 DEF FreeSpace
<1>5. CASE Set
  BY <1>0, <1>1, <1>5 DEF Set, TriggerReset, TriggerTransportReset, SetBypass, ResizeLeft,
         ResizeRight, StoreWeight, BumpGeneration, setterOnly
<1>6. ASSUME NEW c \in Controllers, NEW op \in Operations, Call(c, op) PROVE LeftRoom'
  BY <1>1, <1>6 DEF Call, controllerOnly
<1>7. ASSUME NEW c \in Controllers, ControllerStep(c) PROVE LeftRoom'
  <2>1. rings' = rings /\ raced' = raced
    BY <1>7, RingController
  <2>2. loop' = loop \/ loop'.pc # "putL"
    BY <1>0, <1>7 DEF ControllerStep, ReadRunning, Lock, StopStore, Join, UseEngine, RingsReset,
           StartJoin, Rejoin, Begin, ReadWeights, ApplyWeights, Spawn, Unlock, InitAssets, LoopType
  <2> QED BY <1>1, <2>1, <2>2 DEF LeftRoom
<1>8. CASE UNCHANGED vars
  BY <1>1, <1>8 DEF vars
<1> QED BY <1>2, <1>3, <1>4, <1>5, <1>6, <1>7, <1>8 DEF Next

LEMMA FitStep ==
  ASSUME Resizing = FALSE, FitInv, [Next]_vars
  PROVE  FitInv'
<1>1. PICK n \in BufferSizes : OfSize(n) /\ RingInv(n)
  BY DEF FitInv
<1>2. Inv /\ OwnerInv /\ LeftRoom
  BY DEF FitInv
<1>3. n \in Nat /\ n < SizeT /\ Bounded(n)
  BY <1>1, RunnerAssumption DEF OfSize, Bounded
<1>4. RingInv(n)'
  BY <1>1, <1>2, <1>3, RingStep
<1>5. OfSize(n)'
  BY <1>1, <1>2, SizeFixed
<1>6. LeftRoom'
  BY <1>1, <1>2, LeftRoomStep
<1> QED BY <1>2, <1>4, <1>5, <1>6, NextInv, OwnerStep DEF FitInv

\* With the size of the buffer left alone, the rings never hold more than that
\* size, and the frame the inference thread waited to write into ring_L_ is
\* written, unless a reset of the rings ran into a read.
THEOREM FramesAlwaysFit ==
  ASSUME Resizing = FALSE
  PROVE  Spec => FramesFit
<1>1. Init => FitInv
  <2> SUFFICES ASSUME Init PROVE FitInv
    OBVIOUS
  <2>1. PICK n \in BufferSizes : \A s \in Sides : rings[s].capacity = n
    BY RingInit
  <2>2. n \in Nat
    BY <2>1, RunnerAssumption
  <2>3. OwnerInv /\ RingInv(n) /\ resizing = 0 /\ loop.pc = "absent"
    BY <2>2, RingInit
  <2> QED BY <2>1, <2>3, InitInv DEF FitInv, OfSize, LeftRoom
<1>2. FitInv /\ [Next]_vars => FitInv'
  BY FitStep
<1>3. FitInv => RingWithinCapacity
  <2> SUFFICES ASSUME FitInv, ~raced, ~MidReset, NEW s \in Sides PROVE Available(s) <= rings[s].capacity
    BY DEF RingWithinCapacity
  <2> QED BY DEF FitInv, OfSize, RingInv, Holds
<1>4. FitInv /\ [Next]_vars => [loop.pc = "putL" /\ loop'.pc = "putR" => raced \/ rings' # rings]_vars
  <2> SUFFICES ASSUME FitInv, [Next]_vars, loop.pc = "putL", loop'.pc = "putR", ~raced PROVE rings' # rings
    OBVIOUS
  <2>1. PICK n \in BufferSizes : OfSize(n) /\ RingInv(n)
    BY DEF FitInv
  <2>2. Inv /\ OwnerInv /\ FreeSpace("L") >= Frame
    BY DEF FitInv, LeftRoom
  <2>3. loop \in LoopType /\ StreamTyped
    BY <2>2, TypeParts DEF Inv, ThreadsTyped
  <2>4. PutLeft
    BY <2>3 DEF Next, LoopStep, LoopTop, TakeRequest, LoopReset, LoopRebuilt, LoadGeneration, Reblend,
           Generate, WaitForSpace, PutRight, Put, RebuildStep, RebuildReset, PrimeLeft, PrimeRight,
           HostCall, ReadAudio, ResetForPlayback, AudioStep, ReadBlocks, ReadLeft, StoreLeft,
           ReadRight, StoreRight, DrainLeft, DrainedLeft, DrainRight, DrainedRight, LoadCursor,
           StoreCursor, Set, TriggerReset, TriggerTransportReset, SetBypass, ResizeLeft, ResizeRight,
           StoreWeight, BumpGeneration, Call, ControllerStep, ReadRunning, Lock, StopStore, Join,
           UseEngine, RingsReset, StartJoin, Rejoin, Begin, ReadWeights, ApplyWeights, Spawn, Unlock,
           InitAssets, loopOnly, audioOnly, setterOnly, controllerOnly, vars, LoopType
  <2>5. rings' = Written("L") /\ audio' = audio
    BY <2>4 DEF PutLeft, Put, loopOnly
  <2>6. ~MidReset
    BY <2>2, WriterAlone DEF Alive
  <2>7. n \in Nat /\ n < SizeT /\ Holds(n) /\ rings["L"].capacity = n /\ "L" \in Sides
    BY <2>1, <2>6, RunnerAssumption DEF RingInv, OfSize, Sides
  <2> QED BY <2>2, <2>3, <2>5, <2>7, WriteHolds
<1> QED BY <1>1, <1>2, <1>3, <1>4, PTL DEF Spec, FramesFit, LeftFrameFits
=============================================================================
