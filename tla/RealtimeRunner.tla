--------------------------- MODULE RealtimeRunner ---------------------------
(***************************************************************************)
(* core/src/realtime_runner.cpp and core/include/magentart/                 *)
(* realtime_runner.h: the object that owns the engine, the inference thread *)
(* and the two rings of a stereo stream, and is called by                   *)
(*   - controller threads: start, stop, load_model, prefill_*, reset, ...,  *)
(*     serialized by lifecycle_mutex_ (all but load_musiccoca_model);       *)
(*   - the audio callback: read_audio_stereo, reset_for_playback;           *)
(*   - any thread: trigger_reset, trigger_transport_reset, set_bypass,      *)
(*     set_buffer_size, set_blend_weight.                                   *)
(* Atomic accesses are steps.  Within the rings, the copying of samples is   *)
(* left to RingBuffer: here write() is one step and read() is a load of the *)
(* cursors and a store of readPos.                                          *)
(***************************************************************************)
EXTENDS Integers, EngineState

CONSTANTS
  Frame,          \* kFrameSamples
  BufferSizes,    \* the arguments of set_buffer_size
  SizeT,          \* the modulus of a size_t cursor
  Counts,         \* sizes of the host's render blocks
  Blocking,       \* the values of read_audio_stereo's `blocking`
  Controllers,    \* controller threads
  Operations,     \* the lifecycle methods they call
  Requests,       \* "User", "Transport": the reset triggers in use
  Playback,       \* TRUE if the host calls reset_for_playback
  Bypassing,      \* TRUE if set_bypass is called
  Resizing,       \* TRUE if set_buffer_size is called
  MaxGeneration   \* bound on the calls of set_blend_weight

AllOperations == {"start", "stop", "load_model", "unload", "prefill_state",
                  "prefill_silence", "reset", "save_state", "load_state",
                  "reset_to_factory", "load_musiccoca_model"}

ASSUME RunnerAssumption ==
  /\ Frame \in Nat \ {0}
  /\ BufferSizes \subseteq Nat /\ Counts \subseteq Nat
  /\ SizeT \in Nat /\ \A n \in BufferSizes : n < SizeT
  /\ Blocking \subseteq BOOLEAN
  /\ Operations \subseteq AllOperations
  /\ Requests \subseteq {"User", "Transport"}
  /\ {Playback, Bypassing, Resizing} \subseteq BOOLEAN
  /\ MaxGeneration \in Nat
  /\ {"nobody", "loop"} \cap Controllers = {}

VARIABLES
  rings,         \* ring_L_, ring_R_: write_pos_, read_pos_, virtual_capacity_
  running,       \* running_
  joinable,      \* thread_.joinable()
  engine,        \* engine_
  bypass,        \* bypass_ || host_bypass_
  request,       \* reset_request_
  skip,          \* skip_next_transport_reset_
  loop,          \* where the inference thread is
  audio,         \* where the audio callback is, with its locals
  rebuild,       \* the reset and priming of the rings in progress
  controller,    \* where each controller is, with its locals
  mutex,         \* the controller that holds lifecycle_mutex_
  blend,         \* weights, generations and blended tokens
  resizing,      \* set_buffer_size has stored ring_L_'s capacity only
  raced          \* history: a reset of the rings has run into a read

vars == <<rings, running, joinable, engine, bypass, request, skip, loop, audio,
          rebuild, controller, mutex, blend, resizing, raced>>

Nobody == "nobody"
Sides == {"L", "R"}

-----------------------------------------------------------------------------
(* The rings. *)

Available(s) == (rings[s].write - rings[s].read) % SizeT
FreeSpace(s) ==
  IF rings[s].capacity > Available(s) THEN rings[s].capacity - Available(s) ELSE 0

\* write(): the whole frame or nothing.
Written(s) ==
  IF FreeSpace(s) < Frame THEN rings
  ELSE [rings EXCEPT ![s].write = (rings[s].write + Frame) % SizeT]

EmptyRing(n) == [write |-> 0, read |-> 0, capacity |-> n]

-----------------------------------------------------------------------------
(* reset() of both rings, four stores, and three priming frames whose       *)
(* write() results nobody looks at, six writes: done by the inference       *)
(* thread after a reset request, by start_locked(), and, without the        *)
(* priming, by reset() and reset_to_factory().                              *)

\* Where the audio callback is between two accesses to the cursors.
ReadingPcs == {"storeL", "loadR", "storeR", "drainedL", "drainR", "drainedR"}

NoRebuild == [by |-> Nobody, step |-> 0, last |-> 0]
Rebuilding == rebuild.by # Nobody /\ rebuild.step < rebuild.last
MidReset == rebuild.by # Nobody /\ rebuild.step \in 1..3
Rebuilt(who) == rebuild.by = who /\ rebuild.step = rebuild.last
BeginReset(who) == rebuild' = [by |-> who, step |-> 0, last |-> 4]
BeginResetAndPrime(who) == rebuild' = [by |-> who, step |-> 0, last |-> 10]

ResetStores == <<[side |-> "L", cursor |-> "write"], [side |-> "L", cursor |-> "read"],
                 [side |-> "R", cursor |-> "write"], [side |-> "R", cursor |-> "read"]>>

RebuildReset ==
  /\ Rebuilding /\ rebuild.step < 4
  /\ LET store == ResetStores[rebuild.step + 1]
     IN rings' = IF store.cursor = "write" THEN [rings EXCEPT ![store.side].write = 0]
                 ELSE [rings EXCEPT ![store.side].read = 0]
  /\ rebuild' = [rebuild EXCEPT !.step = @ + 1]
  /\ raced' = (raced \/ audio.pc \in ReadingPcs)
  /\ UNCHANGED <<running, joinable, engine, bypass, request, skip, loop, audio,
                 controller, mutex, blend, resizing>>

PrimeLeft ==
  /\ Rebuilding /\ rebuild.step \in {4, 6, 8}
  /\ rings' = Written("L")
  /\ rebuild' = [rebuild EXCEPT !.step = @ + 1]
  /\ UNCHANGED <<running, joinable, engine, bypass, request, skip, loop, audio,
                 controller, mutex, blend, resizing, raced>>

PrimeRight ==
  /\ Rebuilding /\ rebuild.step \in {5, 7, 9}
  /\ rings' = Written("R")
  /\ rebuild' = [rebuild EXCEPT !.step = @ + 1]
  /\ UNCHANGED <<running, joinable, engine, bypass, request, skip, loop, audio,
                 controller, mutex, blend, resizing, raced>>

-----------------------------------------------------------------------------
(* The inference thread. *)

loopOnly == <<joinable, bypass, audio, controller, mutex, resizing>>

\* while (running_); a bypassed runner sleeps and tries again.
LoopTop ==
  /\ loop.pc = "top"
  /\ ~running \/ ~bypass
  /\ loop' = [loop EXCEPT !.pc = IF running THEN "request" ELSE "exited"]
  /\ UNCHANGED <<rings, running, engine, request, skip, rebuild, blend, raced, loopOnly>>

\* The exchange of reset_request_; a transport reset is skipped once after a
\* prefill.
TakeRequest ==
  /\ loop.pc = "request"
  /\ request' = "None"
  /\ LET suppressed == request = "Transport" /\ skip
         resets == request # "None" /\ ~suppressed
     IN /\ skip' = IF request = "Transport" THEN FALSE ELSE skip
        /\ loop' = [loop EXCEPT !.pc = IF resets THEN "reset" ELSE "blend"]
  /\ UNCHANGED <<rings, running, engine, rebuild, blend, raced, loopOnly>>

LoopReset ==
  /\ loop.pc = "reset"
  /\ engine' = ResetState(engine)
  /\ BeginResetAndPrime("loop")
  /\ loop' = [loop EXCEPT !.pc = "rebuild"]
  /\ UNCHANGED <<rings, running, request, skip, blend, raced, loopOnly>>

LoopRebuilt ==
  /\ loop.pc = "rebuild" /\ Rebuilt("loop")
  /\ rebuild' = NoRebuild
  /\ loop' = [loop EXCEPT !.pc = "top"]
  /\ UNCHANGED <<rings, running, engine, request, skip, blend, raced, loopOnly>>

\* The generation is loaded before the weights.
LoadGeneration ==
  /\ loop.pc = "blend"
  /\ loop' = IF blend.generation = blend.last
             THEN [loop EXCEPT !.pc = "generate"]
             ELSE [loop EXCEPT !.pc = "reblend", !.generation = blend.generation]
  /\ UNCHANGED <<rings, running, engine, request, skip, rebuild, blend, raced, loopOnly>>

\* Mutant: the generation is remembered though the reblend gave up.
ReblendRemembered(ok) ==
  /\ loop.pc = "reblend"
  /\ blend' = [blend EXCEPT !.tokens = IF ok THEN blend.weights ELSE @,
                             !.last = loop.generation]
  /\ loop' = [loop EXCEPT !.pc = "generate"]
  /\ UNCHANGED <<rings, running, engine, request, skip, rebuild, raced, loopOnly>>

\* reblend_musiccoca_tokens() gives up while the prompts are being fetched.
Reblend(ok) ==
  /\ loop.pc = "reblend"
  /\ blend' = IF ok THEN [blend EXCEPT !.tokens = blend.weights, !.last = loop.generation]
              ELSE blend
  /\ loop' = [loop EXCEPT !.pc = "generate"]
  /\ UNCHANGED <<rings, running, engine, request, skip, rebuild, raced, loopOnly>>

Generate ==
  /\ loop.pc = "generate"
  /\ loop' = [loop EXCEPT !.pc = IF CanGenerate(engine) THEN "wait" ELSE "top"]
  /\ UNCHANGED <<rings, running, engine, request, skip, rebuild, blend, raced, loopOnly>>

\* Mutant: waiting for space without looking at running_.
WaitForSpaceOnly ==
  /\ loop.pc = "wait"
  /\ FreeSpace("L") >= Frame
  /\ loop' = [loop EXCEPT !.pc = IF running THEN "putL" ELSE "top"]
  /\ UNCHANGED <<rings, running, engine, request, skip, rebuild, blend, raced, loopOnly>>

\* Mutant: writing without waiting.
WaitNever ==
  /\ loop.pc = "wait"
  /\ loop' = [loop EXCEPT !.pc = IF running THEN "putL" ELSE "top"]
  /\ UNCHANGED <<rings, running, engine, request, skip, rebuild, blend, raced, loopOnly>>

\* Mutant: waiting for more than a frame.
WaitForMore ==
  /\ loop.pc = "wait"
  /\ FreeSpace("L") > Frame \/ ~running
  /\ loop' = [loop EXCEPT !.pc = IF running THEN "putL" ELSE "top"]
  /\ UNCHANGED <<rings, running, engine, request, skip, rebuild, blend, raced, loopOnly>>

\* Until ring_L_ has room for a frame or the runner is stopped.
WaitForSpace ==
  /\ loop.pc = "wait"
  /\ FreeSpace("L") >= Frame \/ ~running
  /\ loop' = [loop EXCEPT !.pc = IF running THEN "putL" ELSE "top"]
  /\ UNCHANGED <<rings, running, engine, request, skip, rebuild, blend, raced, loopOnly>>

Put(side, here, next) ==
  /\ loop.pc = here
  /\ rings' = Written(side)
  /\ loop' = [loop EXCEPT !.pc = next]
  /\ UNCHANGED <<running, engine, request, skip, rebuild, blend, raced, loopOnly>>

PutLeft == Put("L", "putL", "putR")
PutRight == Put("R", "putR", "top")

-----------------------------------------------------------------------------
(* The audio callback. *)

audioOnly == <<running, joinable, engine, bypass, request, skip, loop, rebuild,
               controller, mutex, blend, resizing>>

Min2(a, b) == IF a < b THEN a ELSE b

\* A bypassed read returns silence at once and leaves the rings alone.
ReadAudio(n, blocking) ==
  /\ audio.pc = "idle" /\ ~bypass
  /\ audio' = [pc |-> IF blocking THEN "block" ELSE "loadL", count |-> n, pos |-> 0]
  /\ UNCHANGED <<rings, raced, audioOnly>>

\* The offline wait, for min(count, virtual capacity) samples or a stop.
ReadBlocks ==
  /\ audio.pc = "block"
  /\ \/ Available("L") >= Min2(audio.count, rings["L"].capacity)
     \/ ~running
  /\ audio' = [audio EXCEPT !.pc = "loadL"]
  /\ UNCHANGED <<rings, raced, audioOnly>>

\* ring.read(): the cursors are loaded, then the new read_pos_ is stored.
LoadCursor(side, here, next, n) ==
  /\ audio.pc = here
  /\ audio' = [audio EXCEPT !.pc = next,
                 !.pos = (rings[side].read + Min2(Available(side), n)) % SizeT]
  /\ raced' = (raced \/ MidReset)
  /\ UNCHANGED <<rings, audioOnly>>

StoreCursor(side, here, next) ==
  /\ audio.pc = here
  /\ rings' = [rings EXCEPT ![side].read = audio.pos]
  /\ audio' = [audio EXCEPT !.pc = next, !.pos = 0,
                 !.count = IF next = "idle" THEN 0 ELSE @]
  /\ UNCHANGED <<raced, audioOnly>>

ReadLeft == LoadCursor("L", "loadL", "storeL", audio.count)
StoreLeft == StoreCursor("L", "storeL", "loadR")
ReadRight == LoadCursor("R", "loadR", "storeR", audio.count)
StoreRight == StoreCursor("R", "storeR", "idle")

\* reset_for_playback(): drain() of each ring.
ResetForPlayback ==
  /\ Playback /\ audio.pc = "idle"
  /\ audio' = [audio EXCEPT !.pc = "drainL"]
  /\ UNCHANGED <<rings, raced, audioOnly>>

DrainLeft == LoadCursor("L", "drainL", "drainedL", SizeT)
DrainedLeft == StoreCursor("L", "drainedL", "drainR")
DrainRight == LoadCursor("R", "drainR", "drainedR", SizeT)
DrainedRight == StoreCursor("R", "drainedR", "idle")

-----------------------------------------------------------------------------
(* Setters. *)

setterOnly == <<running, joinable, engine, skip, loop, audio, rebuild, controller,
                mutex, raced>>

TriggerReset ==
  /\ "User" \in Requests
  /\ request' = "User"
  /\ UNCHANGED <<rings, bypass, blend, resizing, setterOnly>>

\* Mutant: a store where the code has a compare-exchange.
TransportResetStored ==
  /\ "Transport" \in Requests
  /\ request' = "Transport"
  /\ UNCHANGED <<rings, bypass, blend, resizing, setterOnly>>

TriggerTransportReset ==
  /\ "Transport" \in Requests
  /\ request = "None"
  /\ request' = "Transport"
  /\ UNCHANGED <<rings, bypass, blend, resizing, setterOnly>>

SetBypass ==
  /\ Bypassing
  /\ bypass' = ~bypass
  /\ UNCHANGED <<rings, request, blend, resizing, setterOnly>>

\* set_buffer_size(): one ring, then the other (resizing is the pending size).
ResizeLeft(n) ==
  /\ Resizing /\ resizing = 0
  /\ rings' = [rings EXCEPT !["L"].capacity = n]
  /\ resizing' = n
  /\ UNCHANGED <<bypass, request, blend, setterOnly>>

ResizeRight ==
  /\ resizing # 0
  /\ rings' = [rings EXCEPT !["R"].capacity = resizing]
  /\ resizing' = 0
  /\ UNCHANGED <<bypass, request, blend, setterOnly>>

\* set_blend_weight(): the weight, then position_generation_.  A weight is
\* named by the number of the call that set it.
StoreWeight ==
  /\ blend.weights = blend.generation
  /\ blend.weights < MaxGeneration
  /\ blend' = [blend EXCEPT !.weights = @ + 1]
  /\ UNCHANGED <<rings, bypass, request, resizing, setterOnly>>

BumpGeneration ==
  /\ blend.generation < blend.weights
  /\ blend' = [blend EXCEPT !.generation = @ + 1]
  /\ UNCHANGED <<rings, bypass, request, resizing, setterOnly>>

-----------------------------------------------------------------------------
(* The controllers: one lifecycle method each at a time. *)

controllerOnly == <<bypass, request, audio, resizing>>

IdleController == [pc |-> "idle", op |-> "none", was |-> FALSE, weights |-> 0]

\* The methods that remember whether the thread was running and put it back.
Restoring == {"reset", "save_state", "load_state", "reset_to_factory"}
\* The methods that restart with start_locked(skip_reset = true).
KeepingState == {"prefill_state", "prefill_silence", "save_state"}

At(c, pc) == controller[c].pc = pc
Go(c, pc) == controller' = [controller EXCEPT ![c].pc = pc]

Call(c, op) ==
  /\ At(c, "idle")
  /\ controller' = [controller EXCEPT ![c].op = op,
        ![c].pc = IF op = "load_musiccoca_model" THEN "readRunning" ELSE "lock"]
  /\ UNCHANGED <<rings, running, joinable, engine, skip, loop, rebuild, mutex,
                 blend, raced, controllerOnly>>

\* load_musiccoca_model() looks at running_ without the mutex.
ReadRunning(c) ==
  /\ At(c, "readRunning")
  /\ controller' = [controller EXCEPT ![c].was = running,
                       ![c].pc = IF running THEN "lock" ELSE "assets"]
  /\ UNCHANGED <<rings, running, joinable, engine, skip, loop, rebuild, mutex,
                 blend, raced, controllerOnly>>

Lock(c) ==
  /\ At(c, "lock") /\ mutex = Nobody
  /\ mutex' = c
  /\ LET op == controller[c].op
     IN controller' = [controller EXCEPT
          ![c].was = IF op \in Restoring THEN running ELSE @,
          ![c].pc = IF op = "start" THEN "startJoin"
                    ELSE IF op \in Restoring /\ ~running THEN "engine"
                    ELSE "stop"]
  /\ UNCHANGED <<rings, running, joinable, engine, skip, loop, rebuild, blend,
                 raced, controllerOnly>>

\* Where a method goes once the thread is joined.
AfterStop(c) ==
  IF controller[c].op \in {"stop", "load_musiccoca_model"} THEN "unlock" ELSE "engine"

StopStore(c) ==
  /\ At(c, "stop")
  /\ running' = FALSE
  /\ Go(c, IF joinable THEN "join" ELSE AfterStop(c))
  /\ UNCHANGED <<rings, joinable, engine, skip, loop, rebuild, mutex, blend,
                 raced, controllerOnly>>

\* Mutant: stop_locked() without the join.
JoinSkipped(c) ==
  /\ At(c, "join")
  /\ joinable' = FALSE
  /\ UNCHANGED loop
  /\ Go(c, AfterStop(c))
  /\ UNCHANGED <<rings, running, engine, skip, rebuild, mutex, blend, raced,
                 controllerOnly>>

Join(c) ==
  /\ At(c, "join")
  /\ loop.pc = "exited"
  /\ joinable' = FALSE
  /\ loop' = [loop EXCEPT !.pc = "absent"]
  /\ Go(c, AfterStop(c))
  /\ UNCHANGED <<rings, running, engine, skip, rebuild, mutex, blend, raced,
                 controllerOnly>>

\* The engine's outcomes for each method.
Outcomes(op) ==
  CASE op = "load_model" -> LoadModel(engine)
    [] op = "unload" -> {Failure(Unload(engine))}
    [] op = "prefill_state" -> PrefillState(engine)
    [] op = "prefill_silence" -> PrefillSilence(engine)
    [] op = "reset" -> {Success(ResetState(engine))}
    [] op = "reset_to_factory" -> {Success(ResetToFactory(engine))}
    [] op = "save_state" -> SaveState(engine)
    [] op = "load_state" -> LoadState(engine, "audio")

\* load_model and the prefills restart on success, the restoring methods when
\* the thread was running; a successful prefill arms the skip.
UseEngine(c) ==
  /\ At(c, "engine")
  /\ LET op == controller[c].op
     IN \E outcome \in Outcomes(op) :
          /\ engine' = outcome.engine
          /\ skip' = (skip \/ (outcome.ok /\ op \in {"prefill_state", "prefill_silence"}))
          /\ IF op \in {"reset", "reset_to_factory"}
             THEN BeginReset(c) /\ Go(c, "resetRings")
             ELSE /\ UNCHANGED rebuild
                  /\ Go(c, IF (IF op \in Restoring THEN controller[c].was ELSE outcome.ok)
                           THEN "startJoin" ELSE "unlock")
  /\ UNCHANGED <<rings, running, joinable, loop, mutex, blend, raced, controllerOnly>>

RingsReset(c) ==
  /\ At(c, "resetRings") /\ Rebuilt(c)
  /\ rebuild' = NoRebuild
  /\ Go(c, IF controller[c].was THEN "startJoin" ELSE "unlock")
  /\ UNCHANGED <<rings, running, joinable, engine, skip, loop, mutex, blend,
                 raced, controllerOnly>>

\* start_locked(): "safe even if the thread is already running".
StartJoin(c) ==
  /\ At(c, "startJoin")
  /\ running' = IF joinable THEN FALSE ELSE running
  /\ Go(c, IF joinable THEN "rejoin" ELSE "begin")
  /\ UNCHANGED <<rings, joinable, engine, skip, loop, rebuild, mutex, blend,
                 raced, controllerOnly>>

Rejoin(c) ==
  /\ At(c, "rejoin")
  /\ loop.pc = "exited"
  /\ joinable' = FALSE
  /\ loop' = [loop EXCEPT !.pc = "absent"]
  /\ Go(c, "begin")
  /\ UNCHANGED <<rings, running, engine, skip, rebuild, mutex, blend, raced,
                 controllerOnly>>

\* Mutant: start_locked() without the is_loaded() test.
BeginUnchecked(c) ==
  /\ At(c, "begin")
  /\ engine' = IF controller[c].op \in KeepingState THEN engine ELSE ResetState(engine)
  /\ Go(c, "readWeights")
  /\ UNCHANGED <<rings, running, joinable, skip, loop, rebuild, mutex, blend,
                 raced, controllerOnly>>

Begin(c) ==
  /\ At(c, "begin")
  /\ engine' = IF controller[c].op \in KeepingState THEN engine ELSE ResetState(engine)
  /\ Go(c, IF engine.loaded THEN "readWeights" ELSE "unlock")
  /\ UNCHANGED <<rings, running, joinable, skip, loop, rebuild, mutex, blend,
                 raced, controllerOnly>>

\* The weights are loaded before the generation.
ReadWeights(c) ==
  /\ At(c, "readWeights")
  /\ controller' = [controller EXCEPT ![c].pc = "applyWeights", ![c].weights = blend.weights]
  /\ UNCHANGED <<rings, running, joinable, engine, skip, loop, rebuild, mutex,
                 blend, raced, controllerOnly>>

ApplyWeights(c, ok) ==
  /\ At(c, "applyWeights")
  /\ blend' = IF ok THEN [blend EXCEPT !.tokens = controller[c].weights,
                                       !.last = blend.generation]
              ELSE blend
  /\ BeginResetAndPrime(c)
  /\ Go(c, "rebuild")
  /\ UNCHANGED <<rings, running, joinable, engine, skip, loop, mutex, raced,
                 controllerOnly>>

Spawn(c) ==
  /\ At(c, "rebuild") /\ Rebuilt(c)
  /\ rebuild' = NoRebuild
  /\ running' = TRUE
  /\ joinable' = TRUE
  /\ loop' = [loop EXCEPT !.pc = "top"]
  /\ Go(c, "unlock")
  /\ UNCHANGED <<rings, engine, skip, mutex, blend, raced, controllerOnly>>

Unlock(c) ==
  /\ At(c, "unlock")
  /\ mutex' = Nobody
  /\ controller' = [controller EXCEPT ![c] =
        IF controller[c].op = "load_musiccoca_model" THEN [@ EXCEPT !.pc = "assets"]
        ELSE IdleController]
  /\ UNCHANGED <<rings, running, joinable, engine, skip, loop, rebuild, blend,
                 raced, controllerOnly>>

\* init_assets() without the mutex, then start() if all went well.
InitAssets(c, ok) ==
  /\ At(c, "assets")
  /\ controller' = [controller EXCEPT ![c] =
        IF controller[c].was /\ ok THEN [IdleController EXCEPT !.pc = "lock", !.op = "start"]
        ELSE IdleController]
  /\ UNCHANGED <<rings, running, joinable, engine, skip, loop, rebuild, mutex,
                 blend, raced, controllerOnly>>

-----------------------------------------------------------------------------
LoopStep ==
  \/ LoopTop \/ TakeRequest \/ LoopReset \/ LoopRebuilt
  \/ LoadGeneration \/ \E ok \in BOOLEAN : Reblend(ok)
  \/ Generate \/ WaitForSpace \/ PutLeft \/ PutRight

RebuildStep == RebuildReset \/ PrimeLeft \/ PrimeRight

HostCall ==
  \/ \E n \in Counts, blocking \in Blocking : ReadAudio(n, blocking)
  \/ ResetForPlayback

AudioStep ==
  \/ ReadBlocks \/ ReadLeft \/ StoreLeft \/ ReadRight \/ StoreRight
  \/ DrainLeft \/ DrainedLeft \/ DrainRight \/ DrainedRight

Set ==
  \/ TriggerReset \/ TriggerTransportReset \/ SetBypass
  \/ \E n \in BufferSizes : ResizeLeft(n)
  \/ ResizeRight
  \/ StoreWeight \/ BumpGeneration

ControllerStep(c) ==
  \/ ReadRunning(c) \/ Lock(c) \/ StopStore(c) \/ Join(c) \/ UseEngine(c)
  \/ RingsReset(c) \/ StartJoin(c) \/ Rejoin(c) \/ Begin(c) \/ ReadWeights(c)
  \/ \E ok \in BOOLEAN : ApplyWeights(c, ok)
  \/ Spawn(c) \/ Unlock(c)
  \/ \E ok \in BOOLEAN : InitAssets(c, ok)

Init ==
  /\ \E n \in BufferSizes : rings = [s \in Sides |-> EmptyRing(n)]
  /\ running = FALSE /\ joinable = FALSE
  /\ engine = EmptyEngine
  /\ bypass = FALSE /\ request = "None" /\ skip = FALSE
  /\ loop = [pc |-> "absent", generation |-> 0]
  /\ audio = [pc |-> "idle", count |-> 0, pos |-> 0]
  /\ rebuild = NoRebuild
  /\ controller = [c \in Controllers |-> IdleController]
  /\ mutex = Nobody
  /\ blend = [weights |-> 0, generation |-> 0, last |-> 0, tokens |-> 0]
  /\ resizing = 0
  /\ raced = FALSE

Next ==
  \/ LoopStep \/ RebuildStep \/ HostCall \/ AudioStep \/ Set
  \/ \E c \in Controllers, op \in Operations : Call(c, op)
  \/ \E c \in Controllers : ControllerStep(c)

Spec == Init /\ [][Next]_vars

\* The threads are scheduled, an audio callback that was entered is run, the
\* fetch of the prompts ends, and who enters a lifecycle method goes on.  No
\* fairness for the setters and for the calls.
Fairness ==
  /\ WF_vars(LoopStep)
  /\ SF_vars(Reblend(TRUE))
  /\ WF_vars(RebuildStep)
  /\ WF_vars(AudioStep)
  /\ \A c \in Controllers : WF_vars(ControllerStep(c))

FairSpec == Spec /\ Fairness
\* ... and the host goes on calling read_audio_stereo() as long as there is a
\* thread to hear.
FairHostSpec == FairSpec /\ WF_vars(running /\ HostCall)

-----------------------------------------------------------------------------
(* Properties. *)

LoopPcs == {"absent", "top", "request", "reset", "rebuild", "blend", "reblend",
            "generate", "wait", "putL", "putR", "exited"}
AudioPcs == {"idle", "block", "loadL", "storeL", "loadR", "storeR",
             "drainL", "drainedL", "drainR", "drainedR"}
LockedPcs == {"stop", "join", "engine", "resetRings", "startJoin", "rejoin",
              "begin", "readWeights", "applyWeights", "rebuild", "unlock"}
ControllerPcs == {"idle", "readRunning", "lock", "assets"} \cup LockedPcs
Cursors == 0..(SizeT - 1)

\* Every variable is of its type.
TypeOK ==
  /\ rings \in [Sides -> [write : Cursors, read : Cursors, capacity : BufferSizes]]
  /\ running \in BOOLEAN /\ joinable \in BOOLEAN
  /\ engine \in Engines
  /\ bypass \in BOOLEAN /\ skip \in BOOLEAN
  /\ request \in {"None"} \cup Requests
  /\ loop \in [pc : LoopPcs, generation : 0..MaxGeneration]
  /\ audio \in [pc : AudioPcs, count : {0} \cup Counts, pos : Cursors]
  /\ rebuild \in [by : {Nobody, "loop"} \cup Controllers, step : 0..10, last : {0, 4, 10}]
  /\ controller \in [Controllers -> [pc : ControllerPcs, op : {"none"} \cup AllOperations,
                                     was : BOOLEAN, weights : 0..MaxGeneration]]
  /\ mutex \in {Nobody} \cup Controllers
  /\ blend \in [weights : 0..MaxGeneration, generation : 0..MaxGeneration,
                last : 0..MaxGeneration, tokens : 0..MaxGeneration]
  /\ resizing \in {0} \cup BufferSizes
  /\ raced \in BOOLEAN

Alive == loop.pc \notin {"absent", "exited"}
EnginePcs == {"engine", "resetRings", "begin", "readWeights", "applyWeights", "rebuild"}

\* The engine and the ring write cursors have one user: a lifecycle method
\* works on them only while no inference thread is there.
EngineExclusive ==
  \A c \in Controllers : controller[c].pc \in EnginePcs => ~Alive

\* The inference thread never runs on an engine whose functions are gone:
\* start_locked() looks at is_loaded(), and the methods that take the functions
\* away stop the thread first.
LoadedWhileAlive == Alive => engine.loaded

\* A pending user reset ends in a reset, whatever transport resets arrive
\* after it and whatever a prefill has armed.
UserResetKept ==
  [][request = "User" /\ request' # "User" => loop'.pc = "reset"]_vars

\* The frame the inference thread waited to write into the left ring fits,
\* unless a reset of the rings ran into a read.
LeftFrameFits ==
  [][loop.pc = "putL" /\ loop'.pc = "putR" => raced \/ rings' # rings]_vars

\* However the two threads and the restarts interleave, a ring holds no more
\* than its virtual capacity, and so its reader is not ahead of its writer,
\* unless the rings are being reset or a reset of the rings ran into a read.
RingWithinCapacity ==
  raced \/ MidReset \/ \A s \in Sides : Available(s) <= rings[s].capacity
\* The rings hold what the loop has room for.
FramesFit == []RingWithinCapacity /\ LeftFrameFits

\* The lifecycle mutex is released: stop_locked()'s join ends whatever the
\* inference thread is waiting for.
MutexReleased ==
  \A c \in Controllers : (mutex = c) ~> (mutex # c)

\* While the thread runs and the host reads, a generation it has not blended
\* is blended in the end, from the weights of that generation or of a later one,
\* unless resets keep coming first.
LoopBlends ==
  \A g \in 1..MaxGeneration :
    (running /\ blend.last < g /\ g <= blend.generation)
      ~> (blend.tokens >= g \/ loop.pc = "reset" \/ ~running \/ raced)

\* (realtime_runner.cpp:214) The offline read waits for no more than the ring
\* can hold "to avoid deadlock": while the thread runs it comes back, unless
\* resets keep coming first.
BlockingReadReturns ==
  (running /\ audio.pc = "block")
    ~> (audio.pc # "block" \/ loop.pc = "reset" \/ ~running)
=============================================================================
