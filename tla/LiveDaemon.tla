------------------------------ MODULE LiveDaemon ------------------------------
(***************************************************************************)
(* The PC4MS live daemon and its clients (magenta_rt/pc4ms_live.py,        *)
(* cli/pc4ms_commands.py), and the live MIDI command (cli/                 *)
(* midi_commands.py).  A daemon binds a Unix datagram socket at a path,    *)
(* and turns each message into audio of the ring, chunk by chunk, on one   *)
(* model state that goes on from message to message.  Daemons may be       *)
(* started on the same path; signals, failures and kills come at any time. *)
(***************************************************************************)
EXTENDS Integers, Sequences, FiniteSets

CONSTANTS
  Daemons,     \* the processes that may be started on the path
  Messages,    \* what the client sends: sequence of [ok, ticks, events]
  TicksPerFrame, \* ticks of a model frame at the tempo of the take
  MaxFrames,   \* --max-frames
  ChunkFrames, \* --chunk-frames
  QueueSize,   \* datagrams a socket holds
  DrumFrames, WindowFrames \* the schedule and --window-seconds of drum-live

ASSUMPTION LiveDaemonAssumption ==
  /\ {TicksPerFrame, MaxFrames, ChunkFrames, QueueSize, WindowFrames} \subseteq Nat \ {0}
  /\ DrumFrames \in Nat
  /\ Messages \in Seq([ok : BOOLEAN, ticks : Int, events : Nat])

VARIABLES
  pc,      \* [Daemons -> where the process is]
  path,    \* the socket file: a daemon, "none", or "stale" after a kill
  queue,   \* [Daemons -> the datagrams in its socket]
  stop,    \* [Daemons -> the flag the signal handler sets]
  job,     \* [Daemons -> the message in handle_chunk(): [id, at, frames]]
  steps,   \* [Daemons -> steps behind the model state of the daemon]
  audio,   \* [Daemons -> history: the chunks made, [id, from, to, ring]]
  begun,   \* [Daemons -> history: messages begun with the flag set]
  alone,   \* [Daemons -> history: no other daemon has been on the path since it bound]
  sender,  \* the client: [pc, next]
  drum     \* drum-live: [pc, at, steps, audio]

vars == <<pc, path, queue, stop, job, steps, audio, begun, alone, sender, drum>>
daemonVars == <<pc, path, queue, stop, job, steps, audio, begun, alone>>

-----------------------------------------------------------------------------
(* What a message asks for. *)
CeilDiv(a, b) == (a + b - 1) \div b
AtLeast(a, b) == IF a > b THEN a ELSE b
AtMost(a, b) == IF a < b THEN a ELSE b

\* _chunk_window_frames(): the frames of the window, at least one.
WindowOf(m) == IF m.ticks <= 0 THEN 1 ELSE AtLeast(1, CeilDiv(m.ticks, TicksPerFrame))
\* The schedule holds the events, is padded to the window, and is capped.
FramesOf(m) == AtLeast(AtMost(AtLeast(1, m.events), MaxFrames), AtMost(WindowOf(m), MaxFrames))

\* chunk_frame_ranges()
ChunkTo(from, total) == AtMost(total, from + ChunkFrames)

NoJob == [id |-> 0, at |-> 0, frames |-> 0]
Init ==
  /\ pc = [d \in Daemons |-> "off"]
  /\ path \in {"none", "stale"}
  /\ queue = [d \in Daemons |-> <<>>]
  /\ stop = [d \in Daemons |-> FALSE]
  /\ job = [d \in Daemons |-> NoJob]
  /\ steps = [d \in Daemons |-> 0]
  /\ audio = [d \in Daemons |-> <<>>]
  /\ begun = [d \in Daemons |-> 0]
  /\ alone = [d \in Daemons |-> TRUE]
  /\ sender = [pc |-> "wait", next |-> 1]
  /\ drum = [pc |-> "off", at |-> 0, steps |-> 0, audio |-> <<>>]

Goto(d, l) == pc' = [pc EXCEPT ![d] = l]

\* run_daemon(): the ring is made, the signal handlers are set.
Launch(d) ==
  /\ pc[d] = "off"
  /\ Goto(d, "load")
  /\ alone' = [e \in Daemons |-> IF e = d THEN \A x \in Daemons \ {d} : pc[x] \in {"off", "dead"}
                                 ELSE FALSE]
  /\ UNCHANGED <<path, queue, stop, job, steps, audio, begun, sender, drum>>

\* The model, the producer, the style tokens, the first state - or none of it.
Load(d) ==
  /\ pc[d] = "load"
  /\ Goto(d, "unlink") \/ Goto(d, "close")
  /\ UNCHANGED <<path, queue, stop, job, steps, audio, begun, alone, sender, drum>>

\* __enter__(): whatever is at the path is removed, then the socket is bound;
\* bind() fails when someone else has bound the path in between.
Unlink(d) ==
  /\ pc[d] = "unlink"
  /\ path' = "none"
  /\ Goto(d, "bind")
  /\ UNCHANGED <<queue, stop, job, steps, audio, begun, alone, sender, drum>>
\* Mutant: the old file is removed after binding, and the new one with it.
BindThenUnlink(d) ==
  /\ pc[d] = "bind"
  /\ path' = "none" /\ Goto(d, "loop")
  /\ UNCHANGED <<queue, stop, job, steps, audio, begun, alone, sender, drum>>
Bind(d) ==
  /\ pc[d] = "bind"
  /\ IF path = "none" THEN path' = d /\ Goto(d, "loop") ELSE UNCHANGED path /\ Goto(d, "close")
  /\ UNCHANGED <<queue, stop, job, steps, audio, begun, alone, sender, drum>>

\* while not stop: receive(timeout) - a timeout only comes back here.
Loop(d) ==
  /\ pc[d] = "loop"
  /\ Goto(d, IF stop[d] THEN "exit" ELSE "recv")
  /\ UNCHANGED <<path, queue, stop, job, steps, audio, begun, alone, sender, drum>>
\* Mutant: the socket has no timeout.
ReceiveForEver(d) == pc[d] = "recv" /\ queue[d] = <<>> /\ UNCHANGED vars
ReceiveTimeout(d) ==
  /\ pc[d] = "recv" /\ queue[d] = <<>>
  /\ Goto(d, "loop")
  /\ UNCHANGED <<path, queue, stop, job, steps, audio, begun, alone, sender, drum>>

\* Mutant: only the newest message is served.
ReceiveNewest(d) ==
  /\ pc[d] = "recv" /\ queue[d] # <<>>
  /\ queue' = [queue EXCEPT ![d] = <<>>]
  /\ LET id == queue[d][Len(queue[d])]
     IN  IF Messages[id].ok
         THEN /\ job' = [job EXCEPT ![d] = [id |-> id, at |-> 0, frames |-> FramesOf(Messages[id])]]
              /\ begun' = [begun EXCEPT ![d] = IF stop[d] THEN @ + 1 ELSE @]
              /\ Goto(d, "chunk")
         ELSE Goto(d, "exit") /\ UNCHANGED <<job, begun>>
  /\ UNCHANGED <<path, stop, steps, audio, alone, sender, drum>>
\* A message that does not parse ends the daemon; another one is scheduled.
Receive(d) ==
  /\ pc[d] = "recv" /\ queue[d] # <<>>
  /\ queue' = [queue EXCEPT ![d] = Tail(@)]
  /\ LET id == Head(queue[d])
     IN  IF Messages[id].ok
         THEN /\ job' = [job EXCEPT ![d] = [id |-> id, at |-> 0, frames |-> FramesOf(Messages[id])]]
              /\ begun' = [begun EXCEPT ![d] = IF stop[d] THEN @ + 1 ELSE @]
              /\ Goto(d, "chunk")
         ELSE Goto(d, "exit") /\ UNCHANGED <<job, begun>>
  /\ UNCHANGED <<path, stop, steps, audio, alone, sender, drum>>

\* One chunk of handle_chunk(): its frames are stepped and written.  With the
\* flag set, a ring without room is not waited for and the chunk is skipped;
\* the model has made its steps all the same.
Chunk(d) ==
  /\ pc[d] = "chunk" /\ job[d].at < job[d].frames
  /\ LET to == ChunkTo(job[d].at, job[d].frames)
     IN  \E ring \in {TRUE, ~stop[d]} :
           /\ audio' = [audio EXCEPT ![d] = Append(@, [id |-> job[d].id, from |-> job[d].at, to |-> to,
                                                       step |-> steps[d] + job[d].at, ring |-> ring])]
           /\ job' = [job EXCEPT ![d].at = to]
  /\ UNCHANGED <<pc, path, queue, stop, steps, begun, alone, sender, drum>>

\* Mutant: the state of the first message is kept for all of them.
HandledStateKept(d) ==
  /\ pc[d] = "chunk" /\ job[d].at = job[d].frames
  /\ Goto(d, "loop")
  /\ UNCHANGED <<path, queue, stop, job, steps, audio, begun, alone, sender, drum>>
\* generate_int16() returns: the daemon takes over the state, logs the record.
Handled(d) ==
  /\ pc[d] = "chunk" /\ job[d].at = job[d].frames
  /\ steps' = [steps EXCEPT ![d] = @ + job[d].frames]
  /\ Goto(d, "loop")
  /\ UNCHANGED <<path, queue, stop, job, audio, begun, alone, sender, drum>>

\* Scheduling, the device or the metrics log raises.
HandleFails(d) ==
  /\ pc[d] = "chunk"
  /\ Goto(d, "exit")
  /\ UNCHANGED <<path, queue, stop, job, steps, audio, begun, alone, sender, drum>>

\* __exit__(): the socket is closed with what is queued in it, and the path is
\* removed, whoever has bound it by now.
Exit(d) ==
  /\ pc[d] = "exit"
  /\ queue' = [queue EXCEPT ![d] = <<>>]
  /\ path' = "none"
  /\ Goto(d, "close")
  /\ UNCHANGED <<stop, job, steps, audio, begun, alone, sender, drum>>
Close(d) ==
  /\ pc[d] = "close"
  /\ Goto(d, "dead")
  /\ UNCHANGED <<path, queue, stop, job, steps, audio, begun, alone, sender, drum>>

Signal(d) ==
  /\ pc[d] \notin {"off", "dead"} /\ ~stop[d]
  /\ stop' = [stop EXCEPT ![d] = TRUE]
  /\ UNCHANGED <<pc, path, queue, job, steps, audio, begun, alone, sender, drum>>
Kill(d) ==
  /\ pc[d] \notin {"off", "dead"}
  /\ Goto(d, "dead")
  /\ path' = IF path = d THEN "stale" ELSE path
  /\ queue' = [queue EXCEPT ![d] = <<>>]
  /\ UNCHANGED <<stop, job, steps, audio, begun, alone, sender, drum>>

-----------------------------------------------------------------------------
(* send_live_payloads(): wait until the path exists, then send each payload. *)
SendWait ==
  /\ sender.pc = "wait"
  /\ \/ path # "none" /\ sender' = [sender EXCEPT !.pc = "send"]
     \/ path = "none" /\ sender' = [sender EXCEPT !.pc = "failed"]
  /\ UNCHANGED <<daemonVars, drum>>
Send ==
  /\ sender.pc = "send" /\ sender.next <= Len(Messages)
  /\ IF path \in Daemons
     THEN /\ Len(queue[path]) < QueueSize
          /\ queue' = [queue EXCEPT ![path] = Append(@, sender.next)]
          /\ sender' = [sender EXCEPT !.next = @ + 1]
     ELSE sender' = [sender EXCEPT !.pc = "failed"] /\ UNCHANGED queue
  /\ UNCHANGED <<pc, path, stop, job, steps, audio, begun, alone, drum>>

-----------------------------------------------------------------------------
(* drum-live: one schedule, window by window, on one state; no stop flag.  *)
DrumBegin ==
  /\ drum.pc = "off"
  /\ drum' = [drum EXCEPT !.pc = "run"]
  /\ UNCHANGED <<daemonVars, sender>>
DrumChunk ==
  /\ drum.pc = "run" /\ drum.at < DrumFrames
  /\ LET window == AtMost(DrumFrames, (drum.at \div WindowFrames + 1) * WindowFrames)
         base == (drum.at \div WindowFrames) * WindowFrames
         to == base + ChunkTo(drum.at - base, window - base)
     IN  drum' = [drum EXCEPT !.at = to, !.steps = @ + (to - drum.at),
                              !.audio = Append(@, [from |-> drum.at, to |-> to, step |-> drum.steps])]
  /\ UNCHANGED <<daemonVars, sender>>
DrumEnd ==
  /\ drum.pc = "run"
  /\ drum' = [drum EXCEPT !.pc = "dead"]
  /\ UNCHANGED <<daemonVars, sender>>

-----------------------------------------------------------------------------
Work(d) == \/ Load(d) \/ Unlink(d) \/ Bind(d) \/ Loop(d) \/ ReceiveTimeout(d) \/ Receive(d)
           \/ Chunk(d) \/ Handled(d) \/ Exit(d) \/ Close(d)
Daemon == \E d \in Daemons : Launch(d) \/ Work(d) \/ HandleFails(d) \/ Signal(d) \/ Kill(d)
Client == SendWait \/ Send
Drum == DrumBegin \/ DrumChunk \/ DrumEnd
Next == Daemon \/ Client \/ Drum

Fairness == \A d \in Daemons : WF_vars(Work(d))
Spec == Init /\ [][Next]_vars /\ Fairness

-----------------------------------------------------------------------------
Places == {"off", "load", "unlink", "bind", "loop", "recv", "chunk", "exit", "close", "dead"}
TypeOK ==
  /\ pc \in [Daemons -> Places]
  /\ path \in Daemons \cup {"none", "stale"}
  /\ stop \in [Daemons -> BOOLEAN] /\ alone \in [Daemons -> BOOLEAN]
  /\ steps \in [Daemons -> Nat] /\ begun \in [Daemons -> Nat]
  /\ \A d \in Daemons : Len(queue[d]) <= QueueSize /\ job[d].at <= job[d].frames
  /\ sender \in [pc : {"wait", "send", "failed"}, next : 1 .. Len(Messages) + 1]

\* The audio of a daemon is one run of the model: each chunk goes on from the
\* state the one before left, across messages, and the messages keep the order
\* they were sent in (Pc4msMagentaLiveDaemon.handle_chunk).
Follows(a, b) ==
  /\ b.step = a.step + (a.to - a.from)
  /\ \/ a.id = b.id /\ b.from = a.to
     \/ a.id < b.id /\ b.from = 0 /\ a.to = FramesOf(Messages[a.id])
OneRun == \A d \in Daemons : \A i \in 1 .. Len(audio[d]) - 1 : Follows(audio[d][i], audio[d][i + 1])

\* A message gives at least the audio of its window, so a stream of messages
\* keeps up with its clock, unless --max-frames cuts it.
WindowFilled ==
  \A d \in Daemons : pc[d] = "chunk" =>
    job[d].frames * TicksPerFrame >= Messages[job[d].id].ticks \/ job[d].frames = MaxFrames

\* Audio is left out of the ring only after a signal, and a signal ends the
\* daemon with the message it is in, or the next one at the latest.
SkipsAfterSignal == \A d \in Daemons : \A i \in DOMAIN audio[d] : audio[d][i].ring \/ stop[d]
OneMoreMessage == \A d \in Daemons : begun[d] <= 1
SignalEnds == \A d \in Daemons : stop[d] ~> pc[d] = "dead"
SignalServed == []SkipsAfterSignal /\ []OneMoreMessage /\ SignalEnds

\* A message in the socket of a daemon is begun, unless the daemon ends first.
Served == \A d \in Daemons : \A m \in DOMAIN Messages :
  (m \in {queue[d][i] : i \in DOMAIN queue[d]})
    ~> (job[d].id = m \/ pc[d] \in {"exit", "close", "dead"})

\* A daemon that serves is at the path, as long as it was the only one on it:
\* another one started there takes the path, and removes it when it ends.
Reachable == \A d \in Daemons : alone[d] /\ pc[d] \in {"loop", "recv", "chunk"} => path = d

\* drum-live plays its schedule once through, whatever the window.
DrumWhole ==
  /\ \A i \in DOMAIN drum.audio :
       drum.audio[i].from = (IF i = 1 THEN 0 ELSE drum.audio[i - 1].to)
  /\ \A i \in DOMAIN drum.audio : drum.audio[i].step = drum.audio[i].from

\* Both commands play what they were asked for, as one run of the model.
AudioIsOneRun == TypeOK /\ OneRun /\ WindowFilled /\ DrumWhole
=============================================================================
