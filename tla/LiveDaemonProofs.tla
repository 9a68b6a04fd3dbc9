--------------------------- MODULE LiveDaemonProofs ---------------------------
(* Proofs about LiveDaemon, for any number of daemons and any messages. *)
EXTENDS LiveDaemon, TLAPS

Live == {"loop", "recv", "chunk"}
Gone == {"off", "dead"}

-----------------------------------------------------------------------------
(* The socket. *)

\* A daemon that is alone since it was launched has every other one gone, and
\* once it serves it is at the path.
Alone ==
  \A d \in Daemons : alone[d] /\ pc[d] \notin Gone =>
    /\ \A e \in Daemons \ {d} : pc[e] \in Gone
    /\ pc[d] \in Live => path = d

PathInv ==
  /\ pc \in [Daemons -> Places] /\ alone \in [Daemons -> BOOLEAN]
  /\ Alone

LEMMA PathStep == PathInv /\ [Next]_vars => PathInv'
<1> SUFFICES ASSUME PathInv, [Next]_vars PROVE PathInv'
  OBVIOUS
<1> USE DEF PathInv, Alone, Places, Live, Gone
<1>1. CASE UNCHANGED <<pc, path, alone>>
  BY <1>1
<1>2. CASE Client \/ Drum \/ UNCHANGED vars
  BY <1>1, <1>2 DEF Client, SendWait, Send, Drum, DrumBegin, DrumChunk, DrumEnd, daemonVars, vars
<1>3. ASSUME NEW d \in Daemons, Launch(d) PROVE PathInv'
  BY <1>3 DEF Launch, Goto
<1>4. ASSUME NEW d \in Daemons, Load(d) \/ Loop(d) \/ ReceiveTimeout(d) \/ Receive(d) \/ Handled(d)
                                \/ HandleFails(d) \/ Close(d)
      PROVE  PathInv'
  <2>1. /\ path' = path /\ alone' = alone /\ pc[d] \notin Gone
        /\ \E l \in Places \ {"off"} : Goto(d, l) /\ (l \in Live => pc[d] \in Live)
    BY <1>4 DEF Load, Loop, ReceiveTimeout, Receive, Handled, HandleFails, Close, Goto
  <2> QED BY <2>1 DEF Goto
<1>5. ASSUME NEW d \in Daemons, Unlink(d) \/ Bind(d) \/ Exit(d) \/ Kill(d) PROVE PathInv'
  <2>1. /\ alone' = alone /\ pc[d] \notin Gone
        /\ \E l \in Places \ {"off"} : Goto(d, l) /\ (l \in Live => path' = d)
    BY <1>5 DEF Unlink, Bind, Exit, Kill, Goto
  <2>2. \A e \in Daemons \ {d} : alone[e] => pc[e] \in Gone
    BY <2>1
  <2> QED BY <2>1, <2>2 DEF Goto
<1>6. ASSUME NEW d \in Daemons, Chunk(d) \/ Signal(d) PROVE PathInv'
  BY <1>1, <1>6 DEF Chunk, Signal
<1> QED BY <1>2, <1>3, <1>4, <1>5, <1>6 DEF Next, Daemon, Work

\* A daemon that serves and has been alone is at the path: no message sent to
\* the path goes astray.
THEOREM ReachableHolds == Spec => []Reachable
<1>1. Init => PathInv
  BY DEF Init, PathInv, Alone, Places, Gone
<1>2. PathInv => Reachable
  BY DEF PathInv, Alone, Reachable, Live, Gone
<1> QED BY <1>1, <1>2, PathStep, PTL DEF Spec
-----------------------------------------------------------------------------
(* What a message asks for. *)

\* The frames of any message: at least one, at most --max-frames, and the whole
\* window unless that cuts it.
LEMMA WindowCovered ==
  ASSUME NEW t \in Int, t > 0
  PROVE  CeilDiv(t, TicksPerFrame) \in Nat /\ CeilDiv(t, TicksPerFrame) * TicksPerFrame >= t
<1>1. TicksPerFrame \in Nat \ {0}
  BY LiveDaemonAssumption
<1> DEFINE a == t + TicksPerFrame - 1
           q == a \div TicksPerFrame
<1>2. a \in Nat /\ q \in Nat /\ a - q * TicksPerFrame < TicksPerFrame
  BY <1>1
<1>3. q * TicksPerFrame \in Int
  BY <1>1, <1>2
<1> QED BY <1>1, <1>2, <1>3 DEF CeilDiv

LEMMA FramesGiven ==
  ASSUME NEW m \in [ok : BOOLEAN, ticks : Int, events : Nat]
  PROVE  /\ FramesOf(m) \in 1 .. MaxFrames
         /\ FramesOf(m) * TicksPerFrame >= m.ticks \/ FramesOf(m) = MaxFrames
<1>1. TicksPerFrame \in Nat \ {0} /\ MaxFrames \in Nat \ {0} /\ m.ticks \in Int /\ m.events \in Nat
  BY LiveDaemonAssumption
<1>2. /\ WindowOf(m) \in Nat \ {0}
      /\ m.ticks > 0 => WindowOf(m) * TicksPerFrame >= m.ticks
  <2>1. CASE m.ticks <= 0
    BY <1>1, <2>1 DEF WindowOf
  <2>2. CASE m.ticks > 0
    <3> DEFINE c == CeilDiv(m.ticks, TicksPerFrame)
    <3>1. c \in Nat /\ c * TicksPerFrame >= m.ticks
      BY <1>1, <2>2, WindowCovered
    <3>2. c # 0
      BY <1>1, <2>2, <3>1
    <3>3. WindowOf(m) = c
      BY <1>1, <2>2, <3>1, <3>2 DEF WindowOf, AtLeast
    <3> QED BY <3>1, <3>2, <3>3
  <2> QED BY <1>1, <2>1, <2>2
<1>3. /\ FramesOf(m) \in 1 .. MaxFrames
      /\ FramesOf(m) >= WindowOf(m) \/ FramesOf(m) = MaxFrames
  BY <1>1, <1>2 DEF FramesOf, AtLeast, AtMost
<1>4. CASE FramesOf(m) >= WindowOf(m) /\ m.ticks > 0
  <2>1. FramesOf(m) * TicksPerFrame >= WindowOf(m) * TicksPerFrame
    BY <1>1, <1>2, <1>3, <1>4
  <2>2. FramesOf(m) * TicksPerFrame \in Int /\ WindowOf(m) * TicksPerFrame \in Int
    BY <1>1, <1>2, <1>3
  <2> QED BY <1>1, <1>2, <1>3, <1>4, <2>1, <2>2
<1>5. CASE m.ticks <= 0
  <2>1. FramesOf(m) * TicksPerFrame >= 0
    BY <1>1, <1>3
  <2> QED BY <1>1, <1>3, <1>5, <2>1
<1> QED BY <1>1, <1>3, <1>4, <1>5

-----------------------------------------------------------------------------
(* The audio. *)

Chunks == [id : Nat, from : Nat, to : Nat, step : Nat, ring : BOOLEAN]
Windows == [from : Int, to : Int, step : Int]

\* The types of TypeOK, and those of the queues, jobs and histories.
Types ==
  /\ TypeOK
  /\ queue \in [Daemons -> Seq(Nat)]
  /\ job \in [Daemons -> [id : Nat, at : Nat, frames : Nat]]
  /\ audio \in [Daemons -> Seq(Chunks)]
  /\ drum \in [pc : {"off", "run", "dead"}, at : Int, steps : Int, audio : Seq(Windows)]

\* The messages waiting in a socket are newer than the one being handled, and
\* in the order they were sent.
QueueOrder(d) ==
  /\ job[d].id < sender.next
  /\ \A i \in DOMAIN queue[d] : job[d].id < queue[d][i] /\ queue[d][i] < sender.next
  /\ \A i, j \in DOMAIN queue[d] : i < j => queue[d][i] < queue[d][j]

\* The job is that of a message that parses.
JobKnown(d) ==
  pc[d] = "chunk" => job[d].id \in DOMAIN Messages /\ job[d].frames = FramesOf(Messages[job[d].id])

\* The last chunk made is the one the next chunk, of this message or of a later
\* one, goes on from.
Last(d) == audio[d][Len(audio[d])]
GoesOn(d) ==
  audio[d] # <<>> /\ pc[d] \in Live =>
    \/ /\ pc[d] = "chunk" /\ job[d].at > 0
       /\ Last(d).id = job[d].id /\ Last(d).to = job[d].at
       /\ Last(d).step + (Last(d).to - Last(d).from) = steps[d] + job[d].at
    \/ /\ pc[d] = "chunk" => job[d].at = 0 /\ Last(d).id < job[d].id
       /\ Last(d).id <= job[d].id /\ Last(d).to = FramesOf(Messages[Last(d).id])
       /\ Last(d).step + (Last(d).to - Last(d).from) = steps[d]

\* A daemon that does not serve yet has made nothing.
Opening(d) == pc[d] \notin Live /\ pc[d] \notin {"exit", "close", "dead"} => audio[d] = <<>>
Ordered(d) == \A i \in 1 .. Len(audio[d]) - 1 : Follows(audio[d][i], audio[d][i + 1])

Run(d) == QueueOrder(d) /\ JobKnown(d) /\ GoesOn(d) /\ Opening(d) /\ Ordered(d)

\* drum-live: the state has made as many steps as frames are out.
DrumRun ==
  /\ drum.steps = drum.at
  /\ drum.at = IF drum.audio = <<>> THEN 0 ELSE drum.audio[Len(drum.audio)].to
  /\ DrumWhole

RunInv == Types /\ (\A d \in Daemons : Run(d)) /\ DrumRun
MessageSet == [ok : BOOLEAN, ticks : Int, events : Nat]
Jobs == [id : Nat, at : Nat, frames : Nat]

LEMMA Positive ==
  /\ TicksPerFrame \in Nat \ {0} /\ MaxFrames \in Nat \ {0} /\ ChunkFrames \in Nat \ {0}
  /\ QueueSize \in Nat \ {0} /\ WindowFrames \in Nat \ {0} /\ DrumFrames \in Nat
  /\ Len(Messages) \in Nat
BY LiveDaemonAssumption

LEMMA Element ==
  ASSUME NEW R, NEW s \in Seq(R), NEW k \in 1 .. Len(s)
  PROVE  k \in DOMAIN s /\ s[k] \in R
OBVIOUS

LEMMA Appended ==
  ASSUME NEW R, NEW s \in Seq(R), NEW x \in R
  PROVE  /\ Append(s, x) \in Seq(R) /\ Len(Append(s, x)) = Len(s) + 1 /\ Append(s, x) # <<>>
         /\ Append(s, x)[Len(s) + 1] = x /\ \A i \in 1 .. Len(s) : Append(s, x)[i] = s[i]
OBVIOUS

LEMMA Dropped ==
  ASSUME NEW R, NEW s \in Seq(R), s # <<>>
  PROVE  /\ Tail(s) \in Seq(R) /\ Len(Tail(s)) = Len(s) - 1 /\ Len(s) \in Nat \ {0}
         /\ Head(s) = s[1] /\ s[1] \in R /\ \A i \in 1 .. Len(s) - 1 : Tail(s)[i] = s[i + 1]
OBVIOUS

LEMMA Counted ==
  ASSUME NEW P, NEW S, NEW r \in [pc : P, next : S], NEW v \in S
  PROVE  [r EXCEPT !.next = v] \in [pc : P, next : S]
OBVIOUS

LEMMA MessageKnown ==
  ASSUME NEW id \in DOMAIN Messages
  PROVE  Messages[id] \in MessageSet
<1>1. Messages \in Seq(MessageSet)
  BY LiveDaemonAssumption DEF MessageSet
<1>2. DOMAIN Messages = 1 .. Len(Messages)
  BY <1>1
<1> QED BY <1>1, <1>2, Element

\* What the variables of a daemon are made of.
LEMMA Known ==
  ASSUME Types, NEW d \in Daemons
  PROVE  /\ pc[d] \in Places /\ stop[d] \in BOOLEAN /\ steps[d] \in Nat /\ begun[d] \in Nat
         /\ queue[d] \in Seq(Nat) /\ Len(queue[d]) <= QueueSize /\ audio[d] \in Seq(Chunks)
         /\ job[d] \in Jobs /\ job[d].id \in Nat /\ job[d].at \in Nat /\ job[d].frames \in Nat
         /\ job[d].at <= job[d].frames
         /\ sender.next \in 1 .. Len(Messages) + 1 /\ sender.next \in Nat
<1>1. pc[d] \in Places /\ stop[d] \in BOOLEAN /\ steps[d] \in Nat /\ begun[d] \in Nat
  BY DEF Types, TypeOK
<1>2. queue[d] \in Seq(Nat) /\ Len(queue[d]) <= QueueSize /\ audio[d] \in Seq(Chunks)
  BY DEF Types, TypeOK
<1>3. job[d] \in Jobs /\ job[d].at <= job[d].frames
  BY DEF Types, TypeOK, Jobs
<1>4. job[d].id \in Nat /\ job[d].at \in Nat /\ job[d].frames \in Nat
  BY <1>3 DEF Jobs
<1>5. sender.next \in 1 .. Len(Messages) + 1
  BY DEF Types, TypeOK
<1>6. sender.next \in Nat
  BY <1>5, Positive
<1> QED BY <1>1, <1>2, <1>3, <1>4, <1>5, <1>6

\* A message waiting in a socket is one of Messages.
LEMMA QueuedKnown ==
  ASSUME Types, NEW d \in Daemons, QueueOrder(d), NEW i \in DOMAIN queue[d]
  PROVE  queue[d][i] \in DOMAIN Messages /\ Messages[queue[d][i]] \in MessageSet
<1>1. queue[d] \in Seq(Nat) /\ job[d].id \in Nat /\ sender.next \in 1 .. Len(Messages) + 1
  BY Known
<1>2. queue[d][i] \in Nat /\ job[d].id < queue[d][i] /\ queue[d][i] < sender.next
  BY <1>1 DEF QueueOrder
<1>3. queue[d][i] \in 1 .. Len(Messages)
  <2> DEFINE q == queue[d][i]
             j == job[d].id
             n == sender.next
  <2>1. q \in Nat /\ j \in Nat /\ n \in 1 .. Len(Messages) + 1 /\ j < q /\ q < n
    BY <1>1, <1>2
  <2> HIDE DEF q, j, n
  <2>2. q \in 1 .. Len(Messages)
    BY <2>1, Positive
  <2> QED BY <2>2 DEF q
<1>4. Messages \in Seq(MessageSet)
  BY LiveDaemonAssumption DEF MessageSet
<1> QED BY <1>3, <1>4, Element

\* Where a chunk ends.
LEMMA ChunkGoes ==
  ASSUME NEW from \in Nat, NEW total \in Nat, from < total
  PROVE  ChunkTo(from, total) \in Nat /\ from < ChunkTo(from, total) /\ ChunkTo(from, total) <= total
BY Positive DEF ChunkTo, AtMost

\* What Receive(d) takes: an id, and the job made of it.
JobOf(id) == [id |-> id, at |-> 0, frames |-> FramesOf(Messages[id])]
LEMMA Received ==
  ASSUME Types, NEW d \in Daemons, QueueOrder(d), Receive(d)
  PROVE  LET id == queue[d][1]
         IN  /\ id \in Nat /\ id \in DOMAIN Messages /\ FramesOf(Messages[id]) \in Nat
             /\ JobOf(id) \in Jobs
             /\ pc[d] = "recv" /\ queue[d] # <<>> /\ queue' = [queue EXCEPT ![d] = Tail(@)]
             /\ \/ /\ job' = [job EXCEPT ![d] = JobOf(id)] /\ Goto(d, "chunk")
                   /\ begun' = [begun EXCEPT ![d] = IF stop[d] THEN @ + 1 ELSE @]
                \/ job' = job /\ Goto(d, "exit") /\ begun' = begun
             /\ UNCHANGED <<path, stop, steps, audio, alone, sender, drum>>
<1>1. queue[d] \in Seq(Nat) /\ queue[d] # <<>>
  BY Known DEF Receive
<1>2. Head(queue[d]) = queue[d][1] /\ queue[d][1] \in Nat /\ 1 \in 1 .. Len(queue[d])
  BY <1>1, Dropped
<1>3. 1 \in DOMAIN queue[d]
  BY <1>1, <1>2, Element
<1>4. queue[d][1] \in DOMAIN Messages /\ FramesOf(Messages[queue[d][1]]) \in 1 .. MaxFrames
  BY <1>3, QueuedKnown, FramesGiven DEF MessageSet
<1>5. FramesOf(Messages[queue[d][1]]) \in Nat
  BY <1>4, Positive
<1>6. JobOf(queue[d][1]) \in Jobs
  BY <1>2, <1>5 DEF JobOf, Jobs
<1> QED BY <1>1, <1>2, <1>4, <1>5, <1>6 DEF Receive, JobOf

DrumType == [pc : {"off", "run", "dead"}, at : Int, steps : Int, audio : Seq(Windows)]

\* A chunk of drum-live keeps its types.
LEMMA TypesDrum ==
  ASSUME drum \in DrumType, DrumChunk
  PROVE  drum' \in DrumType
<1>0. drum \in [pc : {"off", "run", "dead"}, at : Int, steps : Int, audio : Seq(Windows)]
  BY DEF DrumType
<1> DEFINE frame == drum.at \div WindowFrames
           window == AtMost(DrumFrames, (frame + 1) * WindowFrames)
           base == frame * WindowFrames
           to == base + ChunkTo(drum.at - base, window - base)
<1>1. drum.at \in Int /\ frame \in Int
  BY <1>0, Positive
<1> HIDE DEF frame
<1>2. base \in Int /\ (frame + 1) * WindowFrames \in Int
  BY <1>1, Positive
<1>3. window \in Int
  BY <1>2, Positive DEF AtMost
<1> HIDE DEF base, window
<1>4. to \in Int
  BY <1>1, <1>2, <1>3, Positive DEF AtMost, ChunkTo
<1>5. /\ drum' = [drum EXCEPT !.at = to, !.steps = @ + (to - drum.at),
                              !.audio = Append(@, [from |-> drum.at, to |-> to, step |-> drum.steps])]
      /\ UNCHANGED <<daemonVars, sender>>
  BY DEF DrumChunk, frame, window, base
<1> HIDE DEF to
<1>6. [from |-> drum.at, to |-> to, step |-> drum.steps] \in Windows
  BY <1>0, <1>4 DEF Windows
<1>7. Append(drum.audio, [from |-> drum.at, to |-> to, step |-> drum.steps]) \in Seq(Windows)
  BY <1>0, <1>6, Appended
<1>8. drum' \in DrumType
  <2>1. drum.steps + (to - drum.at) \in Int
    BY <1>0, <1>4
  <2> DEFINE longer == Append(drum.audio, [from |-> drum.at, to |-> to, step |-> drum.steps])
  <2>2. longer \in Seq(Windows)
    BY <1>7
  <2>3. drum' = [drum EXCEPT !.at = to, !.steps = drum.steps + (to - drum.at), !.audio = longer]
    BY <1>0, <1>5
  <2> HIDE DEF longer
  <2> QED BY <1>0, <1>4, <2>1, <2>2, <2>3 DEF DrumType
<1> QED BY <1>8

LEMMA TypesStep == Types /\ (\A d \in Daemons : Run(d)) /\ [Next]_vars => Types'
<1> SUFFICES ASSUME Types, \A d \in Daemons : Run(d), [Next]_vars PROVE Types'
  OBVIOUS
<1>0. /\ pc \in [Daemons -> Places] /\ path \in Daemons \cup {"none", "stale"}
      /\ stop \in [Daemons -> BOOLEAN] /\ alone \in [Daemons -> BOOLEAN]
      /\ steps \in [Daemons -> Nat] /\ begun \in [Daemons -> Nat]
      /\ queue \in [Daemons -> Seq(Nat)] /\ \A d \in Daemons : Len(queue[d]) <= QueueSize
      /\ job \in [Daemons -> Jobs] /\ \A d \in Daemons : job[d].at <= job[d].frames
      /\ audio \in [Daemons -> Seq(Chunks)]
      /\ sender \in [pc : {"wait", "send", "failed"}, next : 1 .. Len(Messages) + 1]
      /\ drum \in [pc : {"off", "run", "dead"}, at : Int, steps : Int, audio : Seq(Windows)]
  BY DEF Types, TypeOK, Jobs
<1> DEFINE T == /\ pc' \in [Daemons -> Places] /\ path' \in Daemons \cup {"none", "stale"}
                /\ stop' \in [Daemons -> BOOLEAN] /\ alone' \in [Daemons -> BOOLEAN]
                /\ steps' \in [Daemons -> Nat] /\ begun' \in [Daemons -> Nat]
                /\ queue' \in [Daemons -> Seq(Nat)] /\ \A d \in Daemons : Len(queue'[d]) <= QueueSize
                /\ job' \in [Daemons -> Jobs] /\ \A d \in Daemons : job'[d].at <= job'[d].frames
                /\ audio' \in [Daemons -> Seq(Chunks)]
                /\ sender' \in [pc : {"wait", "send", "failed"}, next : 1 .. Len(Messages) + 1]
                /\ drum' \in [pc : {"off", "run", "dead"}, at : Int, steps : Int, audio : Seq(Windows)]
<1> SUFFICES T
  BY DEF Types, TypeOK, Jobs
<1>1. CASE UNCHANGED vars
  BY <1>0, <1>1 DEF vars
<1>2. CASE Client
  <2>1. CASE SendWait
    BY <1>0, <2>1 DEF SendWait, daemonVars
  <2>2. CASE Send /\ path \notin Daemons
    BY <1>0, <2>2 DEF Send
  <2>3. CASE Send /\ path \in Daemons
    <3>1. /\ Len(queue[path]) < QueueSize
          /\ queue' = [queue EXCEPT ![path] = Append(@, sender.next)]
          /\ sender' = [sender EXCEPT !.next = @ + 1] /\ sender.next <= Len(Messages)
          /\ UNCHANGED <<pc, path, stop, job, steps, audio, begun, alone, drum>>
      BY <2>3 DEF Send
    <3>2. sender.next \in Nat /\ queue[path] \in Seq(Nat)
      BY <2>3, Known
    <3>3. /\ Append(queue[path], sender.next) \in Seq(Nat)
          /\ Len(Append(queue[path], sender.next)) <= QueueSize
      BY <3>1, <3>2, Appended, Positive
    <3>4. queue' \in [Daemons -> Seq(Nat)] /\ \A e \in Daemons : Len(queue'[e]) <= QueueSize
      BY <1>0, <2>3, <3>1, <3>3
    <3>5. sender' \in [pc : {"wait", "send", "failed"}, next : 1 .. Len(Messages) + 1]
      <4>1. sender.next + 1 \in 1 .. Len(Messages) + 1
        <5> DEFINE n == sender.next
                   m == Len(Messages)
        <5>1. n \in Nat /\ m \in Nat /\ n <= m
          BY <3>1, <3>2, Positive
        <5> HIDE DEF n, m
        <5>2. n + 1 \in 1 .. m + 1
          BY <5>1
        <5> QED BY <5>2 DEF n, m
      <4> DEFINE k == sender.next + 1
      <4>2. sender' = [sender EXCEPT !.next = k]
        BY <3>1
      <4>3. k \in 1 .. Len(Messages) + 1
        BY <4>1
      <4>4. sender \in [pc : {"wait", "send", "failed"}, next : 1 .. Len(Messages) + 1]
        BY <1>0
      <4> HIDE DEF k
      <4> QED BY <4>2, <4>3, <4>4, Counted
    <3> QED BY <1>0, <3>1, <3>4, <3>5
  <2> QED BY <1>2, <2>1, <2>2, <2>3 DEF Client
<1>3. CASE Drum
  <2>1. CASE DrumBegin \/ DrumEnd
    BY <1>0, <2>1 DEF DrumBegin, DrumEnd, daemonVars
  <2>2. CASE DrumChunk
    BY <1>0, <2>2, TypesDrum DEF DrumChunk, daemonVars, DrumType
  <2> QED BY <1>3, <2>1, <2>2 DEF Drum
<1>4. ASSUME NEW d \in Daemons, Launch(d) \/ Load(d) \/ Loop(d) \/ ReceiveTimeout(d) \/ HandleFails(d)
                                \/ Close(d) \/ Signal(d) \/ Unlink(d) \/ Bind(d)
      PROVE  T
  <2>1. /\ \/ pc' = pc
           \/ \E l \in Places : pc' = [pc EXCEPT ![d] = l]
        /\ path' \in {path, d, "none"}
        /\ stop' = stop \/ stop' = [stop EXCEPT ![d] = TRUE]
        /\ alone' = alone \/ alone' \in [Daemons -> BOOLEAN]
        /\ UNCHANGED <<queue, job, steps, audio, begun, sender, drum>>
    BY <1>4 DEF Launch, Load, Loop, ReceiveTimeout, HandleFails, Close, Signal, Unlink, Bind, Goto, Places
  <2>2. pc' \in [Daemons -> Places]
    <3>1. CASE pc' = pc
      BY <1>0, <3>1
    <3>2. ASSUME NEW l \in Places, pc' = [pc EXCEPT ![d] = l] PROVE pc' \in [Daemons -> Places]
      BY <1>0, <3>2
    <3> QED BY <2>1, <3>1, <3>2
  <2>5. path' \in Daemons \cup {"none", "stale"}
    BY <1>0, <2>1
  <2>3. stop' \in [Daemons -> BOOLEAN] /\ alone' \in [Daemons -> BOOLEAN]
    BY <1>0, <2>1
  <2>4. UNCHANGED <<queue, job, steps, audio, begun, sender, drum>>
    BY <2>1
  <2> QED BY <1>0, <2>2, <2>3, <2>4, <2>5
<1>5. ASSUME NEW d \in Daemons, Exit(d) \/ Kill(d) PROVE T
  <2>1. /\ \E l \in Places : pc' = [pc EXCEPT ![d] = l]
        /\ path' \in {path, "stale", "none"} /\ queue' = [queue EXCEPT ![d] = <<>>]
        /\ UNCHANGED <<stop, job, steps, audio, begun, alone, sender, drum>>
    BY <1>5 DEF Exit, Kill, Goto, Places
  <2>2. <<>> \in Seq(Nat) /\ Len(<<>>) <= QueueSize
    BY Positive
  <2>3. queue' \in [Daemons -> Seq(Nat)] /\ \A e \in Daemons : Len(queue'[e]) <= QueueSize
    BY <1>0, <2>1, <2>2
  <2> QED BY <1>0, <2>1, <2>3
<1>6. ASSUME NEW d \in Daemons, Handled(d) PROVE T
  <2>1. /\ pc' = [pc EXCEPT ![d] = "loop"] /\ steps' = [steps EXCEPT ![d] = @ + job[d].frames]
        /\ UNCHANGED <<path, queue, stop, job, audio, begun, alone, sender, drum>>
    BY <1>6 DEF Handled, Goto
  <2>2. steps[d] + job[d].frames \in Nat
    BY Known
  <2> QED BY <1>0, <2>1, <2>2 DEF Places
<1>7. ASSUME NEW d \in Daemons, Receive(d) PROVE T
  <2>1. QueueOrder(d)
    BY DEF Run
  <2>2. queue[d] # <<>> /\ queue' = [queue EXCEPT ![d] = Tail(@)]
    BY <1>7, <2>1, Received
  <2>3. queue[d] \in Seq(Nat) /\ Len(queue[d]) <= QueueSize
    BY Known
  <2>4. Tail(queue[d]) \in Seq(Nat) /\ Len(Tail(queue[d])) <= QueueSize
    BY <2>2, <2>3, Dropped, Positive
  <2>5. queue' \in [Daemons -> Seq(Nat)] /\ \A e \in Daemons : Len(queue'[e]) <= QueueSize
    BY <1>0, <2>2, <2>4
  <2>6. job' \in [Daemons -> Jobs] /\ \A e \in Daemons : job'[e].at <= job'[e].frames
    <3>1. JobOf(queue[d][1]) \in Jobs /\ JobOf(queue[d][1]).at <= JobOf(queue[d][1]).frames
      BY <1>7, <2>1, Received DEF JobOf
    <3>2. job' = [job EXCEPT ![d] = JobOf(queue[d][1])] \/ job' = job
      BY <1>7, <2>1, Received
    <3> DEFINE made == JobOf(queue[d][1])
    <3> HIDE DEF made
    <3>3. made \in Jobs /\ made.at <= made.frames
      BY <3>1 DEF made
    <3>4. CASE job' = job
      BY <1>0, <3>4
    <3>5. CASE job' = [job EXCEPT ![d] = made]
      <4>1. \A e \in Daemons : job'[e] = IF e = d THEN made ELSE job[e]
        BY <1>0, <3>5
      <4> QED BY <1>0, <3>3, <3>5, <4>1
    <3> QED BY <3>2, <3>4, <3>5 DEF made
  <2>7. begun' \in [Daemons -> Nat]
    <3>1. begun' = [begun EXCEPT ![d] = IF stop[d] THEN @ + 1 ELSE @] \/ begun' = begun
      BY <1>7, <2>1, Received
    <3>2. begun[d] + 1 \in Nat /\ begun[d] \in Nat
      BY Known
    <3> QED BY <1>0, <3>1, <3>2
  <2>8. pc' \in [Daemons -> Places] /\ UNCHANGED <<path, stop, steps, audio, alone, sender, drum>>
    BY <1>0, <1>7, <2>1, Received DEF Goto, Places
  <2> QED BY <1>0, <2>5, <2>6, <2>7, <2>8
<1>8. ASSUME NEW d \in Daemons, Chunk(d) PROVE T
  <2> DEFINE to == ChunkTo(job[d].at, job[d].frames)
  <2>1. to \in Nat /\ to <= job[d].frames
    BY <1>8, Known, ChunkGoes DEF Chunk
  <2>2. PICK ring \in {TRUE, ~stop[d]} :
          audio' = [audio EXCEPT ![d] = Append(@, [id |-> job[d].id, from |-> job[d].at, to |-> to,
                                                  step |-> steps[d] + job[d].at, ring |-> ring])]
    BY <1>8 DEF Chunk
  <2>3. /\ job' = [job EXCEPT ![d].at = to]
        /\ UNCHANGED <<pc, path, queue, stop, steps, begun, alone, sender, drum>>
    BY <1>8 DEF Chunk
  <2> HIDE DEF to
  <2> DEFINE c == [id |-> job[d].id, from |-> job[d].at, to |-> to, step |-> steps[d] + job[d].at, ring |-> ring]
  <2>4. c \in Chunks
    <3>1. steps[d] + job[d].at \in Nat
      BY Known
    <3>2. ring \in BOOLEAN
      BY Known
    <3> QED BY <2>1, <3>1, <3>2, Known DEF Chunks
  <2> HIDE DEF c
  <2>5. Append(audio[d], c) \in Seq(Chunks)
    BY <2>4, Known, Appended
  <2>6. audio' = [audio EXCEPT ![d] = Append(@, c)]
    BY <2>2 DEF c
  <2>7. audio' \in [Daemons -> Seq(Chunks)]
    BY <1>0, <2>5, <2>6
  <2>8. job' \in [Daemons -> Jobs] /\ \A e \in Daemons : job'[e].at <= job'[e].frames
    <3> DEFINE j == [job[d] EXCEPT !.at = to]
    <3>1. j \in Jobs /\ j.at <= j.frames
      <4>1. job[d] \in [id : Nat, at : Nat, frames : Nat]
        BY Known DEF Jobs
      <4>2. j.at = to /\ j.frames = job[d].frames
        BY <4>1
      <4> QED BY <2>1, <4>1, <4>2 DEF Jobs
    <3>2. job' = [job EXCEPT ![d] = j]
      BY <1>0, <2>3
    <3> HIDE DEF j
    <3>3. \A e \in Daemons : job'[e] = IF e = d THEN j ELSE job[e]
      BY <1>0, <3>2
    <3> QED BY <1>0, <3>1, <3>2, <3>3
  <2> QED BY <1>0, <2>3, <2>7, <2>8
<1> QED BY <1>1, <1>2, <1>3, <1>4, <1>5, <1>6, <1>7, <1>8 DEF Next, Daemon, Work

\* Run(d) is about the variables of d and what the client has sent.
LEMMA RunKept ==
  ASSUME Types, NEW d \in Daemons, Run(d), sender'.next \in Nat, sender'.next >= sender.next,
         pc'[d] = pc[d], queue'[d] = queue[d], job'[d] = job[d], steps'[d] = steps[d], audio'[d] = audio[d]
  PROVE  Run(d)'
<1>1. QueueOrder(d)'
  <2>1. /\ job[d].id < sender.next /\ \A i \in DOMAIN queue[d] : job[d].id < queue[d][i] /\ queue[d][i] < sender.next
        /\ \A i, j \in DOMAIN queue[d] : i < j => queue[d][i] < queue[d][j]
    BY DEF Run, QueueOrder
  <2>2. job[d].id \in Nat /\ sender.next \in Nat /\ queue[d] \in Seq(Nat)
    BY Known
  <2>3. \A i \in DOMAIN queue[d] : queue[d][i] \in Nat
    BY <2>2
  <2> QED BY <2>1, <2>2, <2>3 DEF QueueOrder
<1>2. JobKnown(d)' /\ GoesOn(d)' /\ Opening(d)' /\ Ordered(d)'
  BY DEF Run, JobKnown, GoesOn, Opening, Ordered, Last
<1> QED BY <1>1, <1>2 DEF Run

\* A step of another daemon leaves Run(d) alone.
LEMMA RunApart ==
  ASSUME Types, NEW d \in Daemons, Run(d), NEW e \in Daemons \ {d},
         Launch(e) \/ Work(e) \/ HandleFails(e) \/ Signal(e) \/ Kill(e)
  PROVE  Run(d)'
<1>0. /\ pc \in [Daemons -> Places] /\ queue \in [Daemons -> Seq(Nat)] /\ job \in [Daemons -> Jobs]
      /\ steps \in [Daemons -> Nat] /\ audio \in [Daemons -> Seq(Chunks)] /\ sender.next \in Nat
  BY Known DEF Types, TypeOK, Jobs
<1>1. pc'[d] = pc[d]
  BY <1>0 DEF Launch, Work, HandleFails, Signal, Kill, Load, Unlink, Bind, Loop, ReceiveTimeout, Receive,
     Chunk, Handled, Exit, Close, Goto
<1>2. queue'[d] = queue[d]
  BY <1>0 DEF Launch, Work, HandleFails, Signal, Kill, Load, Unlink, Bind, Loop, ReceiveTimeout, Receive,
     Chunk, Handled, Exit, Close, Goto
<1>3. job'[d] = job[d]
  BY <1>0 DEF Launch, Work, HandleFails, Signal, Kill, Load, Unlink, Bind, Loop, ReceiveTimeout, Receive,
     Chunk, Handled, Exit, Close, Goto
<1>4. steps'[d] = steps[d] /\ sender' = sender
  BY <1>0 DEF Launch, Work, HandleFails, Signal, Kill, Load, Unlink, Bind, Loop, ReceiveTimeout, Receive,
     Chunk, Handled, Exit, Close, Goto
<1>5. audio'[d] = audio[d]
  BY <1>0 DEF Launch, Work, HandleFails, Signal, Kill, Load, Unlink, Bind, Loop, ReceiveTimeout, Receive,
     Chunk, Handled, Exit, Close, Goto
<1> QED BY <1>0, <1>1, <1>2, <1>3, <1>4, <1>5, RunKept

LEMMA RunSent ==
  ASSUME Types, NEW d \in Daemons, Run(d), Client
  PROVE  Run(d)'
<1>0. /\ queue \in [Daemons -> Seq(Nat)] /\ queue[d] \in Seq(Nat) /\ sender.next \in Nat /\ job[d].id \in Nat
  BY Known DEF Types, TypeOK
<1>1. CASE SendWait
  <2>1. sender'.next = sender.next
    BY <1>1 DEF SendWait, Types, TypeOK
  <2> QED BY <1>0, <1>1, <2>1, RunKept DEF SendWait, daemonVars
<1>2. CASE Send /\ path # d
  <2>1. queue'[d] = queue[d] /\ sender'.next \in {sender.next, sender.next + 1}
    BY <1>0, <1>2 DEF Send, Types, TypeOK
  <2>2. UNCHANGED <<pc, job, steps, audio>>
    BY <1>2 DEF Send
  <2> QED BY <1>0, <2>1, <2>2, RunKept
<1>3. CASE Send /\ path = d
  <2>1. /\ queue'[d] = Append(queue[d], sender.next) /\ sender'.next = sender.next + 1
        /\ UNCHANGED <<pc, job, steps, audio>>
    BY <1>0, <1>3 DEF Send, Types, TypeOK
  <2>2. /\ job[d].id < sender.next
        /\ \A i \in DOMAIN queue[d] : job[d].id < queue[d][i] /\ queue[d][i] < sender.next
        /\ \A i, j \in DOMAIN queue[d] : i < j => queue[d][i] < queue[d][j]
    BY DEF Run, QueueOrder
  <2> DEFINE n == Len(queue[d])
  <2>3. /\ n \in Nat /\ DOMAIN queue[d] = 1 .. n /\ DOMAIN queue'[d] = 1 .. n + 1
        /\ queue'[d][n + 1] = sender.next /\ \A i \in 1 .. n : queue'[d][i] = queue[d][i] /\ queue[d][i] \in Nat
    BY <1>0, <2>1
  <2>4. QueueOrder(d)'
    <3>1. \A i \in 1 .. n : /\ job[d].id < queue'[d][i] /\ queue'[d][i] < sender.next
                             /\ queue'[d][i] \in Nat
      BY <2>2, <2>3
    <3>2. \A i \in 1 .. n + 1 : i \in 1 .. n \/ i = n + 1
      BY <2>3
    <3>3. \A i \in 1 .. n + 1 : job[d].id < queue'[d][i] /\ queue'[d][i] < sender.next + 1
      BY <1>0, <2>2, <2>3, <3>1, <3>2
    <3>4. \A i, j \in 1 .. n + 1 : i < j => queue'[d][i] < queue'[d][j]
      <4> SUFFICES ASSUME NEW i \in 1 .. n + 1, NEW j \in 1 .. n + 1, i < j
                   PROVE  queue'[d][i] < queue'[d][j]
        OBVIOUS
      <4>1. i \in 1 .. n
        BY <2>3
      <4>2. CASE j = n + 1
        BY <2>3, <3>1, <4>1, <4>2
      <4>3. CASE j \in 1 .. n
        BY <2>2, <2>3, <4>1, <4>3
      <4> QED BY <3>2, <4>2, <4>3
    <3>5. job[d].id < sender.next + 1
      BY <1>0, <2>2
    <3> QED BY <2>1, <2>3, <3>3, <3>4, <3>5 DEF QueueOrder
  <2>5. JobKnown(d)' /\ GoesOn(d)' /\ Opening(d)' /\ Ordered(d)'
    BY <2>1 DEF Run, JobKnown, GoesOn, Opening, Ordered, Last
  <2> QED BY <2>4, <2>5 DEF Run
<1> QED BY <1>1, <1>2, <1>3 DEF Client

\* The daemon's own steps that make nothing.
LEMMA RunMoves ==
  ASSUME Types, NEW d \in Daemons, Run(d),
         Launch(d) \/ Load(d) \/ Unlink(d) \/ Bind(d) \/ Loop(d) \/ ReceiveTimeout(d) \/ HandleFails(d)
           \/ Exit(d) \/ Close(d) \/ Signal(d) \/ Kill(d)
  PROVE  Run(d)'
<1>0. pc \in [Daemons -> Places] /\ queue \in [Daemons -> Seq(Nat)]
  BY DEF Types, TypeOK
<1>1. /\ UNCHANGED <<job, steps, audio, sender>>
      /\ queue'[d] = queue[d] \/ queue'[d] = <<>>
  BY <1>0 DEF Launch, Load, Unlink, Bind, Loop, ReceiveTimeout, HandleFails, Exit, Close, Signal, Kill
<1>2. /\ pc'[d] = "chunk" => pc[d] = "chunk"
      /\ pc'[d] \in Live => pc[d] \in Live \/ pc[d] = "bind"
      /\ pc'[d] \notin Live /\ pc'[d] \notin {"exit", "close", "dead"} =>
           pc[d] \notin Live /\ pc[d] \notin {"exit", "close", "dead"}
      /\ pc'[d] # pc[d] /\ pc'[d] \in Live => pc[d] # "chunk"
  BY <1>0 DEF Launch, Load, Unlink, Bind, Loop, ReceiveTimeout, HandleFails, Exit, Close, Signal, Kill, Goto, Live
<1>3. QueueOrder(d)' /\ Ordered(d)' /\ Opening(d)' /\ JobKnown(d)'
  BY <1>1, <1>2 DEF Run, QueueOrder, Ordered, Opening, JobKnown
<1>4. GoesOn(d)'
  <2>1. CASE pc[d] \in Live
    BY <1>1, <1>2, <2>1 DEF Run, GoesOn, Last
  <2>2. CASE pc[d] \notin Live
    BY <1>1, <1>2, <2>2 DEF Run, GoesOn, Opening, Live
  <2> QED BY <2>1, <2>2
<1> QED BY <1>3, <1>4 DEF Run

LEMMA RunReceives ==
  ASSUME Types, NEW d \in Daemons, Run(d), Receive(d)
  PROVE  Run(d)'
<1> DEFINE id == queue[d][1]
<1>1. /\ id \in Nat /\ id \in DOMAIN Messages /\ FramesOf(Messages[id]) \in Nat /\ JobOf(id) \in Jobs
      /\ pc[d] = "recv" /\ queue[d] # <<>> /\ queue' = [queue EXCEPT ![d] = Tail(@)]
      /\ \/ job' = [job EXCEPT ![d] = JobOf(id)] /\ Goto(d, "chunk")
         \/ job' = job /\ Goto(d, "exit")
      /\ UNCHANGED <<steps, audio, sender>>
  BY Received DEF Run
<1>2. /\ queue \in [Daemons -> Seq(Nat)] /\ queue[d] \in Seq(Nat) /\ job \in [Daemons -> Jobs]
      /\ pc \in [Daemons -> Places] /\ sender.next \in Nat /\ job[d].id \in Nat /\ audio[d] \in Seq(Chunks)
  BY Known DEF Types, TypeOK, Jobs
<1>3. /\ job[d].id < sender.next
      /\ \A i \in DOMAIN queue[d] : job[d].id < queue[d][i] /\ queue[d][i] < sender.next
      /\ \A i, j \in DOMAIN queue[d] : i < j => queue[d][i] < queue[d][j]
  BY DEF Run, QueueOrder
<1> DEFINE n == Len(queue[d])
<1>4. /\ n \in Nat \ {0} /\ DOMAIN queue[d] = 1 .. n /\ DOMAIN queue'[d] = 1 .. n - 1
      /\ \A i \in 1 .. n - 1 : queue'[d][i] = queue[d][i + 1]
      /\ \A i \in 1 .. n : queue[d][i] \in Nat
  BY <1>1, <1>2, Dropped, Element
<1>5. \A i \in 1 .. n - 1 : id < queue[d][i + 1]
  <2> SUFFICES ASSUME NEW i \in 1 .. n - 1 PROVE id < queue[d][i + 1]
    OBVIOUS
  <2>1. i + 1 \in 1 .. n /\ 1 \in 1 .. n /\ 1 < i + 1
    BY <1>4
  <2>2. i + 1 \in DOMAIN queue[d] /\ 1 \in DOMAIN queue[d]
    BY <1>4, <2>1
  <2> QED BY <1>3, <2>1, <2>2
<1>6. job'[d].id \in {job[d].id, id} /\ job[d].id < id /\ id < sender.next
  <2>1. JobOf(id).id = id
    BY DEF JobOf
  <2>2. job'[d] = JobOf(id) \/ job'[d] = job[d]
    BY <1>1, <1>2
  <2>3. 1 \in DOMAIN queue[d]
    BY <1>4
  <2> QED BY <1>3, <2>1, <2>2, <2>3
<1>7. QueueOrder(d)'
  <2>1. \A i \in 1 .. n - 1 : /\ i + 1 \in 1 .. n /\ queue[d][i + 1] \in Nat
                              /\ job'[d].id < queue[d][i + 1] /\ queue[d][i + 1] < sender.next
    <3> SUFFICES ASSUME NEW i \in 1 .. n - 1
                 PROVE  /\ i + 1 \in 1 .. n /\ queue[d][i + 1] \in Nat
                        /\ job'[d].id < queue[d][i + 1] /\ queue[d][i + 1] < sender.next
      OBVIOUS
    <3>1. i + 1 \in 1 .. n
      BY <1>4
    <3>2. queue[d][i + 1] \in Nat /\ queue[d][i + 1] < sender.next
      BY <1>3, <1>4, <3>1
    <3>3. job'[d].id < queue[d][i + 1]
      <4> DEFINE q == queue[d][i + 1]
      <4>1. q \in Nat /\ id < q /\ id \in Nat /\ job[d].id \in Nat /\ job[d].id < id
        BY <1>1, <1>2, <1>5, <1>6, <3>2
      <4>2. job'[d].id = job[d].id \/ job'[d].id = id
        BY <1>6
      <4> HIDE DEF q, id
      <4>3. job'[d].id < q
        BY <4>1, <4>2
      <4> QED BY <4>3 DEF q
    <3> QED BY <3>1, <3>2, <3>3
  <2>2. \A i, j \in 1 .. n - 1 : i < j => queue[d][i + 1] < queue[d][j + 1]
    <3> SUFFICES ASSUME NEW i \in 1 .. n - 1, NEW j \in 1 .. n - 1, i < j
                 PROVE  queue[d][i + 1] < queue[d][j + 1]
      OBVIOUS
    <3>1. i + 1 \in 1 .. n /\ j + 1 \in 1 .. n /\ i + 1 < j + 1
      BY <1>4
    <3> QED BY <1>3, <1>4, <3>1
  <2>3. job'[d].id < sender.next
    BY <1>3, <1>6
  <2>4. \A i \in DOMAIN queue'[d] : job'[d].id < queue'[d][i] /\ queue'[d][i] < sender.next
    BY <1>4, <2>1
  <2>5. \A i, j \in DOMAIN queue'[d] : i < j => queue'[d][i] < queue'[d][j]
    BY <1>4, <2>2
  <2>6. sender' = sender
    BY <1>1
  <2> QED BY <2>3, <2>4, <2>5, <2>6 DEF QueueOrder
<1>8. JobKnown(d)'
  BY <1>1, <1>2 DEF Goto, JobKnown, JobOf
<1>9. GoesOn(d)'
  <2>1. audio[d] # <<>> => /\ Last(d).id <= job[d].id /\ Last(d).to = FramesOf(Messages[Last(d).id])
                           /\ Last(d).step + (Last(d).to - Last(d).from) = steps[d]
    BY <1>1 DEF Run, GoesOn, Live
  <2>2. audio[d] # <<>> => Last(d).id \in Nat
    <3> SUFFICES ASSUME audio[d] # <<>> PROVE Last(d).id \in Nat
      OBVIOUS
    <3>1. Len(audio[d]) \in 1 .. Len(audio[d])
      BY <1>2
    <3>2. Last(d) \in Chunks
      BY <1>2, <3>1, Element DEF Last
    <3> QED BY <3>2 DEF Chunks
  <2>3. pc'[d] \in Live => pc'[d] = "chunk" /\ job'[d].at = 0 /\ job'[d].id = id
    BY <1>1, <1>2 DEF Goto, JobOf, Live
  <2>4. Last(d)' = Last(d) /\ audio' = audio /\ steps' = steps
    BY <1>1 DEF Last
  <2>5. audio[d] # <<>> => Last(d).id < id
    BY <1>1, <1>2, <1>6, <2>1, <2>2
  <2>6. audio[d] # <<>> => Last(d).id <= id
    BY <1>1, <2>2, <2>5
  <2> QED BY <2>1, <2>3, <2>4, <2>5, <2>6 DEF GoesOn
<1>10. Opening(d)' /\ Ordered(d)'
  <2>1. pc'[d] \in {"chunk", "exit"} /\ audio' = audio
    BY <1>1, <1>2 DEF Goto
  <2> QED BY <2>1 DEF Opening, Ordered, Run, Live
<1> QED BY <1>7, <1>8, <1>9, <1>10 DEF Run

\* One chunk: it goes on from the last one.
LEMMA RunChunks ==
  ASSUME Types, NEW d \in Daemons, Run(d), Chunk(d)
  PROVE  Run(d)'
<1> DEFINE to == ChunkTo(job[d].at, job[d].frames)
<1>1. /\ job[d].at \in Nat /\ job[d].frames \in Nat /\ job[d].id \in Nat /\ steps[d] \in Nat
      /\ audio[d] \in Seq(Chunks) /\ audio \in [Daemons -> Seq(Chunks)] /\ job \in [Daemons -> Jobs]
  BY Known DEF Types, Jobs
<1>2. to \in Nat /\ job[d].at < to /\ to <= job[d].frames
  BY <1>1, ChunkGoes DEF Chunk
<1>3. PICK ring \in {TRUE, ~stop[d]} :
        audio' = [audio EXCEPT ![d] = Append(@, [id |-> job[d].id, from |-> job[d].at, to |-> to,
                                                step |-> steps[d] + job[d].at, ring |-> ring])]
  BY DEF Chunk
<1>4. /\ pc[d] = "chunk" /\ job' = [job EXCEPT ![d].at = to]
      /\ UNCHANGED <<pc, queue, steps, sender>>
  BY DEF Chunk
<1> HIDE DEF to
<1> DEFINE c == [id |-> job[d].id, from |-> job[d].at, to |-> to, step |-> steps[d] + job[d].at, ring |-> ring]
           n == Len(audio[d])
<1>5. /\ c \in Chunks /\ c.id = job[d].id /\ c.from = job[d].at /\ c.to = to
      /\ c.step = steps[d] + job[d].at
  <2>1. steps[d] + job[d].at \in Nat
    BY <1>1
  <2>2. ring \in BOOLEAN
    BY Known
  <2> QED BY <1>1, <1>2, <2>1, <2>2 DEF Chunks
<1>6. audio'[d] = Append(audio[d], c)
  BY <1>1, <1>3
<1> HIDE DEF c
<1>7. /\ n \in Nat /\ Len(audio'[d]) = n + 1 /\ audio'[d] # <<>> /\ audio'[d][n + 1] = c
      /\ \A i \in 1 .. n : audio'[d][i] = audio[d][i]
  BY <1>1, <1>5, <1>6, Appended
<1>8. job'[d].id = job[d].id /\ job'[d].at = to /\ job'[d].frames = job[d].frames
  BY <1>1, <1>4 DEF Jobs
<1>9. QueueOrder(d)' /\ JobKnown(d)' /\ Opening(d)'
  BY <1>4, <1>8 DEF Run, QueueOrder, JobKnown, Opening, Live
<1>10. GoesOn(d)'
  <2>1. Last(d)' = c
    BY <1>7 DEF Last
  <2>2. c.step + (c.to - c.from) = steps[d] + to
    BY <1>1, <1>2, <1>5
  <2>3. to > 0
    BY <1>1, <1>2
  <2> QED BY <1>4, <1>5, <1>8, <2>1, <2>2, <2>3 DEF GoesOn
<1>11. Ordered(d)'
  <2> SUFFICES ASSUME NEW i \in 1 .. n PROVE Follows(audio'[d][i], audio'[d][i + 1])
    BY <1>7 DEF Ordered
  <2>1. CASE i < n
    <3>1. i + 1 \in 1 .. n /\ i \in 1 .. n - 1
      BY <1>7, <2>1
    <3>2. Follows(audio[d][i], audio[d][i + 1])
      BY <3>1 DEF Run, Ordered
    <3> QED BY <1>7, <3>1, <3>2
  <2>2. CASE i = n
    <3>1. audio'[d][i] = Last(d) /\ audio'[d][i + 1] = c /\ audio[d] # <<>>
      BY <1>1, <1>7, <2>2 DEF Last
    <3>2. \/ /\ job[d].at > 0 /\ Last(d).id = job[d].id /\ Last(d).to = job[d].at
             /\ Last(d).step + (Last(d).to - Last(d).from) = steps[d] + job[d].at
          \/ /\ job[d].at = 0 /\ Last(d).id < job[d].id /\ Last(d).to = FramesOf(Messages[Last(d).id])
             /\ Last(d).step + (Last(d).to - Last(d).from) = steps[d]
      BY <1>4, <3>1 DEF Run, GoesOn, Live
    <3> QED BY <1>1, <1>5, <3>1, <3>2 DEF Follows
  <2> QED BY <1>7, <2>1, <2>2
<1> QED BY <1>9, <1>10, <1>11 DEF Run

\* The message is done: the daemon's state has made its steps.
LEMMA RunHandled ==
  ASSUME Types, NEW d \in Daemons, Run(d), Handled(d)
  PROVE  Run(d)'
<1>1. /\ job[d].at \in Nat /\ steps \in [Daemons -> Nat] /\ steps[d] \in Nat /\ job[d].id \in Nat
      /\ pc \in [Daemons -> Places]
  BY Known DEF Types, TypeOK
<1>2. /\ pc[d] = "chunk" /\ job[d].at = job[d].frames
      /\ steps'[d] = steps[d] + job[d].frames /\ pc'[d] = "loop"
      /\ UNCHANGED <<queue, job, audio, sender>>
  BY <1>1 DEF Handled, Goto
<1>3. job[d].id \in DOMAIN Messages /\ job[d].frames = FramesOf(Messages[job[d].id])
  BY <1>2 DEF Run, JobKnown
<1>4. job[d].at > 0
  <2>1. Messages[job[d].id] \in MessageSet
    BY <1>3, MessageKnown
  <2>2. FramesOf(Messages[job[d].id]) \in 1 .. MaxFrames
    BY <2>1, FramesGiven DEF MessageSet
  <2> QED BY <1>2, <1>3, <2>2, Positive
<1>5. QueueOrder(d)' /\ JobKnown(d)' /\ Opening(d)' /\ Ordered(d)'
  BY <1>2 DEF Run, QueueOrder, JobKnown, Opening, Ordered, Live
<1>6. GoesOn(d)'
  <2> SUFFICES ASSUME audio[d] # <<>>
               PROVE  /\ Last(d).id <= job[d].id /\ Last(d).to = FramesOf(Messages[Last(d).id])
                      /\ Last(d).step + (Last(d).to - Last(d).from) = steps[d] + job[d].frames
    BY <1>2 DEF GoesOn, Last
  <2>1. /\ Last(d).id = job[d].id /\ Last(d).to = job[d].at
        /\ Last(d).step + (Last(d).to - Last(d).from) = steps[d] + job[d].at
    <3>1. ~(job[d].at = 0)
      BY <1>1, <1>4
    <3> QED BY <1>2, <3>1 DEF Run, GoesOn, Live
  <2> QED BY <1>1, <1>2, <1>3, <2>1
<1> QED BY <1>5, <1>6 DEF Run

LEMMA DrumStep == Types /\ DrumRun /\ [Next]_vars => DrumRun'
<1> SUFFICES ASSUME Types, DrumRun, [Next]_vars PROVE DrumRun'
  OBVIOUS
<1>0. /\ drum \in [pc : {"off", "run", "dead"}, at : Int, steps : Int, audio : Seq(Windows)]
      /\ drum.audio \in Seq(Windows) /\ drum.at \in Int
  BY DEF Types
<1>1. CASE DrumChunk
  <2>1. PICK to : drum' = [drum EXCEPT !.at = to, !.steps = @ + (to - drum.at),
                               !.audio = Append(@, [from |-> drum.at, to |-> to, step |-> drum.steps])]
    BY <1>1 DEF DrumChunk
  <2>2. to \in Int
    <3>1. drum' \in DrumType
      BY <1>0, <1>1, TypesDrum DEF DrumType
    <3> QED BY <1>0, <2>1, <3>1 DEF DrumType
  <2> DEFINE w == [from |-> drum.at, to |-> to, step |-> drum.steps]
             n == Len(drum.audio)
  <2>3. w \in Windows /\ w.from = drum.at /\ w.to = to /\ w.step = drum.at
    BY <1>0, <2>2 DEF Windows, DrumRun
  <2>4. drum'.at = to /\ drum'.steps = drum.steps + (to - drum.at) /\ drum'.audio = Append(drum.audio, w)
    BY <1>0, <2>1
  <2> HIDE DEF w
  <2>5. /\ n \in Nat /\ Len(drum'.audio) = n + 1 /\ drum'.audio # <<>> /\ drum'.audio[n + 1] = w
        /\ DOMAIN drum'.audio = 1 .. n + 1 /\ DOMAIN drum.audio = 1 .. n
        /\ \A i \in 1 .. n : drum'.audio[i] = drum.audio[i]
    BY <1>0, <2>3, <2>4, Appended
  <2>6. drum'.steps = drum'.at /\ drum'.at = drum'.audio[Len(drum'.audio)].to
    BY <1>0, <2>2, <2>3, <2>4, <2>5 DEF DrumRun
  <2>7. w.from = IF n + 1 = 1 THEN 0 ELSE drum'.audio[n + 1 - 1].to
    <3>1. CASE n = 0
      BY <1>0, <2>3, <3>1 DEF DrumRun
    <3>2. CASE n # 0
      <4>1. drum.audio # <<>> /\ n \in 1 .. n /\ n + 1 - 1 = n
        BY <2>5, <3>2
      <4> QED BY <2>3, <2>5, <3>2, <4>1 DEF DrumRun
    <3> QED BY <3>1, <3>2
  <2>8. \A i \in 1 .. n : drum'.audio[i].from = IF i = 1 THEN 0 ELSE drum'.audio[i - 1].to
    <3> SUFFICES ASSUME NEW i \in 1 .. n
                 PROVE  drum'.audio[i].from = IF i = 1 THEN 0 ELSE drum'.audio[i - 1].to
      OBVIOUS
    <3>1. i # 1 => i - 1 \in 1 .. n
      BY <2>5
    <3> QED BY <2>5, <3>1 DEF DrumRun, DrumWhole
  <2>9. \A i \in 1 .. n + 1 : i \in 1 .. n \/ i = n + 1
    BY <2>5
  <2>10. DrumWhole'
    <3>1. \A i \in 1 .. n + 1 : drum'.audio[i].from = IF i = 1 THEN 0 ELSE drum'.audio[i - 1].to
      BY <2>5, <2>7, <2>8, <2>9
    <3>2. \A i \in 1 .. n + 1 : drum'.audio[i].step = drum'.audio[i].from
      BY <2>3, <2>5, <2>9 DEF DrumRun, DrumWhole
    <3> QED BY <2>5, <3>1, <3>2 DEF DrumWhole
  <2> QED BY <2>5, <2>6, <2>10 DEF DrumRun
<1>2. CASE drum'.at = drum.at /\ drum'.steps = drum.steps /\ drum'.audio = drum.audio
  BY <1>2 DEF DrumRun, DrumWhole
<1>3. CASE DrumBegin \/ DrumEnd
  BY <1>0, <1>2, <1>3 DEF DrumBegin, DrumEnd
<1>4. CASE Daemon \/ Client \/ UNCHANGED vars
  <2>1. drum' = drum
    BY <1>4 DEF Daemon, Client, SendWait, Send, Launch, Work, HandleFails, Signal, Kill, Load, Unlink, Bind,
       Loop, ReceiveTimeout, Receive, Chunk, Handled, Exit, Close, vars
  <2> QED BY <1>2, <2>1
<1> QED BY <1>1, <1>3, <1>4 DEF Next, Drum

LEMMA RunStep == RunInv /\ [Next]_vars => RunInv'
<1> SUFFICES ASSUME RunInv, [Next]_vars PROVE RunInv'
  OBVIOUS
<1>1. Types /\ DrumRun /\ \A d \in Daemons : Run(d)
  BY DEF RunInv
<1>2. ASSUME NEW d \in Daemons PROVE Run(d)'
  <2>1. sender.next \in Nat
    BY <1>1, Known
  <2>2. CASE Drum \/ UNCHANGED vars
    <3>1. UNCHANGED <<pc, queue, job, steps, audio, sender>>
      BY <2>2 DEF Drum, DrumBegin, DrumChunk, DrumEnd, daemonVars, vars
    <3> QED BY <1>1, <2>1, <3>1, RunKept
  <2>3. CASE Client
    BY <1>1, <2>3, RunSent
  <2>4. ASSUME NEW e \in Daemons, Launch(e) \/ Work(e) \/ HandleFails(e) \/ Signal(e) \/ Kill(e)
        PROVE  Run(d)'
    <3>1. CASE e # d
      BY <1>1, <2>4, <3>1, RunApart
    <3>2. CASE e = d
      BY <1>1, <2>4, <3>2, RunMoves, RunReceives, RunChunks, RunHandled DEF Work
    <3> QED BY <3>1, <3>2
  <2> QED BY <2>2, <2>3, <2>4 DEF Next, Daemon
<1>3. Types' /\ DrumRun'
  BY <1>1, TypesStep, DrumStep
<1> QED BY <1>2, <1>3 DEF RunInv

LEMMA RunInit == Init => RunInv
<1> SUFFICES ASSUME Init PROVE RunInv
  OBVIOUS
<1>1. Types
  BY Positive DEF Init, Types, TypeOK, Places, NoJob
<1>2. \A d \in Daemons : Run(d)
  BY DEF Init, Run, QueueOrder, JobKnown, GoesOn, Opening, Ordered, NoJob, Live
<1>3. DrumRun
  BY DEF Init, DrumRun, DrumWhole
<1> QED BY <1>1, <1>2, <1>3 DEF RunInv

\* The audio of a daemon is one run of the model whatever messages, failures,
\* signals and other daemons it meets, each message has its window filled, and
\* drum-live plays its schedule once through.
THEOREM AudioRuns == Spec => []AudioIsOneRun
<1>1. RunInv => AudioIsOneRun
  <2> SUFFICES ASSUME RunInv PROVE AudioIsOneRun
    OBVIOUS
  <2>1. TypeOK /\ Types /\ DrumWhole /\ \A d \in Daemons : Run(d)
    BY DEF RunInv, Types, DrumRun
  <2>2. OneRun
    BY <2>1 DEF OneRun, Run, Ordered
  <2>3. WindowFilled
    <3> SUFFICES ASSUME NEW d \in Daemons, pc[d] = "chunk"
                 PROVE  \/ job[d].frames * TicksPerFrame >= Messages[job[d].id].ticks
                        \/ job[d].frames = MaxFrames
      BY DEF WindowFilled
    <3>1. job[d].id \in DOMAIN Messages /\ job[d].frames = FramesOf(Messages[job[d].id])
      BY <2>1 DEF Run, JobKnown
    <3>2. Messages[job[d].id] \in [ok : BOOLEAN, ticks : Int, events : Nat]
      BY <3>1, MessageKnown DEF MessageSet
    <3> QED BY <3>1, <3>2, FramesGiven
  <2> QED BY <2>1, <2>2, <2>3 DEF AudioIsOneRun
<1> QED BY <1>1, RunInit, RunStep, PTL DEF Spec
=============================================================================
