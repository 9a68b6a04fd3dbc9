------------------------------- MODULE MidiDrums ------------------------------
(***************************************************************************)
(* midi_drums.py: the reader of a MIDI file, one event a step, its drum    *)
(* take and the conditioning made of it; and the conditioning aig_bridge   *)
(* makes of packets and of ADG events.                                     *)
(***************************************************************************)
EXTENDS Conditioning

CONSTANTS Tracks,      \* tracks of the file
          MaxEvents,   \* bound: events of a file
          Deltas,      \* ticks between two events
          Keys,        \* pitches
          Channels,    \* channels; Selected is the one that is kept
          Selected,
          TempoSet,    \* tempos, in milliseconds for a beat
          PerBeat,     \* ticks of a beat
          Limits,      \* pairs <<tail in seconds, max_frames or None>>
          Packets,     \* sequences of packets for the bridge
          Rate         \* their samples, or ticks, a second
ASSUME DrumAssumption ==
  /\ Selected \in Channels /\ Tracks \in Nat \ {0} /\ PerBeat \in Nat \ {0} /\ MaxEvents \in Nat
  /\ Deltas \subseteq Nat /\ TempoSet \subseteq Nat
  /\ Keys \subseteq Nat /\ IsFiniteSet(Keys)
  /\ Rate \in Nat /\ Rate > 1
  /\ \A limit \in Limits : limit[1] \in Nat /\ limit[2] \in {None} \cup (Nat \ {0})
  /\ \A packets \in Packets :
       /\ packets \in Seq(ToSet(packets))
       /\ \A i \in DOMAIN packets : packets[i].start \in Nat /\ {packets[i].micro, packets[i].duration} \subseteq Int

VARIABLES phase,      \* "track", "take", "schedule", "error"
          track,      \* the track being read
          tick, running, active,   \* locals of _parse_track()
          notes, tempos, last,     \* what load_midi_drum_take() gathers
          onsets,     \* history: the onsets of the selected channel
          events,     \* events read, bounded by MaxEvents
          made        \* [take or source, cap, schedule], or NotMade
drumVars == <<phase, track, tick, running, active, notes, tempos, last, onsets, events, made>>

NoRunning == [type |-> "none", channel |-> None]
NotMade == [source |-> "none"]
DrumInit ==
  /\ phase = "track" /\ track = 1 /\ tick = 0 /\ running = NoRunning
  /\ active = [k \in Keys |-> <<>>]
  /\ notes = <<>> /\ tempos = <<>> /\ last = 0 /\ onsets = <<>> /\ events = 0 /\ made = NotMade

Reading(delta) == phase = "track" /\ events < MaxEvents /\ events' = events + 1 /\ tick' = tick + delta
Note(start, end, pitch, velocity) ==
  [start |-> start, end |-> AtLeast(end, start + 1), pitch |-> pitch, velocity |-> velocity, track |-> track]

\* _handle_note_event(): a note-on opens a note, whatever is open already; a
\* note-off, or a note-on without velocity, closes the one opened first.
HandleNoteEvent(type, pitch, velocity, now) ==
  IF type = "on" /\ velocity > 0
  THEN /\ active' = [active EXCEPT ![pitch] = Append(@, [start |-> now, velocity |-> velocity])]
       /\ onsets' = Append(onsets, [pitch |-> pitch, start |-> now, track |-> track])
       /\ notes' = notes
  ELSE /\ active' = [active EXCEPT ![pitch] = IF @ = <<>> THEN @ ELSE Tail(@)]
       /\ notes' = IF active[pitch] = <<>> THEN notes
                   ELSE Append(notes, Note(active[pitch][1].start, now, pitch, active[pitch][1].velocity))
       /\ onsets' = onsets
Status == [type : {"on", "off", "program"}, channel : Channels]
\* One channel message after its status: only notes of the selected channel
\* count.
Message(status, delta, pitch, velocity) ==
  /\ IF status.type # "program" /\ status.channel = Selected
     THEN HandleNoteEvent(status.type, pitch, velocity, tick + delta)
     ELSE UNCHANGED <<notes, active, onsets>>
  /\ UNCHANGED <<phase, track, tempos, last, made>>
ReadMessage(delta, status, pitch, velocity) ==
  Reading(delta) /\ running' = status /\ Message(status, delta, pitch, velocity)
\* A data byte where a status is due: the last status again.
ReadRunning(delta, pitch, velocity) ==
  Reading(delta) /\ running # NoRunning /\ UNCHANGED running /\ Message(running, delta, pitch, velocity)
NoStatus ==
  phase = "track" /\ running = NoRunning /\ events < MaxEvents
  /\ phase' = "error" /\ UNCHANGED <<track, tick, running, active, notes, tempos, last, onsets, events, made>>
\* Meta and exclusive events leave the running status alone.
ReadTempo(delta, tempo) ==
  /\ Reading(delta) /\ tempos' = Append(tempos, [tick |-> tick + delta, tempo |-> tempo])
  /\ UNCHANGED <<phase, track, running, active, notes, last, onsets, made>>
ReadOther(delta) ==
  Reading(delta) /\ UNCHANGED <<phase, track, running, active, notes, tempos, last, onsets, made>>

\* The elements of a finite set in the strict order R, a set of pairs.
InOrder(S, R) ==
  CHOOSE s \in [1 .. Cardinality(S) -> S] :
    \A i, j \in 1 .. Cardinality(S) : i < j => <<s[i], s[j]>> \in R
\* The notes still open are closed at the end of the track. Their pitches come
\* in any order: the sort of the take undoes it.
OpenAt(k) == {<<k, i>> : i \in DOMAIN active[k]}
Open == UNION {OpenAt(k) : k \in Keys}
Before(a, b) == a[1] < b[1] \/ (a[1] = b[1] /\ a[2] < b[2])
OpenOrder == {p \in Open \X Open : Before(p[1], p[2])}
Closed(k, i) == Note(active[k][i].start, tick, k, active[k][i].velocity)
Hanging == [n \in 1 .. Cardinality(Open) |-> Closed(InOrder(Open, OpenOrder)[n][1], InOrder(Open, OpenOrder)[n][2])]
EndTrack ==
  /\ phase = "track"
  /\ notes' = notes \o Hanging /\ last' = AtLeast(tick, last)
  /\ active' = [k \in Keys |-> <<>>] /\ tick' = 0 /\ running' = NoRunning
  /\ track' = track + 1 /\ phase' = IF track = Tracks THEN "take" ELSE "track"
  /\ UNCHANGED <<tempos, onsets, events, made>>

\* Mutant: the take ends with the longest track.
LastTickOfTracks(ns, end) == end
LastTick(ns, end) == Max({end} \cup {ns[i].end : i \in DOMAIN ns})
\* notes.sort(): by start, pitch and track; equal notes stay as they were read.
SameKey(a, b) == a.start = b.start /\ a.pitch = b.pitch
Sooner(ns, i, j) ==
  \/ ns[i].start < ns[j].start
  \/ ns[i].start = ns[j].start /\ ns[i].pitch < ns[j].pitch
  \/ SameKey(ns[i], ns[j]) /\ ns[i].track < ns[j].track
  \/ SameKey(ns[i], ns[j]) /\ ns[i].track = ns[j].track /\ i < j
SoonerPairs(ns) == {p \in (DOMAIN ns) \X (DOMAIN ns) : Sooner(ns, p[1], p[2])}
ByStart(ns) == [n \in 1 .. Len(ns) |-> ns[InOrder(DOMAIN ns, SoonerPairs(ns))[n]]]
FinishTake ==
  /\ phase = "take" /\ phase' = "schedule"
  /\ notes' = ByStart(notes) /\ last' = LastTick(notes, last)
  /\ UNCHANGED <<track, tick, running, active, tempos, onsets, events, made>>

MidiTake == [notes |-> notes, tempos |-> tempos, last |-> last, perBeat |-> PerBeat]
BuildMidi ==
  /\ phase = "schedule" /\ made = NotMade
  /\ \E limit \in Limits, trim \in BOOLEAN :
       \E s \in BuildFromMidiDrums(MidiTake, limit[1], limit[2], trim) :
         made' = [source |-> "midi", trim |-> trim, limit |-> limit, schedule |-> s]
  /\ UNCHANGED <<phase, track, tick, running, active, notes, tempos, last, onsets, events>>
BuildBridge ==
  /\ events = 0 /\ track = 1 /\ phase = "track" /\ phase' = "schedule"
  /\ \E p \in Packets, limit \in Limits :
       \/ \E s \in BuildConditioningSchedule(p, Rate, limit[1], limit[2]) :
            made' = [source |-> "packets", packets |-> p, limit |-> limit, schedule |-> s]
       \/ \E s \in BuildFromAdgEvents(p, Rate, limit[1], limit[2]) :
            made' = [source |-> "events", packets |-> p, limit |-> limit, schedule |-> s]
  /\ UNCHANGED <<track, tick, running, active, notes, tempos, last, onsets, events>>

DrumNext ==
  \/ \E d \in Deltas, k \in Keys, v \in {0, 1} :
       (\E s \in Status : ReadMessage(d, s, k, v)) \/ ReadRunning(d, k, v)
  \/ NoStatus
  \/ \E d \in Deltas, b \in TempoSet : ReadTempo(d, b)
  \/ \E d \in Deltas : ReadOther(d)
  \/ EndTrack \/ FinishTake \/ BuildMidi \/ BuildBridge
DrumSpec == DrumInit /\ [][DrumNext]_drumVars

--------------------------------------------------------------------------------

\* Types of the reader's state.
DrumTypeOK ==
  /\ phase \in {"track", "take", "schedule", "error"}
  /\ track \in 1 .. Tracks + 1 /\ events \in 0 .. MaxEvents /\ tick \in Nat
  /\ running \in Status \cup {NoRunning}
  /\ DOMAIN active = Keys
  /\ \A i \in DOMAIN notes : notes[i].start < notes[i].end /\ notes[i].pitch \in Keys
  /\ made # NotMade => made.limit \in Limits

\* Every onset of the selected channel becomes one note of its pitch and track,
\* or is still open, and of two notes of one key the one that started first
\* ends first: _handle_note_event() and the closing of hanging notes.
NotesPaired ==
  /\ Len(onsets) = Len(notes) + Cardinality(Open)
  /\ \A i, j \in DOMAIN notes :
       notes[i].pitch = notes[j].pitch /\ notes[i].track = notes[j].track /\ notes[i].start < notes[j].start
       => notes[i].end <= notes[j].end

\* The take ends no earlier than its last note, a note that was closed at the
\* end of its track included: last_tick of load_midi_drum_take(), on which the
\* length of the schedule depends.
TakeHoldsNotes == phase = "schedule" /\ made = NotMade => \A i \in DOMAIN notes : notes[i].end <= last

\* The time of a tick is the sum, over the ticks before it, of the tempo in
\* force: tick_to_seconds() on a map gathered from several tracks, in any order.
UpTo(t) == {i \in DOMAIN tempos : tempos[i].tick <= t}
Latest(t) == {i \in UpTo(t) : \A j \in UpTo(t) : tempos[j].tick <= tempos[i].tick}
TempoAt(t) == IF UpTo(t) = {} THEN DefaultTempo ELSE tempos[Max(Latest(t))].tempo
TimeOf(t) ==
  LET sum[u \in 0 .. t] == IF u = 0 THEN 0 ELSE sum[u - 1] + TempoAt(u - 1)
  IN sum[t]
TempoExact == phase = "schedule" /\ made = NotMade => \A t \in 0 .. last + 1 : TickTime(t, tempos) = TimeOf(t)

\* A frame has an onset where a mapped note begins, sustains where one sounds
\* and none begins, and the drum lane follows: the three loops that place notes
\* one after the other give what does not depend on their order.
TokensOfNotes ==
  made # NotMade =>
    LET r == ToSet(made.schedule.reports) IN
    \A f \in DOMAIN made.schedule.notes :
      /\ \A p \in DOMAIN made.schedule.notes[f] :
           made.schedule.notes[f][p] =
             IF \E n \in r : n.pitch = p /\ n.from = f THEN 2
             ELSE IF \E n \in r : n.pitch = p /\ n.from < f /\ f < n.to THEN 1 ELSE 0
      /\ made.schedule.drums[f] = IF \E n \in r : n.from <= f /\ f < n.to THEN 1 ELSE 0

\* What was asked for, in units of which Unit make a second: [start, end]; a
\* packet lasts a unit at least.
Unit == IF made.source = "midi" THEN 1000 * PerBeat ELSE Rate
AskedOfNote(n) ==
  LET base == IF made.trim /\ notes # <<>> THEN TimeOf(Min({notes[i].start : i \in DOMAIN notes})) ELSE 0
  IN [start |-> TimeOf(n.start) - base, end |-> TimeOf(n.end) - base]
AskedOfPacket(p) ==
  LET asked == p.start + IF made.source = "events" THEN p.micro ELSE 0
      start == AtLeast(asked, 0)
  IN [start |-> start, end |-> AtLeast(asked + p.duration, start + 1)]
Mapped(packets) == Kept(packets, {i \in DOMAIN packets : PitchForPacket(packets[i]) # None})
Asked ==
  IF made.source = "midi" THEN [i \in DOMAIN notes |-> AskedOfNote(notes[i])]
  ELSE LET mapped == Mapped(made.packets) IN [i \in DOMAIN mapped |-> AskedOfPacket(mapped[i])]
\* With a tail and no limit on the frames every mapped note is placed, begins
\* within half a frame of its time and lasts until its end, for a frame more at
\* most: the rounding of the start and of the end, and the length they must fit.
NotesOnTime ==
  made # NotMade /\ made.limit[2] = None /\ made.limit[1] > 0 =>
    /\ Len(made.schedule.reports) = Len(Asked)
    /\ \A i \in DOMAIN Asked :
         LET r == made.schedule.reports[i]
             late == 2 * (r.from * Unit - Asked[i].start * FrameRate)
         IN /\ late <= Unit /\ late >= -Unit
            /\ r.to * Unit >= Asked[i].end * FrameRate
            /\ r.to * Unit <= Asked[i].end * FrameRate + Unit \/ r.to = r.from + 1

\* Windows one after the other give the frames of the whole, and each report is
\* in the windows its notes sound in: window_conditioning_schedule() of both
\* files, as drum-live calls it.
WindowTrue(s, from, window) ==
  LET sounding == ToSet(window.reports) IN
  \A f \in 0 .. window.frames - 1 :
    /\ window.notes[f] = s.notes[from + f]
    /\ (window.drums[f] = 1) <=> \E r \in sounding : r.from <= from + f /\ from + f < r.to
WindowsTile ==
  made # NotMade =>
    \A w \in 1 .. 3 : \A i \in 0 .. (made.schedule.frames - 1) \div w :
      \A window \in {WindowOf(made.schedule, i * w, (i + 1) * w)} :
        /\ window.frames = AtMost(w, made.schedule.frames - i * w)
        /\ WindowTrue(made.schedule, i * w, window)

\* What is read of a file is what is in it.
TakeExact == DrumTypeOK /\ NotesPaired /\ TakeHoldsNotes /\ TempoExact
\* What the model hears of a take, a gesture or a document is what it says.
ScheduleHeard == TokensOfNotes /\ NotesOnTime /\ WindowsTile
================================================================================
