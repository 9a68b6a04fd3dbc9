----------------------------- MODULE Conditioning -----------------------------
(***************************************************************************)
(* aig_bridge.py and the arithmetic of midi_drums.py: from packets, events *)
(* or notes in time to the rows of tokens, one per frame, the model reads. *)
(* A time is a fraction; the code computes it in floating point, so where  *)
(* rounding decides at a boundary both outcomes are possible:              *)
(* 0.28 * 25 is 7.000000000000001, and its ceiling is 8.                   *)
(***************************************************************************)
EXTENDS Integers, FiniteSets, SequencesExt

FrameRate == 25
None == -1
AtLeast(x, low) == IF x < low THEN low ELSE x
AtMost(x, high) == IF x > high THEN high ELSE x

\* What math.ceil() and round() may make of the fraction n / d.
CeilingOf(n, d) ==
  IF n % d # 0 THEN {n \div d + 1} ELSE IF n = 0 THEN {0} ELSE {n \div d, n \div d + 1}
RoundingOf(n, d) ==
  LET down == n \div d
      twice == 2 * (n % d)
  IN IF twice < d THEN {down} ELSE IF twice > d THEN {down + 1} ELSE {down, down + 1}

\* A span is a pitch (or None) and its frames from, from + 1, .., to - 1;
\* start and end are times in units of which d make a second.
Span(pitch, from, to) == [pitch |-> pitch, from |-> from, to |-> AtLeast(to, from + 1)]
SpansOf(pitch, start, end, d) ==
  {Span(pitch, s, e) : s \in RoundingOf(start * FrameRate, d), e \in CeilingOf(end * FrameRate, d)}
Capped(frames, cap) == IF cap = None THEN AtLeast(frames, 1) ELSE AtMost(AtLeast(frames, 1), cap)
TotalFrames(last, tail, cap, d) ==
  {Capped(f, cap) : f \in CeilingOf((last + tail * d) * FrameRate, d)}

PitchForPacket(packet) ==
  CASE packet.role = "kick" -> 36
    [] packet.role = "snare" -> 38
    [] packet.role = "hat" -> (CASE packet.kind = "choke" -> 44 [] packet.kind = "open" -> 46 [] OTHER -> 42)
    [] OTHER -> None

--------------------------------------------------------------------------------

EmptySchedule(frames, Pitches) ==
  [frames |-> frames, notes |-> [f \in 0 .. frames - 1 |-> [p \in Pitches |-> 0]],
   drums |-> [f \in 0 .. frames - 1 |-> 0], reports |-> <<>>]
\* Mutant: a sustained frame is written over an onset.
MarkOver(row, span, f) == [row EXCEPT ![span.pitch] = IF f = span.from THEN 2 ELSE 1]
Mark(row, span, f) == [row EXCEPT ![span.pitch] = IF f = span.from THEN 2 ELSE AtLeast(@, 1)]
\* A span that starts after the last frame is left out, one that ends after it
\* is cut.
Placed(schedule, span) ==
  [schedule EXCEPT
     !.notes = [f \in DOMAIN @ |-> IF f \in span.from .. span.to - 1 THEN Mark(@[f], span, f) ELSE @[f]],
     !.drums = [f \in DOMAIN @ |-> IF f \in span.from .. span.to - 1 THEN 1 ELSE @[f]],
     !.reports = Append(@, span)]
PlaceSpan(schedule, span) ==
  IF span.pitch = None \/ span.from >= schedule.frames THEN schedule
  ELSE Placed(schedule, [span EXCEPT !.to = AtMost(@, schedule.frames)])
PlaceSpans(frames, spans) ==
  LET after[n \in 0 .. Len(spans)] ==
        IF n = 0 THEN EmptySchedule(frames, {s.pitch : s \in ToSet(spans)} \ {None})
        ELSE PlaceSpan(after[n - 1], spans[n])
  IN after[Len(spans)]

\* Every choice of one element from each set of the sequence.
OneMore(chosen, set) == {Append(c, x) : c \in chosen, x \in set}
OneOfEach(sets) ==
  LET chosen[n \in 0 .. Len(sets)] == IF n = 0 THEN {<<>>} ELSE OneMore(chosen[n - 1], sets[n])
  IN chosen[Len(sets)]
Schedules(lengths, sets) == {PlaceSpans(frames, spans) : frames \in lengths, spans \in OneOfEach(sets)}
\* The elements of s at the places in keep.
Kept(s, keep) ==
  LET kept[n \in 0 .. Len(s)] ==
        IF n = 0 THEN <<>> ELSE IF n \in keep THEN Append(kept[n - 1], s[n]) ELSE kept[n - 1]
  IN kept[Len(s)]
LastOf(ends) == Max({0} \cup ends)

\* build_conditioning_schedule(): packets [role, kind, start, duration] in
\* samples, rate of them a second.
PacketEnd(p) == p.start + AtLeast(p.duration, 1)
PacketSpans(p, rate) == SpansOf(PitchForPacket(p), p.start, PacketEnd(p), rate)
BuildConditioningSchedule(packets, rate, tail, cap) ==
  Schedules(TotalFrames(LastOf({PacketEnd(p) : p \in ToSet(packets)}), tail, cap, rate),
            [i \in DOMAIN packets |-> PacketSpans(packets[i], rate)])

\* build_conditioning_schedule_from_pc4ms_adg_events(): start is a tick, with a
\* micro offset to be added; rate ticks a second.
EventStart(e) == AtLeast(e.start + e.micro, 0)
EventEnd(e) == e.start + e.micro + AtLeast(e.duration, 1)
EventSpans(e, rate) ==
  SpansOf(PitchForPacket(e), EventStart(e), AtLeast(EventEnd(e), EventStart(e) + 1), rate)
BuildFromAdgEvents(events, rate, tail, cap) ==
  Schedules(TotalFrames(LastOf({EventEnd(e) : e \in ToSet(events)}), tail, cap, rate),
            [i \in DOMAIN events |-> EventSpans(events[i], rate)])

\* A window: the frames start, .., end - 1 as far as there are any, and the
\* reports of what sounds in them.
Overlapping(reports, start, end) == {i \in DOMAIN reports : reports[i].from < end /\ reports[i].to > start}
WindowOf(schedule, start, end) ==
  LET last == AtMost(end, schedule.frames) IN
  [frames |-> last - start,
   notes |-> [f \in 0 .. last - start - 1 |-> schedule.notes[start + f]],
   drums |-> [f \in 0 .. last - start - 1 |-> schedule.drums[start + f]],
   reports |-> Kept(schedule.reports, Overlapping(schedule.reports, start, end))]

--------------------------------------------------------------------------------
(* Tempo maps: tempos [tick, tempo], tempo in milliseconds for a beat. A   *)
(* time is in milliseconds times the ticks of a beat.                      *)

DefaultTempo == 500
\* _normalize_tempos(): from each of its ticks on, the tempo in force; of
\* several at one tick the last one read counts.
ReadAt(tempos, tick) == {i \in DOMAIN tempos : tempos[i].tick = tick}
TempoFrom(tempos, tick) ==
  IF ReadAt(tempos, tick) = {} THEN DefaultTempo ELSE tempos[Max(ReadAt(tempos, tick))].tempo
NormalizeTempos(tempos) == [tick \in {0} \cup {tempos[i].tick : i \in DOMAIN tempos} |-> TempoFrom(tempos, tick)]
\* tick_to_seconds(): the loop stops at the first event that is not before the
\* tick.
Elapsed(map, before) ==
  LET elapsed[e \in before] ==
        IF e = 0 THEN 0
        ELSE LET current == Max({c \in before : c < e}) IN elapsed[current] + (e - current) * map[current]
  IN elapsed[Max(before)]
TimeOn(map, tick) ==
  LET before == {0} \cup {e \in DOMAIN map : e < tick}
  IN Elapsed(map, before) + (tick - Max(before)) * map[Max(before)]
TickTime(tick, tempos) == TimeOn(NormalizeTempos(tempos), AtLeast(tick, 0))

\* build_conditioning_schedule_from_midi_drums(): a take [notes, tempos, last,
\* perBeat], its notes [start, end, pitch]; At[tick] is the time of a tick.
NoteSpans(n, At, base, d) ==
  LET start == AtLeast(At[n.start] - base, 0)
      least == At[n.start + 1] - At[n.start]
  IN SpansOf(n.pitch, start, AtLeast(At[n.end] - base, start + least), d)
FromBase(take, At, base, tail, cap) ==
  LET d == 1000 * take.perBeat IN
  Schedules(TotalFrames(AtLeast(At[take.last] - base, 0), tail, cap, d),
            [i \in DOMAIN take.notes |-> NoteSpans(take.notes[i], At, base, d)])
FirstNoteTick(notes) == IF notes = <<>> THEN 0 ELSE Min({n.start : n \in ToSet(notes)})
FromTimes(take, At, tail, cap, trim) ==
  FromBase(take, At, IF trim THEN At[FirstNoteTick(take.notes)] ELSE 0, tail, cap)
TicksOf(take) == {0, take.last} \cup UNION {{n.start, n.start + 1, n.end} : n \in ToSet(take.notes)}
BuildFromMidiDrums(take, tail, cap, trim) ==
  FromTimes(take, [tick \in TicksOf(take) |-> TickTime(tick, take.tempos)], tail, cap, trim)
================================================================================
