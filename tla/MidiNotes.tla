----------------------------- MODULE MidiNotes -----------------------------
(***************************************************************************)
(* core/src/midi_note_tracker.cpp, the note gate of RealtimeRunner's         *)
(* set_note_on/set_note_off and the condition tokens that mlx_engine.cpp      *)
(* makes of the notes once per frame.                                        *)
(*                                                                          *)
(* Threads that play notes (the audio callback's MIDI events, the on-screen   *)
(* keyboard, a MIDI input) call set_note_on and set_note_off; the inference   *)
(* thread evaluates every pitch once per frame.  Each atomic access is a      *)
(* step.  A compare-exchange that fails spuriously leaves everything as it    *)
(* was: a stutter.                                                           *)
(***************************************************************************)
EXTENDS Integers, FiniteSets

CONSTANTS Players,     \* the threads that play notes
          NumPitches,  \* the pitches 0 .. NumPitches-1 of the keyboard
          Widths,      \* the values of unmask_width_
          OnsetModes   \* the values of onset_mode_

ASSUME MidiAssumption ==
  /\ IsFiniteSet(Players) /\ NumPitches \in Nat \ {0}
  /\ Widths \subseteq Nat /\ OnsetModes \subseteq {0, 1}

VARIABLES
  note,     \* MidiNoteTracker::note_states_
  gate,     \* RealtimeRunner::note_states_
  count,    \* active_note_count_
  player,   \* where each player is inside set_note_on or set_note_off
  frame,    \* the pitch the inference thread evaluates and what it has loaded
  observed, \* what evaluateAndUpdate() returned for the pitches of this frame
  down,     \* history: the last call for the pitch was a note-on
  fresh,    \* history: a note-on that no frame has observed yet
  heard,    \* history: the pitches whose note-on this frame observed
  mixed     \* history: two players have been in calls for the pitch at once

vars == <<note, gate, count, player, frame, observed, down, fresh, heard, mixed>>
histories == <<down, fresh, heard, mixed>>

Pitches == 0..(NumPitches - 1)
NoteStates == {"IDLE", "ONSET", "SUSTAIN", "ONSET_RELEASED"}
Onsets == {"ONSET", "ONSET_RELEASED"}
Held == {"ONSET", "SUSTAIN"}

-----------------------------------------------------------------------------
(* The transitions of the tracker. *)

\* Mutant: a note released before its frame is forgotten.
ReleasedUnlatched(state) == IF state \in Held THEN "IDLE" ELSE state

\* noteOff(): an onset no frame has seen is latched.
Released(state) ==
  CASE state = "ONSET" -> "ONSET_RELEASED"
    [] state = "SUSTAIN" -> "IDLE"
    [] OTHER -> state

\* evaluateAndUpdate(): an onset is seen once.
Advanced(state) ==
  CASE state = "ONSET" -> "SUSTAIN"
    [] state = "ONSET_RELEASED" -> "IDLE"
    [] OTHER -> state

-----------------------------------------------------------------------------
(* The players: set_note_on and set_note_off of the runner. *)

IdlePlayer == [pc |-> "idle", pitch |-> 0, expected |-> "IDLE"]
Busy(p) == {q \in Players : player[q].pc # "idle" /\ player[q].pitch = p}

Step(t, pc) == player' = [player EXCEPT ![t] = IF pc = "idle" THEN IdlePlayer
                                                ELSE [@ EXCEPT !.pc = pc]]

\* The tracker first: a store.
NoteOn(t, p) ==
  /\ player[t].pc = "idle"
  /\ note' = [note EXCEPT ![p] = "ONSET"]
  /\ player' = [player EXCEPT ![t] = [pc |-> "gateOn", pitch |-> p, expected |-> "IDLE"]]
  /\ down' = [down EXCEPT ![p] = TRUE]
  /\ fresh' = [fresh EXCEPT ![p] = TRUE]
  /\ mixed' = [mixed EXCEPT ![p] = @ \/ Busy(p) # {}]
  /\ UNCHANGED <<gate, count, frame, observed, heard>>

GateOn(t) ==
  /\ player[t].pc = "gateOn"
  /\ gate' = [gate EXCEPT ![player[t].pitch] = TRUE]
  /\ Step(t, IF gate[player[t].pitch] THEN "idle" ELSE "add")
  /\ UNCHANGED <<note, count, frame, observed, histories>>

Add(t) ==
  /\ player[t].pc = "add"
  /\ count' = count + 1
  /\ Step(t, "idle")
  /\ UNCHANGED <<note, gate, frame, observed, histories>>

\* noteOff() loads the state; with nothing to release it is done.
NoteOff(t, p) ==
  /\ player[t].pc = "idle"
  /\ player' = [player EXCEPT ![t] =
        [pc |-> IF note[p] \in Held THEN "release" ELSE "gateOff",
         pitch |-> p, expected |-> note[p]]]
  /\ mixed' = [mixed EXCEPT ![p] = @ \/ Busy(p) # {}]
  /\ UNCHANGED <<note, gate, count, frame, observed, down, fresh, heard>>

\* Mutant: a latched release returns from the call.
ReleaseReturning(t) ==
  LET p == player[t].pitch
  IN /\ player[t].pc = "release"
     /\ IF note[p] = player[t].expected
        THEN /\ note' = [note EXCEPT ![p] = Released(note[p])]
             /\ down' = [down EXCEPT ![p] = FALSE]
             /\ Step(t, IF note[p] = "ONSET" THEN "idle" ELSE "gateOff")
        ELSE /\ player' = [player EXCEPT ![t].expected = note[p],
                             ![t].pc = IF note[p] \in Held THEN "release" ELSE "gateOff"]
             /\ UNCHANGED <<note, down>>
     /\ UNCHANGED <<gate, count, frame, observed, fresh, heard, mixed>>

\* The compare-exchange; a state it did not expect is looked at again.
Release(t) ==
  LET p == player[t].pitch
  IN /\ player[t].pc = "release"
     /\ IF note[p] = player[t].expected
        THEN /\ note' = [note EXCEPT ![p] = Released(note[p])]
             /\ down' = [down EXCEPT ![p] = FALSE]
             /\ Step(t, "gateOff")
        ELSE /\ player' = [player EXCEPT ![t].expected = note[p],
                             ![t].pc = IF note[p] \in Held THEN "release" ELSE "gateOff"]
             /\ UNCHANGED <<note, down>>
     /\ UNCHANGED <<gate, count, frame, observed, fresh, heard, mixed>>

GateOff(t) ==
  /\ player[t].pc = "gateOff"
  /\ gate' = [gate EXCEPT ![player[t].pitch] = FALSE]
  /\ Step(t, IF gate[player[t].pitch] THEN "sub" ELSE "idle")
  /\ UNCHANGED <<note, count, frame, observed, histories>>

Sub(t) ==
  /\ player[t].pc = "sub"
  /\ count' = count - 1
  /\ Step(t, "idle")
  /\ UNCHANGED <<note, gate, frame, observed, histories>>

-----------------------------------------------------------------------------
(* The inference thread: populate_condition_tokens(). *)

frameOnly == <<gate, count, player, down, mixed>>

\* calculate_token()
Token(state, mode) ==
  IF state = "IDLE" THEN 0
  ELSE IF mode = 0 THEN 3
  ELSE IF state \in Onsets THEN 2 ELSE 1

Masked == -1

\* Mutant: the windows written over the active notes.
ConditionWindowsLast(states, width, mode) ==
  LET active == {p \in Pitches : states[p] # "IDLE"}
      near(p) == \E q \in active \ {p} : p - q \in -width..width
  IN [p \in Pitches |-> IF near(p) THEN 0
                        ELSE IF p \in active THEN Token(states[p], mode) ELSE Masked]

\* Around each active pitch a window of off tokens, then the active pitches' own
\* tokens over it; the rest is masked, unless the width takes in everything.
Condition(states, width, mode) ==
  LET active == {p \in Pitches : states[p] # "IDLE"}
      near(p) == width >= NumPitches - 1 \/ \E q \in active : p - q \in -width..width
  IN [p \in Pitches |-> IF p \in active THEN Token(states[p], mode)
                        ELSE IF near(p) THEN 0 ELSE Masked]

\* evaluateAndUpdate(): the load; nothing to update in IDLE and SUSTAIN.
Evaluate ==
  /\ frame.pc = "load" /\ frame.pitch < NumPitches
  /\ LET state == note[frame.pitch]
     IN IF Advanced(state) = state
        THEN /\ observed' = [observed EXCEPT ![frame.pitch] = state]
             /\ frame' = [frame EXCEPT !.pitch = @ + 1]
        ELSE /\ frame' = [frame EXCEPT !.pc = "update", !.expected = state]
             /\ UNCHANGED observed
  /\ UNCHANGED <<note, fresh, heard, frameOnly>>

\* Mutant: a plain store where the code has a compare-exchange.
UpdateStored ==
  LET p == frame.pitch
  IN /\ frame.pc = "update"
     /\ note' = [note EXCEPT ![p] = Advanced(frame.expected)]
     /\ observed' = [observed EXCEPT ![p] = frame.expected]
     /\ frame' = [pc |-> "load", pitch |-> p + 1, expected |-> "IDLE"]
     /\ fresh' = [fresh EXCEPT ![p] = FALSE]
     /\ heard' = heard \cup {p}
     /\ UNCHANGED frameOnly

\* The compare-exchange, tried again from the state it found; the players only
\* replace an onset by an onset.
Update ==
  LET p == frame.pitch
  IN /\ frame.pc = "update"
     /\ IF note[p] = frame.expected
        THEN /\ note' = [note EXCEPT ![p] = Advanced(note[p])]
             /\ observed' = [observed EXCEPT ![p] = note[p]]
             /\ frame' = [pc |-> "load", pitch |-> p + 1, expected |-> "IDLE"]
             /\ fresh' = [fresh EXCEPT ![p] = FALSE]
             /\ heard' = heard \cup {p}
        ELSE /\ frame' = [frame EXCEPT !.expected = note[p]]
             /\ UNCHANGED <<note, observed, fresh, heard>>
     /\ UNCHANGED frameOnly

\* With every pitch evaluated the frame is generated, from
\* Condition(observed, width, mode); then the next one.
NextFrame ==
  /\ frame.pitch = NumPitches
  /\ frame' = [frame EXCEPT !.pitch = 0]
  /\ observed' = [p \in Pitches |-> "IDLE"]
  /\ heard' = {}
  /\ UNCHANGED <<note, fresh, frameOnly>>

-----------------------------------------------------------------------------
Init ==
  /\ note = [p \in Pitches |-> "IDLE"] /\ gate = [p \in Pitches |-> FALSE]
  /\ count = 0
  /\ player = [t \in Players |-> IdlePlayer]
  /\ frame = [pc |-> "load", pitch |-> 0, expected |-> "IDLE"]
  /\ observed = [p \in Pitches |-> "IDLE"]
  /\ down = [p \in Pitches |-> FALSE] /\ fresh = [p \in Pitches |-> FALSE]
  /\ heard = {} /\ mixed = [p \in Pitches |-> FALSE]

Play(t) ==
  \/ \E p \in Pitches : NoteOn(t, p) \/ NoteOff(t, p)
  \/ GateOn(t) \/ Add(t) \/ Release(t) \/ GateOff(t) \/ Sub(t)

Infer == Evaluate \/ Update \/ NextFrame

Next == Infer \/ \E t \in Players : Play(t)

Spec == Init /\ [][Next]_vars

-----------------------------------------------------------------------------
(* Properties. *)

PlayerPcs == {"idle", "gateOn", "add", "release", "gateOff", "sub"}

\* Every variable is of its type.
TypeOK ==
  /\ note \in [Pitches -> NoteStates] /\ gate \in [Pitches -> BOOLEAN]
  /\ count \in Int
  /\ player \in [Players -> [pc : PlayerPcs, pitch : Pitches, expected : NoteStates]]
  /\ frame \in [pc : {"load", "update"}, pitch : 0..NumPitches, expected : NoteStates]
  /\ observed \in [Pitches -> NoteStates]
  /\ down \in [Pitches -> BOOLEAN] /\ fresh \in [Pitches -> BOOLEAN]
  /\ heard \in SUBSET Pitches /\ mixed \in [Pitches -> BOOLEAN]

\* The latch: a note-on stays in the tracker until a frame has observed it,
\* however soon its note-off comes.
OnsetLatched == \A p \in Pitches : fresh[p] <=> note[p] \in Onsets

\* No stuck and no lost note: the tracker holds a pitch exactly when the last
\* call to reach it was a note-on, whatever a frame did in between.
KeyState == \A p \in Pitches : note[p] \in Held <=> down[p]

\* A note-on a frame has observed is in the tokens of that frame as an onset
\* (as active with onset_mode off), not masked or overwritten by the window
\* of another note.
OnsetInTokens ==
  frame.pitch = NumPitches =>
    \A width \in Widths, mode \in OnsetModes, p \in heard :
      Condition(observed, width, mode)[p] = IF mode = 1 THEN 2 ELSE 3

Raised == {p \in Pitches : gate[p]}
Adding == {t \in Players : player[t].pc = "add"}
Subtracting == {t \in Players : player[t].pc = "sub"}

\* The gate's count is the number of raised pitches, but for the players that
\* have exchanged a flag and not yet counted it.
GateCounted == count = Cardinality(Raised) - Cardinality(Adding) + Cardinality(Subtracting)

\* With no call under way the gate of a pitch is the state of its key, unless
\* two players have been in calls for it at once.
GateFollowsKey ==
  \A p \in Pitches : Busy(p) = {} /\ ~mixed[p] => (gate[p] <=> down[p])
\* The gate is open as long as a key is down and no longer.
GateKept == GateCounted /\ GateFollowsKey
=============================================================================
