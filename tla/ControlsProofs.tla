----------------------------- MODULE ControlsProofs -----------------------------
(***************************************************************************)
(* What the controls of the engine keep, for any players and any keyboard,   *)
(* and for any slots, prompts, setters and fetch threads: the note tracker   *)
(* of MidiNotes (types, the latch, the state of the keys, the gate) and the  *)
(* style prompts of PromptFetch (names, the fetch flag, the posted prompt).  *)
(***************************************************************************)
EXTENDS MidiNotes, PromptFetch, FiniteSetTheorems, TLAPS

\* What a call or a frame has loaded and means to replace is something that can
\* be replaced; and an onset waits for the frame that is about to advance it.
Expectations ==
  /\ \A t \in Players : player[t].pc = "release" => player[t].expected \in Held
  /\ frame.pc = "update" =>
       /\ frame.pitch \in Pitches
       /\ frame.expected \in Onsets /\ note[frame.pitch] \in Onsets

Inv == TypeOK /\ Expectations /\ OnsetLatched /\ KeyState

\* The tracker's transitions stay within its states.
LEMMA Transitions ==
  \A state \in NoteStates :
    /\ Released(state) \in NoteStates /\ Advanced(state) \in NoteStates
    /\ state \in Held => Released(state) \notin Held /\ (Released(state) \in Onsets <=> state \in Onsets)
    /\ state \in Onsets => Advanced(state) \notin Onsets /\ (Advanced(state) \in Held <=> state \in Held)
    /\ Advanced(state) # state <=> state \in Onsets
  BY DEF NoteStates, Released, Advanced, Held, Onsets

LEMMA InitInv == Init => Inv
  BY MidiAssumption DEF Init, Inv, TypeOK, Expectations, OnsetLatched, KeyState, Pitches,
     NoteStates, Onsets, Held, PlayerPcs, IdlePlayer

LEMMA StepInv == Inv /\ [Next]_vars => Inv'
<1> SUFFICES ASSUME Inv, [Next]_vars PROVE Inv'
  OBVIOUS
<1> USE DEF Inv
<1>0. 0 \in Pitches /\ \A p \in Pitches : p \in 0..NumPitches /\ p + 1 \in 0..NumPitches
  BY MidiAssumption DEF Pitches
<1>1. ASSUME NEW t \in Players, NEW p \in Pitches, NoteOn(t, p) PROVE Inv'
  BY <1>0, <1>1 DEF NoteOn, TypeOK, Expectations, OnsetLatched, KeyState, NoteStates, PlayerPcs,
     Onsets, Held
<1>2. ASSUME NEW t \in Players, NEW p \in Pitches, NoteOff(t, p) PROVE Inv'
  BY <1>0, <1>2 DEF NoteOff, TypeOK, Expectations, OnsetLatched, KeyState, PlayerPcs
<1>3. ASSUME NEW t \in Players, GateOn(t) \/ GateOff(t) \/ Add(t) \/ Sub(t) PROVE Inv'
  <2>1. UNCHANGED <<note, frame, observed, histories>>
    BY <1>3 DEF GateOn, GateOff, Add, Sub
  <2>2. player[t].pitch \in Pitches /\ gate' \in [Pitches -> BOOLEAN]
    BY <1>3 DEF GateOn, GateOff, Add, Sub, TypeOK
  <2>3. count' \in Int
    BY <1>3 DEF GateOn, GateOff, Add, Sub, TypeOK
  <2>4. Step(t, "idle") \/ Step(t, "add") \/ Step(t, "sub")
    BY <1>3 DEF GateOn, GateOff, Add, Sub
  <2>5. /\ player' \in [Players -> [pc : PlayerPcs, pitch : Pitches, expected : NoteStates]]
        /\ player'[t].pc # "release"
        /\ \A u \in Players \ {t} : player'[u] = player[u]
    BY <1>0, <2>2, <2>4 DEF Step, IdlePlayer, TypeOK, PlayerPcs, NoteStates
  <2> QED
    BY <2>1, <2>2, <2>3, <2>5 DEF histories, TypeOK, Expectations, OnsetLatched, KeyState
<1>4. ASSUME NEW t \in Players, Release(t) PROVE Inv'
  <2> DEFINE p == player[t].pitch
  <2>0. p \in Pitches /\ note[p] \in NoteStates /\ player[t].expected \in Held
    BY <1>4 DEF Release, TypeOK, Expectations
  <2>1. CASE note[p] = player[t].expected
    <3>1. /\ note' = [note EXCEPT ![p] = Released(note[p])]
          /\ down' = [down EXCEPT ![p] = FALSE]
          /\ player' = [player EXCEPT ![t] = [@ EXCEPT !.pc = "gateOff"]]
          /\ UNCHANGED <<gate, count, frame, observed, fresh, heard, mixed>>
      BY <1>4, <2>1 DEF Release, Step
    <3>2. /\ Released(note[p]) \in NoteStates \ Held
          /\ Released(note[p]) \in Onsets <=> note[p] \in Onsets
      BY <2>0, <2>1, Transitions
    <3> HIDE DEF p
    <3> QED
      BY <2>0, <3>1, <3>2 DEF TypeOK, Expectations, OnsetLatched, KeyState, PlayerPcs
  <2>2. CASE note[p] # player[t].expected
    BY <1>4, <2>0, <2>2 DEF Release, TypeOK, Expectations, OnsetLatched, KeyState, PlayerPcs
  <2> QED
    BY <2>1, <2>2
<1>5. CASE Evaluate
  <2> DEFINE p == frame.pitch
  <2>0. p \in Pitches /\ note[p] \in NoteStates
    <3>1. frame.pitch \in 0..NumPitches /\ frame.pitch < NumPitches
      BY <1>5 DEF Evaluate, TypeOK
    <3>2. p \in Pitches
      BY <3>1, MidiAssumption DEF Pitches
    <3> QED
      BY <3>2 DEF TypeOK
  <2>1. CASE Advanced(note[p]) = note[p]
    BY <1>0, <1>5, <2>0, <2>1 DEF Evaluate, frameOnly, TypeOK, Expectations, OnsetLatched, KeyState
  <2>2. CASE Advanced(note[p]) # note[p]
    <3>1. note[p] \in Onsets
      BY <2>0, <2>2, Transitions
    <3> QED
      BY <1>5, <2>0, <2>2, <3>1 DEF Evaluate, frameOnly, TypeOK, Expectations, OnsetLatched, KeyState
  <2> QED
    BY <2>1, <2>2
<1>6. CASE Update
  <2> DEFINE p == frame.pitch
  <2>0. p \in Pitches /\ note[p] \in NoteStates /\ frame.expected \in Onsets
    BY <1>6 DEF Update, TypeOK, Expectations
  <2>1. CASE note[p] = frame.expected
    <3>1. /\ note' = [note EXCEPT ![p] = Advanced(note[p])]
          /\ observed' = [observed EXCEPT ![p] = note[p]]
          /\ frame' = [pc |-> "load", pitch |-> p + 1, expected |-> "IDLE"]
          /\ fresh' = [fresh EXCEPT ![p] = FALSE]
          /\ heard' = heard \cup {p}
          /\ UNCHANGED <<gate, count, player, down, mixed>>
      BY <1>6, <2>1 DEF Update, frameOnly
    <3>2. /\ Advanced(note[p]) \in NoteStates \ Onsets
          /\ Advanced(note[p]) \in Held <=> note[p] \in Held
      BY <2>0, <2>1, Transitions
    <3> HIDE DEF p
    <3> QED
      BY <1>0, <2>0, <3>1, <3>2 DEF TypeOK, Expectations, OnsetLatched, KeyState, NoteStates
  <2>2. CASE note[p] # frame.expected
    <3>1. note[p] \in Onsets
      BY <1>6, <2>0, <2>2 DEF Update, TypeOK, Expectations
    <3> QED
      BY <1>6, <2>0, <2>2, <3>1 DEF Update, frameOnly, TypeOK, Expectations, OnsetLatched, KeyState
  <2> QED
    BY <2>1, <2>2
<1>7. CASE NextFrame
  BY <1>0, <1>7 DEF NextFrame, frameOnly, TypeOK, Expectations, OnsetLatched, KeyState, NoteStates
<1>8. CASE UNCHANGED vars
  BY <1>8 DEF vars, TypeOK, Expectations, OnsetLatched, KeyState
<1> QED
  BY <1>1, <1>2, <1>3, <1>4, <1>5, <1>6, <1>7, <1>8 DEF Next, Infer, Play

\* Every reachable state of the tracker, whatever the players and the frames do,
\* satisfies the inductive invariant.
THEOREM Invariance == Spec => []Inv
  BY InitInv, StepInv, PTL DEF Spec

\* The latch: no frame misses a note-on, however soon its note-off comes.
THEOREM LatchHolds == Spec => []OnsetLatched
  BY Invariance, PTL DEF Inv

\* The tracker holds a pitch exactly when the last call to reach it was a note-on.
THEOREM KeyStateHolds == Spec => []KeyState
  BY Invariance, PTL DEF Inv

-----------------------------------------------------------------------------
(* The tokens.  A pitch this frame has heard was observed as an onset, and *)
(* no later load of the frame looks at it again.                           *)
HeardObserved == \A p \in heard : observed[p] \in Onsets /\ p < frame.pitch

LEMMA HeardStep == Inv /\ HeardObserved /\ [Next]_vars => HeardObserved'
<1> SUFFICES ASSUME Inv, HeardObserved, [Next]_vars PROVE HeardObserved'
  OBVIOUS
<1>1. TypeOK /\ Expectations
  BY DEF Inv
<1>2. heard \subseteq Pitches /\ frame.pitch \in 0..NumPitches /\ NumPitches \in Nat
  BY <1>1, MidiAssumption DEF TypeOK
<1>3. ASSUME UNCHANGED <<frame, observed, heard>> PROVE HeardObserved'
  BY <1>3 DEF HeardObserved
<1>4. ASSUME NEW t \in Players, Play(t) PROVE HeardObserved'
  BY <1>3, <1>4 DEF Play, NoteOn, NoteOff, GateOn, Add, Release, GateOff, Sub, histories
<1>5. CASE Evaluate
  <2>1. /\ heard' = heard /\ frame'.pitch \in {frame.pitch, frame.pitch + 1}
        /\ \A p \in heard : observed'[p] = observed[p]
    <3>1. \A p \in heard : p # frame.pitch
      BY <1>2 DEF HeardObserved, Pitches
    <3>2. heard' = heard
      BY <1>5 DEF Evaluate
    <3>3. CASE Advanced(note[frame.pitch]) = note[frame.pitch]
      BY <1>1, <1>2, <1>5, <3>1, <3>2, <3>3 DEF Evaluate, TypeOK
    <3>4. CASE Advanced(note[frame.pitch]) # note[frame.pitch]
      BY <1>1, <1>5, <3>2, <3>4 DEF Evaluate, TypeOK
    <3> QED BY <3>3, <3>4
  <2> QED BY <1>2, <2>1 DEF HeardObserved, Pitches
<1>6. CASE Update
  <2> DEFINE p == frame.pitch
  <2>1. CASE note[p] = frame.expected
    <3>1. /\ p \in Pitches /\ note[p] \in Onsets /\ observed' = [observed EXCEPT ![p] = note[p]]
          /\ frame'.pitch = p + 1 /\ heard' = heard \cup {p}
      BY <1>1, <1>6, <2>1 DEF Update, Expectations
    <3> QED BY <1>1, <1>2, <3>1 DEF HeardObserved, TypeOK, Pitches
  <2>2. CASE note[p] # frame.expected
    BY <1>1, <1>6, <2>2 DEF Update, HeardObserved, TypeOK
  <2> QED BY <2>1, <2>2
<1>7. CASE NextFrame
  BY <1>7 DEF NextFrame, HeardObserved
<1>8. CASE UNCHANGED vars
  BY <1>3, <1>8 DEF vars
<1> QED BY <1>4, <1>5, <1>6, <1>7, <1>8 DEF Next, Infer

LEMMA HeardTokens == Inv /\ HeardObserved => OnsetInTokens
<1> SUFFICES ASSUME Inv, HeardObserved, NEW width \in Widths, NEW mode \in OnsetModes, NEW p \in heard
             PROVE  Condition(observed, width, mode)[p] = IF mode = 1 THEN 2 ELSE 3
  BY DEF OnsetInTokens
<1>1. p \in Pitches /\ observed[p] \in Onsets /\ mode \in {0, 1}
  BY MidiAssumption DEF HeardObserved, Inv, TypeOK
<1>2. observed[p] # "IDLE"
  BY <1>1 DEF Onsets
<1>3. Condition(observed, width, mode)[p] = Token(observed[p], mode)
  BY <1>1, <1>2 DEF Condition
<1> QED BY <1>1, <1>2, <1>3 DEF Token

\* A note-on a frame has observed is among the tokens of that frame, for any
\* number of pitches and any width of the window.
THEOREM OnsetTokensHold == Spec => []OnsetInTokens
<1>1. Init => HeardObserved
  BY DEF Init, HeardObserved
<1> QED BY <1>1, Invariance, HeardStep, HeardTokens, PTL DEF Spec

-----------------------------------------------------------------------------
(* The gate.                                                               *)

\* A call for a pitch, and what it has done so far of both flags.
AtCall(t, p) == player[t].pc # "idle" /\ player[t].pitch = p
Halfway(t, p) ==
  /\ player[t].pc = "gateOn" => down[p]
  /\ player[t].pc = "add" => gate[p] /\ down[p]
  /\ player[t].pc = "gateOff" => ~down[p]
  /\ player[t].pc = "sub" => ~gate[p] /\ ~down[p]

\* Until two calls for a pitch met, it has one caller, which knows where the
\* two flags are; between calls they agree.
GateAgrees ==
  \A p \in Pitches : ~mixed[p] =>
    /\ \A t \in Players : AtCall(t, p) => /\ Halfway(t, p)
                                          /\ \A u \in Players : AtCall(u, p) => u = t
    /\ (\A t \in Players : ~AtCall(t, p)) => (gate[p] <=> down[p])

LEMMA GateStep == Inv /\ GateAgrees /\ [Next]_vars => GateAgrees'
<1> SUFFICES ASSUME Inv, GateAgrees, [Next]_vars, NEW p \in Pitches, ~mixed'[p]
             PROVE  /\ \A t \in Players : AtCall(t, p)' => /\ Halfway(t, p)'
                                                          /\ \A u \in Players : AtCall(u, p)' => u = t
                    /\ (\A t \in Players : ~AtCall(t, p)') => (gate'[p] <=> down'[p])
  BY DEF GateAgrees
<1> DEFINE Goal == /\ \A t \in Players : AtCall(t, p)' => /\ Halfway(t, p)'
                                                         /\ \A u \in Players : AtCall(u, p)' => u = t
                   /\ (\A t \in Players : ~AtCall(t, p)') => (gate'[p] <=> down'[p])
<1>1. TypeOK /\ KeyState /\ Expectations
  BY DEF Inv
<1>2. ~mixed[p] => /\ \A t \in Players : AtCall(t, p) => /\ Halfway(t, p)
                                                        /\ \A u \in Players : AtCall(u, p) => u = t
                   /\ (\A t \in Players : ~AtCall(t, p)) => (gate[p] <=> down[p])
  BY DEF GateAgrees
<1>3. CASE UNCHANGED <<gate, player, down, mixed>>
  BY <1>2, <1>3 DEF AtCall, Halfway
<1>4. CASE Infer \/ UNCHANGED vars
  BY <1>3, <1>4 DEF Infer, Evaluate, Update, NextFrame, frameOnly, vars
\* A call begins: it is the only one, or the pitch is mixed.
<1>5. ASSUME NEW t \in Players, NEW q \in Pitches, NoteOn(t, q) PROVE Goal
  <2>1. /\ player[t].pc = "idle" /\ player'[t].pc = "gateOn" /\ player'[t].pitch = q /\ down'[q] = TRUE
        /\ \A u \in Players \ {t} : player'[u] = player[u]
        /\ \A r \in Pitches \ {q} : down'[r] = down[r] /\ mixed'[r] = mixed[r]
        /\ mixed'[q] = (mixed[q] \/ Busy(q) # {}) /\ gate' = gate
    BY <1>1, <1>5 DEF NoteOn, TypeOK
  <2>2. CASE p = q
    <3>1. ~mixed[p] /\ \A u \in Players : ~AtCall(u, p)
      BY <2>1, <2>2 DEF Busy, AtCall
    <3>2. \A u \in Players : AtCall(u, p)' => u = t
      BY <2>1, <3>1 DEF AtCall
    <3> QED BY <2>1, <2>2, <3>2 DEF AtCall, Halfway
  <2>3. CASE p # q
    BY <1>2, <2>1, <2>3 DEF AtCall, Halfway
  <2> QED BY <2>2, <2>3
<1>6. ASSUME NEW t \in Players, NEW q \in Pitches, NoteOff(t, q) PROVE Goal
  <2>1. /\ player[t].pc = "idle" /\ player'[t].pc = (IF note[q] \in Held THEN "release" ELSE "gateOff")
        /\ player'[t].pitch = q
        /\ \A u \in Players \ {t} : player'[u] = player[u]
        /\ \A r \in Pitches \ {q} : mixed'[r] = mixed[r]
        /\ mixed'[q] = (mixed[q] \/ Busy(q) # {}) /\ gate' = gate /\ down' = down
    BY <1>1, <1>6 DEF NoteOff, TypeOK
  <2>2. CASE p = q
    <3>1. ~mixed[p] /\ \A u \in Players : ~AtCall(u, p)
      BY <2>1, <2>2 DEF Busy, AtCall
    <3>2. \A u \in Players : AtCall(u, p)' => u = t
      BY <2>1, <3>1 DEF AtCall
    <3>3. player'[t].pc = "gateOff" => ~down'[p]
      BY <1>1, <2>1, <2>2 DEF KeyState
    <3> QED BY <2>1, <2>2, <3>2, <3>3 DEF AtCall, Halfway
  <2>3. CASE p # q
    BY <1>2, <2>1, <2>3 DEF AtCall, Halfway
  <2> QED BY <2>2, <2>3
\* A step of a call under way moves the flags of its own pitch.
<1>7. ASSUME NEW t \in Players, GateOn(t) \/ Add(t) \/ Release(t) \/ GateOff(t) \/ Sub(t) PROVE Goal
  <2> DEFINE q == player[t].pitch
  <2>1. /\ q \in Pitches /\ AtCall(t, q) /\ mixed' = mixed
        /\ \A u \in Players \ {t} : player'[u] = player[u]
        /\ player'[t].pc # "idle" => player'[t].pitch = q
        /\ \A r \in Pitches \ {q} : down'[r] = down[r] /\ gate'[r] = gate[r]
    <3>1. q \in Pitches /\ AtCall(t, q) /\ mixed' = mixed
      BY <1>1, <1>7 DEF GateOn, Add, Release, GateOff, Sub, TypeOK, AtCall, histories
    <3>2. \A r \in Pitches \ {q} : down'[r] = down[r] /\ gate'[r] = gate[r]
      BY <1>1, <1>7, <3>1 DEF GateOn, Add, Release, GateOff, Sub, TypeOK, histories
    <3>3. \A pc \in PlayerPcs : Step(t, pc) =>
            /\ \A u \in Players \ {t} : player'[u] = player[u]
            /\ player'[t].pc # "idle" => player'[t].pitch = q
      BY <1>1 DEF Step, TypeOK, IdlePlayer
    <3>4. CASE \E pc \in PlayerPcs : Step(t, pc)
      BY <3>1, <3>2, <3>3, <3>4
    <3>5. CASE Release(t) /\ note[q] # player[t].expected
      BY <1>1, <3>1, <3>2, <3>5 DEF Release, TypeOK
    <3>6. (\E pc \in PlayerPcs : Step(t, pc)) \/ (Release(t) /\ note[q] # player[t].expected)
      BY <1>7 DEF GateOn, Add, Release, GateOff, Sub, PlayerPcs
    <3> QED BY <3>4, <3>5, <3>6
  <2>2. CASE p # q
    <3>1. \A u \in Players : AtCall(u, p)' <=> AtCall(u, p)
      BY <2>1, <2>2 DEF AtCall
    <3>2. \A u \in Players : AtCall(u, p) => u # t
      BY <2>2 DEF AtCall
    <3> QED BY <1>2, <2>1, <2>2, <3>1, <3>2 DEF Halfway
  <2>3. CASE p = q
    <3>1. /\ Halfway(t, p) /\ \A u \in Players \ {t} : ~AtCall(u, p)
      BY <1>2, <2>1, <2>3
    <3>2. \A u \in Players \ {t} : ~AtCall(u, p)'
      BY <2>1, <3>1 DEF AtCall
    <3>3. gate[p] \in BOOLEAN /\ down[p] \in BOOLEAN
      BY <1>1 DEF TypeOK
    <3>4. IF player'[t].pc = "idle" THEN gate'[p] <=> down'[p] ELSE Halfway(t, p)'
      <4>1. CASE GateOn(t)
        BY <1>1, <2>3, <3>1, <3>3, <4>1 DEF GateOn, Step, TypeOK, Halfway, IdlePlayer, histories
      <4>2. CASE Add(t)
        BY <1>1, <2>3, <3>1, <3>3, <4>2 DEF Add, Step, TypeOK, Halfway, IdlePlayer, histories
      <4>3. CASE Release(t)
        <5>1. CASE note[p] = player[t].expected
          BY <1>1, <2>3, <4>3, <5>1 DEF Release, Step, TypeOK, Halfway
        <5>2. CASE note[p] # player[t].expected
          BY <1>1, <2>3, <4>3, <5>2 DEF Release, Step, TypeOK, Halfway, KeyState
        <5> QED BY <5>1, <5>2
      <4>4. CASE GateOff(t)
        BY <1>1, <2>3, <3>1, <3>3, <4>4 DEF GateOff, Step, TypeOK, Halfway, IdlePlayer, histories
      <4>5. CASE Sub(t)
        BY <1>1, <2>3, <3>1, <3>3, <4>5 DEF Sub, Step, TypeOK, Halfway, IdlePlayer, histories
      <4> QED BY <1>7, <4>1, <4>2, <4>3, <4>4, <4>5
    <3>5. AtCall(t, p)' <=> player'[t].pc # "idle"
      BY <2>1, <2>3 DEF AtCall
    <3> QED BY <3>2, <3>4, <3>5
  <2> QED BY <2>2, <2>3
<1> QED BY <1>4, <1>5, <1>6, <1>7 DEF Next, Play
-----------------------------------------------------------------------------
(* The gate's count.                                                       *)

\* The three sets the count is made of are finite.
LEMMA CountedFinite ==
  /\ IsFiniteSet(Raised) /\ IsFiniteSet(Adding) /\ IsFiniteSet(Subtracting)
  /\ Cardinality(Raised) \in Nat /\ Cardinality(Adding) \in Nat /\ Cardinality(Subtracting) \in Nat
<1>1. IsFiniteSet(Pitches) /\ IsFiniteSet(Players)
  BY MidiAssumption, FS_Interval DEF Pitches
<1>2. Raised \in SUBSET Pitches /\ Adding \in SUBSET Players /\ Subtracting \in SUBSET Players
  BY DEF Raised, Adding, Subtracting
<1>3. IsFiniteSet(Raised) /\ IsFiniteSet(Adding) /\ IsFiniteSet(Subtracting)
  BY <1>1, <1>2, FS_Subset
<1> QED BY <1>3, FS_CardinalityType

\* One element more, and one less.
LEMMA OneMore ==
  ASSUME NEW S, NEW x, IsFiniteSet(S), x \notin S
  PROVE  Cardinality(S \cup {x}) = Cardinality(S) + 1
BY FS_AddElement

LEMMA OneLess ==
  ASSUME NEW S, NEW x, IsFiniteSet(S), x \in S
  PROVE  Cardinality(S \ {x}) = Cardinality(S) - 1
BY FS_RemoveElement

\* What a call's step does to the sets of those that add and that subtract.
LEMMA StepsMove ==
  ASSUME TypeOK, NEW t \in Players, NEW pc \in PlayerPcs, Step(t, pc)
  PROVE  /\ Adding' = IF pc = "add" THEN Adding \cup {t} ELSE Adding \ {t}
         /\ Subtracting' = IF pc = "sub" THEN Subtracting \cup {t} ELSE Subtracting \ {t}
<1>1. /\ player'[t].pc = pc
      /\ \A u \in Players \ {t} : player'[u] = player[u]
  BY DEF Step, TypeOK, IdlePlayer
<1> QED BY <1>1 DEF Adding, Subtracting

\* A call that begins, or that finds the note changed, counts nothing yet.
LEMMA StillCounted ==
  ASSUME GateCounted, gate' = gate, count' = count,
         \A u \in Players : /\ player'[u].pc = "add" <=> player[u].pc = "add"
                            /\ player'[u].pc = "sub" <=> player[u].pc = "sub"
  PROVE  GateCounted'
<1>1. Raised' = Raised /\ Adding' = Adding /\ Subtracting' = Subtracting
  BY DEF Raised, Adding, Subtracting
<1> QED BY <1>1 DEF GateCounted

LEMMA CountStep == Inv /\ GateCounted /\ [Next]_vars => GateCounted'
<1> SUFFICES ASSUME Inv, GateCounted, [Next]_vars PROVE GateCounted'
  OBVIOUS
<1>1. TypeOK
  BY DEF Inv
<1>2. count = Cardinality(Raised) - Cardinality(Adding) + Cardinality(Subtracting)
  BY DEF GateCounted
<1>3. count \in Int
  BY <1>1 DEF TypeOK
<1>4. CASE Infer \/ UNCHANGED vars
  BY <1>4, StillCounted DEF Infer, Evaluate, Update, NextFrame, frameOnly, vars
<1>5. ASSUME NEW t \in Players, NEW p \in Pitches, NoteOn(t, p) \/ NoteOff(t, p) PROVE GateCounted'
  <2>1. /\ player[t].pc = "idle" /\ player'[t].pc \in {"gateOn", "release", "gateOff"}
        /\ \A u \in Players \ {t} : player'[u] = player[u]
    BY <1>1, <1>5 DEF NoteOn, NoteOff, TypeOK
  <2>2. gate' = gate /\ count' = count
    BY <1>5 DEF NoteOn, NoteOff
  <2> QED BY <2>1, <2>2, StillCounted
<1>6. ASSUME NEW t \in Players, Release(t) PROVE GateCounted'
  <2>1. /\ player[t].pc = "release" /\ player'[t].pc \in {"release", "gateOff"}
        /\ \A u \in Players \ {t} : player'[u] = player[u]
    BY <1>1, <1>6 DEF Release, Step, TypeOK
  <2>2. gate' = gate /\ count' = count
    BY <1>6 DEF Release
  <2> QED BY <2>1, <2>2, StillCounted
<1>7. ASSUME NEW t \in Players, GateOn(t) PROVE GateCounted'
  <2> DEFINE q == player[t].pitch
  <2>1. /\ t \notin Adding /\ t \notin Subtracting /\ q \in Pitches
        /\ gate' = [gate EXCEPT ![q] = TRUE] /\ count' = count
        /\ Step(t, IF gate[q] THEN "idle" ELSE "add")
    BY <1>1, <1>7 DEF GateOn, TypeOK, Adding, Subtracting
  <2>2. Raised' = Raised \cup {q}
    BY <1>1, <2>1 DEF Raised, TypeOK
  <2>3. CASE gate[q]
    <3>1. Adding' = Adding /\ Subtracting' = Subtracting
      BY <1>1, <2>1, <2>3, StepsMove DEF PlayerPcs
    <3>2. Raised' = Raised
      BY <2>1, <2>2, <2>3 DEF Raised
    <3> QED BY <1>2, <2>1, <3>1, <3>2 DEF GateCounted
  <2>4. CASE ~gate[q]
    <3>1. Adding' = Adding \cup {t} /\ Subtracting' = Subtracting
      BY <1>1, <2>1, <2>4, StepsMove DEF PlayerPcs
    <3>2. Cardinality(Raised \cup {q}) = Cardinality(Raised) + 1
      BY <2>4, CountedFinite, OneMore DEF Raised
    <3>3. Cardinality(Adding \cup {t}) = Cardinality(Adding) + 1
      BY <2>1, CountedFinite, OneMore
    <3> QED BY <1>2, <2>1, <2>2, <3>1, <3>2, <3>3, CountedFinite DEF GateCounted
  <2> QED BY <2>3, <2>4
<1>8. ASSUME NEW t \in Players, Add(t) PROVE GateCounted'
  <2>1. t \in Adding /\ t \notin Subtracting /\ gate' = gate /\ count' = count + 1 /\ Step(t, "idle")
    BY <1>1, <1>8 DEF Add, TypeOK, Adding, Subtracting
  <2>2. Adding' = Adding \ {t} /\ Subtracting' = Subtracting /\ Raised' = Raised
    BY <1>1, <2>1, StepsMove DEF PlayerPcs, Raised
  <2>3. Cardinality(Adding \ {t}) = Cardinality(Adding) - 1
    BY <2>1, CountedFinite, OneLess
  <2> QED BY <1>2, <1>3, <2>1, <2>2, <2>3, CountedFinite DEF GateCounted
<1>9. ASSUME NEW t \in Players, GateOff(t) PROVE GateCounted'
  <2> DEFINE q == player[t].pitch
  <2>1. /\ t \notin Adding /\ t \notin Subtracting /\ q \in Pitches
        /\ gate' = [gate EXCEPT ![q] = FALSE] /\ count' = count
        /\ Step(t, IF gate[q] THEN "sub" ELSE "idle")
    BY <1>1, <1>9 DEF GateOff, TypeOK, Adding, Subtracting
  <2>2. Raised' = Raised \ {q}
    BY <1>1, <2>1 DEF Raised, TypeOK
  <2>3. CASE ~gate[q]
    <3>1. Adding' = Adding /\ Subtracting' = Subtracting
      BY <1>1, <2>1, <2>3, StepsMove DEF PlayerPcs
    <3>2. Raised' = Raised
      BY <2>1, <2>2, <2>3 DEF Raised
    <3> QED BY <1>2, <2>1, <3>1, <3>2 DEF GateCounted
  <2>4. CASE gate[q]
    <3>1. Adding' = Adding /\ Subtracting' = Subtracting \cup {t}
      BY <1>1, <2>1, <2>4, StepsMove DEF PlayerPcs
    <3>2. Cardinality(Raised \ {q}) = Cardinality(Raised) - 1
      BY <2>1, <2>4, CountedFinite, OneLess DEF Raised
    <3>3. Cardinality(Subtracting \cup {t}) = Cardinality(Subtracting) + 1
      BY <2>1, CountedFinite, OneMore
    <3> QED BY <1>2, <2>1, <2>2, <3>1, <3>2, <3>3, CountedFinite DEF GateCounted
  <2> QED BY <2>3, <2>4
<1>10. ASSUME NEW t \in Players, Sub(t) PROVE GateCounted'
  <2>1. t \in Subtracting /\ t \notin Adding /\ gate' = gate /\ count' = count - 1 /\ Step(t, "idle")
    BY <1>1, <1>10 DEF Sub, TypeOK, Adding, Subtracting
  <2>2. Adding' = Adding /\ Subtracting' = Subtracting \ {t} /\ Raised' = Raised
    BY <1>1, <2>1, StepsMove DEF PlayerPcs, Raised
  <2>3. Cardinality(Subtracting \ {t}) = Cardinality(Subtracting) - 1
    BY <2>1, CountedFinite, OneLess
  <2> QED BY <1>2, <1>3, <2>1, <2>2, <2>3, CountedFinite DEF GateCounted
<1> QED BY <1>4, <1>5, <1>6, <1>7, <1>8, <1>9, <1>10 DEF Next, Play

LEMMA GateInit == Init => GateAgrees /\ GateCounted
<1> SUFFICES ASSUME Init PROVE GateAgrees /\ GateCounted
  OBVIOUS
<1>1. GateAgrees
  BY DEF Init, GateAgrees, AtCall, IdlePlayer
<1>2. Raised = {} /\ Adding = {} /\ Subtracting = {}
  BY DEF Init, Raised, Adding, Subtracting, IdlePlayer
<1>3. count = 0
  BY DEF Init
<1> QED BY <1>1, <1>2, <1>3, FS_EmptySet DEF GateCounted

LEMMA GateFollows == Inv /\ GateAgrees => GateFollowsKey
BY DEF GateAgrees, GateFollowsKey, Busy, AtCall

\* The gate's count is the number of raised pitches but for calls between the
\* flag and the count, and a pitch no two calls met at has its flag where its
\* key is, for any number of players and pitches.
THEOREM GateIsKept == Spec => []GateKept
<1>1. Inv /\ GateAgrees /\ GateCounted => GateKept
  BY GateFollows DEF GateKept
<1> QED BY <1>1, GateInit, Invariance, GateStep, CountStep, PTL DEF Spec

-----------------------------------------------------------------------------
(* The style prompts.                                                      *)

\* What a slot holds, the fetch thread's copies included: a valid embedding
\* under its name, or a file to encode that shows its name, an error or nothing.
Sound(slot) ==
  /\ slot \in SlotType
  /\ slot.valid => slot.source # "none" /\ Named(slot)
  /\ slot.audio /\ ~slot.valid /\ slot.samples # "none" => slot.text \in {slot.samples, "error", ""}

SlotsSound ==
  /\ \A i \in Slots : Sound(slots[i])
  /\ \A f \in Fetchers : At(f, "commit") =>
       /\ fetcher[f].snapshot \in [Slots -> SlotType]
       /\ \A i \in Slots : Sound(fetcher[f].snapshot[i])

PromptInv == PromptTypeOK /\ SlotsSound /\ FlagOwned /\ OneFetcher /\ PostServed

\* What a fetch is to commit in a slot.
Result(r) ==
  /\ r \in [text : Names, source : Sources \cup {"none"}, valid : BOOLEAN]
  /\ r.valid => r.source # "none" /\ Named(r)
  /\ ~r.valid => r.text \in {"error", ""}

\* What a fetch makes of the slots it copied can be committed to any slot, even
\* one that was given other audio meanwhile.
LEMMA LocalSound ==
  ASSUME PromptTypeOK, SlotsSound, NEW f \in Fetchers, At(f, "commit"), NEW failing
  PROVE  Local(f, failing) \in [Slots -> {r \in [text : Names, source : Sources \cup {"none"}, valid : BOOLEAN] : Result(r)}]
<1> DEFINE T == {r \in [text : Names, source : Sources \cup {"none"}, valid : BOOLEAN] : Result(r)}
<1>1. /\ fetcher[f].snapshot \in [Slots -> SlotType] /\ fetcher[f].texts \in AllTexts \cup {<<>>}
      /\ \A i \in Slots : Sound(fetcher[f].snapshot[i])
  BY DEF PromptTypeOK, FetcherType, SlotsSound
<1>2. ASSUME NEW i \in Slots PROVE Encoded(f, i, failing) \in T
  <2>1. Sound(fetcher[f].snapshot[i])
    BY <1>1
  <2>2. i \in Given(fetcher[f].texts) => fetcher[f].texts[i] \in Texts
    <3>1. CASE fetcher[f].texts \in AllTexts
      BY <3>1 DEF Given, AllTexts
    <3>2. CASE fetcher[f].texts = <<>>
      BY <3>2 DEF Given
    <3> QED
      BY <1>1, <3>1, <3>2
  <2>3. "none" \notin Texts \cup Audios
    BY PromptAssumption
  <2> QED
    BY <2>1, <2>2, <2>3 DEF Encoded, Sound, SlotType, Names, Sources, Result, Named
<1>3. [text |-> "", source |-> "", valid |-> TRUE] \in T
  BY DEF Names, Sources, Result, Named
<1> HIDE DEF T
<1>4. 0 \in Slots
  BY PromptAssumption
<1>5. [i \in Slots |-> Encoded(f, i, failing)] \in [Slots -> T]
  BY <1>2
<1>6. Local(f, failing) \in [Slots -> T]
  BY <1>3, <1>4, <1>5 DEF Local
<1> QED
  BY <1>6 DEF T

\* A thread that goes elsewhere drops its copies, and no other thread moves.
LEMMA GoTyped ==
  ASSUME fetcher \in [Fetchers -> FetcherType], NEW f \in Fetchers, NEW pc \in FetcherPcs, Go(f, pc)
  PROVE  /\ fetcher' \in [Fetchers -> FetcherType] /\ fetcher'[f].pc = pc
         /\ \A g \in Fetchers \ {f} : fetcher'[g] = fetcher[g]
<1> DEFINE new == [NoFetch EXCEPT !.pc = pc]
<1>1. new \in FetcherType /\ new.pc = pc
  BY DEF NoFetch, FetcherType
<1>2. fetcher' = [fetcher EXCEPT ![f] = new]
  BY DEF Go
<1> HIDE DEF new
<1> QED
  BY <1>1, <1>2

LEMMA PromptInitInv == PromptInit => PromptInv
<1> SUFFICES ASSUME PromptInit PROVE PromptInv
  OBVIOUS
<1>1. Sound(EmptySlot)
  BY DEF Sound, EmptySlot, SlotType, Names
<1>2. \A f \in Fetchers : fetcher[f] = NoFetch
  BY DEF PromptInit
<1>3. /\ NoFetch.pc = "absent" /\ Alive = {}
      /\ NoFetch \in FetcherType
  BY <1>2 DEF NoFetch, Alive, FetcherPcs, FetcherType
<1>4. calls \in 0..MaxCalls
  <2>1. MaxCalls \in Nat
    BY PromptAssumption
  <2> QED
    BY <2>1 DEF PromptInit
<1>5. slots \in [Slots -> SlotType]
  BY <1>1 DEF PromptInit, Sound
<1>6. PromptTypeOK
  BY <1>3, <1>4, <1>5 DEF PromptInit, PromptTypeOK
<1>7. SlotsSound
  BY <1>1, <1>2, <1>3 DEF PromptInit, SlotsSound, At
<1> QED
  BY <1>3, <1>6, <1>7 DEF PromptInv, PromptInit, FlagOwned, OneFetcher, PostServed

LEMMA PromptStepInv == PromptInv /\ [PromptNext]_promptVars => PromptInv'
<1> SUFFICES ASSUME PromptInv, [PromptNext]_promptVars PROVE PromptInv'
  OBVIOUS
<1> USE DEF PromptInv
<1>0. calls < MaxCalls => calls + 1 \in 0..MaxCalls
  <2>1. calls \in 0..MaxCalls
    BY DEF PromptTypeOK
  <2>2. MaxCalls \in Nat
    BY PromptAssumption
  <2> QED
    BY <2>1, <2>2
<1>1. ASSUME NEW s \in Setters, NEW texts \in AllTexts, NEW weights \in Weightings,
             SetTexts(s, texts, weights)
      PROVE  PromptInv'
  <2>1. weights \in SUBSET Slots
    BY PromptAssumption
  <2>2. PromptTypeOK'
    BY <1>0, <1>1, <2>1 DEF SetTexts, Called, Posted, PromptTypeOK
  <2>3. setter'[s] = "start" /\ pending'.has
    BY <1>1 DEF SetTexts, Posted, PromptTypeOK
  <2> QED
    BY <1>1, <2>2, <2>3 DEF SetTexts, Posted, SlotsSound, FlagOwned, OneFetcher,
       PostServed, Alive, At, WillLook
<1>2. ASSUME NEW s \in Setters, NEW i \in Slots, NEW a \in Audios, SetAudio(s, i, a) PROVE PromptInv'
  <2> DEFINE new == [slots[i] EXCEPT !.audio = TRUE, !.samples = a, !.text = a, !.source = "none",
                                     !.valid = FALSE]
  <2>a. slots' = [slots EXCEPT ![i] = new]
    BY <1>2 DEF SetAudio
  <2>b. slots[i] \in SlotType
    BY DEF PromptTypeOK
  <2>c. new \in SlotType /\ ~new.valid /\ new.text = new.samples
    BY <2>b DEF SlotType, Names
  <2>d. Sound(new)
    BY <2>c DEF Sound
  <2> HIDE DEF new
  <2>1. \A j \in Slots : Sound(slots'[j])
    BY <2>a, <2>d DEF PromptTypeOK, SlotsSound
  <2>2. slots' \in [Slots -> SlotType]
    BY <2>a, <2>c DEF PromptTypeOK
  <2>3. PromptTypeOK'
    BY <1>0, <1>2, <2>2 DEF SetAudio, Called, Posted, PromptTypeOK
  <2>4. setter'[s] = "start" /\ pending'.has
    BY <1>2 DEF SetAudio, Posted, PromptTypeOK
  <2> QED
    BY <1>2, <2>1, <2>3, <2>4 DEF SetAudio, Posted, SlotsSound, FlagOwned, OneFetcher,
       PostServed, Alive, At, WillLook
<1>3. ASSUME NEW s \in Setters, NEW i \in Slots, ClearAudio(s, i) PROVE PromptInv'
  <2>0. EmptySlot \in SlotType /\ Sound(EmptySlot)
    BY DEF Sound, SlotType, Names, EmptySlot
  <2>1. PromptTypeOK' /\ \A j \in Slots : Sound(slots'[j])
    BY <1>0, <1>3, <2>0 DEF ClearAudio, Called, slotOnly, PromptTypeOK, SlotsSound
  <2> QED
    BY <1>3, <2>1 DEF ClearAudio, Called, slotOnly, SlotsSound, FlagOwned, OneFetcher,
       PostServed, Alive, At, WillLook
<1>4. ASSUME NEW s \in Setters, NEW i \in Slots, NEW given \in BOOLEAN, SetEmbedding(s, i, given)
      PROVE  PromptInv'
  <2> DEFINE new == IF given
                    THEN [slots[i] EXCEPT !.audio = TRUE, !.text = "audio", !.source = "given", !.valid = TRUE]
                    ELSE [EmptySlot EXCEPT !.samples = slots[i].samples]
  <2>0. slots' = [slots EXCEPT ![i] = new]
    BY <1>4 DEF SetEmbedding
  <2>b. slots[i] \in SlotType
    BY DEF PromptTypeOK
  <2>a. new \in SlotType /\ Sound(new)
    <3>1. CASE given
      <4>1. new \in SlotType /\ new.text = "audio" /\ new.source = "given" /\ new.valid
        BY <2>b, <3>1 DEF SlotType, Names, Sources
      <4> HIDE DEF new
      <4> QED
        BY <4>1 DEF Sound, Named
    <3>2. CASE ~given
      <4>1. new \in SlotType /\ ~new.audio /\ ~new.valid
        BY <2>b, <3>2 DEF SlotType, Names, EmptySlot
      <4> HIDE DEF new
      <4> QED
        BY <4>1 DEF Sound
    <3> QED
      BY <3>1, <3>2
  <2> HIDE DEF new
  <2>1. PromptTypeOK' /\ \A j \in Slots : Sound(slots'[j])
    BY <1>0, <1>4, <2>0, <2>a DEF SetEmbedding, Called, slotOnly, PromptTypeOK, SlotsSound
  <2> QED
    BY <1>4, <2>1 DEF SetEmbedding, Called, slotOnly, SlotsSound, FlagOwned, OneFetcher,
       PostServed, Alive, At, WillLook
<1>5. ASSUME NEW s \in Setters, Mask(s) PROVE PromptInv'
  BY <1>0, <1>5 DEF Mask, Called, PromptTypeOK, SlotsSound, FlagOwned, OneFetcher,
     PostServed, Alive, At, WillLook
<1>6. ASSUME NEW s \in Setters, Start(s) PROVE PromptInv'
  <2>1. CASE fetching
    BY <1>6, <2>1 DEF Start, PromptTypeOK, SlotsSound, FlagOwned, OneFetcher, PostServed, Alive, At, WillLook
  <2>2. CASE ~fetching
    <3>1. PICK f \in Fetchers \ Alive : fetcher' = [fetcher EXCEPT ![f].pc = "take"]
      BY <1>6, <2>2 DEF Start
    <3>a. /\ fetcher'[f].pc = "take" /\ \A g \in Fetchers \ {f} : fetcher'[g] = fetcher[g]
          /\ fetcher' \in [Fetchers -> FetcherType]
      BY <3>1 DEF PromptTypeOK, FetcherPcs, FetcherType
    <3>b. PromptTypeOK'
      BY <1>6, <2>2, <3>a DEF Start, PromptTypeOK
    <3>2. Alive' = Alive \cup {f}
      BY <3>a DEF Alive
    <3>3. SlotsSound'
      BY <1>6, <2>2, <3>a DEF Start, SlotsSound, At
    <3> QED
      BY <1>6, <2>2, <3>a, <3>b, <3>2, <3>3 DEF Start, FlagOwned, OneFetcher, PostServed, WillLook
  <2> QED
    BY <2>1, <2>2
<1>7. ASSUME NEW f \in Fetchers, Take(f) PROVE PromptInv'
  <2>a. /\ fetcher' \in [Fetchers -> FetcherType]
        /\ fetcher'[f].pc \in {"check", "exit"}
        /\ \A g \in Fetchers \ {f} : fetcher'[g] = fetcher[g]
    <3>1. CASE pending.has
      <4> DEFINE taken == [pc |-> "check", texts |-> pending.texts,
                            weights |-> pending.weights, snapshot |-> <<>>]
      <4>1. fetcher' = [fetcher EXCEPT ![f] = taken]
        BY <1>7, <3>1 DEF Take
      <4>2. taken \in FetcherType
            /\ taken.pc = "check"
        BY DEF PromptTypeOK, FetcherPcs, FetcherType
      <4> HIDE DEF taken
      <4> QED
        BY <4>1, <4>2 DEF PromptTypeOK
    <3>2. CASE ~pending.has
      <4>1. Go(f, "exit") /\ "exit" \in FetcherPcs
        BY <1>7, <3>2 DEF Take, FetcherPcs
      <4> QED
        BY <4>1, GoTyped DEF PromptTypeOK
    <3> QED
      BY <3>1, <3>2
  <2>b. pending' \in [has : BOOLEAN, texts : AllTexts \cup {<<>>}, weights : SUBSET Slots]
    BY <1>7 DEF Take, PromptTypeOK
  <2>c. unserved' \in BOOLEAN /\ missed' \in BOOLEAN
    BY <1>7 DEF Take, PromptTypeOK
  <2>d. PromptTypeOK'
    BY <1>7, <2>a, <2>b, <2>c DEF Take, PromptTypeOK
  <2>1. PromptTypeOK' /\ Alive' = Alive
    BY <1>7, <2>a, <2>d DEF Take, At, Alive
  <2>2. SlotsSound'
    BY <1>7, <2>a DEF Take, At, SlotsSound
  <2>3. PostServed'
    BY <1>7 DEF Take, PostServed
  <2> QED
    BY <1>7, <2>1, <2>2, <2>3 DEF Take, FlagOwned, OneFetcher
<1>8. ASSUME NEW f \in Fetchers, Check(f) PROVE PromptInv'
  <2>a. /\ fetcher' \in [Fetchers -> FetcherType] /\ fetcher'[f].pc \in {"take", "snapshot"}
        /\ \A g \in Fetchers \ {f} : fetcher'[g] = fetcher[g]
    <3>1. CASE Go(f, "take")
      BY <3>1, GoTyped DEF PromptTypeOK, FetcherPcs
    <3>2. CASE fetcher' = [fetcher EXCEPT ![f].pc = "snapshot"]
      BY <3>2 DEF PromptTypeOK, FetcherPcs, FetcherType
    <3> QED
      BY <1>8, <3>1, <3>2 DEF Check
  <2>1. fetcher'[f].pc \in {"take", "snapshot"} /\ \A g \in Fetchers \ {f} : fetcher'[g] = fetcher[g]
    BY <2>a
  <2>2. tokens' \in SUBSET (Sources \cup {"default"})
    BY <1>8, PromptAssumption DEF Check, PromptTypeOK, Sources
  <2>3. PromptTypeOK' /\ SlotsSound'
    <3>1. PromptTypeOK'
      BY <1>8, <2>2, <2>a DEF Check, fetchOnly, PromptTypeOK
    <3>2. SlotsSound'
      BY <1>8, <2>1 DEF Check, At, SlotsSound
    <3> QED
      BY <3>1, <3>2
  <2>4. Alive' = Alive /\ \A g \in Fetchers : WillLook(g) => WillLook(g)'
    BY <1>8, <2>1 DEF Check, At, Alive, WillLook
  <2> QED
    BY <1>8, <2>3, <2>4 DEF Check, fetchOnly, FlagOwned, OneFetcher, PostServed
<1>9. ASSUME NEW f \in Fetchers, Snapshot(f) PROVE PromptInv'
  <2> DEFINE copy == [i \in Slots |-> IF slots[i].audio THEN slots[i] ELSE EmptySlot]
  <2>1. Sound(EmptySlot)
    BY DEF Sound, EmptySlot, SlotType, Names
  <2>2. copy \in [Slots -> SlotType] /\ \A i \in Slots : Sound(copy[i])
    BY <2>1 DEF SlotsSound, Sound
  <2>a. fetcher' = [fetcher EXCEPT ![f] = [@ EXCEPT !.pc = "commit", !.snapshot = copy]]
    BY <1>9 DEF Snapshot
  <2> HIDE DEF copy
  <2>b. /\ fetcher' \in [Fetchers -> FetcherType]
        /\ fetcher'[f].snapshot = copy
    <3> DEFINE new == [fetcher[f] EXCEPT !.pc = "commit", !.snapshot = copy]
    <3>1. fetcher[f] \in FetcherType
      BY DEF PromptTypeOK
    <3>2. /\ new \in FetcherType
          /\ new.snapshot = copy
      BY <2>2, <3>1 DEF FetcherPcs, FetcherType
    <3>3. fetcher' = [fetcher EXCEPT ![f] = new]
      BY <2>a
    <3> HIDE DEF new
    <3> QED
      BY <3>2, <3>3 DEF PromptTypeOK
  <2>3. fetcher'[f].pc = "commit" /\ \A g \in Fetchers \ {f} : fetcher'[g] = fetcher[g]
    BY <1>9 DEF Snapshot, PromptTypeOK
  <2>4. PromptTypeOK' /\ SlotsSound'
    <3>1. PromptTypeOK'
      BY <1>9, <2>b DEF Snapshot, fetchOnly, PromptTypeOK
    <3>2. SlotsSound'
      BY <1>9, <2>2, <2>3, <2>b DEF Snapshot, At, SlotsSound
    <3> QED
      BY <3>1, <3>2
  <2>5. Alive' = Alive /\ \A g \in Fetchers : WillLook(g) => WillLook(g)'
    BY <1>9, <2>3 DEF Snapshot, At, Alive, WillLook
  <2> QED
    BY <1>9, <2>4, <2>5 DEF Snapshot, fetchOnly, FlagOwned, OneFetcher, PostServed
<1>10. ASSUME NEW f \in Fetchers, NEW failing \in SUBSET Slots, Commit(f, failing) PROVE PromptInv'
  <2> DEFINE local == Local(f, failing)
  <2>1. local \in [Slots -> {r \in [text : Names, source : Sources \cup {"none"}, valid : BOOLEAN] : Result(r)}]
    BY <1>10, LocalSound DEF Commit
  <2>2. /\ slots' = [i \in Slots |-> [slots[i] EXCEPT !.text = local[i].text,
                        !.source = local[i].source, !.valid = local[i].valid]]
        /\ tokens' = {local[i].source : i \in Active(local, fetcher[f].weights)}
        /\ Go(f, "take") /\ UNCHANGED fetchOnly /\ At(f, "commit")
    BY <1>10 DEF Commit
  <2> HIDE DEF local
  <2>3. \A i \in Active(local, fetcher[f].weights) : i \in Slots /\ local[i].valid
    BY DEF Active
  <2>4. tokens' \in SUBSET (Sources \cup {"default"})
    BY <2>1, <2>2, <2>3 DEF Result
  <2>5. slots' \in [Slots -> SlotType] /\ \A i \in Slots : Sound(slots'[i])
    <3>1. ASSUME NEW i \in Slots PROVE slots'[i] \in SlotType /\ Sound(slots'[i])
      <4> DEFINE new == slots'[i]
      <4>1. slots[i] \in SlotType
        BY DEF PromptTypeOK
      <4>2. new = [slots[i] EXCEPT !.text = local[i].text, !.source = local[i].source,
                                   !.valid = local[i].valid]
        BY <2>2
      <4>3. /\ local[i] \in [text : Names, source : Sources \cup {"none"}, valid : BOOLEAN]
            /\ Result(local[i])
        BY <2>1
      <4>4. new \in SlotType /\ new.text = local[i].text /\ new.source = local[i].source
            /\ new.valid = local[i].valid
        BY <4>1, <4>2, <4>3 DEF SlotType
      <4> HIDE DEF new
      <4>5. Sound(new)
        BY <4>3, <4>4 DEF Sound, Result, Named
      <4> QED
        BY <4>4, <4>5 DEF new
    <3>2. slots' = [i \in Slots |-> slots'[i]]
      BY <2>2
    <3> HIDE DEF local
    <3> QED
      BY <3>1, <3>2
  <2>7. /\ fetcher'[f].pc = "take" /\ \A g \in Fetchers \ {f} : fetcher'[g] = fetcher[g]
        /\ fetcher' \in [Fetchers -> FetcherType]
    BY <2>2, GoTyped DEF PromptTypeOK, FetcherPcs
  <2>6. PromptTypeOK' /\ SlotsSound'
    <3>1. PromptTypeOK'
      BY <2>2, <2>4, <2>5, <2>7 DEF fetchOnly, PromptTypeOK
    <3>2. SlotsSound'
      BY <2>5, <2>7 DEF At, SlotsSound
    <3> QED
      BY <3>1, <3>2
  <2>8. Alive' = Alive /\ \A g \in Fetchers : WillLook(g) => WillLook(g)'
    BY <2>2, <2>7 DEF At, Alive, WillLook
  <2> QED
    BY <2>2, <2>6, <2>8 DEF fetchOnly, FlagOwned, OneFetcher, PostServed
<1>11. ASSUME NEW f \in Fetchers, Fail(f) PROVE PromptInv'
  <2>1. fetcher'[f].pc = "take" /\ \A g \in Fetchers \ {f} : fetcher'[g] = fetcher[g]
    BY <1>11, GoTyped DEF Fail, PromptTypeOK, FetcherPcs
  <2>a. fetcher' \in [Fetchers -> FetcherType]
    BY <1>11, GoTyped DEF Fail, PromptTypeOK, FetcherPcs
  <2>2. PromptTypeOK' /\ SlotsSound'
    BY <1>11, <2>1, <2>a DEF Fail, fetchOnly, At, PromptTypeOK, SlotsSound
  <2>3. Alive' = Alive /\ \A g \in Fetchers : WillLook(g) => WillLook(g)'
    BY <1>11, <2>1 DEF Fail, Alive, WillLook
  <2> QED
    BY <1>11, <2>2, <2>3 DEF Fail, fetchOnly, FlagOwned, OneFetcher, PostServed
<1>12. ASSUME NEW f \in Fetchers, Throw(f) PROVE PromptInv'
  <2>1. fetcher'[f].pc = "exit" /\ \A g \in Fetchers \ {f} : fetcher'[g] = fetcher[g]
    BY <1>12, GoTyped DEF Throw, PromptTypeOK, FetcherPcs
  <2>a. fetcher' \in [Fetchers -> FetcherType]
    BY <1>12, GoTyped DEF Throw, PromptTypeOK, FetcherPcs
  <2>2. PromptTypeOK' /\ SlotsSound'
    BY <1>12, <2>1, <2>a DEF Throw, At, PromptTypeOK, SlotsSound
  <2>3. Alive' = Alive
    BY <1>12, <2>1 DEF Throw, Alive
  <2> QED
    BY <1>12, <2>2, <2>3 DEF Throw, FlagOwned, OneFetcher, PostServed
<1>13. ASSUME NEW f \in Fetchers, Exit(f) PROVE PromptInv'
  <2>1. fetcher'[f].pc = "absent" /\ \A g \in Fetchers \ {f} : fetcher'[g] = fetcher[g]
    BY <1>13, GoTyped DEF Exit, PromptTypeOK, FetcherPcs
  <2>a. fetcher' \in [Fetchers -> FetcherType]
    BY <1>13, GoTyped DEF Exit, PromptTypeOK, FetcherPcs
  <2>2. PromptTypeOK' /\ SlotsSound'
    BY <1>13, <2>1, <2>a DEF Exit, At, PromptTypeOK, SlotsSound
  <2>3. Alive' = Alive \ {f} /\ f \in Alive /\ \A g \in Fetchers : WillLook(g) => WillLook(g)'
    BY <1>13, <2>1 DEF Exit, Alive, At, WillLook
  <2> QED
    BY <1>13, <2>2, <2>3 DEF Exit, FlagOwned, OneFetcher, PostServed
<1>14. ASSUME NEW weights \in Weightings, Reblend(weights) PROVE PromptInv'
  <2>a. weights \subseteq Slots
    BY PromptAssumption
  <2>b. \A i \in weights : slots[i].valid => slots[i].source \in Sources
    BY <2>a DEF SlotsSound, Sound, SlotType
  <2>1. tokens' \in SUBSET (Sources \cup {"default"})
    BY <1>14, <2>b DEF Reblend
  <2> QED
    BY <1>14, <2>1 DEF Reblend, userOnly, PromptTypeOK, SlotsSound, FlagOwned, OneFetcher, PostServed,
       Alive, At, WillLook
<1>15. CASE ResetState
  BY <1>15 DEF ResetState, userOnly, PromptTypeOK, SlotsSound, FlagOwned, OneFetcher, PostServed,
     Alive, At, WillLook
<1>16. CASE UNCHANGED promptVars
  BY <1>16 DEF promptVars, PromptTypeOK, SlotsSound, FlagOwned, OneFetcher, PostServed, Alive, At, WillLook
<1> QED
  BY <1>1, <1>2, <1>3, <1>4, <1>5, <1>6, <1>7, <1>8, <1>9, <1>10, <1>11, <1>12, <1>13, <1>14,
     <1>15, <1>16 DEF PromptNext, Set, Fetch, Use

\* Every reachable state satisfies the inductive invariant.
THEOREM PromptInvariance == PromptSpec => []PromptInv
  BY PromptInitInv, PromptStepInv, PTL DEF PromptSpec

\* A valid embedding is never shown under the name of something else.
THEOREM NamesHold == PromptSpec => []SlotConsistent
<1>1. PromptInv => SlotConsistent
  BY DEF PromptInv, SlotsSound, Sound, SlotConsistent
<1> QED
  BY <1>1, PromptInvariance, PTL

\* The flag is never left set with nobody to clear it, and without a reset in
\* the way there is one fetch thread, for which the flag is set.
THEOREM FlagHolds == PromptSpec => []FlagKept
<1>1. PromptInv => FlagKept
  BY DEF PromptInv, FlagKept
<1> QED
  BY <1>1, PromptInvariance, PTL

\* A posted prompt is taken by the thread that runs or by the one that is about
\* to be started, but for the window between a thread's last look and its exit.
THEOREM PostsHold == PromptSpec => []PostServed
<1>1. PromptInv => PostServed
  BY DEF PromptInv
<1> QED
  BY <1>1, PromptInvariance, PTL
=============================================================================
