---------------------------- MODULE MCMidiNotes ----------------------------
(* MidiNotes for TLC: two players on two neighbouring pitches. *)
EXTENDS MidiNotes, TLC

CONSTANTS audio, keyboard

Interchangeable == Permutations(Players)
=============================================================================
