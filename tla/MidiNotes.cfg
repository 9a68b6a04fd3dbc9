SPECIFICATION Spec
CONSTANTS
  audio = audio
  keyboard = keyboard
  Players = {audio, keyboard}
  NumPitches = 2
  Widths = {0, 1}
  OnsetModes = {0, 1}
SYMMETRY Interchangeable
INVARIANTS OnsetLatched KeyState  GateKept
