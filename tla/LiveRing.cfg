SPECIFICATION Spec
CONSTANTS
  Capacity = 3
  Period = 2
  Threshold = 1
  Sizes = {2, 4}
  MaxFrames = 8
  MaxRestarts = 1
  Modes = {"paced", "timed", "local"}
INVARIANTS  PacingHolds StreamKept
PROPERTIES WaitsEnd
CHECK_DEADLOCK FALSE
