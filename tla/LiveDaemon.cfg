SPECIFICATION MCSpec
CONSTANTS
  Daemons = {"d1", "d2"}
  Messages <- MCMessages
  TicksPerFrame = 2
  MaxFrames = 3
  ChunkFrames = 2
  QueueSize = 2
  DrumFrames = 7
  WindowFrames = 3
INVARIANTS AudioIsOneRun Reachable
PROPERTIES SignalServed 
CHECK_DEADLOCK FALSE
