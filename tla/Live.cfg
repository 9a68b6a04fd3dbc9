SPECIFICATION LiveSpec
CONSTANTS
  Modes = {"serial", "sync-diagnosis", "pipeline-1", "chunked", "scan-chunked"}
  Schedules = {0, 1, 5}
  ChunkSizes = {1, 2, 4}
  Updates <- MCUpdates
  MaxCalls = 2
  Base = "base"
  Plans <- MCPlans
  Warmups = {0, 1}
  Lives = {1, 2}
  MaxFrames = 5
  RingSize = 2
INVARIANTS  PromptOnBoundary PlanHeard
 
CHECK_DEADLOCK FALSE
