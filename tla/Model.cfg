INIT ModelInit
NEXT ModelNext
CONSTANTS
  Horizons = {0, 1, 2}
  Depths = {1, 2}
  MaxTime = 3
  Model <- MCSystemModel
  ActiveLevels = 1
  Requests <- MCRequests
  FrameCounts = {0, 1, 2}
  MaxCalls = 3
  MaxStream = 3
  Codecs <- MCCodecs
  Loudness = {20, 300}
  MaxBlock = 2
  MaxHeard = 3
INVARIANTS StepIsLayer LayersAgree StreamHolds TokensMeant CodecStreams CodecFits
CHECK_DEADLOCK FALSE
