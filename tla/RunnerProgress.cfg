SPECIFICATION FairHostSpec
CONSTANTS
  Frame = 1
  BufferSizes = {1}
  SizeT = 2
  Counts = {1}
  Blocking = {TRUE}
  Controllers = {c1}
  Operations = {"load_model"}
  Requests = {}
  Playback = FALSE
  Bypassing = FALSE
  Resizing = FALSE
  MaxGeneration = 1
  c1 = c1
  c2 = c2
PROPERTIES  MutexReleased 
