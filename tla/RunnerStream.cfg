SPECIFICATION Spec
CONSTANTS
  Frame = 2
  BufferSizes = {5}
  SizeT = 8
  Counts = {3}
  Blocking = {FALSE}
  Controllers = {c1}
  Operations = {"load_model"}
  Requests = {"User"}
  Playback = TRUE
  Bypassing = FALSE
  Resizing = FALSE
  MaxGeneration = 0
  c1 = c1
  c2 = c2
PROPERTIES FramesFit
