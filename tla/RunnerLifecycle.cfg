SPECIFICATION Spec
CONSTANTS
  Frame = 1
  BufferSizes = {1}
  SizeT = 2
  Counts = {}
  Blocking = {FALSE}
  Controllers = {c1, c2}
  Operations = {"start", "stop", "load_model", "unload", "prefill_state", "prefill_silence", "reset", "save_state", "load_state", "reset_to_factory", "load_musiccoca_model"}
  Requests = {"User", "Transport"}
  Playback = FALSE
  Bypassing = TRUE
  Resizing = TRUE
  MaxGeneration = 0
  c1 = c1
  c2 = c2
SYMMETRY Interchangeable
INVARIANTS  LoadedWhileAlive
PROPERTIES UserResetKept
