SPECIFICATION ServicesSpec
CONSTANTS
  Threads = {t1, t2}
  Paths = {"doc", "take", "part", "c", "c.npz", "w", "m", "m2", "x"}
  Under <- MCUnder
  SavedAs <- MCSavedAs
  Stored <- MCStored
  Requests <- MCRequests
  MaxRenders = 2
  Tracks = 2
  MaxEvents = 4
  Deltas = {0, 2}
  Keys = {36, 38}
  Channels = {9, 10}
  Selected = 10
  TempoSet = {960}
  PerBeat = 24
  Rate = 100
  Limits <- MCLimits
  Packets <- MCPackets
INVARIANTS OneRender FilesTrue TakeExact ScheduleHeard
PROPERTIES ServiceGoesOn
\* A file that is read and a schedule that is made are the end.
CHECK_DEADLOCK FALSE
