CONSTANTS
  Handlers = {h1}
  Base = Base
  Tracker = Tracker
  Tracks = TRUE
  MaxTracks = 2
  MaxShutdown = 2
  Workers = {w1}
  Errors = {e1}
  None = None
  Parts = {"handlers"}
  Period = 1
  MaxTime = 4
SPECIFICATION MCSpec
SYMMETRY Interchangeable
CHECK_DEADLOCK FALSE
INVARIANTS RegisteredIsActive
