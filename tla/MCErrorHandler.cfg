CONSTANTS
  Handlers = {h1, h2, h3}
  Base = Base
  Tracker = Tracker
  Tracks = TRUE
  MaxTracks = 2
  MaxShutdown = 4
  Workers = {w1, w2}
  Errors = {e1, e2}
  None = None
  Parts = {"handlers", "noDups"}
  Period = 1
  MaxTime = 4
SPECIFICATION MCSpec
SYMMETRY Interchangeable
CHECK_DEADLOCK FALSE
INVARIANTS RestoresOriginal FatalReportedOnce
PROPERTIES ToldOnce
