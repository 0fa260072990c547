SPECIFICATION PlaybackSpec
CONSTANTS
  Threads = {t1, t2}
  NoThread = NoThread
  States = {"STOPPED", "PLAYING", "PAUSED", "BUFFERING"}
  Positions = {0, 1, 2}
SYMMETRY Symmetry
INVARIANTS PlaybackTypeOK PlaybackHeard PlaybackWithdrawn
CHECK_DEADLOCK FALSE
