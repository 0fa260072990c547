SPECIFICATION AudioSpec
CONSTANTS
  Threads = {t1}
  NoThread = NoThread
  Configs <- HighDepth
  DEFAULT_CONFIG <- Default
  BufferSizes = {1}
  DEFAULT_BUFFER_SIZE = 1
  RING = 2
  MAX_VOLUME = 1
INVARIANT WritesStayInData
CHECK_DEADLOCK FALSE
