SPECIFICATION MediaSpec
CONSTANTS
  Threads = {t1, t2}
  NoThread = NoThread
  Configs <- Hardware
  DEFAULT_CONFIG <- Default
  BufferSizes = {1, 2}
  DEFAULT_BUFFER_SIZE = 2
  RING = 2
  MAX_VOLUME = 1
INVARIANTS MediaTypeOK OutputLedger VolumeHeard VolumeWithdrawn MixerFollows
PROPERTIES NoDataLostTwice KeepsLockOrder MutexesAreReleased
CHECK_DEADLOCK FALSE
