SPECIFICATION Spec
CONSTANTS
  Threads = {t1, t2}
  NoThread = NoThread
  Names = {a, b}
  NoName = NoName
  Stored <- ShortNames
  Ports = {q1}
  NoPort = NoPort
  MAX_ROOMS = 2
  Fds = {3, 4, 5}
PROPERTY CallsReturn
CHECK_DEADLOCK FALSE
