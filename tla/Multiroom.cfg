SPECIFICATION Safety
CONSTANTS
  Threads = {t1, t2}
  NoThread = NoThread
  Names = {a, b, "long", "cut"}
  NoName = NoName
  Stored <- LongNames
  Ports = {q1, q2}
  NoPort = NoPort
  MAX_ROOMS = 3
  Fds = {3, 4}
SYMMETRY Symmetry
INVARIANTS TypeOK SocketLedger UnusedAreBlank WholeNamesOnce
PROPERTY ImplementsRegistry
CHECK_DEADLOCK FALSE
