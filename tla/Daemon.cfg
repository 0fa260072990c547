SPECIFICATION DaemonSpec
CONSTANTS
  Peers = {p1, p2}
  NoPeer = NoPeer
  MAX_CLIENTS = 2
  Fds = {0, 1, 2}
  OtherFds = {0}
  HttpMethods = {"GET"}
  RtspMethods = {}
  Noise = {}
  INBOX = 2
  BUFFER_SIZE = 2
  SNDBUF = 1
  MaxOwed = 2
  Signals = TRUE
INVARIANTS DaemonTypeOK UpIsPrefix CleanExit
PROPERTIES ServerUsedWell QueueDrains ShutdownCompletes ShutdownComesNearer
CHECK_DEADLOCK FALSE
