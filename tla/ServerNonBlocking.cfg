SPECIFICATION LoopSpec
CONSTANTS
  Peers = {p1, p2}
  NoPeer = NoPeer
  MAX_CLIENTS = 2
  Fds = {0, 1, 2, 3}
  OtherFds = {0}
  HttpMethods = {"GET"}
  RtspMethods = {"SETUP"}
  Noise = {"body"}
  INBOX = 1
  BUFFER_SIZE = 1
  SNDBUF = 1
  MaxOwed = 1
  Signals = FALSE
PROPERTY PassesEnd
CHECK_DEADLOCK FALSE
