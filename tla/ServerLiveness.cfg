SPECIFICATION Spec
CONSTANTS
  Peers = {p1, p2}
  NoPeer = NoPeer
  MAX_CLIENTS = 1
  Fds = {0, 1, 2, 3}
  OtherFds = {0}
  HttpMethods = {"GET"}
  RtspMethods = {"SETUP"}
  Noise = {"body"}
  INBOX = 2
  BUFFER_SIZE = 2
  SNDBUF = 1
  MaxOwed = 1
  Signals = FALSE
INVARIANT NoUnsolicitedReply
PROPERTIES RequestsAnswered QueueDrains GoneAreReaped
CHECK_DEADLOCK FALSE
