SPECIFICATION Safety
CONSTANTS
  Peers = {p1, p2, p3}
  NoPeer = NoPeer
  MAX_CLIENTS = 2
  Fds = {0, 1, 2, 3, 4}
  OtherFds = {0}
  HttpMethods = {"GET"}
  RtspMethods = {}
  Noise = {}
  INBOX = 1
  BUFFER_SIZE = 1
  SNDBUF = 1
  MaxOwed = 1
  Signals = TRUE
SYMMETRY PeerSymmetry
INVARIANTS TypeOK SlotsAreLive NothingLeaks NoUnsolicitedReply
PROPERTIES DropsOnlyTheGone RejectsOnlyWhenFull PassesShorten ImplementsService
CHECK_DEADLOCK FALSE
