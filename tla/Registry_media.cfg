SPECIFICATION Spec
CONSTANTS
  f1 = f1
  f2 = f2
  p1 = p1
  u1 = u1
  NoFd = NoFd
  StaleFd = StaleFd
  NoPeer = NoPeer
  Fds = {f1, f2}
  UninitFds = {u1}
  Peers = {}
  MaxClients = 3
  PingTimeout = 1
  TriesAllowed = 1
  CommandTries = 0
  PacketLen = 2
  CmdSendFails = FALSE
  MayStall = {}
INVARIANTS FdOwnership  NoDescriptorLeak
PROPERTIES DropNeedsFailures
SYMMETRY Symmetry
