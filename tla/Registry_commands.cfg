SPECIFICATION Spec
CONSTANTS
  f1 = f1
  f2 = f2
  p1 = p1
  u1 = u1
  NoFd = NoFd
  StaleFd = StaleFd
  NoPeer = NoPeer
  Fds = {f1}
  UninitFds = {u1}
  Peers = {p1}
  MaxClients = 2
  PingTimeout = 1
  TriesAllowed = 2
  CommandTries = 1
  PacketLen = 1
  CmdSendFails = TRUE
  MayStall = {}
INVARIANTS RemovalsDoNotMeet 
PROPERTIES CommandClientsStay
CHECK_DEADLOCK FALSE
