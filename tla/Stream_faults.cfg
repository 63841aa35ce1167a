SPECIFICATION Spec
CONSTANTS
  SeqMod = 4
  Window = 2
  InFlight = 2
  MaxParts = 2
  MaxPackets = 8
  MaxFaults = 2
  UninitFlag = {TRUE, FALSE}
  UnaskedKeys = TRUE
  RequestsLost = TRUE
INVARIANTS WholeFrames BufferWithinFrame RecoversInTime
PROPERTIES ShowsWhatDecodes
CHECK_DEADLOCK FALSE
