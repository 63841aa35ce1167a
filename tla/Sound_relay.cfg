SPECIFICATION FairSpec
CONSTANTS
  Busy = {"vid"}
  Sorts <- MCSorts
  Firsts = {510}
  Second = 3
  Delay = 1
  MaxSounds = 2
  MaxWaiting = 2
  MaxBlows = 2
  MaxTime = 8
INVARIANTS SoundAsArrived MicUnderstood MicAnswersBlow
PROPERTIES SoundsServed
CHECK_DEADLOCK FALSE
