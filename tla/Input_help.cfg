SPECIFICATION Spec
CONSTANTS
  Second = 4
  Delay = 2
  Interval = 2
  Kinds = {"button"}
  Axes = 1
  Buttons = {1}
  Sticks = {}
  Points = {}
  Sizes = {}
  SeqMod = 1
  MaxTime = 9
  LastSet = 9
  MaxSets = 1
INVARIANTS SentForDelay
CHECK_DEADLOCK FALSE
