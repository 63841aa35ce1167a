SPECIFICATION FairSpec
CONSTANTS
  Second = 6
  Delay = 3
  Interval = 2
  Kinds = {"button"}
  Axes = 1
  Buttons = {1}
  Sticks = {}
  Points = {}
  Sizes = {}
  SeqMod = 2
  MaxTime = 19
  LastSet = 13
  MaxSets = 2
INVARIANTS ReportsFresh
PROPERTIES NothingStuck
CHECK_DEADLOCK FALSE
