SPECIFICATION Spec
CONSTANTS
  Second = 3
  Delay = 1
  Interval = 2
  Kinds = {"joystick", "touch"}
  Axes = 2
  Buttons = {}
  Sticks = {100, 200}
  Points = {0, 400}
  Sizes = {400}
  SeqMod = 1
  MaxTime = 7
  LastSet = 5
  MaxSets = 2
INVARIANTS AxesOfOneInput ReportUnderstood CrashNeedsOverlap
CHECK_DEADLOCK FALSE
