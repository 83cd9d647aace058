SPECIFICATION AdjustSpec
CONSTANTS
  Pixel = {1, 2, 3}
  Channel = {"red", "green"}
  Sample <- SomeValues
  Exposures <- SomeStops
  Orders <- Programs
  GLARE_LEVEL_RATIO = 2
INVARIANTS RangeUsed OrderIrrelevant LeavesTheUsual
