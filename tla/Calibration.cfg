SPECIFICATION Spec
CONSTANTS
  Stops <- SomeStops
  MaxSteps = 7
INVARIANTS FileCalibrated ImageCalibrated UnitsAsAsked ColoursTold
