SPECIFICATION Spec
CONSTANTS
  Stops <- SomeStops
  MaxSteps = 3
INVARIANT PhotometricUnits
