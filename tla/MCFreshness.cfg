SPECIFICATION Spec
CONSTANTS
  Positions = {1, 2}
  Interval <- MCInterval
  Multiplier = 2
  MaxCommand = 1
  MaxFaults = 1
INVARIANTS
  ValidIsFresh
PROPERTIES
  SuccessAdvances
