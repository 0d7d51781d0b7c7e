SPECIFICATION Spec
CONSTANTS
  Commands = {bat}
  LateAnswers = FALSE
  MinDelay = 1
  MaxDelay = 3
  MaxFaults = 1
INVARIANTS
  OneOutstanding
