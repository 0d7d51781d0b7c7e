SPECIFICATION FairSpec
CONSTANTS
  Commands = {bat}
  LateAnswers = FALSE
  MinDelay = 1
  MaxDelay = 3
  MaxFaults = 2
PROPERTIES
  ServiceStarts
