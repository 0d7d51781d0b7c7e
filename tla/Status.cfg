SPECIFICATION FairSpec
CONSTANTS
  MaxModules = 2
  MaxFaults = 3
INVARIANTS
  PageSaysWhy
PROPERTIES
  StatusSettles
