SPECIFICATION Spec
CONSTANTS
  MaxFaults = 3
  MaxGens = 4
INVARIANTS AtMostOnce PublishedStays
CHECK_DEADLOCK FALSE
