SPECIFICATION LiveSpec
CONSTANTS
  MaxMessages = 3
  Workers = {w1, w2}
  MaxSmtp = 1
  MaxOutages = 1
  Faults <- Passing
  MaxFaults = 1
  None = None
CHECK_DEADLOCK FALSE
INVARIANTS
  Covered
PROPERTIES
  Reached
