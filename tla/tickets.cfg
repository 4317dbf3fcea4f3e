SPECIFICATION Spec
CONSTANTS
  MaxTickets = 2
  MaxRequests = 3
  MaxEdits = 3
  Procs = {p1, p2}
  Faults <- FaultKinds
  MaxFaults = 1
  None = None
CHECK_DEADLOCK FALSE
SYMMETRY Symmetry
INVARIANTS
  TypeOK
  NeverClashes
PROPERTIES
  ReopensInTime
