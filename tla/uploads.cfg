SPECIFICATION Spec
CONSTANTS
  MaxFiles = 1
  MaxVideos = 1
  MaxMessages = 1
  MaxRetries = 1
  Procs = {p1, p2}
  Faults <- FaultKinds
  MaxFaults = 1
  None = None
CHECK_DEADLOCK FALSE
SYMMETRY Symmetry
INVARIANTS
  TypeOK
  RepliesWhole
  ErasedIsGone
  NoneForgotten
