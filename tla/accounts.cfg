SPECIFICATION Spec
CONSTANTS
  Users = {u1, u2}
  Procs = {p1, p2}
  MaxCodes = 2
  MaxAttempts = 2
  Faults <- FaultKinds
  MaxFaults = 1
  None = None
CHECK_DEADLOCK FALSE
SYMMETRY Symmetry
INVARIANTS
  TypeOK
  GuessesBounded
PROPERTIES
  LetsInOnce
  Administered
  OneOrganization
