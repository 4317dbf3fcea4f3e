SPECIFICATION Spec
CONSTANTS
  acme = acme
  other = other
  support = support
  Orgs = {acme, other}
  Boxes = {support}
  Owner <- OneBox
  Publics = {a1}
  Senders = {s1}
  Workers = {w1, w2}
  MaxTickets = 2
  MaxMessages = 3
  MaxMails = 0
  MaxCited = 2
  MaxLocals = 2
  MaxEdits = 1
  Procs = {p1}
  Faults <- FaultKinds
  None = None
CHECK_DEADLOCK FALSE
SYMMETRY Symmetry
INVARIANTS
  TypeOK
  ProofOfOneAddress
PROPERTIES
  LandsRight
