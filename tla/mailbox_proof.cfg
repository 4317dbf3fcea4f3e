SPECIFICATION Spec
CONSTANTS
  acme = acme
  other = other
  support = support
  Orgs = {acme, other}
  Boxes = {support}
  Owner <- OneBox
  Publics = {a1, a2}
  Senders = {s1}
  Workers = {w1}
  MaxTickets = 1
  MaxMessages = 1
  MaxMails = 1
  MaxCited = 0
  MaxLocals = 2
  MaxEdits = 3
  Procs = {p1, p2}
  Faults <- NoFaults
  None = None
CHECK_DEADLOCK FALSE
SYMMETRY Symmetry
INVARIANT
  ProofOfOneAddress
