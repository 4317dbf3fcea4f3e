SPECIFICATION Spec
CONSTANTS
  Addrs = {e1, e2}
  Sessions = {s1, s2}
  Procs = {p1, p2}
  MaxContacts = 2
  MaxTickets = 1
  MaxRequests = 3
  MaxEdits = 2
  Faults <- FaultKinds
  MaxFaults = 1
  User = User
  None = None
CHECK_DEADLOCK FALSE
SYMMETRY Symmetry
INVARIANTS
  TypeOK
  ProofsReal
  SenderProved
  StaysErased
  OneConversation
PROPERTIES
  NothingLost
  ProofOpens
