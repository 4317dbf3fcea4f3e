SPECIFICATION Spec
CONSTANTS
  Rows = {r1, r2}
  Mails = {m1}
  Mailboxes = {support}
  NoMailbox = NoMailbox
  Requests = {q1, q2}
  Workers = {w1}
  MaxRetries = 0
  MaxFaults = 1
  Faults <- AllFaults
  None = None
CHECK_DEADLOCK FALSE
SYMMETRY Symmetry
INVARIANTS
  TypeOK
  WaitingIsKept
  OneRowPerMailbox
PROPERTIES
  KeepsLedger
