SPECIFICATION Spec
CONSTANTS
  MaxMessages = 3
  Workers = {w1, w2}
  MaxSmtp = 1
  MaxOutages = 1
  Faults <- InTime
  MaxFaults = 2
  None = None
CHECK_DEADLOCK FALSE
SYMMETRY Symmetry
INVARIANTS
  TypeOK
  MailedOnce
