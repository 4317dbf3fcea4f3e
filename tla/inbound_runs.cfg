SPECIFICATION LiveSpec
CONSTANTS
  Rows = {r1}
  Mails = {m1}
  Mailboxes = {}
  NoMailbox = NoMailbox
  Requests = {q1}
  Workers = {w1, w2}
  MaxRetries = 1
  MaxFaults = 2
  Faults <- AllFaults
  None = None
CHECK_DEADLOCK FALSE
INVARIANTS
  LandsOnce
  FilesRight
  AnnouncedOnce
PROPERTIES
  PendingMovesOn
