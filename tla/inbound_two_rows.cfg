SPECIFICATION Spec
CONSTANTS
  Rows = {r1, r2}
  Mails = {m1}
  Mailboxes = {support}
  NoMailbox = NoMailbox
  Requests = {q1}
  Workers = {w1, w2}
  MaxRetries = 0
  MaxFaults = 0
  Faults <- NoFaults
  None = None
CHECK_DEADLOCK FALSE
INVARIANT
  MailLandsOnce
