SPECIFICATION Spec
CONSTANTS
  Orgs = {o1, o2}
  Procs = {p1, p2}
  Providers = {mailjet, scaleway_tem}
  Reusing = {mailjet}
  Addressing = TRUE
  MaxTokens = 2
  MaxRefs = 2
  MaxRecords = 1
  Faults = {"race", "doubt", "loss", "switch"}
  MaxFaults = 1
  None = None
CHECK_DEADLOCK FALSE
SYMMETRY Symmetry
INVARIANTS
  TypeOK
  OnlyOwnerRegistered
  Registrations
PROPERTIES
  SendersProved
