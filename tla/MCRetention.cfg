CONSTANTS
  c1 = c1
  w1 = w1
  w2 = w2
  NoMail = NoMail
  Call = {c1}
  Kind = {"customer", "quality"}
  Worker <- NoWorker
  Modes <- LiveOnly
  AfterCutover = {c1}
  MaxAttempts = 2
  MaxFaults = 0
  MaxIngests = 1

SPECIFICATION Spec
CHECK_DEADLOCK FALSE
INVARIANTS
  PendingMailSkipped
