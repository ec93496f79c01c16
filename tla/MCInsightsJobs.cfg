CONSTANTS
  c1 = c1
  c2 = c2
  e1 = e1
  e2 = e2
  e3 = e3
  e4 = e4
  s1 = s1
  s2 = s2
  r1 = r1
  NoCall = NoCall
  Call <- OneCall
  Event <- OneCallEvents
  EventCall <- OneCallOf
  SkipEvent <- Skipped
  Server = {s1}
  Replay = {r1}
  ReplayEvent <- OneCallEvents
  OutboundMode = "live"
  AfterCutover <- LiveCalls
  MailOff = {}
  MaxAttempts = 3
  MaxClaims = 4
  MaxFaults = 2

SPECIFICATION Spec
CHECK_DEADLOCK FALSE
INVARIANTS
  TypeOK
  OneOwner
  WholeReport
  ReportsQueued
  AutoRetryBudget
  IngestedOnce
PROPERTIES
  SucceededIsFinal
