CONSTANTS
  c1 = c1
  c2 = c2
  e1 = e1
  e2 = e2
  e3 = e3
  e4 = e4
  s1 = s1
  s2 = s2
  r1 = r1
  NoCall = NoCall
  Call <- TwoCalls
  Event <- TwoCallsEvents
  EventCall <- TwoCallsOf
  SkipEvent = {}
  Server = {s1}
  Replay = {}
  ReplayEvent <- TwoCallsEvents
  OutboundMode = "live"
  AfterCutover <- LiveCalls
  MailOff = {}
  MaxAttempts = 2
  MaxClaims = 3
  MaxFaults = 1

SPECIFICATION FairSpec
CHECK_DEADLOCK FALSE
PROPERTIES
  PendingDrains
