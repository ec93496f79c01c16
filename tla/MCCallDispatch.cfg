CONSTANTS
  c1 = c1
  c2 = c2
  Call = {c1, c2}
  Finish = {f1, f2}
  Drainer = {d1, d2}
  MaxFaults = 2
  NoJob = NoJob

SPECIFICATION MCSpec

INVARIANTS
  TypeOK
  DeliveredOnce
  

PROPERTIES
  SentIsFinal
  JobsSettle

CHECK_DEADLOCK FALSE
