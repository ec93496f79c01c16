CONSTANTS
  c1 = c1
  w1 = w1
  w2 = w2
  NoMail = NoMail
  Call = {c1}
  Kind = {"customer"}
  Worker <- TwoWorkers
  Modes <- ShadowThenLive
  AfterCutover = {c1}
  MaxAttempts = 3
  MaxFaults = 3
  MaxIngests = 2

SPECIFICATION FairSpec
CHECK_DEADLOCK FALSE
INVARIANTS
  TypeOK
  AcceptedOnce
  HonestVerdict
  AttemptsBounded
PROPERTIES
  KeepsPromise
  MailSettles
