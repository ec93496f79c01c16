CONSTANTS
  close = close
  shutdown = shutdown
  MaxFinals = 3
  BufferLimit = 2
  Closer <- MCCloser
  Gathered <- MCGathered
  HasProviderId = TRUE
  Recorded = TRUE
  Profiled = TRUE
  MaxFaults = 2

SPECIFICATION FairSpec

INVARIANTS
  TypeOK
  OneFinishRequest
  OneRecord
  QueuedIsTranscript
  WholeTranscript

PROPERTY
  NothingUndone
  HangUpSettles

CHECK_DEADLOCK FALSE
