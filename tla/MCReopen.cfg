CONSTANTS
  close = close
  shutdown = shutdown
  MaxFinals = 1
  BufferLimit = 1
  Closer <- MCCloser
  Gathered <- MCGathered
  HasProviderId = FALSE
  Recorded = FALSE
  Profiled = TRUE
  MaxFaults = 0

SPECIFICATION FairSpec

PROPERTY
  EndedStaysEnded

CHECK_DEADLOCK FALSE
