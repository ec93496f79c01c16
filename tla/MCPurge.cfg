CONSTANTS
  q1 = q1
  q2 = q2
  q3 = q3
  q4 = q4
  Request = {q1, q2}
  Seed = Seed
  None = None

SPECIFICATION Spec

PROPERTIES
  PurgeRemoves

CHECK_DEADLOCK FALSE
