CONSTANTS
  q1 = q1
  q2 = q2
  q3 = q3
  q4 = q4
  Request = {q1, q2, q3, q4}
  Seed = Seed
  None = None

SPECIFICATION Spec

SYMMETRY Symmetry

INVARIANTS
  TypeOK
  PublishedInOrder

PROPERTIES
  NoLostUpdate

CHECK_DEADLOCK FALSE
