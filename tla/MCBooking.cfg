CONSTANTS
  c1 = c1
  q1 = q1
  q2 = q2
  q3 = q3
  q4 = q4
  NoRow = NoRow
  NoCall = NoCall
  Call = {c1}
  Time <- Times
  Slot <- Slots
  Request = {q1, q2, q3, q4}
  MaxFaults = 1

SPECIFICATION MCSpec

SYMMETRY Symmetry

INVARIANTS
  TypeOK
  NoDoubleBooking
  WrittenOnce
  AnswersTrue

PROPERTIES
  CancelledStays

CHECK_DEADLOCK FALSE
