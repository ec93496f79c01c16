CONSTANTS
  MaxPrompts = 1
  MaxResponses = 2
  MaxTools = 1

SPECIFICATION Spec

INVARIANTS
  TypeOK
  PolicyAsserts
  LateAudioDropped
  GreetsOnce
  OneGeneration
  EndIsComing

CHECK_DEADLOCK FALSE
