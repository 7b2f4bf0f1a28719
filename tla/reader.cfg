SPECIFICATION Spec
CHECK_DEADLOCK FALSE
CONSTANTS
  FrameLen = 2
  MaxSwipes = 3
  MaxOpens = 2
  ReadyLen = 1
INVARIANTS
  TypeOK
  OnePlace
  InOrder
  CardIsOneSwipe
  NeverReplayed
PROPERTY
  ImplementsSerialLine
