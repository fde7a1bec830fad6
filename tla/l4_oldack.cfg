SPECIFICATION Spec
CONSTANTS
  A = A
  B = B
  Node <- MCNode
  Caller = A
  Modulus = 8
  L4WINDOW = 1
  L4N2 = 1
  Uses <- OldAck
INVARIANT AckedIsReceived
CHECK_DEADLOCK FALSE
