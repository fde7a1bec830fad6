SPECIFICATION Spec
CONSTANTS
  A = A
  B = B
  Node <- MCNode
  Caller = A
  Modulus = 16
  L4WINDOW = 3
  L4N2 = 1
  Uses <- FourOut
INVARIANT InOrder
CHECK_DEADLOCK FALSE
