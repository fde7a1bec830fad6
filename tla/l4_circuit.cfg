SPECIFICATION FairSpec
CONSTANTS
  A = A
  B = B
  Node <- MCNode
  Caller = A
  Modulus = 8
  L4WINDOW = 1
  L4N2 = 1
  Uses <- Circuits
INVARIANTS TypeOK HoldInv AckedIsReceived InOrder
PROPERTIES DeliveredOrClosed CloseCompletes CallIsAnswered
CHECK_DEADLOCK FALSE
