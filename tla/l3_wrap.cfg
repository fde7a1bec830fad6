SPECIFICATION Spec
CONSTANTS
  Nodes = {"A", "B", "C", "D"}
  Networks <- Deads
  OBSINIT = 6
  OBSMIN = 2
  MINQUAL = 10
  PORTQUALITY = 192
  L3LIVES = 3
INVARIANT NoSelfLock
CHECK_DEADLOCK FALSE
