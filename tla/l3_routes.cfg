SPECIFICATION FairSpec
CONSTANTS
  Nodes = {"A", "B", "C", "D"}
  Networks <- All
  OBSINIT = 6
  OBSMIN = 2
  MINQUAL = 10
  PORTQUALITY = 192
  L3LIVES = 3
INVARIANTS TypeOK NoDangling
PROPERTIES Forgets Learns ComesToRest GetsThrough
CHECK_DEADLOCK FALSE
