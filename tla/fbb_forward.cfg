SPECIFICATION FairSpec
CONSTANTS
  BBSs = {"A", "B", "C"}
  Messages = {"l", "b", "p"}
  TypeOf <- Kinds
  SizeOf <- Sizes
  Networks <- Passing
  MaxBlock = 2
  DeferFor = 1
  MaxRestarts = 1
INVARIANTS NoLoss NoDup Whole
PROPERTIES AllForwarded SessionEnds
CHECK_DEADLOCK FALSE
