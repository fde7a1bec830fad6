SPECIFICATION Spec
CONSTANTS
  BBSs = {"A", "B", "C"}
  Messages = {"l", "b", "p"}
  TypeOf <- Kinds
  SizeOf <- Sizes
  Networks <- TwoFeeders
  MaxBlock = 2
  DeferFor = 1
  MaxRestarts = 1
INVARIANT NoDup
CHECK_DEADLOCK FALSE
