SPECIFICATION Spec
CONSTANTS
  A = A
  B = B
  Station <- MCStation
  SeqMod = 4
  RcvWindow = 2
  LINKWINDOW = 2
  PORTN2 = 2
  Versions = {FALSE, TRUE}
  MaxMsgs <- FiveOut
  Batch = 5
  AirCap = 2
  Closers = {}
  MayBeBusy = {}
INVARIANTS TypeOK WindowInv Watched AckedIsReceived SavedIsDue
PROPERTY ImplementsStream
CHECK_DEADLOCK FALSE
