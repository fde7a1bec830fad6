SPECIFICATION FairSpec
CONSTANTS
  A = A
  B = B
  Station <- MCStation
  SeqMod = 4
  RcvWindow = 2
  LINKWINDOW = 2
  PORTN2 = 2
  Versions = {FALSE}
  MaxMsgs <- OneOut
  Batch = 1
  AirCap = 1
  Closers = {A}
  MayBeBusy = {B}
PROPERTIES DeliveredOrClosed CloseCompletes
CHECK_DEADLOCK FALSE
