SPECIFICATION FairSpec
CONSTANTS
  A = A
  B = B
  Station <- MCStation
  Callers = {A, B}
  XIDCallers = {A}
  XIDMayCross = FALSE
  Appl = {B}
  MayRefuse = {B}
  Others = {B}
  MAXCIRCUITS = 1
  MaxCalls <- MCMaxCalls
  PORTN2 = 2
  AirCap = 1
INVARIANT NoOrphan
PROPERTIES AnsweredOnce CallAnswered EndsAgree SetupEnds
CHECK_DEADLOCK FALSE
