SPECIFICATION FairSpec
CONSTANTS
  P = P
  NoUser = NoUser
  NumberofStreams = 2
  Partner = {P}
  Caller = {P, User, Unknown}
  Stranger = {Unknown}
  Port = {1, 2}
  InterlockPort = 1
  Chain <- OnePartner
INVARIANTS TypeOK FreeHasNoDisc ForwardingHasSession IncomingAlone
PROPERTY RunEnds
CHECK_DEADLOCK FALSE
