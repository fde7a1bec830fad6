SPECIFICATION Spec
CONSTANTS
  A = A  B = B  C = C  u1 = u1  u2 = u2  u3 = u3
  common = common  other = other
  Nodes = {A, B, C}
  Calls <- MCCalls
  Topics <- MCTopics
  deftopic = common
  Networks <- MCNetworks
  Local = local
INVARIANTS CountsAgree Agree Heard
PROPERTY LinksFollowUsers
CHECK_DEADLOCK FALSE
