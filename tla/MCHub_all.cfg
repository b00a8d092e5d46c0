SPECIFICATION FairSpec
CONSTANTS
  Clients = {c1, c2}
  RegCap = 1
  UnregCap = 1
  BcastCap = 1
  SendCap = 1
  MaxCalls = 2
INVARIANTS
  TypeOK
  NoClosedMember
  OnlySlowClientsLose
PROPERTIES
  TopicSpec
  AllGetThrough
CHECK_DEADLOCK FALSE
