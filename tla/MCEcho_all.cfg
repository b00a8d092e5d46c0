SPECIFICATION PaneSpec
CONSTANTS
  Requests = {r1, r2}
  RingSize = 2
  MaxEchoes = 3
  Free = Free
  RecentSize = 2
  PaneSize = 2
  MaxMounts = 1
  MaxDrops = 1
INVARIANTS
  RingAgreesWithTable
  SentExactlyOnce
  PaneTypeOK
  LiveEchoShownOnce
CHECK_DEADLOCK FALSE
