SPECIFICATION Spec
CONSTANTS
  Browsers = {p1, p2}
  Names = {d1, d2}
  Newest = 2
  MaxAsked = 2
  MaxEvents = 1
  Runnable = {"a", "b"}
  Template = "t@"
  Kinds = {"", "service", "socket"}
  KindOf <- Sockets
  MaxHostEvents = 2
  DiskPages = {p1, p2}
  Volumes = {d1, d2}
  GroupSize = 4
  MaxExtensions = 2
  MaxOutside = 2
  N = 3
  Most = 2
  AiPages = {p1, p2}
  Models = {d1, d2}
  NoModel = NoModel
  MaxAiActs = 3
  Interfaces = {eth}
  Addresses = {ad}
  MTUs = {0, 9000}
  Word = 4
  Wraps = {3, 4}
  MaxBytes = 2
  MaxCame = 3
  MaxSeconds = 3
  MaxNetActs = 3
  ScorePages = {p1, p2}
  Checks = {ck}
  TTL = 1
  LastHour = 2
  MaxScans = 2
  MaxFixes = 2
SYMMETRY Symmetry
INVARIANTS
  HostTypeOK
  UnusableNeverAdopted
  EachUnitOnce
  UnfilledIsTold
  OneFileSystem
  
PROPERTIES
  OkMeansStarted
  FixesStaySeen
CHECK_DEADLOCK FALSE
