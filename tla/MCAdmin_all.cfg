SPECIFICATION Spec
CONSTANTS
  Tabs = {p1, p2}
  MaxJobs = 4
  MaxChanges = 4
  Admins = {p1, p2}
  MaxRules = 4
  MaxClicks = 4
  Queries = {p1, p2}
  Databases = {d1, d2}
  NoDb = NoDb
  MaxIdle = 2
  MaxDials = 2
  MaxQueries = 3
  Editors = {p1, p2}
  NoFile = NoFile
  MaxSaves = 4
  Lifetime = 3
  Margin = 1
  MaxPairs = 4
  LastDay = 7
  Viewers = {p1, p2}
  Gone = Gone
  MaxRepos = 5
  MaxEdits = 3
  Creators = {p1, p2}
  Users = {"root", "daemon", "ann"}
  Groups = {"g"}
  MaxCreated = 3
  MaxCommands = 2
  FilePages = {p1, p2}
  FileNames = {d1, d2}
  Closed = Closed
  MaxOpens = 2
  MaxWrites = 2
SYMMETRY Symmetry
INVARIANTS
  AdminTypeOK
  CommentsStayWithTheirJob
  MapIsLive
  AloneInItsDatabase
  SavedAloneIsGood
  LoginsAreAsTold
  FilesKeepTheirText
PROPERTIES
  OnlyWhatIsShown
  PairKept
CHECK_DEADLOCK FALSE
