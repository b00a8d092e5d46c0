SPECIFICATION RepoSpec
CONSTANTS
  Viewers = {p1}
  Gone = Gone
  MaxRepos = 6
  MaxEdits = 2
PROPERTIES
  RemovesOnlyIt
CHECK_DEADLOCK FALSE
