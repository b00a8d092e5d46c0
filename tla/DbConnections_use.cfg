SPECIFICATION DbSpec
CONSTANTS
  Queries = {q1, q2}
  Databases = {d1, d2}
  NoDb = NoDb
  MaxIdle = 2
  MaxDials = 1
  MaxQueries = 2
INVARIANTS
  RunsInItsDatabase
CHECK_DEADLOCK FALSE
