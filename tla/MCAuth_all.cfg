SPECIFICATION AuthSpec
CONSTANTS
  Slots = {q1, q2}
  Users = {alice}
  Sso = Sso
  AllowedUsers = {alice}
  Bypass = {b1}
  None = None
  TTL = 1
  MaxTokens = 2
  MaxTime = 2
  MaxFaults = 1
  MaxRestarts = 1
  Attempts = {s1, s2, s3}
  Addresses = {a1, a2}
  MaxFailures = 2
  Window = 1
  Nobody = Nobody
  MaxClock = 4
  Procs = {p1, p2}
  Values = {bash}
  Edited <- Shell
  Absent = Absent
  Blank = Blank
  MaxBoots = 4
  MaxLogins = 1
  MaxBootFaults = 1
SYMMETRY Symmetry
INVARIANTS
  AuthTypeOK
  LogoutIsFinal
  CookiesWork
  FailuresBounded
  MigratesToCurrent
  ChoicesKept
PROPERTIES
  LockoutEnds
CHECK_DEADLOCK FALSE
