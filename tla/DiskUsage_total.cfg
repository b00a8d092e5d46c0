SPECIFICATION UsageSpec
CONSTANTS
  N = 3
  Most = 2
INVARIANTS
  SizeIsTheTotal
CHECK_DEADLOCK FALSE
