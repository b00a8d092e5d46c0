SPECIFICATION ConfSpec
CONSTANTS
  Editors = {e1, e2}
  NoFile = NoFile
  MaxSaves = 2
INVARIANTS
  TestedBeforeWriting
CHECK_DEADLOCK FALSE
