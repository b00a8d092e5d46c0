SPECIFICATION AiSpec
CONSTANTS
  AiPages = {p1, p2}
  Models = {d1, d2}
  NoModel = NoModel
  MaxAiActs = 2
PROPERTIES
  ReadyMeansThere
CHECK_DEADLOCK FALSE
