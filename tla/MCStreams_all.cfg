SPECIFICATION StreamsSpec
CONSTANTS
  Plans <- AnyPlan
  PipeCap = 2
  OutCap = 1
  Logs <- SomeLogs
  LogPipeCap = 5
  BlockMax = 4
  PieceMax = 3
  TtyCap = 2
  MaxTyped = 3
  MaxPrinted = 3
  Texts <- SomeTexts
  Providers = {"ollama", "anthropic"}
  ChanSize = 2
  MaxBody = 3
INVARIANTS
  StreamsTypeOK
  OutputFaithful
  NoOrphan
  LogsShown
  TerminalFaithful
  AnswerWholeOrMarked
PROPERTIES
  StreamsEnd
CHECK_DEADLOCK FALSE
