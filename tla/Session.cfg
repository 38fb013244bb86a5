SPECIFICATION Spec
CONSTANTS
  StaticNode <- MCStaticNode
  DefaultLinks <- GvdDefaultLinks
  ExampleLinks <- MCExampleLinks
  Clone <- MCClone
  MayLack <- MCMayLack
  Spelling <- GvdSpelling
  Char <- MCChar
  CLI_TOKEN_MAX_CNT = 4
  CMD_MAX_LEN = 11
  Typed <- MCTyped
  MaxTyped = 3
  Script <- MCScript
INVARIANTS ParserConsistent FullCommandAccepted RunsWhatWasRead TabKeepsCandidates ArraysFit
PROPERTIES ModeAsPromised TabReplaces EndsByQuit RequestReturns ScriptRuns
CHECK_DEADLOCK FALSE
