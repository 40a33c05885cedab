SPECIFICATION ShellSpec
CONSTANTS
  MaxArgs = 4
  NProc = 8
  NFd = 7
  Lines <- MCLines
  Parse <- MCParse
  MCLen = 3
  MaxLines = 1
  MaxEofs = 1
  MaxFails = 1
CHECK_DEADLOCK FALSE
INVARIANTS ParserAgrees Wired InOrder
PROPERTIES ShellReturns
