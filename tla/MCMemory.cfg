SPECIFICATION Spec
CONSTANTS
  NProc = 3
  NPages = 13
  Unit = 2
  PerTable = 2
  KTables = 1
  MaxPages = 4
  ExecSizes = {1}
INVARIANTS PagesOnce SizeBacked
