SPECIFICATION Spec
CONSTANTS
  o1 = o1
  o2 = o2
  o3 = o3
  Blank = Blank
  Ops = {o1, o2}
  Blocks <- MCFileBlockSet
  Plans <- MCFilePlans
  LOGSIZE = 12
  MAXOPBLOCKS = 4
  Size = 12
  MaxCrashes = 0
INVARIANTS LogHolds
CHECK_DEADLOCK FALSE
