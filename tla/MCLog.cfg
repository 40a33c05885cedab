SPECIFICATION FairSpec
CONSTANTS
  o1 = o1
  o2 = o2
  o3 = o3
  Blank = Blank
  Ops = {o1, o2, o3}
  Blocks = {1, 2, 3, 4, 5}
  Plans <- MCPlans
  LOGSIZE = 4
  MAXOPBLOCKS = 2
  Size = 5
  MaxCrashes = 2
INVARIANTS LogHolds
PROPERTIES ImplementsAtomicDisk CallsEnd
CHECK_DEADLOCK FALSE
