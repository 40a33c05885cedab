SPECIFICATION FairSpec
CONSTANTS
  p1 = p1
  p2 = p2
  p3 = p3
  a = a
  b = b
  long = long
  garbled = garbled
  Procs = {p1, p2}
  Root = p1
  Nobody = Nobody
  NSEM = 2
  NOSEM = 2
  Names = {a}
  NoName = NoName
  Spelled <- MCSpelled
  InitVals = {0, 1}
  MaxVals = {1}
  ResetVals <- MCResetVals
  ResetMaxes <- MCResetMaxes
  Discipline = "pc"
  RefCap = 3
  CountCap = 3
INVARIANTS RefCount NoLostWakeup FreeSlotUnused
PROPERTIES UnlinkReturns
CHECK_DEADLOCK FALSE
