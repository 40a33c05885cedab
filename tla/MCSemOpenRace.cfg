SPECIFICATION Spec
CONSTANTS
  p1 = p1
  p2 = p2
  p3 = p3
  a = a
  b = b
  long = long
  garbled = garbled
  Procs = {p1, p2}
  Root = p1
  Nobody = Nobody
  NSEM = 2
  NOSEM = 1
  Names = {a}
  NoName = NoName
  Spelled <- MCSpelled
  InitVals = {0}
  MaxVals = {1}
  ResetVals = {}
  ResetMaxes = {}
  Discipline = "free"
  RefCap = 3
  CountCap = 3
PROPERTIES OpenReusesName
CHECK_DEADLOCK FALSE
