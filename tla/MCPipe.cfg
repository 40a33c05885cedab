SPECIFICATION FairSpec
CONSTANTS
  p1 = p1
  p2 = p2
  Procs = {p1, p2}
  Root = p1
  Nobody = Nobody
  PIPESIZE = 2
  UINT = 4
  Bytes = {0, 1}
  Sent <- MCSent
  MaxCount = 3
INVARIANTS NoUseAfterFree NoLostWakeup
PROPERTIES ImplementsFifo EndOfFile
CHECK_DEADLOCK FALSE
