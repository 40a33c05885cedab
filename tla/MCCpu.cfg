SPECIFICATION Spec
CONSTANTS
  NCpu = 2
  NProc = 2
  SleepFor = 2
INVARIANTS InterruptsMatch OneCpu
PROPERTIES EveryoneRuns
