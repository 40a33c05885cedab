\* Run with MCProcQuery: kill of any pid marks a free slot too.
SPECIFICATION QSpec
CONSTANTS
  NPROC = 3
  NCPU = 1
  MaxPid = 3
  MAX_CHILDREN = 3
  Targets = {0, 1, 2, 3}
PROPERTIES NotBornKilled
CHECK_DEADLOCK FALSE
