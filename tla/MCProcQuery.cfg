SPECIFICATION QFairSpec
CONSTANTS
  NPROC = 3
  NCPU = 2
  MaxPid = 3
  MAX_CHILDREN = 3
  Targets <- MCTargets
INVARIANTS ParentAlive UniquePids NoLostWait QueryComplete AncestorRight
PROPERTIES ZombiesReaped KilledExits
CHECK_DEADLOCK FALSE
