\* The programs of usertests.c on a small disk, but for linkunlink and openiputtest.
SPECIFICATION Spec
CONSTANTS
  NInodes = 12
  NBlocks = 40
  NDirect = 3
  NIndirect = 5
  NCache = 6
  NProc = 3
  NFile = 5
  NOFile = 3
  MaxWrite = 3
  Tests <- MCTests
  ImageFiles <- MCImage
INVARIANTS TestsPass Fsck ReclaimedAlone NoCircularWait
