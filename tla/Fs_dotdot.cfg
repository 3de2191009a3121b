SPECIFICATION TestSpec
CONSTANTS
  NINODES = 9
  NBLOCKS = 12
  BSIZE = 4
  NDIRECT = 2
  DIRSIZ = 14
  Proc = {1, 2, 3}
  InitProc = 1
  NFILE = 5
  NOFILE = 4
  MAXWRITE = 8
  Disks <- MCDisks
  TestDisk <- MCTestDisk
  AnyProc = {1, 2}
  AnyFd = 2
  Calls <- MCCalls
  Tests <- MCAny
INVARIANTS LockedHasType
