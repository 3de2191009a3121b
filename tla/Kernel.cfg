SPECIFICATION KernelSpec
CONSTANTS
  Parts = {"pipe", "memory", "tests", "log", "tickets", "iocount"}
  Reader = {r1, r2}
  Writer = {w1}
  NoProc = NoProc
  PIPESIZE = 2
  W = 4
  MaxIO = 2
  MaxBytes = 5
  Cpus = {1, 2}
  NFRAME = 24
  MProc = {1, 2, 3}
  FirstProc = 1
  PGSIZE = 2
  TABPAGES = 8
  KTABS = 1
  KERNBASE = 24
  WORD = 64
  Files <- MCFiles
  InitFile <- MCInit
  MaxSbrk = 3
  MaxArgs = 3
  MaxMemCalls = 4
  MemTestNames = {"sbrktest", "mem", "forktest", "bigargtest", "exectest"}
  Big = 23
  N = 3
  Steady = {1, 3}
  MaxTickets = 3
  MaxPass = 3
  Block = {b1, b2}
  Value = {v0, v1}
  LogOp = {t1, t2}
  MAXOPBLOCKS = 2
  NoBlock = NoBlock
  LOGSIZE = 5
  NLog = 5
  IoProc = {i1, i2}
  FirstIo = i1
  NoHolder = NoHolder
  UINT = 8
  IoTests = {"test_1", "test_2", "test_3", "test_4", "test_5"}
  Loops = 3
  Children = 2
INVARIANTS
  PipeSound
  FreedIsUnused
  MemorySound
  TestsPass
  LogSound
  FairShare
  NoneLost
PROPERTIES
  CallsEnd
  AtomicGroups
  SleepersWoken
