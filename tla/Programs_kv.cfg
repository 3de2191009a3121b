SPECIFICATION ProgramsSpec
CONSTANTS
  Parts = {"kv"}
  KvKey = {1, 2, 3}
  INITIAL_CAPACITY = 2
  KvBuffer = {1, 2, 3, 4}
  MaxCommands = 4
  Scripts <- MCScripts
  InDir <- MCDir
  BufLines = 2
  MaxShells = 6
  Lines <- MCLines
  MAXARGS = 3
  Sizes = {2, 3, 6}
  MORECORE = 5
  HeapStart = 2
  HeapEnd = 16
  Patterns <- MCPatterns
  Subjects <- MCSubjects
  Streams <- MCStreams
  BUFSIZE = 4
  MemSize = 6
  WIDTH = 6
  Formats <- MCFormats
  WcTexts <- MCWcTexts
  Inputs <- MCInputs
  CNames <- MCNames
  CMax = 3
  Consumer = {c1, c2, c3}
  Producer = p
  Missing = Missing
  Files <- MCFiles
  ChunkSz = 2
  QLen = 2
  ConsReader = {1, 2}
  INPUT_BUF = 2
  WRAP = 4
  MaxRead = 2
  MaxTyped = 5
  MaxCalls = 1
  MaxKeys = 3
  MaxCodes = 6
  User = {u1, u2}
  NBUF = 2
  BlockNo = {1, 2, 3}
  Nobody = Nobody
  MaxData = 1
  BadBlock = {3}
INVARIANT ValuesLive
CHECK_DEADLOCK FALSE
