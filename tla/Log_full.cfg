SPECIFICATION Spec
CONSTANTS
  Block = {b1, b2, b3}
  Value = {v0}
  LogOp = {t1, t2, t3}
  MAXOPBLOCKS = 1
  NoBlock = NoBlock
  LOGSIZE = 3
  NLog = 3
INVARIANT NoPanic
