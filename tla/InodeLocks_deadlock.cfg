SPECIFICATION NamesSpec
CONSTANTS
  Caller = {p1, p2}
  NINODE = 5
  INODES = 5
  Name = {"a", "b", "d"}
  NameCalls <- MCNameCalls
  MaxCalls = 2
INVARIANTS NoDeadlock
CHECK_DEADLOCK FALSE
SYMMETRY Sym
