SPECIFICATION ProcessesSpec
CONSTANTS
  NPROC = 3
  CPU = {c1, c2}
  NoCpu = NoCpu
  MaxPid = 4
  MaxTickets = 1
  KillPids = {3}
  UserCalls = {"wait", "kill", "settickets", "sleep", "exit"}
  Cpu = {k1, k2}
  Kproc = {q1, q2}
  Newborn = {q2}
  Sleeping = {q2}
  Interrupted = {q2, k1}
  Caller = {p1, p2}
  NINODE = 5
  INODES = 5
  Name = {"a", "b", "d"}
  NameCalls <- MCNameCalls
  MaxCalls = 2
SYMMETRY ProcessesSymmetry
INVARIANTS
  TypeOK
  OneCpuPerProcess
  NoOrphan
  NoLostWakeup
  EmbryoOwned
  PidNamesOneSlot
  SpinSound
  NamesSound
PROPERTIES
  FreedAlone
