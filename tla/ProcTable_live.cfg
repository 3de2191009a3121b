SPECIFICATION FairSpec
CONSTANTS
  NPROC = 3
  CPU = {c1}
  NoCpu = NoCpu
  MaxPid = 3
  MaxTickets = 2
  KillPids = {2}
  UserCalls = {"kill", "settickets", "sleep", "exit"}
PROPERTIES
  RunnableRuns
  OrphanReaped
  KilledExits
