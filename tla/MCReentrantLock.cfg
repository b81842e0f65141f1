SPECIFICATION FairLockSpec
CONSTANTS
  a1 = a1
  a2 = a2
  c1 = c1
  app = app
  cli = cli
  Nobody = Nobody
  Threads <- MCThreads
  Procs <- MCProcs
  ProcOf <- MCProcOf
  MaxDepth = 3
INVARIANTS
  GuardOwnsBoth
  NothingLeaks
PROPERTIES
  Implements
  BudgetedCallsReturn
  NoLostWakeup
