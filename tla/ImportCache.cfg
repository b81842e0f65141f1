SPECIFICATION Spec
CONSTANTS
  t1 = t1
  t2 = t2
  Threads <- TwoThreads
  MaxCommits = 2
  MaxTasks = 5
  MaxFaults = 2
SYMMETRY
  Symmetry
CHECK_DEADLOCK FALSE
INVARIANTS
  CheckoutStands
  PreviewHolds
  NoLockCycle
