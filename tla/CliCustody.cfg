\* Two accounts, four generations together, every operation, three faults.
SPECIFICATION MCSpec
CONSTANTS
    None = None
    Accounts = {a1, a2}
    Ops <- AllOps
    MaxGen = 4
    MaxIssued = 4
    MaxFaults = 3
SYMMETRY Symmetry
CHECK_DEADLOCK FALSE
INVARIANTS
  TypeOK
  NeverDangling
  SessionsKept
  CardsAgree
PROPERTIES
  SwitchIsWhole
