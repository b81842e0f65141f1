CONSTANTS
  s1 = s1 s2 = s2 c1 = c1 c2 = c2 i1 = i1 i2 = i2 k1 = k1 p1 = p1 p2 = p2
  Skills <- Skill2
  Contents <- Content2
  Selections <- Both
  Plans <- Plan2
  Keys <- Key1
  Procs <- Threads
  Absent = Absent
  Nobody = Nobody
  MaxEvents = 2
SPECIFICATION Spec
SYMMETRY Permuted
CHECK_DEADLOCK FALSE
INVARIANTS
  TypeOK
  LinksAreListed
PROPERTIES
  ReceiptIsTrue
