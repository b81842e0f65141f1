\* One Skill under every operation and a fault, two under the writers of
\* lists with none.
SPECIFICATION MCSpec
CONSTANTS
  s1 = s1 s2 = s2 j1 = j1 p1 = p1 p2 = p2 c1 = c1 c2 = c2
  Skills <- MCSkills
  Projects <- Project1
  Procs <- Threads
  Contents <- Content2
  UserContents <- Content1
  Absent = Absent
  Nobody = Nobody
  Operations <- AllOps
  MaxFaults = 1
SYMMETRY Alike
CHECK_DEADLOCK FALSE
INVARIANTS
  NoLockCycle
  CopiesAreCurrent
PROPERTIES
  UserEntriesStay
  RequestsAreMet
