\* One Skill under every operation and two faults, two under updates and
\* rollbacks with one.
SPECIFICATION MCSpec
CONSTANTS s1 = s1
          s2 = s2
          e1 = e1
          Absent = Absent
          Skills <- MCSkills
          Releases <- Rel2
          Edits <- Edit1
          Operations <- AllOps
          Hazards <- NoHazard
          MaxFaults = 2
SYMMETRY Alike
INVARIANTS
  TypeOK
  Agreement
  OwedKept
  PinHolds
PROPERTIES
  RecordsReleases
