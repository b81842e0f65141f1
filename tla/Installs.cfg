\* One Skill with two faults, a fetched update and a planned repair; two in
\* batches with one fault.
SPECIFICATION MCSpec
CONSTANTS
  s1 = s1
  s2 = s2
  v1 = v1
  v2 = v2
  w1 = w1
  repoV = repoV
  repoW = repoW
  Edit = Edit
  Absent = Absent
  Skills <- MCSkills
  Versions <- MCVersions
  Sources <- MCSources
  SourceOf <- MCSourceOf
  Hazards = {}
  MaxFaults = 2
  MaxFetched = 1
  MaxPlans = 1
SYMMETRY Alike
INVARIANTS
  EditSurvives
  TornSwapIsVisible
  LockedIsRecoverable
PROPERTIES
  UpdateKeepsSource
  FailedBatchIsUndone
