SPECIFICATION PublishSpec
CONSTANTS
  p1 = p1
  p2 = p2
  s1 = s1
  Publishers = {p1, p2}
  Offered = {s1}
  Payloads = {}
  MaxCommits = 2
  MaxScans = 3
SYMMETRY
  Symmetry
CHECK_DEADLOCK FALSE
INVARIANTS
  RevisionsFollowBranch
  PublishedOnce
