SPECIFICATION BadgeSpec
CONSTANTS
  n1 = n1
  patrol = patrol
  window = window
  u1 = u1
  Tracked = {n1}
  Refreshes = {patrol, window}
  Updates = {u1}
  MaxVersion = 2
  MaxInstalls = 2
  MaxRevision = 3
  SavesFail = TRUE
INVARIANTS
  NoRevivedBadge
PROPERTIES
  UndisturbedRefreshIsRight
