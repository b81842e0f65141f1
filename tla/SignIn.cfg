\* Two dialogs in a row, or one beside a status and a refresh task.
SPECIFICATION MCSpec
CONSTANTS
  a1 = a1
  w1 = w1
  r1 = r1
  Accounts = {a1}
  Watchers = {w1}
  Renewals = {r1}
  MaxDialogs = 2
  MaxCodes = 2
  MaxExtras = 1
  LogsOut = TRUE
CHECK_DEADLOCK FALSE
INVARIANTS
  EndedStays
PROPERTIES
  DialogEnds
