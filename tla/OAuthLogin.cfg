\* Two sign-ins of every kind and two dialogs.
SPECIFICATION MCSpec
CONSTANTS
    Platforms = {"codex", "xai", "cursor"}
    MaxLogins = 2
    MaxDialogs = 2
CHECK_DEADLOCK FALSE
INVARIANTS
  CancelStands
PROPERTIES
  EveryLoginEnds
