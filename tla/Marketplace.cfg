\* Two overlapping refreshes, two contents, one loss of rows.
SPECIFICATION Spec
CONSTANTS
    Tasks = {t1, t2}
    Hosts = {h1, h2}
    Nowhere = nowhere
    Signals = TRUE
    MaxPayload = 2
    MaxChanges = 1
    MaxWipes = 1
SYMMETRY Symmetry
INVARIANTS
  RecordDescribesRows
PROPERTIES
  NoSelfLock
