SPECIFICATION FairSpec
CONSTANTS
  p1 = p1
  None = None
  Path = {p1}
  Newest = 2
  Rows = 1
  Attempts = 2
  Faults = 1
  Calm = TRUE
INVARIANTS TypeOK OneReading
PROPERTIES EventuallyCurrent
