SPECIFICATION Spec
CONSTANTS
  p1 = p1
  None = None
  Path = {p1}
  Newest = 2
  Rows = 2
  Attempts = 2
  Faults = 1
  Calm = FALSE
INVARIANTS ChangedIsSelected
