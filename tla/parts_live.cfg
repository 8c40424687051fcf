SPECIFICATION PartsSpec
CONSTANTS
  None = None
  x1 = x1
  x2 = x2
  shows = shows
  sonarr = sonarr
  radarr = radarr
  Client = {x1, x2}
  Slots = 1
  Attempts = 2
  Shelf = {shows}
  Bound <- ShelfOfTwo
  Slot = {x1, x2}
  JobLimit = 2
  Room = 2
  Caller = {x1, x2}
  Spacing = 2
  Ahead = 2
INVARIANTS
  PartsTypeOK
  SlotsAccounted
  Spaced
PROPERTIES
  RunsEnd
  
  SocketEnds
  CallsEnd
CHECK_DEADLOCK FALSE
