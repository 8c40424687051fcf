SPECIFICATION Spec
CONSTANTS
  series = series
  season = season
  e1 = e1
  e2 = e2
  m1 = m1
  m2 = m2
  p1 = p1
  p2 = p2
  p3 = p3
  hd = hd
  uhd = uhd
  kids = kids
  grown = grown
  None = None
  Key <- ShowKeys
  Playable <- ShowPlayable
  Parent <- ShowParent
  Rank <- ShowRank
  Path = {p1, p2}
  Library = {kids}
  Source = {hd}
  Binding <- OneLibrary
  Filtered = {}
  Catalogues <- WholeShow
  Attempts = 1
  Limit <- ScanOnce
INVARIANTS TypeOK NoOrphans
PROPERTIES SweepSparesHeld
CHECK_DEADLOCK FALSE
