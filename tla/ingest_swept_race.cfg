SPECIFICATION AuditSpec
CONSTANTS
  series = series
  season = season
  e1 = e1
  e2 = e2
  m1 = m1
  m2 = m2
  p1 = p1
  p2 = p2
  p3 = p3
  hd = hd
  uhd = uhd
  kids = kids
  grown = grown
  None = None
  Key <- MovieKeys
  Playable <- MovieKeys
  Parent <- MovieParent
  Rank <- MovieRank
  Path = {p1}
  Library = {kids}
  Source = {hd}
  Binding <- OneLibrary
  Filtered = {}
  Catalogues <- OneMovie
  Attempts = 1
  Limit <- ScanTwice
INVARIANTS SettledTitles
CHECK_DEADLOCK FALSE
