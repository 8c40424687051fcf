SPECIFICATION FairSpec
CONSTANTS
  series = series
  season = season
  e1 = e1
  e2 = e2
  m1 = m1
  m2 = m2
  p1 = p1
  p2 = p2
  p3 = p3
  hd = hd
  uhd = uhd
  kids = kids
  grown = grown
  None = None
  Key <- OneKey
  Playable <- OneKey
  Parent <- MovieParent
  Rank <- MovieRank
  Path = {p1, p2}
  Library = {kids}
  Source = {hd}
  Binding <- OneLibrary
  Filtered = {}
  Catalogues <- Renamed
  Attempts = 1
  Limit <- Endless
PROPERTIES ScansRepair
