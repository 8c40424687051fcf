SPECIFICATION PartsSpec
CONSTANTS
  None = None
  x1 = x1
  x2 = x2
  y1 = y1
  y2 = y2
  founder = founder
  member = member
  secret = secret
  code = code
  shows = shows
  films = films
  film = film
  sonarr = sonarr
  radarr = radarr
  second = second
  series = series
  episode = episode
  User = {founder, member}
  Founders = {founder}
  Admins = {founder}
  Client = {x1, x2}
  Secret = {secret}
  Code = {code}
  Token = {y1, y2}
  Limit = 2
  Attempts = 2
  Shelf = {shows}
  Bound <- ShelfOfTwo
  Slot = {x1, x2}
  JobLimit = 3
  Film = {film}
  Known = {film}
  Editor = {x1, x2}
  Edits <- FiveEdits
  EditLimit = 2
  Device = {x1, x2}
  RunTimes = {10, None}
  Positions = {8, 9}
  Reports <- EightReports
  Counts = 1
  Source = {sonarr, radarr, second}
  Target = {shows, films}
  Saver = {x1, x2}
  Clash <- OneClash
  Configurations <- SixConfigurations
  Library = {y1, y2}
  Title = {series, episode}
  Parent <- SeriesAbove
  ScanLimit = 2
SYMMETRY Symmetry
INVARIANTS
  PartsTypeOK
  OldPasswordsEnd
  OneAtATime
  AskedIsScanned
  CancelReachesAll
  WholeOrPending
  BoundAsAsked
  EveryTitleHeld
PROPERTIES
  KeepsPromise
  LocksHold
  MarksKept
  SavedAlone
  SharedTitlesSurvive
CHECK_DEADLOCK FALSE
