SPECIFICATION Spec
CONSTANTS
  c1 = c1
  c2 = c2
  song = song
  track = track
  album = album
  None = None
  Client = {c1, c2}
  Title = {song, track}
  Folder = {album}
  Beneath <- AlbumBeneath
  Lists <- OneOrAlbum
  Entries = 3
  Requests = 2
SYMMETRY Clients
PROPERTY AppendsToTheEnd
CHECK_DEADLOCK FALSE
