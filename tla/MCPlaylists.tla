---------------------------- MODULE MCPlaylists ----------------------------
(* Instances of Playlists: an album of two songs, and two clients.         *)
EXTENDS Playlists

CONSTANTS c1, c2, song, track, album

AlbumBeneath == album :> <<song, track>>
OneOrAlbum == {<<song>>, <<album>>, <<album, song>>}
Clients == Permutations(Client)
=============================================================================
