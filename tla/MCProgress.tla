----------------------------- MODULE MCProgress -----------------------------
(* The instance of Progress. No symmetry, since liveness is checked.       *)
EXTENDS Progress, TLC

CONSTANTS x1, x2, shows, sonarr, radarr

\* One library of two sources.
ShelfOfTwo == shows :> {sonarr, radarr}
=============================================================================
