------------------------------ MODULE MCSafety ------------------------------
(***************************************************************************)
(* The instance of Parts. x1 and x2 are whoever acts (clients, devices,    *)
(* slots of the worker), y1 and y2 what comes in two of a kind (access     *)
(* tokens, bound sources, libraries); no part tells x1 from x2 or y1 from  *)
(* y2, which is the symmetry.                                              *)
(***************************************************************************)
EXTENDS Parts, TLC

CONSTANTS x1, x2, y1, y2, founder, member, secret, code, shows, films, film,
          sonarr, radarr, second, series, episode

Actors == {x1, x2}
Pair == {y1, y2}
Symmetry == Permutations(Actors) \cup Permutations(Pair)

\* One library of two sources.
ShelfOfTwo == shows :> Pair

(* An edit of a film's name; of its year with ids, and with its locks      *)
(* taken off; of its overview, locked; and the lock of the whole, put on   *)
(* and taken off again.                                                    *)
Edit(fields, ids, locked, lockData) ==
  [values |-> [f \in {"name", "year", "overview"} |-> IF f \in fields THEN "edit" ELSE None],
   ids |-> ids, locked |-> locked, lockData |-> lockData]

FiveEdits == {Edit({"name"}, None, None, None), Edit({"year"}, "edit", {}, None),
              Edit({"overview"}, None, {"Overview"}, None),
              Edit({}, None, None, TRUE), Edit({}, None, {}, FALSE)}

(* A title of ten minutes, or of unknown length: eight are not nine tenths *)
(* of it, nine are.  Updates unplay the title, or forget its plays and     *)
(* move its position.                                                      *)
EightReports ==
  [kind: {"progress"}, position: {8}] \cup [kind: {"stop"}, position: {8, 9}]
    \cup [kind: {"favorite", "played"}, value: BOOLEAN]
    \cup {[kind |-> "update", played |-> FALSE, favorite |-> None, count |-> None,
            position |-> None],
           [kind |-> "update", played |-> None, favorite |-> None, count |-> 0,
            position |-> 9]}

(* Three sources, two of which claim one directory.                        *)
OneClash == {<<sonarr, second>>}

Entry(source, bound) == [source |-> source, libraries |-> bound]

SixConfigurations ==
  {<<>>,
   <<Entry(sonarr, {shows})>>,
   <<Entry(sonarr, {shows}), Entry(radarr, {})>>,
   <<Entry(radarr, {shows, films}), Entry(sonarr, {films})>>,
   <<Entry(sonarr, {}), Entry(second, {shows})>>,
   <<Entry(sonarr, {shows}), Entry(sonarr, {films})>>}

(* A series and its episode, in two libraries.                             *)
SeriesAbove == [i \in {series, episode} |-> IF i = episode THEN series ELSE None]
=============================================================================
