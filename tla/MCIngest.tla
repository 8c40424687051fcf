------------------------------ MODULE MCIngest ------------------------------
(***************************************************************************)
(* Instances of Ingest.  Keys are a series with one season and one or two  *)
(* episodes, or movies; sources are one or two downloaders; what each      *)
(* downloader may report is a set of catalogues, chosen per run.           *)
(***************************************************************************)
EXTENDS Ingest, TLC

CONSTANTS series, season, e1, e2, m1, m2, p1, p2, p3, hd, uhd, kids, grown

(* Bounds on the events of a run, where a run bounds them.                 *)
Limits(c, sc, sw, f) ==
    [e \in Event |-> CASE e = "change" -> c [] e = "scan" -> sc
                       [] e = "sweep" -> sw [] e = "fault" -> f]
ScanOnce == Limits(0, 1, 1, 1)
ScanTwice == Limits(1, 2, 1, 0)
ScanThrice == Limits(1, 3, 0, 0)
Endless == Limits(1, None, 1, 1)
Serial == Limits(2, None, None, 0)

(* A source that holds the files held, for titles with the tags tags.      *)
Holding(playable, held, tags) ==
    [file |-> [k \in playable |-> IF k \in DOMAIN held THEN held[k] ELSE None],
     tagged |-> tags]

-----------------------------------------------------------------------------
(* One show in one library.                                                *)

ShowKeys == {series, season, e1, e2}
ShowPlayable == {e1, e2}
ShowParent ==
    series :> None @@ season :> series @@ e1 :> season @@ e2 :> season
ShowRank == series :> 1 @@ season :> 2 @@ e1 :> 3 @@ e2 :> 4

Show(held) == Holding(ShowPlayable, held, {})

(* One episode; its file renamed, and its old name taken by the second;    *)
(* nothing at all.                                                         *)
ShowCatalogues ==
    hd :> {Show(e1 :> p1), Show(e1 :> p2 @@ e2 :> p1), Show(<< >>)}

(* Both episodes, or the second one only.                                  *)
WholeShow == hd :> {Show(e1 :> p1 @@ e2 :> p2), Show(e2 :> p2)}

(* One file that holds both episodes.                                      *)
DoubleEpisode == hd :> {Show(e1 :> p1 @@ e2 :> p1)}

OneLibrary == {<<kids, hd>>}

-----------------------------------------------------------------------------
(* One movie or two.                                                       *)

OneKey == {m1}
MovieKeys == {m1, m2}
MovieParent == [k \in Key |-> None]
MovieRank == [k \in Key |-> IF k = m1 THEN 1 ELSE 2]

Movies(held, tags) == Holding(Key, held, tags)

OneMovie == hd :> {Movies(m1 :> p1, {})}

(* Its file comes back under another name, or not at all.                  *)
Renamed ==
    hd :> {Movies(m1 :> p1, {}), Movies(m1 :> p2, {}), Movies(<< >>, {})}

(* One source in two libraries, one of them by tag, and a second source   *)
(* with a copy of the movie; at the first the movie loses its tag, or its  *)
(* file is renamed too.                                                    *)
ThreeBindings == {<<kids, hd>>, <<grown, hd>>, <<grown, uhd>>}
SplitByTag == {<<kids, hd>>}
TwoSources ==
    hd :> {Movies(m1 :> p1, {m1}), Movies(m1 :> p1, {}), Movies(m1 :> p2, {m1})}
 @@ uhd :> {Movies(m1 :> p3, {})}
=============================================================================
