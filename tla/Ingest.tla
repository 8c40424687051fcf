------------------------------- MODULE Ingest -------------------------------
(***************************************************************************)
(* Library ingestion: how the titles a Sonarr or Radarr instance reports   *)
(* become items, file rows and library memberships, and how titles nobody  *)
(* reports any more are swept.                                             *)
(*                                                                         *)
(* Three kinds of background job write the tables, each as a series of     *)
(* single statements with no transaction around them:                      *)
(*   RefreshLibrarySource  internal/sources/refresh.go      (scan)         *)
(*   RefreshItem           internal/items/refresh.go        (titles)       *)
(*   SweepItems            internal/items/sweep.go          (sweep)        *)
(* One action is one statement (or one enqueue), so every interleaving of  *)
(* the jobs is a behaviour.  A job is a Temporal workflow of one activity: *)
(* a failing attempt is retried from its beginning, Attempts times in all, *)
(* and a second run of a workflow id that is still running is not started. *)
(*                                                                         *)
(* A definition marked "slip" is a mistake the code could have made and    *)
(* did not; no other definition uses it.  It says which change to the code *)
(* a property would notice.                                                *)
(***************************************************************************)
EXTENDS Naturals, FiniteSets

CONSTANTS
    Library, Source,
    Binding,      \* the <<library, source>> pairs of library_sources
    Filtered,     \* the bindings with a tag filter
    Key,          \* item keys: "movie:8844", "series:1:season:2", ...
    Playable,     \* the keys of movies and episodes; the others are folders
    Parent,       \* the key above a key, None for movies and series
    Rank,         \* the order Titles lists keys in: a parent first
    Path,         \* local file paths
    Catalogues,   \* per source, the states its own library may be in
    Attempts,     \* activity attempts of one workflow run (8 in the code)
    Limit,        \* bounds: how often each member of Event happens, None for
                  \* any number of times
    None

(* What the world does to the jobs: the sources change, somebody asks for  *)
(* a scan or for a sweep, an attempt or an enqueue fails.                  *)
Event == {"change", "scan", "sweep", "fault"}

Catalogue == [file : [Playable -> Path \cup {None}], tagged : SUBSET Key]
FileRow == [item : Playable, source : Source]

ASSUME IngestAssumption ==
    /\ Binding \subseteq Library \X Source
    /\ Filtered \subseteq Binding
    /\ Playable \subseteq Key
    /\ Parent \in [Key -> (Key \ Playable) \cup {None}]
    /\ None \notin Key \cup Path \cup Catalogue \cup FileRow
    /\ Rank \in [Key -> Nat]
    /\ \A k \in Key : Parent[k] # None => Rank[Parent[k]] < Rank[k]
    /\ \A k, o \in Key : Rank[k] = Rank[o] => k = o
    /\ Catalogues \in [Source -> SUBSET Catalogue]
    /\ Attempts \in Nat \ {0}
    /\ Limit \in [Event -> Nat \cup {None}]

VARIABLES
    cat,      \* what each Sonarr or Radarr instance reports now
    items,    \* table items: per key no row, a live row or a row marked deleted
    files,    \* table item_sources: per path the item and source of its row
    members,  \* table library_items
    scan,     \* the RefreshLibrarySource run of each binding
    titles,   \* the RefreshItem run of each parameter set
    sweep,    \* the SweepItems run
    spent     \* how often each limited event has happened

vars == <<cat, items, files, members, scan, titles, sweep, spent>>
tables == <<items, files, members>>

-----------------------------------------------------------------------------
(* The tables.                                                             *)

ItemState == {"absent", "live", "deleted"}
Member == [library : Library, key : Key, source : Source]

Folder == Key \ Playable
Live == {k \in Key : items[k] = "live"}
Present(k) == items[k] # "absent"
Children(k) == {c \in Key : Parent[c] = k}
HasFile(k) == \E p \in Path : files[p] # None /\ files[p].item = k

(***************************************************************************)
(* What a catalogue makes of a source.  A folder is a title only when a    *)
(* playable below it has a file; the tag filter marks titles, it does not  *)
(* leave any out.                                                          *)
(***************************************************************************)
Above(k) ==
    {a \in Key : \/ a = k
                 \/ a = Parent[k]
                 \/ Parent[k] # None /\ a = Parent[Parent[k]]}
Reported(c) == UNION {Above(k) : k \in {p \in Playable : c.file[p] # None}}
PathsOf(c) == {c.file[k] : k \in Playable} \ {None}
FileOf(c, k) == IF k \in Playable THEN c.file[k] ELSE None
IsTagged(b, c, k) == b \in Filtered => k \in c.tagged

(***************************************************************************)
(* The runs.  The workflow id of RefreshItem is a hash of its parameters,  *)
(* so there is one run at a time for each member of TitleJob: "idle" is no *)
(* run, "queued" a run whose attempt has not read anything yet.            *)
(***************************************************************************)
TitleJob == [library : Library, source : Source, key : Key,
             path : Path \cup {None}, tagged : BOOLEAN]

TitleRun == [pc : {"idle", "queued", "saved", "read", "placed", "filed"},
             tries : 0 .. Attempts]
ScanRun == [pc : {"idle", "queued", "read", "pruned", "enqueueing"},
            tries : 0 .. Attempts,
            snapshot : Catalogue \cup {None},
            pending : SUBSET Key]
SweepRun == [pc : {"idle", "queued", "listed", "folders"},
             tries : 0 .. Attempts, disturbed : SUBSET Key]

TitleIn(phase, tries) == [pc |-> phase, tries |-> tries]
ScanIn(phase, tries) == [pc |-> phase, tries |-> tries, snapshot |-> None, pending |-> {}]
SweepIn(phase, tries) == [pc |-> phase, tries |-> tries, disturbed |-> {}]

JobFor(b, c, k) ==
    [library |-> b[1], source |-> b[2], key |-> k,
     path |-> FileOf(c, k), tagged |-> IsTagged(b, c, k)]

(* A failed attempt is retried from the start until there are none left.   *)
AlwaysRetry(run) == TRUE  \* slip: no limit on the attempts
HasRetry(run) == run.tries + 1 < Attempts
TitleRetry(run) ==
    IF HasRetry(run) THEN TitleIn("queued", run.tries + 1) ELSE TitleIn("idle", 0)
ScanRetry(run) ==
    IF HasRetry(run) THEN ScanIn("queued", run.tries + 1) ELSE ScanIn("idle", 0)
SweepRetry(run) ==
    IF HasRetry(run) THEN SweepIn("queued", run.tries + 1) ELSE SweepIn("idle", 0)

TypeOK ==
    /\ cat \in [Source -> Catalogue]
    /\ items \in [Key -> ItemState]
    /\ files \in [Path -> FileRow \cup {None}]
    /\ members \subseteq Member
    /\ scan \in [Binding -> ScanRun]
    /\ titles \in [TitleJob -> TitleRun]
    /\ sweep \in SweepRun
    /\ spent \in [Event -> Nat]

Init ==
    /\ cat \in {c \in [Source -> UNION {Catalogues[s] : s \in Source}] :
                  \A s \in Source : c[s] \in Catalogues[s]}
    /\ items = [k \in Key |-> "absent"]
    /\ files = [p \in Path |-> None]
    /\ members = {}
    /\ scan = [b \in Binding |-> ScanIn("idle", 0)]
    /\ titles = [j \in TitleJob |-> TitleIn("idle", 0)]
    /\ sweep = SweepIn("idle", 0)
    /\ spent = [e \in Event |-> 0]

-----------------------------------------------------------------------------
(* The world outside: downloads come and go, and jobs are asked for.  A    *)
(* request for a job that is running is swallowed and changes nothing.     *)

Happens(e) ==
    /\ Limit[e] # None => spent[e] < Limit[e]
    /\ spent' = IF Limit[e] = None THEN spent ELSE [spent EXCEPT ![e] = @ + 1]

CatalogueChanges(s) ==
    /\ Happens("change")
    /\ \E c \in Catalogues[s] \ {cat[s]} : cat' = [cat EXCEPT ![s] = c]
    /\ UNCHANGED <<tables, scan, titles, sweep>>

RequestScan(b) ==
    /\ Happens("scan")
    /\ scan[b].pc = "idle"
    /\ scan' = [scan EXCEPT ![b] = ScanIn("queued", 0)]
    /\ UNCHANGED <<tables, cat, titles, sweep>>

RequestSweep ==
    /\ Happens("sweep")
    /\ sweep.pc = "idle"
    /\ sweep' = SweepIn("queued", 0)
    /\ UNCHANGED <<tables, cat, scan, titles>>

-----------------------------------------------------------------------------
(* RefreshLibrarySource, for the binding b = <<library, source>>.          *)

ReadTitles(b) ==
    /\ scan[b].pc = "queued"
    /\ scan' = [scan EXCEPT ![b].pc = "read", ![b].snapshot = cat[b[2]]]
    /\ UNCHANGED <<tables, cat, titles, sweep, spent>>

(* Every file the source no longer reports loses its row, whichever        *)
(* library was being refreshed.                                            *)
StaleUnlessTagged(b, p) ==  \* slip: only the paths of the library's own titles
    LET c == scan[b].snapshot
    IN  /\ files[p] # None
        /\ files[p].source = b[2]
        /\ p \notin {c.file[k] : k \in {o \in Playable : IsTagged(b, c, o)}}
StaleOfAnySource(b, p) ==  \* slip: no predicate on the source
    files[p] # None /\ p \notin PathsOf(scan[b].snapshot)
StaleUnlessEmpty(b, p) ==  \* slip: nothing to do when nothing is reported
    /\ files[p] # None
    /\ files[p].source = b[2]
    /\ PathsOf(scan[b].snapshot) # {}
    /\ p \notin PathsOf(scan[b].snapshot)
StaleRow(b, p) ==
    /\ files[p] # None
    /\ files[p].source = b[2]
    /\ p \notin PathsOf(scan[b].snapshot)

DeleteSourcesNotInPaths(b) ==
    /\ scan[b].pc = "read"
    /\ files' = [p \in Path |-> IF StaleRow(b, p) THEN None ELSE files[p]]
    /\ scan' = [scan EXCEPT ![b].pc = "pruned"]
    /\ UNCHANGED <<items, members, cat, titles, sweep, spent>>

(* The library keeps the titles of this source that its filter admits.     *)
Admitted(b, c) == {k \in Reported(c) : IsTagged(b, c, k)}
StaleMemberUnlessEmpty(b, m) ==  \* slip: nothing to do when none is admitted
    /\ m.library = b[1] /\ m.source = b[2]
    /\ Admitted(b, scan[b].snapshot) # {}
    /\ m.key \notin Admitted(b, scan[b].snapshot)
StaleMember(b, m) ==
    /\ m.library = b[1] /\ m.source = b[2]
    /\ m.key \notin Admitted(b, scan[b].snapshot)

DeleteMembershipNotInKeys(b) ==
    /\ scan[b].pc = "pruned"
    /\ members' = {m \in members : ~StaleMember(b, m)}
    /\ scan' = [scan EXCEPT ![b].pc = "enqueueing",
                            ![b].pending = Reported(scan[b].snapshot)]
    /\ UNCHANGED <<items, files, cat, titles, sweep, spent>>

NextPending(b, k) ==
    /\ scan[b].pc = "enqueueing"
    /\ k \in scan[b].pending
    /\ \A o \in scan[b].pending : Rank[k] <= Rank[o]

(* The titles in their order; a run with the same parameters that has not  *)
(* ended yet swallows the enqueue.                                         *)
EnqueueTitle(b, k) ==
    /\ NextPending(b, k)
    /\ scan' = [scan EXCEPT ![b].pending = @ \ {k}]
    /\ LET j == JobFor(b, scan[b].snapshot, k)
       IN  titles' = IF titles[j].pc = "idle"
                     THEN [titles EXCEPT ![j] = TitleIn("queued", 0)]
                     ELSE titles
    /\ UNCHANGED <<tables, cat, sweep, spent>>

FinishScan(b) ==
    /\ scan[b].pc = "enqueueing"
    /\ scan[b].pending = {}
    /\ scan' = [scan EXCEPT ![b] = ScanIn("idle", 0)]
    /\ UNCHANGED <<tables, cat, titles, sweep, spent>>

ScanStep(b) ==
    \/ ReadTitles(b)
    \/ DeleteSourcesNotInPaths(b)
    \/ DeleteMembershipNotInKeys(b)
    \/ \E k \in Key : EnqueueTitle(b, k)
    \/ FinishScan(b)

-----------------------------------------------------------------------------
(* RefreshItem, for the parameters j.                                      *)

ParentAssumed(j) == TRUE  \* slip: the row above taken for granted
ParentWritten(j) == Parent[j.key] # None => Present(Parent[j.key])

TitleMoves(j, run) ==
    /\ titles' = [titles EXCEPT ![j] = run]
    /\ UNCHANGED <<cat, scan, sweep, spent>>

(* parentOf fails when the row above has not been written yet.             *)
ParentMissing(j) ==
    /\ titles[j].pc = "queued"
    /\ ~ParentWritten(j)
    /\ TitleMoves(j, TitleRetry(titles[j]))
    /\ UNCHANGED tables

(* The upsert on the key: a row marked deleted is live again.              *)
SaveScanned(j) ==
    /\ titles[j].pc = "queued"
    /\ ParentWritten(j)
    /\ items' = [items EXCEPT ![j.key] = "live"]
    /\ TitleMoves(j, [titles[j] EXCEPT !.pc = "saved"])
    /\ UNCHANGED <<files, members>>

(* ItemByID reads the row back and finds live rows only.                   *)
ReadBack(j) ==
    /\ titles[j].pc = "saved"
    /\ items[j.key] = "live"
    /\ TitleMoves(j, [titles[j] EXCEPT
                        !.pc = IF j.path = None THEN "filed" ELSE "read"])
    /\ UNCHANGED tables

ReadBackFails(j) ==
    /\ titles[j].pc = "saved"
    /\ items[j.key] # "live"
    /\ TitleMoves(j, TitleRetry(titles[j]))
    /\ UNCHANGED tables

(* The upsert on the path runs into the unique index on (item, source)     *)
(* when another path holds that pair.                                      *)
Row(j) == [item |-> j.key, source |-> j.source]
Conflicts(j) == \E p \in Path \ {j.path} : files[p] = Row(j)

SaveSource(j) ==
    /\ titles[j].pc = "read"
    /\ ~Conflicts(j)
    /\ files' = [files EXCEPT ![j.path] = Row(j)]
    /\ TitleMoves(j, [titles[j] EXCEPT !.pc = "placed"])
    /\ UNCHANGED <<items, members>>

SaveSourceFails(j) ==
    /\ titles[j].pc = "read"
    /\ Conflicts(j)
    /\ TitleMoves(j, TitleRetry(titles[j]))
    /\ UNCHANGED tables

(* The saved row is read back too, and a scan may have deleted it.         *)
ReadSource(j) ==
    /\ titles[j].pc = "placed"
    /\ files[j.path] # None
    /\ TitleMoves(j, [titles[j] EXCEPT !.pc = "filed"])
    /\ UNCHANGED tables

ReadSourceFails(j) ==
    /\ titles[j].pc = "placed"
    /\ files[j.path] = None
    /\ TitleMoves(j, TitleRetry(titles[j]))
    /\ UNCHANGED tables

SaveMembership(j) ==
    /\ titles[j].pc = "filed"
    /\ members' = IF j.tagged
                  THEN members \cup
                       {[library |-> j.library, key |-> j.key, source |-> j.source]}
                  ELSE members
    /\ TitleMoves(j, TitleIn("idle", 0))
    /\ UNCHANGED <<items, files>>

TitleStep(j) ==
    \/ ParentMissing(j)
    \/ SaveScanned(j)
    \/ ReadBack(j)
    \/ ReadBackFails(j)
    \/ SaveSource(j)
    \/ SaveSourceFails(j)
    \/ ReadSource(j)
    \/ ReadSourceFails(j)
    \/ SaveMembership(j)

-----------------------------------------------------------------------------
(* SweepItems.                                                             *)

(* The ids of every live item, read before anything is marked.             *)
ListItems ==
    /\ sweep.pc = "queued"
    /\ sweep' = IF Live = {} THEN SweepIn("idle", 0)
                ELSE [sweep EXCEPT !.pc = "listed", !.disturbed = Live]
    /\ UNCHANGED <<tables, cat, scan, titles, spent>>

MarkFileless ==
    /\ sweep.pc = "listed"
    /\ items' = [k \in Key |->
                    IF /\ k \in sweep.disturbed \cap Playable
                       /\ items[k] = "live"
                       /\ ~HasFile(k)
                    THEN "deleted" ELSE items[k]]
    /\ sweep' = [sweep EXCEPT !.pc = "folders"]
    /\ UNCHANGED <<files, members, cat, scan, titles, spent>>

ChildlessOnceOneGoes(k) ==  \* slip: one child gone is enough
    /\ k \in Folder
    /\ items[k] = "live"
    /\ \E c \in Children(k) : items[c] = "deleted"
Childless(k) ==
    /\ k \in Folder
    /\ items[k] = "live"
    /\ \E c \in Children(k) : Present(c)
    /\ \A c \in Children(k) : items[c] # "live"

MarkChildlessOnce ==  \* slip: one pass, so a series outlives its seasons
    /\ sweep.pc = "folders"
    /\ items' = [k \in Key |-> IF Childless(k) THEN "deleted" ELSE items[k]]
    /\ sweep' = SweepIn("idle", 0)
    /\ UNCHANGED <<files, members, cat, scan, titles, spent>>

(* One pass over the folders; passes repeat until one marks nothing.       *)
MarkChildless ==
    /\ sweep.pc = "folders"
    /\ items' = [k \in Key |-> IF Childless(k) THEN "deleted" ELSE items[k]]
    /\ sweep' = IF \E k \in Key : Childless(k) THEN sweep ELSE SweepIn("idle", 0)
    /\ UNCHANGED <<files, members, cat, scan, titles, spent>>

SweepStep == ListItems \/ MarkFileless \/ MarkChildless

-----------------------------------------------------------------------------
(* Failures: a lost connection or a stopped worker ends an attempt between *)
(* two statements; an enqueue Temporal does not take is only logged.       *)

Fault ==
    /\ Happens("fault")
    /\ UNCHANGED <<tables, cat>>

ScanFails(b) ==
    /\ Fault
    /\ scan[b].pc # "idle"
    /\ scan' = [scan EXCEPT ![b] = ScanRetry(scan[b])]
    /\ UNCHANGED <<titles, sweep>>

EnqueueLost(b, k) ==
    /\ Fault
    /\ NextPending(b, k)
    /\ scan' = [scan EXCEPT ![b].pending = @ \ {k}]
    /\ UNCHANGED <<titles, sweep>>

TitleFails(j) ==
    /\ Fault
    /\ titles[j].pc # "idle"
    /\ titles' = [titles EXCEPT ![j] = TitleRetry(titles[j])]
    /\ UNCHANGED <<scan, sweep>>

SweepFails ==
    /\ Fault
    /\ sweep.pc # "idle"
    /\ sweep' = SweepRetry(sweep)
    /\ UNCHANGED <<scan, titles>>

-----------------------------------------------------------------------------
Asks ==
    \/ \E s \in Source : CatalogueChanges(s)
    \/ \E b \in Binding : RequestScan(b)
    \/ RequestSweep

Works ==
    \/ \E b \in Binding : ScanStep(b)
    \/ \E j \in TitleJob : TitleStep(j)
    \/ SweepStep

Breaks ==
    \/ \E b \in Binding : ScanFails(b) \/ \E k \in Key : EnqueueLost(b, k)
    \/ \E j \in TitleJob : TitleFails(j)
    \/ SweepFails

Next == Asks \/ Works \/ Breaks

Spec == Init /\ [][Next]_vars

(* Temporal hands every started run to a worker sooner or later; nothing   *)
(* obliges anyone to ask for a scan or a sweep, and nothing has to fail.   *)
Fairness ==
    /\ \A b \in Binding : WF_vars(ScanStep(b))
    /\ \A j \in TitleJob : WF_vars(TitleStep(j))
    /\ WF_vars(SweepStep)

FairSpec == Spec /\ Fairness

-----------------------------------------------------------------------------
(* Properties.                                                             *)

(* Every row hangs under a row: RefreshItem refuses a title whose season   *)
(* or series has not been written (parentOf), in whatever order the runs   *)
(* of one scan are executed and whichever of them are given up.            *)
ParentsFirst ==
    \A k \in Key : Present(k) /\ Parent[k] # None => Present(Parent[k])

(* No file row and no membership without its item: each statement of a run *)
(* relies on the one before it still holding, whatever the scans and the   *)
(* sweep did in between, and a row marked deleted still counts.            *)
NoOrphans ==
    /\ ParentsFirst
    /\ \A p \in Path : files[p] # None => Present(files[p].item)
    /\ \A m \in members : Present(m.key)

(* A file row is only ever moved, taken over or deleted by a job of the    *)
(* source that holds it: one downloader's refresh never disturbs what      *)
(* another one reports.                                                    *)
ActedFor(s) ==
    \/ \E b \in Binding : b[2] = s /\ scan'[b] # scan[b]
    \/ \E j \in TitleJob : j.source = s /\ titles'[j] # titles[j]

SourceOwnsItsRows ==
    [][\A p \in Path : files[p] # None /\ files'[p] # files[p]
                          => ActedFor(files[p].source)]_vars

(* A file that its source reports now, and reported to every scan of that  *)
(* source still running, keeps its row, and with it its probe: a library   *)
(* that tags only some of a source's titles does not delete the others'.   *)
Steady(p, s) ==
    /\ p \in PathsOf(cat[s])
    /\ \A b \in Binding : b[2] = s /\ scan[b].snapshot # None
                            => p \in PathsOf(scan[b].snapshot)

ReportedFileKeepsItsRow ==
    [][\A p \in Path : files[p] # None /\ Steady(p, files[p].source)
                          => files'[p] # None]_vars

(* A live title with a file below live folders is not marked, and neither  *)
(* are its folders, whatever the scans write to the folders' other         *)
(* children between the statements of a sweep.                             *)
SweepSparesHeld ==
    [][\A k \in Playable : HasFile(k) /\ Above(k) \subseteq Live
                              => Above(k) \subseteq Live']_vars

(* The tables say what the sources report.                                 *)
FilesAgree ==
    /\ \A s \in Source, k \in Playable :
          LET p == cat[s].file[k]
          IN  p # None => files[p] = [item |-> k, source |-> s]
    /\ \A p \in Path : files[p] # None => p \in PathsOf(cat[files[p].source])

ReportedIsLive == \A s \in Source : Reported(cat[s]) \subseteq Live

MembersAgree ==
    members = {m \in Member : LET b == <<m.library, m.source>>
                              IN  b \in Binding /\ m.key \in Admitted(b, cat[m.source])}

(* If every binding keeps being scanned and sweeps leave it alone, the     *)
(* tables come to hold what the sources report and keep holding it,        *)
(* whatever runs of earlier scans, failures and sweeps were in flight when *)
(* the sources last changed and whatever a sweep had wrongly marked.       *)
Repaired == FilesAgree /\ ReportedIsLive /\ MembersAgree

ScansRepair ==
    /\ \A b \in Binding : []<><<RequestScan(b)>>_vars
    /\ <>[](sweep.pc = "idle")
    => <>[]Repaired

(* ... and, sweeps or not, from then on no run that works from what its    *)
(* source reports now undoes any of it: neither another library's scan of  *)
(* the same source, with its own tags, nor a retry that starts over, nor a *)
(* sweep whose list is long out of date.                                   *)
UpToDate ==
    /\ \A b \in Binding : /\ scan[b].snapshot \in {None, cat[b[2]]}
                          /\ scan[b].pending \subseteq Reported(cat[b[2]])
    /\ \A j \in TitleJob : titles[j].pc # "idle" =>
          /\ <<j.library, j.source>> \in Binding
          /\ j.key \in Reported(cat[j.source])
          /\ j = JobFor(<<j.library, j.source>>, cat[j.source], j.key)

RepairedStays ==
    [][UpToDate /\ Repaired /\ cat' = cat => UpToDate' /\ Repaired']_vars
=============================================================================
