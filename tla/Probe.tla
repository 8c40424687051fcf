------------------------------- MODULE Probe -------------------------------
(***************************************************************************)
(* Probing: how the streams of a file get into the tables, and when they   *)
(* are read again because the file has changed.                            *)
(*                                                                         *)
(* RefreshItem (internal/items/refresh.go) writes the row of a file with   *)
(* the date its source reports and enqueues ProbeFile when the row needs a *)
(* probe.  ProbeFile and ProbeFiles (internal/probe/prober.go) read the    *)
(* row, run ffprobe for as long as that takes, and save what it said in    *)
(* one transaction, found by the id of the row.                            *)
(*                                                                         *)
(* A file's versions are numbered, and the numbers serve as its times: the *)
(* version n is dated n, and everything that happens until the version     *)
(* n + 1 arrives happens at time n.                                        *)
(***************************************************************************)
EXTENDS Naturals, FiniteSets

CONSTANTS
    Path,      \* local file paths
    Newest,    \* bound: how many versions a file goes through
    Rows,      \* bound: how many rows are ever inserted
    Attempts,  \* attempts of one run of ProbeFile (8 in the code)
    Faults,    \* bound: how many attempts and enqueues fail
    Calm,      \* whether files are left alone while they are being probed
    None

Version == 1 .. Newest
Time == 0 .. Newest
Id == 1 .. Rows

(* A row of item_sources: path, date_modified, probed_at.                  *)
Row == [path : Path, modified : Version, probed : Time \cup {None}]

(* ProbeFile runs for one row, ProbeFiles for every row that needs it; so  *)
(* two probes of one row may run side by side.                             *)
Job == {"ProbeFile", "ProbeFiles"} \X Id

ASSUME ProbeAssumption ==
    /\ Newest \in Nat /\ Rows \in Nat /\ Attempts \in Nat \ {0} /\ Faults \in Nat
    /\ Calm \in BOOLEAN
    /\ None \notin Nat \cup Path \cup Row

VARIABLES
    disk,      \* per path, the latest version and whether the file is there
    rows,      \* item_sources by id
    streams,   \* media_streams by id of the row: the versions they describe
    marked,    \* the paths whose item is marked deleted
    refresh,   \* runs of RefreshItem by what a scan read: the path and its version,
               \* or the time 0 where the scan is to delete the row
    probe,     \* runs of the two jobs
    faults     \* how many attempts and enqueues have failed

vars == <<disk, rows, streams, marked, refresh, probe, faults>>
tables == <<rows, streams, marked>>

-----------------------------------------------------------------------------
RefreshRun == [pc : {"idle", "queued", "revived", "saved"}, row : Id \cup {None}]
ProbeRun == [pc : {"idle", "queued", "looked", "read", "found", "saving", "locked", "cleared"},
             tries : 0 .. Attempts,
             path : Path \cup {None},        \* the row's, as it was read
             version : Version \cup {None},  \* the one ffprobe read
             at : Time,                      \* the time put into probed_at
             seen : SUBSET Version]          \* the streams the transaction deletes

NoRefresh == [pc |-> "idle", row |-> None]
ProbeIn(phase, tries) ==
    [pc |-> phase, tries |-> tries, path |-> None,
     version |-> None, at |-> 0, seen |-> {}]

TypeOK ==
    /\ disk \in [Path -> [version : Time, there : BOOLEAN]]
    /\ rows \in [Id -> Row \cup {None}]
    /\ streams \in [Id -> SUBSET Version]
    /\ marked \subseteq Path
    /\ refresh \in [Path \X Time -> RefreshRun]
    /\ probe \in [Job -> ProbeRun]
    /\ faults \in 0 .. Faults

Init ==
    /\ disk = [p \in Path |-> [version |-> 0, there |-> FALSE]]
    /\ rows = [i \in Id |-> None]
    /\ streams = [i \in Id |-> {}]
    /\ marked = {}
    /\ refresh = [r \in Path \X Time |-> NoRefresh]
    /\ probe = [j \in Job |-> ProbeIn("idle", 0)]
    /\ faults = 0

RowsOf(p) == {i \in Id : rows[i] # None /\ rows[i].path = p}

NeedsOnlyFirst(row) == row.probed = None  \* slip: the date forgotten
NeedsProbe(row) == row.probed = None \/ row.probed < row.modified

(* The id of a new row: one no row has and no run remembers.               *)
Unused(i) ==
    /\ rows[i] = None
    /\ \A j \in Job : j[2] = i => probe[j].pc = "idle"
    /\ \A r \in Path \X Time : refresh[r].row # i

(* An open transaction holds the row it has updated until it ends.         *)
Held(i) == \E j \in Job : j[2] = i /\ probe[j].pc \in {"locked", "cleared"}

-----------------------------------------------------------------------------
(* The files, as the downloader moves them.                                *)

Reading(p) ==
    \E j \in Job : /\ probe[j].path = p
                   /\ probe[j].pc \in {"read", "found", "saving"}

Replace(p) ==
    /\ disk[p].version < Newest
    /\ Calm => ~Reading(p)
    /\ disk' = [disk EXCEPT ![p] = [version |-> @.version + 1, there |-> TRUE]]
    /\ UNCHANGED <<tables, refresh, probe, faults>>

Remove(p) ==
    /\ disk[p].there
    /\ disk' = [disk EXCEPT ![p].there = FALSE]
    /\ UNCHANGED <<tables, refresh, probe, faults>>

-----------------------------------------------------------------------------
(* What scans and sweeps do to a file's row and to its item; the module    *)
(* Ingest has them in full.                                                *)

(* A scan of a source reads what it reports of the path.                   *)
Scan(p) ==
    LET r == <<p, IF disk[p].there THEN disk[p].version ELSE 0>>
    IN  /\ refresh[r].pc = "idle"
        /\ refresh' = [refresh EXCEPT ![r].pc = "queued"]
        /\ UNCHANGED <<tables, disk, probe, faults>>

(* It does not report the file: the row goes, and its streams with it.     *)
DropRow(p) ==
    /\ refresh[<<p, 0>>].pc = "queued"
    /\ \A i \in RowsOf(p) : ~Held(i)
    /\ rows' = [i \in Id |-> IF i \in RowsOf(p) THEN None ELSE rows[i]]
    /\ streams' = [i \in Id |-> IF i \in RowsOf(p) THEN {} ELSE streams[i]]
    /\ refresh' = [refresh EXCEPT ![<<p, 0>>] = NoRefresh]
    /\ UNCHANGED <<disk, marked, probe, faults>>

(* It does: RefreshItem writes the item,                                   *)
SaveScanned(p, v) ==
    /\ refresh[<<p, v>>].pc = "queued"
    /\ marked' = marked \ {p}
    /\ refresh' = [refresh EXCEPT ![<<p, v>>].pc = "revived"]
    /\ UNCHANGED <<disk, rows, streams, probe, faults>>

(* then the row of the file: what a probe put there stays,                 *)
SaveSource(p, v) ==
    /\ refresh[<<p, v>>].pc = "revived"
    /\ \/ \E i \in RowsOf(p) :
            /\ ~Held(i)
            /\ rows' = [rows EXCEPT ![i].modified = v]
            /\ refresh' = [refresh EXCEPT ![<<p, v>>] = [pc |-> "saved", row |-> i]]
       \/ \E i \in Id :
            /\ RowsOf(p) = {}
            /\ Unused(i)
            /\ rows' = [rows EXCEPT ![i] = [path |-> p, modified |-> v, probed |-> None]]
            /\ refresh' = [refresh EXCEPT ![<<p, v>>] = [pc |-> "saved", row |-> i]]
    /\ UNCHANGED <<disk, streams, marked, probe, faults>>

(* and enqueues ProbeFile if the row, read back, needs it; a run for that  *)
(* row that has not ended yet swallows the enqueue.                        *)
EnqueueProbe(p, v) ==
    LET i == refresh[<<p, v>>].row
        j == <<"ProbeFile", i>>
    IN  /\ refresh[<<p, v>>].pc = "saved"
        /\ refresh' = [refresh EXCEPT ![<<p, v>>] =
                          IF rows[i] = None THEN [pc |-> "queued", row |-> None]
                          ELSE NoRefresh]
        /\ probe' = IF /\ rows[i] # None
                       /\ NeedsProbe(rows[i])
                       /\ probe[j].pc = "idle"
                    THEN [probe EXCEPT ![j] = ProbeIn("queued", 0)]
                    ELSE probe
        /\ UNCHANGED <<tables, disk, faults>>

(* The enqueue fails, which is only logged.                                *)
EnqueueLost(p, v) ==
    /\ faults < Faults
    /\ faults' = faults + 1
    /\ refresh[<<p, v>>].pc = "saved"
    /\ refresh' = [refresh EXCEPT ![<<p, v>>] = NoRefresh]
    /\ UNCHANGED <<tables, disk, probe>>

RefreshStep(p) ==
    \/ DropRow(p)
    \/ \E v \in Version : SaveScanned(p, v) \/ SaveSource(p, v) \/ EnqueueProbe(p, v)

(* A sweep marks an item without a file.                                   *)
Sweep(p) ==
    /\ RowsOf(p) = {}
    /\ marked' = marked \cup {p}
    /\ UNCHANGED <<disk, rows, streams, refresh, probe, faults>>

-----------------------------------------------------------------------------
(* ProbeSource, for the row j[2].                                          *)

Moves(j, run) == probe' = [probe EXCEPT ![j] = run]
Ends(j) == Moves(j, ProbeIn("idle", 0))

(* SourcesNeedingProbe: one run of ProbeFiles at a time.                   *)
ListFiles ==
    /\ \A i \in Id : probe[<<"ProbeFiles", i>>].pc = "idle"
    /\ probe' = [j \in Job |->
                    IF j[1] = "ProbeFiles" /\ rows[j[2]] # None /\ NeedsProbe(rows[j[2]])
                    THEN ProbeIn("queued", 0) ELSE probe[j]]
    /\ UNCHANGED <<tables, disk, refresh, faults>>

(* SourceByID, and probeFile's own NeedsProbe: a row that is gone or has   *)
(* been probed meanwhile ends the run.                                     *)
LookUp(j) ==
    /\ probe[j].pc = "queued"
    /\ IF rows[j[2]] # None /\ NeedsProbe(rows[j[2]])
       THEN Moves(j, [probe[j] EXCEPT !.pc = "looked", !.path = rows[j[2]].path])
       ELSE Ends(j)
    /\ UNCHANGED <<tables, disk, refresh, faults>>

(* ffprobe reads the file that is there now.                               *)
ReadFile(j) ==
    /\ probe[j].pc = "looked"
    /\ disk[probe[j].path].there
    /\ Moves(j, [probe[j] EXCEPT !.pc = "read", !.version = disk[probe[j].path].version])
    /\ UNCHANGED <<tables, disk, refresh, faults>>

(* ItemByID finds no item that is marked, and the run ends unsaved.        *)
FindItem(j) ==
    /\ probe[j].pc = "read"
    /\ IF probe[j].path \in marked THEN Ends(j)
       ELSE Moves(j, [probe[j] EXCEPT !.pc = "found"])
    /\ UNCHANGED <<tables, disk, refresh, faults>>

(* SaveProbe: time.Now() is taken before the row is waited for.            *)
BeginSave(j) ==
    /\ probe[j].pc = "found"
    /\ Moves(j, [probe[j] EXCEPT !.pc = "saving", !.at = disk[probe[j].path].version])
    /\ UNCHANGED <<tables, disk, refresh, faults>>

(* The update of the row, which locks it; without a row the run ends.      *)
UpdateUnawaited(j) ==  \* slip: the streams replaced before the row is updated
    /\ probe[j].pc = "saving"
    /\ IF rows[j[2]] # None THEN Moves(j, [probe[j] EXCEPT !.pc = "locked"]) ELSE Ends(j)
    /\ UNCHANGED <<tables, disk, refresh, faults>>
UpdateRow(j) ==
    /\ probe[j].pc = "saving"
    /\ ~Held(j[2])
    /\ IF rows[j[2]] # None THEN Moves(j, [probe[j] EXCEPT !.pc = "locked"]) ELSE Ends(j)
    /\ UNCHANGED <<tables, disk, refresh, faults>>

ClearStreams(j) ==
    /\ probe[j].pc = "locked"
    /\ Moves(j, [probe[j] EXCEPT !.pc = "cleared", !.seen = streams[j[2]]])
    /\ UNCHANGED <<tables, disk, refresh, faults>>

(* The inserts and the commit, which shows all three to everyone else.     *)
Commit(j) ==
    /\ probe[j].pc = "cleared"
    /\ rows' = [rows EXCEPT ![j[2]].probed = probe[j].at]
    /\ streams' = [streams EXCEPT ![j[2]] = (@ \ probe[j].seen) \cup {probe[j].version}]
    /\ Ends(j)
    /\ UNCHANGED <<marked, disk, refresh, faults>>

ProbeStep(j) ==
    \/ LookUp(j) \/ ReadFile(j) \/ FindItem(j)
    \/ BeginSave(j) \/ UpdateRow(j) \/ ClearStreams(j) \/ Commit(j)

-----------------------------------------------------------------------------
(* Failures.  ProbeFile is retried from its start; ProbeFiles logs what    *)
(* went wrong with one file and goes on to the next.                       *)
AlwaysQueued(j) == ProbeIn("queued", probe[j].tries + 1)  \* slip: no limit
AfterFailure(j) ==
    IF j[1] = "ProbeFile" /\ probe[j].tries + 1 < Attempts
    THEN ProbeIn("queued", probe[j].tries + 1)
    ELSE ProbeIn("idle", 0)

ReadFails(j) ==
    /\ probe[j].pc = "looked"
    /\ ~disk[probe[j].path].there
    /\ Moves(j, AfterFailure(j))
    /\ UNCHANGED <<tables, disk, refresh, faults>>

(* A lost connection or a stopped worker; an open transaction rolls back.  *)
ProbeFails(j) ==
    /\ faults < Faults
    /\ faults' = faults + 1
    /\ probe[j].pc # "idle"
    /\ Moves(j, AfterFailure(j))
    /\ UNCHANGED <<tables, disk, refresh>>

-----------------------------------------------------------------------------
Works ==
    \/ \E p \in Path : RefreshStep(p)
    \/ \E j \in Job : ProbeStep(j) \/ ReadFails(j)

Next ==
    \/ \E p \in Path : Replace(p) \/ Remove(p) \/ Scan(p) \/ Sweep(p)
    \/ ListFiles
    \/ Works
    \/ \E j \in Job : ProbeFails(j)
    \/ \E p \in Path, v \in Version : EnqueueLost(p, v)

Spec == Init /\ [][Next]_vars

(* Temporal hands started runs to a worker until they end.                 *)
Fairness ==
    /\ \A p \in Path :
          /\ WF_vars(DropRow(p))
          /\ \A v \in Version :
                WF_vars(SaveScanned(p, v) \/ SaveSource(p, v) \/ EnqueueProbe(p, v))
    /\ \A j \in Job : WF_vars(ProbeStep(j) \/ ReadFails(j))

FairSpec == Spec /\ Fairness

-----------------------------------------------------------------------------
(* Properties.                                                             *)

(* A probed row has the streams of one reading, an unprobed one has none:  *)
(* of two probes of one row that overlap, the second waits at its update   *)
(* until the first has committed, and deletes what that one inserted.      *)
OneReading ==
    \A i \in Id : IF rows[i] = None \/ rows[i].probed = None THEN streams[i] = {}
                  ELSE \E v \in Version : streams[i] = {v}

(* A row whose streams are of an older version than the one it describes   *)
(* is selected for another probe.                                          *)
ChangedIsSelected ==
    \A i \in Id : rows[i] # None /\ ~NeedsProbe(rows[i])
                     => \A v \in streams[i] : v >= rows[i].modified

(* Scanned again and again, every file comes to have the streams of its    *)
(* latest version, whatever runs of older scans arrive late, whichever     *)
(* enqueues are swallowed and whichever attempts fail.                     *)
Current ==
    \A p \in Path : disk[p].there =>
        \E i \in RowsOf(p) : streams[i] = {disk[p].version} /\ ~NeedsProbe(rows[i])

EventuallyCurrent == (\A p \in Path : []<><<Scan(p)>>_vars) => <>[]Current
=============================================================================
