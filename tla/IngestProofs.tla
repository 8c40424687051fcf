---------------------------- MODULE IngestProofs ----------------------------
(***************************************************************************)
(* What holds of Ingest for every set of libraries, sources, bindings,     *)
(* titles and files, every catalogue, and every bound or none.             *)
(***************************************************************************)
EXTENDS IngestAudit, TLAPS

(* The local paths a source may ever report.                               *)
Mine(s) == UNION {PathsOf(c) : c \in Catalogues[s]}

CatalogueIsPossible == \A s \in Source : cat[s] \in Catalogues[s]

(* A scan past its first statement holds what its source once reported.    *)
SnapshotIsPossible ==
    \A b \in Binding : scan[b].pc \in {"read", "pruned", "enqueueing"}
                          => scan[b].snapshot \in Catalogues[b[2]]

(* The parameters of a started run come from such a snapshot.              *)
TitleIsPossible ==
    \A j \in TitleJob : titles[j].pc # "idle" /\ j.path # None
                           => j.key \in Playable /\ j.path \in Mine(j.source)

ReadHasPath == \A j \in TitleJob : titles[j].pc = "read" => j.path # None

(* A run past the upsert of its item finds the row, live or not.           *)
SavedIsPresent ==
    \A j \in TitleJob : titles[j].pc \in {"saved", "read", "placed", "filed"} => Present(j.key)

RowIsPossible == \A p \in Path : files[p] # None => p \in Mine(files[p].source)

(* The inductive invariant.                                                *)
IInv ==
    /\ TypeOK
    /\ CatalogueIsPossible
    /\ SnapshotIsPossible
    /\ TitleIsPossible
    /\ ReadHasPath
    /\ SavedIsPresent
    /\ RowIsPossible
    /\ NoOrphans

-----------------------------------------------------------------------------
(* The runs in each of their phases are runs.                              *)
LEMMA FreshRuns ==
    /\ \A phase \in {"idle", "queued", "saved", "read", "placed", "filed"}, n \in 0 .. Attempts :
          TitleIn(phase, n) \in TitleRun
    /\ \A phase \in {"idle", "queued"}, n \in 0 .. Attempts :
          /\ ScanIn(phase, n) \in ScanRun
          /\ SweepIn(phase, n) \in SweepRun
BY DEF TitleIn, ScanIn, SweepIn, TitleRun, ScanRun, SweepRun

(* A retried run is a run, queued again or given up.                       *)
LEMMA RetriedRuns ==
    /\ \A run \in TitleRun : TitleRetry(run) \in TitleRun /\ TitleRetry(run).pc \in {"idle", "queued"}
    /\ \A run \in ScanRun : ScanRetry(run) \in ScanRun /\ ScanRetry(run).pc \in {"idle", "queued"}
    /\ \A run \in SweepRun : SweepRetry(run) \in SweepRun
<1>1. 0 \in 0 .. Attempts
  BY IngestAssumption
<1>2. ASSUME NEW run, run.tries \in 0 .. Attempts, HasRetry(run)
      PROVE  run.tries + 1 \in 0 .. Attempts
  BY <1>2, IngestAssumption DEF HasRetry
<1>3. ASSUME NEW run \in TitleRun
      PROVE  TitleRetry(run) \in TitleRun /\ TitleRetry(run).pc \in {"idle", "queued"}
  <2>1. run.tries \in 0 .. Attempts
    BY DEF TitleRun
  <2>2. QED
    BY <1>1, <1>2, <2>1, FreshRuns DEF TitleRetry, TitleIn
<1>4. ASSUME NEW run \in ScanRun
      PROVE  ScanRetry(run) \in ScanRun /\ ScanRetry(run).pc \in {"idle", "queued"}
  <2>1. run.tries \in 0 .. Attempts
    BY DEF ScanRun
  <2>2. QED
    BY <1>1, <1>2, <2>1, FreshRuns DEF ScanRetry, ScanIn
<1>5. ASSUME NEW run \in SweepRun
      PROVE  SweepRetry(run) \in SweepRun
  <2>1. run.tries \in 0 .. Attempts
    BY DEF SweepRun
  <2>2. QED
    BY <1>1, <1>2, <2>1, FreshRuns DEF SweepRetry
<1>6. QED
  BY <1>3, <1>4, <1>5

(* A job enqueued for a title of a snapshot has possible parameters.       *)
LEMMA EnqueuedJob ==
    ASSUME NEW b \in Binding, NEW c \in Catalogues[b[2]], NEW k \in Key
    PROVE  LET j == JobFor(b, c, k)
           IN  /\ j \in TitleJob
               /\ j.path # None => j.key \in Playable /\ j.path \in Mine(j.source)
<1>1. b[1] \in Library /\ b[2] \in Source
  BY IngestAssumption
<1>2. c \in Catalogue
  BY <1>1, IngestAssumption
<1>3. FileOf(c, k) \in Path \cup {None}
  BY <1>2 DEF FileOf, Catalogue
<1>4. IsTagged(b, c, k) \in BOOLEAN
  BY DEF IsTagged
<1>5. JobFor(b, c, k) \in TitleJob
  BY <1>1, <1>3, <1>4 DEF JobFor, TitleJob
<1>6. FileOf(c, k) # None => k \in Playable /\ FileOf(c, k) \in PathsOf(c)
  BY DEF FileOf, PathsOf
<1>7. QED
  BY <1>5, <1>6 DEF JobFor, Mine

-----------------------------------------------------------------------------
(* The first state.                                                        *)
LEMMA InitSound == Init => IInv
<1> SUFFICES ASSUME Init PROVE IInv
  OBVIOUS
<1>1. CatalogueIsPossible /\ cat \in [Source -> Catalogue]
  BY IngestAssumption DEF Init, CatalogueIsPossible
<1>2. 0 \in 0 .. Attempts
  BY IngestAssumption
<1>3. scan \in [Binding -> ScanRun] /\ titles \in [TitleJob -> TitleRun] /\ sweep \in SweepRun
  BY <1>2, FreshRuns DEF Init
<1>4. TypeOK
  BY <1>1, <1>3 DEF Init, TypeOK, ItemState
<1>5. SnapshotIsPossible
  BY DEF Init, SnapshotIsPossible, ScanIn
<1>6. TitleIsPossible /\ ReadHasPath /\ SavedIsPresent
  BY DEF Init, TitleIsPossible, ReadHasPath, SavedIsPresent, TitleIn
<1>7. RowIsPossible /\ NoOrphans
  BY DEF Init, RowIsPossible, NoOrphans, ParentsFirst, Present
<1>8. QED
  BY <1>1, <1>4, <1>5, <1>6, <1>7 DEF IInv

-----------------------------------------------------------------------------
(* What a step must show, by the table or the runs it writes.              *)

(* A scan moved to a possible state.                                       *)
LEMMA ScanMoved ==
    ASSUME IInv, NEW b \in Binding, NEW run \in ScanRun,
           scan' = [scan EXCEPT ![b] = run],
           run.pc \in {"read", "pruned", "enqueueing"} => run.snapshot \in Catalogues[b[2]]
    PROVE  scan' \in [Binding -> ScanRun] /\ SnapshotIsPossible'
BY DEF IInv, TypeOK, SnapshotIsPossible

(* A run of RefreshItem moved, while no row disappears.                    *)
LEMMA TitleMoved ==
    ASSUME IInv, NEW j \in TitleJob, NEW run \in TitleRun,
           titles' = [titles EXCEPT ![j] = run],
           titles[j].pc # "idle",
           run.pc = "read" => j.path # None,
           run.pc \in {"saved", "read", "placed", "filed"} => Present(j.key)',
           \A k \in Key : Present(k) => Present(k)'
    PROVE  /\ titles' \in [TitleJob -> TitleRun]
           /\ TitleIsPossible' /\ ReadHasPath' /\ SavedIsPresent'
<1>1. titles' \in [TitleJob -> TitleRun]
  BY DEF IInv, TypeOK
<1>2. \A o \in TitleJob : titles'[o] = IF o = j THEN run ELSE titles[o]
  BY DEF IInv, TypeOK
<1>3. \A o \in TitleJob : o.key \in Key
  BY DEF TitleJob
<1>4. TitleIsPossible'
  BY <1>2 DEF IInv, TitleIsPossible
<1>5. ReadHasPath'
  BY <1>2 DEF IInv, ReadHasPath
<1>6. SavedIsPresent'
  BY <1>2, <1>3 DEF IInv, SavedIsPresent
<1>7. QED
  BY <1>1, <1>4, <1>5, <1>6

(* Marking rows deleted, or live again, orphans nothing.                   *)
LEMMA ItemsMarked ==
    ASSUME IInv, items' \in [Key -> ItemState], files' = files, members' = members,
           \A k \in Key : Present(k)' <=> Present(k)
    PROVE  NoOrphans'
<1>1. ParentsFirst'
  BY IngestAssumption DEF IInv, NoOrphans, ParentsFirst
<1>2. \A p \in Path : files[p] # None => files[p].item \in Key
  BY IngestAssumption DEF IInv, TypeOK, FileRow
<1>3. \A m \in members : m.key \in Key
  BY DEF IInv, TypeOK, Member
<1>4. QED
  BY <1>1, <1>2, <1>3 DEF IInv, NoOrphans

-----------------------------------------------------------------------------
(* The steps, job by job.                                                  *)

(* Counting an event keeps the counters numbers.                           *)
LEMMA HappensTyped ==
    ASSUME IInv, NEW e \in Event, Happens(e)
    PROVE  spent' \in [Event -> Nat]
BY DEF IInv, TypeOK, Happens

(* Changes at the sources and requests for jobs.                           *)
LEMMA AsksSound == IInv /\ Asks => IInv'
<1> SUFFICES ASSUME IInv, Asks PROVE IInv'
  OBVIOUS
<1> USE DEF IInv
<1>0. "change" \in Event /\ "scan" \in Event /\ "sweep" \in Event
  BY DEF Event
<1>1. 0 \in 0 .. Attempts
  BY IngestAssumption
<1>2. ASSUME NEW s \in Source, CatalogueChanges(s) PROVE IInv'
  <2>1. PICK c \in Catalogues[s] : cat' = [cat EXCEPT ![s] = c]
    BY <1>2 DEF CatalogueChanges
  <2>2. cat' \in [Source -> Catalogue] /\ CatalogueIsPossible'
    BY <2>1, IngestAssumption DEF TypeOK, CatalogueIsPossible
  <2>3. spent' \in [Event -> Nat]
    BY <1>0, <1>2, HappensTyped DEF CatalogueChanges
  <2>4. UNCHANGED <<tables, scan, titles, sweep>>
    BY <1>2 DEF CatalogueChanges
  <2>5. TypeOK'
    BY <2>2, <2>3, <2>4 DEF TypeOK, tables
  <2>6. QED
    BY <2>2, <2>4, <2>5 DEF tables, SnapshotIsPossible, TitleIsPossible, ReadHasPath,
       SavedIsPresent, RowIsPossible, NoOrphans, ParentsFirst, Present
<1>3. ASSUME NEW b \in Binding, RequestScan(b) PROVE IInv'
  <2>1. ScanIn("queued", 0) \in ScanRun /\ ScanIn("queued", 0).pc = "queued"
    BY <1>1, FreshRuns DEF ScanIn
  <2>2. scan' \in [Binding -> ScanRun] /\ SnapshotIsPossible'
    BY <1>3, <2>1, ScanMoved DEF RequestScan
  <2>3. spent' \in [Event -> Nat]
    BY <1>0, <1>3, HappensTyped DEF RequestScan
  <2>4. UNCHANGED <<tables, cat, titles, sweep>>
    BY <1>3 DEF RequestScan
  <2>5. TypeOK'
    BY <2>2, <2>3, <2>4 DEF TypeOK, tables
  <2>6. QED
    BY <2>2, <2>4, <2>5 DEF tables, CatalogueIsPossible, TitleIsPossible, ReadHasPath,
       SavedIsPresent, RowIsPossible, NoOrphans, ParentsFirst, Present
<1>4. ASSUME RequestSweep PROVE IInv'
  <2>1. sweep' \in SweepRun
    BY <1>1, <1>4, FreshRuns DEF RequestSweep
  <2>2. spent' \in [Event -> Nat]
    BY <1>0, <1>4, HappensTyped DEF RequestSweep
  <2>3. UNCHANGED <<tables, cat, scan, titles>>
    BY <1>4 DEF RequestSweep
  <2>4. TypeOK'
    BY <2>1, <2>2, <2>3 DEF TypeOK, tables
  <2>5. QED
    BY <2>3, <2>4 DEF tables, CatalogueIsPossible, SnapshotIsPossible, TitleIsPossible,
       ReadHasPath, SavedIsPresent, RowIsPossible, NoOrphans, ParentsFirst, Present
<1>5. QED
  BY <1>2, <1>3, <1>4 DEF Asks

(* RefreshLibrarySource.                                                   *)
LEMMA ScanStepSound == ASSUME NEW b \in Binding PROVE IInv /\ ScanStep(b) => IInv'
<1> SUFFICES ASSUME IInv, ScanStep(b) PROVE IInv'
  OBVIOUS
<1> USE DEF IInv
<1>1. /\ scan[b] \in ScanRun
      /\ b[2] \in Source
      /\ scan[b] = [pc |-> scan[b].pc, tries |-> scan[b].tries,
                    snapshot |-> scan[b].snapshot, pending |-> scan[b].pending]
  BY IngestAssumption DEF TypeOK, ScanRun
<1>2. CASE ReadTitles(b)
  <2> DEFINE run == [scan[b] EXCEPT !.pc = "read", !.snapshot = cat[b[2]]]
  <2>1. cat[b[2]] \in Catalogues[b[2]] /\ cat[b[2]] \in Catalogue
    BY <1>1 DEF CatalogueIsPossible, TypeOK
  <2>2. run \in ScanRun /\ run.snapshot \in Catalogues[b[2]]
    BY <1>1, <2>1 DEF ScanRun
  <2>3. scan' = [scan EXCEPT ![b] = run]
    BY <1>2 DEF ReadTitles
  <2>4. scan' \in [Binding -> ScanRun] /\ SnapshotIsPossible'
    BY <2>2, <2>3, ScanMoved
  <2>5. QED
    BY <1>2, <2>4 DEF ReadTitles, tables, TypeOK, CatalogueIsPossible, TitleIsPossible,
       ReadHasPath, SavedIsPresent, RowIsPossible, NoOrphans, ParentsFirst, Present
<1>3. CASE DeleteSourcesNotInPaths(b)
  <2> DEFINE run == [scan[b] EXCEPT !.pc = "pruned"]
  <2>1. run \in ScanRun /\ run.snapshot \in Catalogues[b[2]]
    BY <1>1, <1>3 DEF ScanRun, SnapshotIsPossible, DeleteSourcesNotInPaths
  <2>2. scan' = [scan EXCEPT ![b] = run]
    BY <1>3 DEF DeleteSourcesNotInPaths
  <2>3. scan' \in [Binding -> ScanRun] /\ SnapshotIsPossible'
    BY <2>1, <2>2, ScanMoved
  <2>4. \A p \in Path : files'[p] \in {None, files[p]}
    BY <1>3 DEF DeleteSourcesNotInPaths
  <2>5. files' \in [Path -> FileRow \cup {None}]
    BY <1>3 DEF DeleteSourcesNotInPaths, TypeOK
  <2>6. UNCHANGED <<items, members, cat, titles, sweep, spent>>
    BY <1>3 DEF DeleteSourcesNotInPaths
  <2>7. TypeOK'
    BY <2>3, <2>5, <2>6 DEF TypeOK
  <2>8. RowIsPossible' /\ NoOrphans'
    BY <2>4, <2>6 DEF RowIsPossible, NoOrphans, ParentsFirst, Present
  <2>9. QED
    BY <2>3, <2>6, <2>7, <2>8 DEF CatalogueIsPossible, TitleIsPossible, ReadHasPath,
       SavedIsPresent, Present
<1>4. CASE DeleteMembershipNotInKeys(b)
  <2> DEFINE run == [scan[b] EXCEPT !.pc = "enqueueing",
                                   !.pending = Reported(scan[b].snapshot)]
  <2>1. Reported(scan[b].snapshot) \subseteq Key
    BY DEF Reported, Above
  <2>2. run \in ScanRun /\ run.snapshot \in Catalogues[b[2]]
    BY <1>1, <1>4, <2>1 DEF ScanRun, SnapshotIsPossible, DeleteMembershipNotInKeys
  <2>3. scan' = [scan EXCEPT ![b] = run]
    BY <1>4 DEF DeleteMembershipNotInKeys
  <2>4. scan' \in [Binding -> ScanRun] /\ SnapshotIsPossible'
    BY <2>2, <2>3, ScanMoved
  <2>5. members' \subseteq members
    BY <1>4 DEF DeleteMembershipNotInKeys
  <2>6. UNCHANGED <<items, files, cat, titles, sweep, spent>>
    BY <1>4 DEF DeleteMembershipNotInKeys
  <2>7. TypeOK'
    BY <2>4, <2>5, <2>6 DEF TypeOK
  <2>8. NoOrphans'
    BY <2>5, <2>6 DEF NoOrphans, ParentsFirst, Present
  <2>9. QED
    BY <2>4, <2>6, <2>7, <2>8 DEF CatalogueIsPossible, TitleIsPossible, ReadHasPath,
       SavedIsPresent, RowIsPossible, Present
<1>5. ASSUME NEW k \in Key, EnqueueTitle(b, k) PROVE IInv'
  <2> DEFINE run == [scan[b] EXCEPT !.pending = @ \ {k}]
             j == JobFor(b, scan[b].snapshot, k)
  <2>1. run \in ScanRun /\ run.snapshot \in Catalogues[b[2]]
    BY <1>1, <1>5 DEF ScanRun, SnapshotIsPossible, EnqueueTitle, NextPending
  <2>2. scan' = [scan EXCEPT ![b] = run]
    BY <1>5 DEF EnqueueTitle
  <2>3. scan' \in [Binding -> ScanRun] /\ SnapshotIsPossible'
    BY <2>1, <2>2, ScanMoved
  <2>4. /\ j \in TitleJob
        /\ j.path # None => j.key \in Playable /\ j.path \in Mine(j.source)
    BY <2>1, EnqueuedJob
  <2>5. TitleIn("queued", 0) \in TitleRun /\ TitleIn("queued", 0).pc = "queued"
    BY FreshRuns, IngestAssumption DEF TitleIn
  <2>6. /\ titles' \in [TitleJob -> TitleRun]
        /\ \A o \in TitleJob :
              titles'[o] # titles[o] => o = j /\ titles'[o] = TitleIn("queued", 0)
    BY <1>5, <2>4, <2>5 DEF EnqueueTitle, TypeOK
  <2>7. UNCHANGED <<items, files, members, cat, sweep, spent>>
    BY <1>5 DEF EnqueueTitle, tables
  <2>8. TypeOK'
    BY <2>3, <2>6, <2>7 DEF TypeOK
  <2>9. TitleIsPossible' /\ ReadHasPath' /\ SavedIsPresent'
    BY <2>4, <2>5, <2>6, <2>7 DEF TitleIsPossible, ReadHasPath, SavedIsPresent, Present
  <2>10. QED
    BY <2>3, <2>7, <2>8, <2>9 DEF CatalogueIsPossible, RowIsPossible, NoOrphans,
       ParentsFirst, Present
<1>6. CASE FinishScan(b)
  <2>1. ScanIn("idle", 0) \in ScanRun /\ ScanIn("idle", 0).pc = "idle"
    BY FreshRuns, IngestAssumption DEF ScanIn
  <2>2. scan' \in [Binding -> ScanRun] /\ SnapshotIsPossible'
    BY <1>6, <2>1, ScanMoved DEF FinishScan
  <2>3. QED
    BY <1>6, <2>2 DEF FinishScan, tables, TypeOK, CatalogueIsPossible, TitleIsPossible,
       ReadHasPath, SavedIsPresent, RowIsPossible, NoOrphans, ParentsFirst, Present
<1>7. QED
  BY <1>2, <1>3, <1>4, <1>5, <1>6 DEF ScanStep

(* RefreshItem.                                                            *)
LEMMA TitleStepSound == ASSUME NEW j \in TitleJob PROVE IInv /\ TitleStep(j) => IInv'
<1> SUFFICES ASSUME IInv, TitleStep(j) PROVE IInv'
  OBVIOUS
<1> USE DEF IInv
<1>1. /\ titles[j] \in TitleRun
      /\ j.key \in Key
      /\ j.library \in Library /\ j.source \in Source
      /\ j.path \in Path \cup {None}
  BY DEF TypeOK, TitleJob
<1>2. /\ TitleRetry(titles[j]) \in TitleRun
      /\ TitleRetry(titles[j]).pc \in {"idle", "queued"}
  BY <1>1, RetriedRuns
<1>3. ASSUME NEW run \in TitleRun, TitleMoves(j, run), UNCHANGED tables,
             titles[j].pc # "idle",
             run.pc = "read" => j.path # None,
             run.pc \in {"saved", "read", "placed", "filed"} => Present(j.key)
      PROVE  IInv'
  <2>1. /\ titles' \in [TitleJob -> TitleRun]
        /\ TitleIsPossible' /\ ReadHasPath' /\ SavedIsPresent'
    BY <1>3, TitleMoved DEF TitleMoves, tables, Present
  <2>2. QED
    BY <1>3, <2>1 DEF TitleMoves, tables, TypeOK, CatalogueIsPossible, SnapshotIsPossible,
       RowIsPossible, NoOrphans, ParentsFirst, Present
<1>4. CASE ParentMissing(j)
  BY <1>2, <1>3, <1>4 DEF ParentMissing
<1>5. CASE SaveScanned(j)
  <2> DEFINE run == [titles[j] EXCEPT !.pc = "saved"]
  <2>1. run \in TitleRun /\ run.pc = "saved"
    BY <1>1 DEF TitleRun
  <2>2. /\ items' \in [Key -> ItemState]
        /\ \A k \in Key : items'[k] = IF k = j.key THEN "live" ELSE items[k]
    BY <1>1, <1>5 DEF SaveScanned, TypeOK, ItemState
  <2>3. Present(j.key)' /\ \A k \in Key : Present(k) => Present(k)'
    BY <1>1, <2>2 DEF Present
  <2>4. /\ titles' = [titles EXCEPT ![j] = run]
        /\ UNCHANGED <<files, members, cat, scan, sweep, spent>>
        /\ ParentWritten(j)
        /\ titles[j].pc # "idle"
    BY <1>5 DEF SaveScanned, TitleMoves
  <2>5. /\ titles' \in [TitleJob -> TitleRun]
        /\ TitleIsPossible' /\ ReadHasPath' /\ SavedIsPresent'
    BY <2>1, <2>3, <2>4, TitleMoved
  <2>6. TypeOK'
    BY <2>2, <2>4, <2>5 DEF TypeOK
  <2>7. ParentsFirst'
    <3> SUFFICES ASSUME NEW k \in Key, Present(k)', Parent[k] # None
                 PROVE  Present(Parent[k])'
      BY DEF ParentsFirst
    <3>1. Parent[k] \in Key
      BY IngestAssumption
    <3>2. Present(Parent[k])
      BY <2>2, <2>4 DEF NoOrphans, ParentsFirst, ParentWritten, Present
    <3>3. QED
      BY <2>3, <3>1, <3>2
  <2>8. \A p \in Path : files[p] # None => files[p].item \in Key
    BY IngestAssumption DEF TypeOK, FileRow
  <2>9. \A m \in members : m.key \in Key
    BY DEF TypeOK, Member
  <2>10. NoOrphans'
    BY <2>3, <2>4, <2>7, <2>8, <2>9 DEF NoOrphans
  <2>11. QED
    BY <2>4, <2>5, <2>6, <2>10 DEF CatalogueIsPossible, SnapshotIsPossible, RowIsPossible
<1>6. CASE ReadBack(j)
  <2> DEFINE run == [titles[j] EXCEPT !.pc = IF j.path = None THEN "filed" ELSE "read"]
  <2>1. run \in TitleRun /\ (run.pc = "read" => j.path # None)
    BY <1>1 DEF TitleRun
  <2>2. Present(j.key)
    BY <1>6 DEF ReadBack, Present
  <2>3. titles[j].pc # "idle" /\ TitleMoves(j, run) /\ UNCHANGED tables
    BY <1>6 DEF ReadBack
  <2>4. QED
    BY <1>3, <2>1, <2>2, <2>3
<1>7. CASE ReadBackFails(j)
  BY <1>2, <1>3, <1>7 DEF ReadBackFails
<1>8. CASE SaveSource(j)
  <2> DEFINE run == [titles[j] EXCEPT !.pc = "placed"]
  <2>1. run \in TitleRun /\ run.pc = "placed"
    BY <1>1 DEF TitleRun
  <2>2. /\ titles[j].pc = "read"
        /\ titles' = [titles EXCEPT ![j] = run]
        /\ files' = [files EXCEPT ![j.path] = Row(j)]
        /\ UNCHANGED <<items, members, cat, scan, sweep, spent>>
    BY <1>8 DEF SaveSource, TitleMoves
  <2>3. /\ j.path \in Path /\ j.key \in Playable
        /\ j.path \in Mine(j.source) /\ Present(j.key)
    BY <1>1, <2>2 DEF ReadHasPath, TitleIsPossible, SavedIsPresent
  <2>4. Row(j) \in FileRow /\ Row(j).source = j.source /\ Row(j).item = j.key
    BY <1>1, <2>3 DEF Row, FileRow
  <2>5. /\ files' \in [Path -> FileRow \cup {None}]
        /\ \A p \in Path : files'[p] = IF p = j.path THEN Row(j) ELSE files[p]
    BY <2>2, <2>3, <2>4 DEF TypeOK
  <2>6. /\ titles' \in [TitleJob -> TitleRun]
        /\ TitleIsPossible' /\ ReadHasPath' /\ SavedIsPresent'
    BY <2>1, <2>2, <2>3, TitleMoved DEF Present
  <2>7. TypeOK'
    BY <2>2, <2>5, <2>6 DEF TypeOK
  <2>8. RowIsPossible'
    BY <2>3, <2>4, <2>5 DEF RowIsPossible
  <2>9. NoOrphans'
    BY <2>2, <2>3, <2>4, <2>5 DEF NoOrphans, ParentsFirst, Present
  <2>10. QED
    BY <2>2, <2>6, <2>7, <2>8, <2>9 DEF CatalogueIsPossible, SnapshotIsPossible
<1>9. CASE SaveSourceFails(j)
  BY <1>2, <1>3, <1>9 DEF SaveSourceFails
<1>10. CASE ReadSource(j)
  <2> DEFINE run == [titles[j] EXCEPT !.pc = "filed"]
  <2>1. run \in TitleRun /\ run.pc = "filed"
    BY <1>1 DEF TitleRun
  <2>2. titles[j].pc = "placed" /\ TitleMoves(j, run) /\ UNCHANGED tables
    BY <1>10 DEF ReadSource
  <2>3. Present(j.key)
    BY <2>2 DEF SavedIsPresent
  <2>4. QED
    BY <1>3, <2>1, <2>2, <2>3
<1>11. CASE ReadSourceFails(j)
  BY <1>2, <1>3, <1>11 DEF ReadSourceFails
<1>12. CASE SaveMembership(j)
  <2> DEFINE run == TitleIn("idle", 0)
             m == [library |-> j.library, key |-> j.key, source |-> j.source]
  <2>1. run \in TitleRun /\ run.pc = "idle"
    BY FreshRuns, IngestAssumption DEF TitleIn
  <2>2. /\ titles[j].pc = "filed"
        /\ titles' = [titles EXCEPT ![j] = run]
        /\ members' \subseteq members \cup {m}
        /\ UNCHANGED <<items, files, cat, scan, sweep, spent>>
    BY <1>12 DEF SaveMembership, TitleMoves
  <2>3. m \in Member /\ m.key = j.key /\ Present(j.key)
    BY <1>1, <2>2 DEF Member, SavedIsPresent
  <2>4. /\ titles' \in [TitleJob -> TitleRun]
        /\ TitleIsPossible' /\ ReadHasPath' /\ SavedIsPresent'
    BY <2>1, <2>2, TitleMoved DEF Present
  <2>5. TypeOK'
    BY <2>2, <2>3, <2>4 DEF TypeOK
  <2>6. NoOrphans'
    BY <2>2, <2>3 DEF NoOrphans, ParentsFirst, Present
  <2>7. QED
    BY <2>2, <2>4, <2>5, <2>6 DEF CatalogueIsPossible, SnapshotIsPossible, RowIsPossible
<1>13. QED
  BY <1>4, <1>5, <1>6, <1>7, <1>8, <1>9, <1>10, <1>11, <1>12 DEF TitleStep

(* SweepItems.                                                             *)
LEMMA SweepStepSound == IInv /\ SweepStep => IInv'
<1> SUFFICES ASSUME IInv, SweepStep PROVE IInv'
  OBVIOUS
<1> USE DEF IInv
<1>1. SweepIn("idle", 0) \in SweepRun
  BY FreshRuns, IngestAssumption
<1>2. ASSUME sweep' \in SweepRun, items' \in [Key -> ItemState],
             \A k \in Key : Present(k)' <=> Present(k),
             UNCHANGED <<files, members, cat, scan, titles, spent>>
      PROVE  IInv'
  <2>1. NoOrphans'
    BY <1>2, ItemsMarked
  <2>2. TypeOK'
    BY <1>2 DEF TypeOK
  <2>3. SavedIsPresent'
    BY <1>2 DEF SavedIsPresent, TitleJob
  <2>4. QED
    BY <1>2, <2>1, <2>2, <2>3 DEF CatalogueIsPossible, SnapshotIsPossible, TitleIsPossible,
       ReadHasPath, RowIsPossible
<1>3. CASE ListItems
  <2>1. Live \subseteq Key
    BY DEF Live
  <2>2. sweep' \in SweepRun
    BY <1>1, <1>3, <2>1 DEF ListItems, TypeOK, SweepRun
  <2>3. QED
    BY <1>2, <1>3, <2>2 DEF ListItems, tables, TypeOK, Present
<1>4. CASE MarkFileless
  <2>1. sweep' \in SweepRun
    BY <1>4 DEF MarkFileless, TypeOK, SweepRun
  <2>2. items' \in [Key -> ItemState] /\ \A k \in Key : Present(k)' <=> Present(k)
    BY <1>4 DEF MarkFileless, TypeOK, ItemState, Present
  <2>3. QED
    BY <1>2, <1>4, <2>1, <2>2 DEF MarkFileless
<1>5. CASE MarkChildless
  <2>1. sweep' \in SweepRun
    BY <1>1, <1>5 DEF MarkChildless, TypeOK
  <2>2. items' \in [Key -> ItemState] /\ \A k \in Key : Present(k)' <=> Present(k)
    BY <1>5 DEF MarkChildless, Childless, TypeOK, ItemState, Present
  <2>3. QED
    BY <1>2, <1>5, <2>1, <2>2 DEF MarkChildless
<1>6. QED
  BY <1>3, <1>4, <1>5 DEF SweepStep

(* Attempts that fail and enqueues that are lost.                          *)
LEMMA BreaksSound == IInv /\ Breaks => IInv'
<1> SUFFICES ASSUME IInv, Breaks PROVE IInv'
  OBVIOUS
<1> USE DEF IInv
<1>1. ASSUME Fault
      PROVE  UNCHANGED <<items, files, members, cat>> /\ spent' \in [Event -> Nat]
  BY <1>1, HappensTyped DEF Fault, Event, tables
<1>2. ASSUME NEW b \in Binding, NEW run \in ScanRun, Fault,
             scan' = [scan EXCEPT ![b] = run], UNCHANGED <<titles, sweep>>,
             run.pc \in {"read", "pruned", "enqueueing"} => run.snapshot \in Catalogues[b[2]]
      PROVE  IInv'
  <2>1. scan' \in [Binding -> ScanRun] /\ SnapshotIsPossible'
    BY <1>2, ScanMoved
  <2>2. QED
    BY <1>1, <1>2, <2>1 DEF TypeOK, CatalogueIsPossible, TitleIsPossible, ReadHasPath,
       SavedIsPresent, RowIsPossible, NoOrphans, ParentsFirst, Present
<1>3. ASSUME NEW b \in Binding, ScanFails(b) PROVE IInv'
  <2>1. scan[b] \in ScanRun
    BY DEF TypeOK
  <2>2. ScanRetry(scan[b]) \in ScanRun /\ ScanRetry(scan[b]).pc \in {"idle", "queued"}
    BY <2>1, RetriedRuns
  <2>3. QED
    BY <1>2, <1>3, <2>2 DEF ScanFails
<1>4. ASSUME NEW b \in Binding, NEW k \in Key, EnqueueLost(b, k) PROVE IInv'
  <2> DEFINE run == [scan[b] EXCEPT !.pending = @ \ {k}]
  <2>1. run \in ScanRun /\ run.snapshot \in Catalogues[b[2]]
    BY <1>4 DEF TypeOK, ScanRun, SnapshotIsPossible, EnqueueLost, NextPending
  <2>2. scan' = [scan EXCEPT ![b] = run] /\ Fault /\ UNCHANGED <<titles, sweep>>
    BY <1>4 DEF EnqueueLost
  <2>3. QED
    BY <1>2, <2>1, <2>2
<1>5. ASSUME NEW j \in TitleJob, TitleFails(j) PROVE IInv'
  <2>1. titles[j] \in TitleRun
    BY DEF TypeOK
  <2>2. /\ TitleRetry(titles[j]) \in TitleRun
        /\ TitleRetry(titles[j]).pc \in {"idle", "queued"}
    BY <2>1, RetriedRuns
  <2>3. /\ titles' \in [TitleJob -> TitleRun]
        /\ TitleIsPossible' /\ ReadHasPath' /\ SavedIsPresent'
    BY <1>1, <1>5, <2>2, TitleMoved DEF TitleFails, Present
  <2>4. QED
    BY <1>1, <1>5, <2>3 DEF TitleFails, TypeOK, CatalogueIsPossible, SnapshotIsPossible,
       RowIsPossible, NoOrphans, ParentsFirst, Present
<1>6. ASSUME SweepFails PROVE IInv'
  <2>1. sweep' \in SweepRun
    BY <1>6, RetriedRuns DEF SweepFails, TypeOK
  <2>2. QED
    BY <1>1, <1>6, <2>1 DEF SweepFails, TypeOK, CatalogueIsPossible, SnapshotIsPossible,
       TitleIsPossible, ReadHasPath, SavedIsPresent, RowIsPossible, NoOrphans, ParentsFirst,
       Present
<1>7. QED
  BY <1>3, <1>4, <1>5, <1>6 DEF Breaks

(* A step that changes nothing.                                            *)
LEMMA StutterSound == IInv /\ UNCHANGED vars => IInv'
BY DEF IInv, vars, TypeOK, CatalogueIsPossible, SnapshotIsPossible, TitleIsPossible,
   ReadHasPath, SavedIsPresent, RowIsPossible, NoOrphans, ParentsFirst, Present

(* Every step of every job keeps the inductive invariant.                  *)
LEMMA StepSound == IInv /\ [Next]_vars => IInv'
BY AsksSound, ScanStepSound, TitleStepSound, SweepStepSound, BreaksSound, StutterSound
   DEF Next, Works

(* The inductive invariant holds throughout.                               *)
THEOREM AlwaysSound == Spec => []IInv
<1>1. QED
  BY InitSound, StepSound, PTL DEF Spec

-----------------------------------------------------------------------------
(* The tables and the runs keep their types, whatever fails and whatever   *)
(* is interleaved.                                                         *)
THEOREM TypeCorrect == Spec => []TypeOK
<1>1. IInv => TypeOK
  BY DEF IInv
<1>2. QED
  BY <1>1, AlwaysSound, PTL

(* No title hangs under a season or series that was never written, and no  *)
(* file row or membership names an item that was not: the order of the     *)
(* statements of RefreshItem is enough, without a transaction.             *)
THEOREM OrphanFree == Spec => []NoOrphans
<1>1. IInv => NoOrphans
  BY DEF IInv
<1>2. QED
  BY <1>1, AlwaysSound, PTL

-----------------------------------------------------------------------------
(* Who writes file rows: a scan that prunes, and a run that saves a file.  *)
LEMMA FilesWritten ==
    ASSUME [Next]_vars, files' # files
    PROVE  \/ \E b \in Binding : DeleteSourcesNotInPaths(b)
           \/ \E j \in TitleJob : SaveSource(j)
<1>1. CASE Asks
  BY <1>1 DEF Asks, CatalogueChanges, RequestScan, RequestSweep, tables
<1>2. ASSUME NEW b \in Binding, ScanStep(b) PROVE DeleteSourcesNotInPaths(b)
  BY <1>2 DEF ScanStep, ReadTitles, DeleteMembershipNotInKeys, EnqueueTitle, FinishScan, tables
<1>3. ASSUME NEW j \in TitleJob, TitleStep(j) PROVE SaveSource(j)
  BY <1>3 DEF TitleStep, ParentMissing, SaveScanned, ReadBack, ReadBackFails,
     SaveSourceFails, ReadSource, ReadSourceFails, SaveMembership, tables
<1>4. ~SweepStep
  BY DEF SweepStep, ListItems, MarkFileless, MarkChildless, tables
<1>5. ~Breaks
  BY DEF Breaks, ScanFails, EnqueueLost, TitleFails, SweepFails, Fault, tables
<1>6. ~UNCHANGED vars
  BY DEF vars
<1>7. QED
  BY <1>1, <1>2, <1>3, <1>4, <1>5, <1>6 DEF Next, Works

(* A scan that prunes moves on, holding the snapshot it read.              *)
LEMMA PruningScan ==
    ASSUME IInv, NEW b \in Binding, DeleteSourcesNotInPaths(b)
    PROVE  /\ scan'[b] # scan[b]
           /\ scan[b].snapshot # None
           /\ \A p \in Path : files'[p] # files[p] => StaleRow(b, p)
<1>1. scan[b] \in ScanRun /\ scan[b].pc = "read"
  BY DEF IInv, TypeOK, DeleteSourcesNotInPaths
<1>2. scan'[b].pc = "pruned"
  BY <1>1 DEF IInv, TypeOK, ScanRun, DeleteSourcesNotInPaths
<1>3. scan[b].snapshot \in Catalogue
  BY <1>1, IngestAssumption DEF IInv, SnapshotIsPossible
<1>4. QED
  BY <1>1, <1>2, <1>3, IngestAssumption DEF DeleteSourcesNotInPaths, IInv, TypeOK

(* A run that saves a file moves on, and writes that file's row only.      *)
LEMMA SavingTitle ==
    ASSUME IInv, NEW j \in TitleJob, SaveSource(j)
    PROVE  /\ titles'[j] # titles[j]
           /\ Row(j).source = j.source /\ Row(j) # None
           /\ j.path \in Path \cap Mine(j.source)
           /\ files' = [files EXCEPT ![j.path] = Row(j)]
<1>1. titles[j] \in TitleRun /\ titles[j].pc = "read" /\ j.path \in Path \cup {None}
  BY DEF IInv, TypeOK, SaveSource, TitleJob
<1>2. titles'[j].pc = "placed"
  BY <1>1 DEF IInv, TypeOK, TitleRun, SaveSource, TitleMoves
<1>3. j.path # None /\ j.path \in Mine(j.source) /\ j.key \in Playable
  BY <1>1 DEF IInv, ReadHasPath, TitleIsPossible
<1>4. Row(j) \in FileRow
  BY <1>3 DEF Row, FileRow, TitleJob
<1>5. QED
  BY <1>1, <1>2, <1>3, <1>4, IngestAssumption DEF SaveSource, Row

(* No two sources can report a file at the same local path.                *)
SourcesApart == \A s, t \in Source : s # t => Mine(s) \cap Mine(t) = {}

(* Where the sources' local paths are apart, a file row is only ever moved *)
(* or deleted by a job of the source that holds it.  Sources.Update checks *)
(* the paths on the downloaders' side only, so the hypothesis is up to     *)
(* whoever configures them.                                                *)
THEOREM OwnRowsOnly == ASSUME SourcesApart PROVE Spec => SourceOwnsItsRows
<1>1. ASSUME IInv, [Next]_vars, NEW p \in Path, files[p] # None, files'[p] # files[p]
      PROVE  ActedFor(files[p].source)
  <2>1. CASE \E b \in Binding : DeleteSourcesNotInPaths(b)
    <3>1. PICK b \in Binding : DeleteSourcesNotInPaths(b)
      BY <2>1
    <3>2. files[p].source = b[2] /\ scan'[b] # scan[b]
      BY <1>1, <3>1, PruningScan DEF StaleRow
    <3>3. QED
      BY <3>2 DEF ActedFor
  <2>2. CASE \E j \in TitleJob : SaveSource(j)
    <3>1. PICK j \in TitleJob : SaveSource(j)
      BY <2>2
    <3>2. p = j.path /\ p \in Mine(j.source) /\ titles'[j] # titles[j]
      BY <1>1, <3>1, SavingTitle DEF IInv, TypeOK
    <3>3. p \in Mine(files[p].source)
      BY <1>1 DEF IInv, RowIsPossible
    <3>4. files[p].source \in Source /\ j.source \in Source
      BY <1>1 DEF IInv, TypeOK, FileRow, TitleJob
    <3>5. j.source = files[p].source
      BY <3>2, <3>3, <3>4 DEF SourcesApart
    <3>6. QED
      BY <3>2, <3>5 DEF ActedFor
  <2>3. QED
    BY <1>1, <2>1, <2>2, FilesWritten
<1>2. IInv /\ [Next]_vars
        => [\A p \in Path : files[p] # None /\ files'[p] # files[p]
                               => ActedFor(files[p].source)]_vars
  BY <1>1
<1>3. QED
  BY <1>2, AlwaysSound, PTL DEF Spec, SourceOwnsItsRows

(* A file that its source reports now, and reported to every scan of it    *)
(* still running, keeps its row whatever libraries the source is bound to  *)
(* and however they filter it.                                             *)
THEOREM ReportedKept == Spec => ReportedFileKeepsItsRow
<1>1. ASSUME IInv, [Next]_vars, NEW p \in Path, files[p] # None,
             Steady(p, files[p].source)
      PROVE  files'[p] # None
  <2>1. ASSUME NEW b \in Binding, DeleteSourcesNotInPaths(b)
        PROVE  files'[p] = files[p]
    BY <1>1, <2>1, PruningScan DEF Steady, StaleRow
  <2>2. ASSUME NEW j \in TitleJob, SaveSource(j)
        PROVE  files'[p] # None
    BY <1>1, <2>2, SavingTitle DEF IInv, TypeOK
  <2>3. QED
    BY <1>1, <2>1, <2>2, FilesWritten
<1>2. IInv /\ [Next]_vars
        => [\A p \in Path : files[p] # None /\ Steady(p, files[p].source)
                               => files'[p] # None]_vars
  BY <1>1
<1>3. QED
  BY <1>2, AlwaysSound, PTL DEF Spec, ReportedFileKeepsItsRow

-----------------------------------------------------------------------------
(* Who marks rows: a run that writes its title, and the two statements of  *)
(* the sweep.                                                              *)
LEMMA ItemsWritten ==
    ASSUME [Next]_vars, items' # items
    PROVE  (\E j \in TitleJob : SaveScanned(j)) \/ MarkFileless \/ MarkChildless
<1>1. ~Asks
  BY DEF Asks, CatalogueChanges, RequestScan, RequestSweep, tables
<1>2. ASSUME NEW b \in Binding PROVE ~ScanStep(b)
  BY DEF ScanStep, ReadTitles, DeleteSourcesNotInPaths, DeleteMembershipNotInKeys,
     EnqueueTitle, FinishScan, tables
<1>3. ASSUME NEW j \in TitleJob, TitleStep(j) PROVE SaveScanned(j)
  BY <1>3 DEF TitleStep, ParentMissing, ReadBack, ReadBackFails, SaveSource,
     SaveSourceFails, ReadSource, ReadSourceFails, SaveMembership, tables
<1>4. ASSUME SweepStep PROVE MarkFileless \/ MarkChildless
  BY <1>4 DEF SweepStep, ListItems, tables
<1>5. ~Breaks
  BY DEF Breaks, ScanFails, EnqueueLost, TitleFails, SweepFails, Fault, tables
<1>6. ~UNCHANGED vars
  BY DEF vars
<1>7. QED
  BY <1>1, <1>2, <1>3, <1>4, <1>5, <1>6 DEF Next, Works

(* Everything above a playable title is a folder with one of the others,   *)
(* or the title itself, below it.                                          *)
LEMMA AboveIsHeld ==
    ASSUME NEW k \in Playable, NEW a \in Above(k)
    PROVE  /\ a \in Key
           /\ a = k \/ (a \in Folder /\ \E c \in Above(k) : c \in Children(a))
<1>1. k \in Key /\ k \in Above(k)
  BY IngestAssumption DEF Above
<1>2. CASE a = k
  BY <1>1, <1>2
<1>3. CASE a = Parent[k]
  BY <1>1, <1>3, IngestAssumption DEF Above, Folder, Children
<1>4. CASE Parent[k] # None /\ a = Parent[Parent[k]]
  <2>1. Parent[k] \in Folder /\ Parent[k] \in Above(k)
    BY <1>1, <1>4, IngestAssumption DEF Above, Folder
  <2>2. a \in Key /\ a \in Folder
    BY <1>4, <2>1, IngestAssumption DEF Above, Folder
  <2>3. Parent[k] \in Children(a)
    BY <1>4, <2>1 DEF Children, Folder
  <2>4. QED
    BY <2>1, <2>2, <2>3
<1>5. QED
  BY <1>2, <1>3, <1>4 DEF Above

(* A live title with a file and the live folders above it are live after   *)
(* any step.                                                               *)
LEMMA HeldLives ==
    ASSUME IInv, [Next]_vars, NEW k \in Playable, HasFile(k), Above(k) \subseteq Live,
           NEW a \in Above(k)
    PROVE  a \in Live'
<1>1. a \in Key /\ items[a] = "live" /\ items \in [Key -> ItemState]
  BY AboveIsHeld DEF Live, IInv, TypeOK
<1>2. CASE items' = items
  BY <1>1, <1>2 DEF Live
<1>3. ASSUME NEW j \in TitleJob, SaveScanned(j) PROVE items'[a] = "live"
  BY <1>1, <1>3 DEF SaveScanned
<1>4. ASSUME MarkFileless PROVE items'[a] = "live"
  <2>1. a = k \/ a \notin Playable
    BY AboveIsHeld DEF Folder
  <2>2. QED
    BY <1>1, <1>4, <2>1 DEF MarkFileless
<1>5. ASSUME MarkChildless PROVE items'[a] = "live"
  <2>1. ~Childless(a)
    BY AboveIsHeld DEF Childless, Folder, Live
  <2>2. QED
    BY <1>1, <1>5, <2>1 DEF MarkChildless
<1>6. QED
  BY <1>1, <1>2, <1>3, <1>4, <1>5, ItemsWritten DEF Live

(* A live title with a file, and the live folders above it, outlast every  *)
(* statement of a sweep.                                                   *)
THEOREM HeldSpared == Spec => SweepSparesHeld
<1>1. IInv /\ [Next]_vars
        => [\A k \in Playable : HasFile(k) /\ Above(k) \subseteq Live
                                  => Above(k) \subseteq Live']_vars
  BY HeldLives
<1>2. QED
  BY <1>1, AlwaysSound, PTL DEF Spec, SweepSparesHeld

-----------------------------------------------------------------------------
(***************************************************************************)
(* IngestAudit: what the tables hold when everything asked for is done.    *)
(* Under SerialSpec the runs of one scan interleave with each other only,  *)
(* and the inductive invariant follows one scan through its statements:    *)
(* what each of them has established of the tables stays so until the      *)
(* source changes or a title is given up.                                  *)
(***************************************************************************)

(* The binding a run of RefreshItem was enqueued for.                      *)
For(j) == <<j.library, j.source>>

(* The sweep runs alone, and nothing has run since it ended.               *)
SweepAlone ==
    sweep.pc # "idle" \/ swept =>
        /\ \A b \in Binding : scan[b].pc = "idle"
        /\ \A j \in TitleJob : titles[j].pc = "idle"

(* Whatever runs was asked for by one scan.                                *)
OneScanAtATime ==
    /\ \A b, o \in Binding : scan[b].pc # "idle" /\ scan[o].pc # "idle" => b = o
    /\ \A b \in Binding, j \in TitleJob :
          scan[b].pc # "idle" /\ titles[j].pc # "idle" => For(j) = b
    /\ \A i, j \in TitleJob : titles[i].pc # "idle" /\ titles[j].pc # "idle" => For(i) = For(j)

(* A running scan holds what its source reports now.                       *)
ScanIsCurrent ==
    \A b \in Binding :
        /\ scan[b].pc \in {"read", "pruned", "enqueueing"} => scan[b].snapshot = cat[b[2]]
        /\ scan[b].pc # "enqueueing" => scan[b].pending = {}
        /\ scan[b].pending \subseteq Reported(cat[b[2]])

(* A running RefreshItem was enqueued for a title its source reports now.  *)
TitleIsCurrent ==
    \A j \in TitleJob : titles[j].pc # "idle" =>
        /\ For(j) \in Binding
        /\ j.key \in Reported(cat[j.source])
        /\ j = JobFor(For(j), cat[j.source], j.key)
        /\ scan[For(j)].pc \in {"idle", "enqueueing"}

(* ... and what it has written so far is still as it wrote it.             *)
TitleIsWritten ==
    \A j \in TitleJob :
        /\ titles[j].pc \in {"saved", "read", "placed", "filed"} => items[j.key] = "live"
        /\ titles[j].pc \in {"placed", "filed"} /\ j.path # None => files[j.path] = Row(j)

(* A membership is one of a binding.                                       *)
MembersAreBound == \A m \in members : <<m.library, m.source>> \in Binding

(* From its first statement on, a fresh scan has left no row its source    *)
(* does not report,                                                        *)
RowsReported ==
    \A b \in fresh : scan[b].pc # "read" =>
        \A p \in Path : files[p] # None /\ files[p].source = b[2] => p \in PathsOf(cat[b[2]])

(* from its second statement on no membership its filter does not admit,   *)
MembersAdmitted ==
    \A b \in fresh : scan[b].pc \notin {"read", "pruned"} =>
        \A m \in members : <<m.library, m.source>> = b => m.key \in Admitted(b, cat[b[2]])

(* and each of its titles is still to be enqueued, or running, or written. *)
Done(j) ==
    /\ items[j.key] = "live"
    /\ j.path # None => files[j.path] = Row(j)
    /\ j.tagged => [library |-> j.library, key |-> j.key, source |-> j.source] \in members

TitlesDone ==
    \A b \in fresh : scan[b].pc \notin {"read", "pruned"} =>
        \A k \in Reported(cat[b[2]]) \ scan[b].pending :
            \/ titles[JobFor(b, cat[b[2]], k)].pc # "idle"
            \/ Done(JobFor(b, cat[b[2]], k))

(* What the sweep has marked so far.                                       *)
SweepIsCurrent ==
    /\ sweep.pc = "listed" => sweep.disturbed = Live
    /\ sweep.pc = "folders" \/ swept => \A k \in Playable \cap Live : HasFile(k)
    /\ swept => \A k \in Key : ~Childless(k)

(* The history variables keep their types.                                 *)
HistoryTyped == fresh \subseteq Binding /\ swept \in BOOLEAN

(* The inductive invariant of SerialSpec.                                  *)
SerialInv ==
    /\ IInv
    /\ SweepAlone
    /\ OneScanAtATime
    /\ ScanIsCurrent
    /\ TitleIsCurrent
    /\ TitleIsWritten
    /\ MembersAreBound
    /\ RowsReported
    /\ MembersAdmitted
    /\ TitlesDone
    /\ SweepIsCurrent
    /\ HistoryTyped

(* No two titles of a source share a file.                                 *)
FilesApart ==
    \A s \in Source : \A c \in Catalogues[s] : \A k, o \in Playable :
        c.file[k] # None /\ c.file[k] = c.file[o] => k = o

-----------------------------------------------------------------------------
(* The first state.                                                        *)
LEMMA SerialInitSound == AuditInit => SerialInv
<1> SUFFICES ASSUME AuditInit PROVE SerialInv
  OBVIOUS
<1>1. IInv
  BY InitSound DEF AuditInit
<1>2. SweepAlone /\ OneScanAtATime /\ TitleIsCurrent /\ TitleIsWritten
  BY DEF AuditInit, Init, SweepAlone, OneScanAtATime, TitleIsCurrent, TitleIsWritten,
     ScanIn, TitleIn, SweepIn
<1>3. ScanIsCurrent
  BY DEF AuditInit, Init, ScanIsCurrent, ScanIn
<1>4. MembersAreBound /\ RowsReported /\ MembersAdmitted /\ TitlesDone /\ HistoryTyped
  BY DEF AuditInit, Init, MembersAreBound, RowsReported, MembersAdmitted, TitlesDone,
     HistoryTyped
<1>5. SweepIsCurrent
  BY DEF AuditInit, Init, SweepIsCurrent, SweepIn
<1>6. QED
  BY <1>1, <1>2, <1>3, <1>4, <1>5 DEF SerialInv

-----------------------------------------------------------------------------
(* The job for a title of a bound source is a run of that binding.         *)
LEMMA CurrentJob ==
    ASSUME IInv, NEW b \in Binding, NEW k \in Key
    PROVE  LET j == JobFor(b, cat[b[2]], k)
           IN  /\ j \in TitleJob
               /\ For(j) = b /\ j.source = b[2] /\ j.library = b[1] /\ j.key = k
               /\ j.path = FileOf(cat[b[2]], k)
               /\ j.tagged = IsTagged(b, cat[b[2]], k)
               /\ j.path # None => j.key \in Playable /\ j.path \in Mine(j.source)
<1>1. b[2] \in Source /\ b = <<b[1], b[2]>>
  BY IngestAssumption
<1>2. cat[b[2]] \in Catalogues[b[2]]
  BY <1>1 DEF IInv, CatalogueIsPossible
<1>3. LET j == JobFor(b, cat[b[2]], k)
      IN  j \in TitleJob /\ (j.path # None => j.key \in Playable /\ j.path \in Mine(j.source))
  BY <1>2, EnqueuedJob
<1> DEFINE j == JobFor(b, cat[b[2]], k)
<1>4. /\ j.library = b[1] /\ j.source = b[2] /\ j.key = k
      /\ j.path = FileOf(cat[b[2]], k)
      /\ j.tagged = IsTagged(b, cat[b[2]], k)
  BY DEF JobFor
<1>5. For(j) = b
  BY <1>1, <1>4 DEF For
<1>6. QED
  BY <1>3, <1>4, <1>5

(* A file reported now is one title's of one source.                       *)
LEMMA OneTitlePerFile ==
    ASSUME IInv, SourcesApart, FilesApart, NEW s \in Source, NEW t \in Source,
           NEW k \in Key, NEW o \in Key,
           FileOf(cat[s], k) # None, FileOf(cat[s], k) = FileOf(cat[t], o)
    PROVE  s = t /\ k = o
<1>1. cat[s] \in Catalogues[s] /\ cat[t] \in Catalogues[t]
  BY DEF IInv, CatalogueIsPossible
<1>2. /\ k \in Playable /\ o \in Playable
      /\ FileOf(cat[s], k) = cat[s].file[k] /\ FileOf(cat[t], o) = cat[t].file[o]
  BY DEF FileOf
<1>3. FileOf(cat[s], k) \in PathsOf(cat[s]) /\ FileOf(cat[t], o) \in PathsOf(cat[t])
  BY <1>2 DEF PathsOf
<1>4. FileOf(cat[s], k) \in Mine(s) \cap Mine(t)
  BY <1>1, <1>3 DEF Mine
<1>5. s = t
  BY <1>4 DEF SourcesApart
<1>6. cat[s].file[k] # None /\ cat[s].file[k] = cat[s].file[o]
  BY <1>2, <1>5
<1>7. QED
  BY <1>1, <1>2, <1>5, <1>6 DEF FilesApart

(* Reported titles are titles.                                             *)
LEMMA ReportedKeys == ASSUME NEW c PROVE Reported(c) \subseteq Key
BY DEF Reported, Above

-----------------------------------------------------------------------------
(* RefreshItem: a run that moves on, in one of its phases, and what it has *)
(* written by then.                                                        *)
LEMMA TitleMovesOn ==
    ASSUME SerialInv, NEW j \in TitleJob, TitleStep(j)
    PROVE  /\ titles[j].pc # "idle"
           /\ \E run \in TitleRun :
                 /\ titles' = [titles EXCEPT ![j] = run]
                 /\ run.pc \in {"saved", "read", "placed", "filed"} => items'[j.key] = "live"
                 /\ run.pc \in {"placed", "filed"} /\ j.path # None => files'[j.path] = Row(j)
                 /\ run.pc = "idle" => titles[j].pc # "filed" \/ Done(j)'
           /\ UNCHANGED <<cat, scan, sweep>>
           /\ items' \in {items, [items EXCEPT ![j.key] = "live"]}
           /\ files' = files \/ (j.path # None /\ files' = [files EXCEPT ![j.path] = Row(j)])
           /\ members' = members
              \/ (j.tagged /\ members' = members \cup
                     {[library |-> j.library, key |-> j.key, source |-> j.source]})
<1>1. titles[j] \in TitleRun /\ j.key \in Key /\ items \in [Key -> ItemState]
  BY DEF SerialInv, IInv, TypeOK, TitleJob
<1>2. /\ titles[j].pc \in {"saved", "read", "placed", "filed"} => items[j.key] = "live"
      /\ titles[j].pc \in {"placed", "filed"} /\ j.path # None => files[j.path] = Row(j)
      /\ titles[j].pc = "read" => j.path # None /\ j.path \in Path
  BY DEF SerialInv, TitleIsWritten, IInv, ReadHasPath, TitleJob
<1>3. files \in [Path -> FileRow \cup {None}]
  BY DEF SerialInv, IInv, TypeOK
<1>4. /\ TitleRetry(titles[j]) \in TitleRun
      /\ TitleRetry(titles[j]).pc \in {"idle", "queued"}
  BY <1>1, RetriedRuns
<1>5. CASE ParentMissing(j) \/ ReadBackFails(j) \/ SaveSourceFails(j) \/ ReadSourceFails(j)
  BY <1>4, <1>5 DEF ParentMissing, ReadBackFails, SaveSourceFails, ReadSourceFails,
     TitleMoves, tables
<1>6. CASE SaveScanned(j)
  <2> DEFINE run == [titles[j] EXCEPT !.pc = "saved"]
  <2>1. run \in TitleRun /\ run.pc = "saved"
    BY <1>1 DEF TitleRun
  <2>2. items'[j.key] = "live"
    BY <1>1, <1>6 DEF SaveScanned
  <2>3. QED
    BY <1>6, <2>1, <2>2 DEF SaveScanned, TitleMoves
<1>7. CASE ReadBack(j)
  <2> DEFINE run == [titles[j] EXCEPT !.pc = IF j.path = None THEN "filed" ELSE "read"]
  <2>1. run \in TitleRun /\ run.pc = IF j.path = None THEN "filed" ELSE "read"
    BY <1>1 DEF TitleRun
  <2>2. /\ titles' = [titles EXCEPT ![j] = run]
        /\ titles[j].pc = "saved" /\ items[j.key] = "live"
        /\ UNCHANGED <<items, files, members, cat, scan, sweep>>
    BY <1>7 DEF ReadBack, TitleMoves, tables
  <2> HIDE DEF run
  <2>3. QED
    BY <2>1, <2>2
<1>8. CASE SaveSource(j)
  <2> DEFINE run == [titles[j] EXCEPT !.pc = "placed"]
  <2>1. run \in TitleRun /\ run.pc = "placed"
    BY <1>1 DEF TitleRun
  <2>2. files'[j.path] = Row(j)
    BY <1>2, <1>3, <1>8 DEF SaveSource
  <2>3. QED
    BY <1>2, <1>8, <2>1, <2>2 DEF SaveSource, TitleMoves
<1>9. CASE ReadSource(j)
  <2> DEFINE run == [titles[j] EXCEPT !.pc = "filed"]
  <2>1. run \in TitleRun /\ run.pc = "filed"
    BY <1>1 DEF TitleRun
  <2>2. QED
    BY <1>2, <1>9, <2>1 DEF ReadSource, TitleMoves, tables
<1>10. CASE SaveMembership(j)
  <2>1. TitleIn("idle", 0) \in TitleRun /\ TitleIn("idle", 0).pc = "idle"
    BY FreshRuns, IngestAssumption DEF TitleIn
  <2>2. Done(j)'
    BY <1>2, <1>10 DEF SaveMembership, TitleMoves, Done, Row
  <2>3. QED
    BY <1>10, <2>1, <2>2 DEF SaveMembership, TitleMoves
<1>11. QED
  BY <1>5, <1>6, <1>7, <1>8, <1>9, <1>10 DEF TitleStep

(* Whatever phase it is in, a run moves on without touching what another   *)
(* title has written, and one that gives up takes its binding out of fresh.*)
LEMMA TitleStepSerial ==
    ASSUME SerialInv, SourcesApart, FilesApart, Track, NEW j \in TitleJob, TitleStep(j), IInv'
    PROVE  SerialInv'
<1>1. PICK run \in TitleRun :
        /\ titles' = [titles EXCEPT ![j] = run]
        /\ run.pc \in {"saved", "read", "placed", "filed"} => items'[j.key] = "live"
        /\ run.pc \in {"placed", "filed"} /\ j.path # None => files'[j.path] = Row(j)
        /\ run.pc = "idle" => titles[j].pc # "filed" \/ Done(j)'
  BY TitleMovesOn
<1>2. titles[j].pc # "idle" /\ UNCHANGED <<cat, scan, sweep>>
  BY TitleMovesOn
<1>3. \A i \in TitleJob : titles'[i] = IF i = j THEN run ELSE titles[i]
  BY <1>1 DEF SerialInv, IInv, TypeOK
<1>4. /\ For(j) \in Binding
      /\ j.key \in Reported(cat[j.source])
      /\ j = JobFor(For(j), cat[j.source], j.key)
      /\ scan[For(j)].pc \in {"idle", "enqueueing"}
      /\ j.key \in Key /\ j.source \in Source /\ For(j)[2] = j.source /\ For(j)[1] = j.library
  BY <1>2 DEF SerialInv, TitleIsCurrent, TitleJob, For
<1>5. \A k \in Key : items[k] = "live" => items'[k] = "live"
  BY <1>4, TitleMovesOn DEF SerialInv, IInv, TypeOK
<1>6. j.path = FileOf(cat[j.source], j.key) /\ j.tagged = IsTagged(For(j), cat[j.source], j.key)
  BY <1>4, CurrentJob DEF SerialInv
<1>21. /\ j.path # None => j.path \in Path
       /\ Row(j) = [item |-> j.key, source |-> j.source]
       /\ \A p \in Path : files'[p] = files[p] \/ (p = j.path /\ files'[p] = Row(j))
  <2>1. j.path \in Path \cup {None}
    BY DEF TitleJob
  <2>2. files' = files \/ (j.path # None /\ files' = [files EXCEPT ![j.path] = Row(j)])
    BY TitleMovesOn
  <2>3. files \in [Path -> FileRow \cup {None}]
    BY DEF SerialInv, IInv, TypeOK
  <2>4. \A p \in Path : files'[p] = files[p] \/ (p = j.path /\ files'[p] = Row(j))
    BY <2>2, <2>3
  <2>5. QED
    BY <2>1, <2>4 DEF Row
<1> DEFINE own == [library |-> j.library, key |-> j.key, source |-> j.source]
<1>22. members \subseteq members' /\ \A m \in members' : m \in members \/ (j.tagged /\ m = own)
  BY TitleMovesOn
<1>7. ASSUME NEW s \in Source, NEW k \in Key, FileOf(cat[s], k) # None,
             files[FileOf(cat[s], k)] = [item |-> k, source |-> s]
      PROVE  files'[FileOf(cat[s], k)] = [item |-> k, source |-> s]
  <2>0. FileOf(cat[s], k) \in Path
    BY <1>7 DEF SerialInv, IInv, TypeOK, Catalogue, FileOf
  <2>1. CASE FileOf(cat[s], k) = j.path
    <3>1. s = j.source /\ k = j.key
      BY <1>4, <1>6, <1>7, <2>1, OneTitlePerFile DEF SerialInv
    <3>2. QED
      BY <1>7, <1>21, <2>0, <2>1, <3>1
  <2>2. CASE FileOf(cat[s], k) # j.path
    BY <1>7, <1>21, <2>0, <2>2
  <2>3. QED
    BY <2>1, <2>2
<1>8. sweep.pc = "idle" /\ ~swept /\ ~swept'
  BY <1>2 DEF SerialInv, SweepAlone, Track
<1>9. fresh' \subseteq fresh /\ \A b \in fresh' : b \in Binding /\ ~GaveUp(b)
  BY <1>2 DEF Track
<1>10. SweepAlone' /\ SweepIsCurrent'
  BY <1>2, <1>8 DEF SweepAlone, SweepIsCurrent
<1>11. OneScanAtATime'
  BY <1>2, <1>3 DEF SerialInv, OneScanAtATime
<1>12. ScanIsCurrent'
  BY <1>2 DEF SerialInv, ScanIsCurrent
<1>13. TitleIsCurrent'
  BY <1>2, <1>3, <1>4 DEF SerialInv, TitleIsCurrent
<1>14. TitleIsWritten'
  <2> SUFFICES ASSUME NEW i \in TitleJob
               PROVE  /\ titles'[i].pc \in {"saved", "read", "placed", "filed"} => items'[i.key] = "live"
                      /\ titles'[i].pc \in {"placed", "filed"} /\ i.path # None
                            => files'[i.path] = Row(i)
    BY DEF TitleIsWritten
  <2>1. CASE i = j
    BY <1>1, <1>3, <2>1
  <2>2. CASE i # j
    <3>1. titles'[i] = titles[i] /\ i.key \in Key /\ i.source \in Source
      BY <1>3, <2>2 DEF TitleJob
    <3>2. titles[i].pc # "idle" => i.path = FileOf(cat[i.source], i.key)
      <4>1. titles[i].pc # "idle" => /\ For(i) \in Binding /\ For(i)[2] = i.source
                                     /\ i = JobFor(For(i), cat[i.source], i.key)
        BY DEF SerialInv, TitleIsCurrent, For
      <4>2. QED
        BY <3>1, <4>1, CurrentJob DEF SerialInv
    <3>3. titles[i].pc \in {"placed", "filed"} /\ i.path # None => files'[i.path] = Row(i)
      BY <1>7, <3>1, <3>2 DEF SerialInv, TitleIsWritten, Row
    <3>4. QED
      BY <1>5, <3>1, <3>3 DEF SerialInv, TitleIsWritten
  <2>3. QED
    BY <2>1, <2>2
<1>15. MembersAreBound'
  <2>1. own.library = j.library /\ own.source = j.source
    OBVIOUS
  <2> HIDE DEF own
  <2>2. QED
    BY <1>4, <1>22, <2>1 DEF SerialInv, MembersAreBound, For
<1>16. RowsReported'
  <2>1. j.path # None => j.path \in PathsOf(cat[j.source])
    BY <1>6 DEF FileOf, PathsOf
  <2>2. ASSUME NEW b \in fresh', scan'[b].pc # "read", NEW p \in Path, files'[p] # None,
               files'[p].source = b[2]
        PROVE  p \in PathsOf(cat'[b[2]])
    <3>1. CASE files'[p] = files[p]
      BY <1>2, <1>9, <2>2, <3>1 DEF SerialInv, RowsReported
    <3>2. CASE files'[p] # files[p]
      <4>1. p = j.path /\ files'[p] = Row(j)
        BY <1>21, <3>2
      <4>2. b[2] = j.source /\ j.path # None
        BY <1>21, <2>2, <4>1, IngestAssumption
      <4>3. QED
        BY <1>2, <2>1, <4>1, <4>2
    <3>3. QED
      BY <3>1, <3>2
  <2>3. QED
    BY <2>2 DEF RowsReported
<1>17. MembersAdmitted'
  <2>1. j.tagged => j.key \in Admitted(For(j), cat[j.source])
    BY <1>4, <1>6 DEF Admitted
  <2>2. ASSUME NEW b \in fresh', scan'[b].pc \notin {"read", "pruned"},
               NEW m \in members', <<m.library, m.source>> = b
        PROVE  m.key \in Admitted(b, cat'[b[2]])
    <3>1. CASE m \in members
      BY <1>2, <1>9, <2>2, <3>1 DEF SerialInv, MembersAdmitted
    <3>2. CASE m \notin members
      <4>1. j.tagged /\ m = [library |-> j.library, key |-> j.key, source |-> j.source]
        BY <3>2, <2>2, <1>22
      <4>2. b = For(j) /\ b[2] = j.source
        BY <1>4, <2>2, <4>1 DEF For
      <4>3. QED
        BY <1>2, <2>1, <4>1, <4>2
    <3>3. QED
      BY <3>1, <3>2
  <2>3. QED
    BY <2>2 DEF MembersAdmitted
<1>18. TitlesDone'
  <2> SUFFICES ASSUME NEW b \in fresh', scan[b].pc \notin {"read", "pruned"},
                      NEW k \in Reported(cat[b[2]]) \ scan[b].pending
               PROVE  \/ titles'[JobFor(b, cat[b[2]], k)].pc # "idle"
                      \/ Done(JobFor(b, cat[b[2]], k))'
    BY <1>2 DEF TitlesDone, JobFor, FileOf, IsTagged
  <2> DEFINE i == JobFor(b, cat[b[2]], k)
  <2>1. b \in Binding /\ b \in fresh /\ k \in Key /\ b[2] \in Source
    BY <1>9, ReportedKeys, IngestAssumption
  <2>2. /\ i \in TitleJob /\ For(i) = b /\ i.source = b[2] /\ i.key = k
        /\ i.path = FileOf(cat[b[2]], k)
    BY <2>1, CurrentJob DEF SerialInv
  <2>3. titles[i].pc # "idle" \/ Done(i)
    BY <2>1 DEF SerialInv, TitlesDone
  <2>4. CASE i = j
    <3>1. ~(titles[j].pc \notin {"idle", "filed"} /\ titles'[j].pc = "idle")
      BY <1>9, <2>2, <2>4 DEF GaveUp, For
    <3>2. titles'[j] = run
      BY <1>3
    <3>3. QED
      BY <1>1, <1>2, <2>4, <3>1, <3>2
  <2>5. CASE i # j /\ titles[i].pc # "idle"
    BY <1>3, <2>2, <2>5
  <2>6. CASE Done(i)
    <3>1. i.path # None => files'[i.path] = Row(i)
      BY <1>7, <2>1, <2>2, <2>6 DEF Done, Row
    <3>2. items'[i.key] = "live" /\ members \subseteq members'
      BY <1>5, <1>22, <2>1, <2>2, <2>6 DEF Done
    <3>3. Done(i)'
      BY <2>6, <3>1, <3>2, <1>2 DEF Done, Row, JobFor, FileOf, IsTagged
    <3>4. QED
      BY <3>3
  <2>7. QED
    BY <2>3, <2>4, <2>5, <2>6
<1>19. HistoryTyped'
  BY <1>9 DEF HistoryTyped, Track
<1>20. QED
  BY <1>10, <1>11, <1>12, <1>13, <1>14, <1>15, <1>16, <1>17, <1>18, <1>19 DEF SerialInv

-----------------------------------------------------------------------------
(* RefreshLibrarySource: what every step of a scan keeps.                  *)
LEMMA ScanMovesOn ==
    ASSUME SerialInv, Track, NEW b \in Binding, NEW run \in ScanRun,
           scan[b].pc # "idle",
           scan' = [scan EXCEPT ![b] = run],
           run.pc \in {"read", "pruned", "enqueueing"} => run.snapshot = cat[b[2]],
           run.pc # "enqueueing" => run.pending = {},
           run.pending \subseteq Reported(cat[b[2]]),
           UNCHANGED <<cat, sweep, items>>,
           members' \subseteq members,
           \A j \in TitleJob : titles'[j].pc # "idle" => titles[j].pc # "idle" \/ For(j) = b
    PROVE  /\ \A o \in Binding : scan'[o] = IF o = b THEN run ELSE scan[o]
           /\ \A o \in fresh' : /\ o \in Binding
                                /\ o \in fresh \/ (o = b /\ run.pc = "read")
           /\ SweepAlone' /\ OneScanAtATime' /\ ScanIsCurrent'
           /\ MembersAreBound' /\ SweepIsCurrent' /\ HistoryTyped'
<1>1. \A o \in Binding : scan'[o] = IF o = b THEN run ELSE scan[o]
  BY DEF SerialInv, IInv, TypeOK
<1>2. \A o \in fresh' : o \in Binding /\ (o \in fresh \/ (o = b /\ run.pc = "read"))
  BY <1>1 DEF Track
<1>3. sweep.pc = "idle" /\ ~swept /\ ~swept'
  BY DEF SerialInv, SweepAlone, Track
<1>4. SweepAlone' /\ SweepIsCurrent'
  BY <1>3 DEF SweepAlone, SweepIsCurrent
<1>5. /\ \A o \in Binding : scan'[o].pc # "idle" => o = b
      /\ \A j \in TitleJob : titles'[j].pc # "idle" => For(j) = b
  BY <1>1 DEF SerialInv, OneScanAtATime
<1>6. OneScanAtATime'
  BY <1>5 DEF OneScanAtATime
<1>7. ScanIsCurrent'
  BY <1>1 DEF SerialInv, ScanIsCurrent
<1>8. MembersAreBound'
  BY DEF SerialInv, MembersAreBound
<1>9. HistoryTyped'
  BY <1>2 DEF HistoryTyped, Track
<1>10. QED
  BY <1>1, <1>2, <1>4, <1>6, <1>7, <1>8, <1>9

(* The row of a title reported now is not stale.                           *)
LEMMA DoneNotStale ==
    ASSUME SerialInv, NEW b \in Binding, scan[b].snapshot = cat[b[2]],
           NEW o \in Binding, NEW k \in Key,
           Done(JobFor(o, cat[o[2]], k)), FileOf(cat[o[2]], k) # None
    PROVE  ~StaleRow(b, FileOf(cat[o[2]], k))
<1> DEFINE j == JobFor(o, cat[o[2]], k)
<1>1. j.path = FileOf(cat[o[2]], k) /\ j.source = o[2]
  BY CurrentJob DEF SerialInv
<1>2. files[j.path] = Row(j) /\ Row(j).source = o[2]
  BY <1>1 DEF Done, Row
<1>3. FileOf(cat[o[2]], k) \in PathsOf(cat[o[2]])
  BY DEF FileOf, PathsOf
<1>4. QED
  BY <1>1, <1>2, <1>3 DEF StaleRow

(* While a scan has not begun to enqueue, no run of RefreshItem is there.  *)
LEMMA NoTitlesYet ==
    ASSUME SerialInv, NEW b \in Binding, scan[b].pc \in {"queued", "read", "pruned"}
    PROVE  \A j \in TitleJob : titles[j].pc = "idle"
<1> SUFFICES ASSUME NEW j \in TitleJob, titles[j].pc # "idle" PROVE FALSE
  OBVIOUS
<1>1. For(j) = b
  BY DEF SerialInv, OneScanAtATime
<1>2. QED
  BY <1>1 DEF SerialInv, TitleIsCurrent

(* The statements of a scan, one by one: it reads its snapshot,            *)
LEMMA ReadTitlesSerial ==
    ASSUME SerialInv, Track, NEW b \in Binding, ReadTitles(b), IInv'
    PROVE  SerialInv'
<1> DEFINE run == [scan[b] EXCEPT !.pc = "read", !.snapshot = cat[b[2]]]
<1>1. scan[b] \in ScanRun /\ b[2] \in Source /\ cat[b[2]] \in Catalogue
  BY IngestAssumption DEF SerialInv, IInv, TypeOK
<1>2. scan[b].pending = {}
  BY DEF SerialInv, ScanIsCurrent, ReadTitles
<1>3. /\ run \in ScanRun /\ run.pc = "read" /\ run.snapshot = cat[b[2]] /\ run.pending = {}
  BY <1>1, <1>2 DEF ScanRun
<1>4. /\ scan[b].pc = "queued" /\ scan' = [scan EXCEPT ![b] = run]
      /\ UNCHANGED <<items, files, members, cat, titles, sweep>>
  BY DEF ReadTitles, tables
<1> HIDE DEF run
<1>5. /\ \A o \in Binding : scan'[o] = IF o = b THEN run ELSE scan[o]
      /\ \A o \in fresh' : o \in Binding /\ (o \in fresh \/ (o = b /\ run.pc = "read"))
      /\ SweepAlone' /\ OneScanAtATime' /\ ScanIsCurrent'
      /\ MembersAreBound' /\ SweepIsCurrent' /\ HistoryTyped'
  BY <1>3, <1>4, ScanMovesOn
<1>6. \A j \in TitleJob : titles[j].pc = "idle"
  BY <1>4, NoTitlesYet
<1>7. TitleIsCurrent' /\ TitleIsWritten'
  BY <1>4, <1>6 DEF TitleIsCurrent, TitleIsWritten
<1>8. RowsReported'
  BY <1>3, <1>4, <1>5 DEF SerialInv, RowsReported
<1>9. MembersAdmitted'
  BY <1>3, <1>4, <1>5 DEF SerialInv, MembersAdmitted, Admitted, Reported, IsTagged
<1>10. TitlesDone'
  <2> SUFFICES ASSUME NEW o \in fresh', scan'[o].pc \notin {"read", "pruned"},
                      NEW k \in Reported(cat[o[2]]) \ scan'[o].pending
               PROVE  Done(JobFor(o, cat[o[2]], k))'
    BY <1>4 DEF TitlesDone, JobFor, FileOf, IsTagged, Reported
  <2>1. o \in fresh /\ o \in Binding /\ scan'[o] = scan[o] /\ k \in Key
    BY <1>3, <1>5, ReportedKeys
  <2>2. JobFor(o, cat[o[2]], k) \in TitleJob
    BY <2>1, CurrentJob DEF SerialInv
  <2>3. Done(JobFor(o, cat[o[2]], k))
    BY <1>6, <2>1, <2>2 DEF SerialInv, TitlesDone
  <2>4. QED
    BY <1>4, <2>3 DEF Done, Row, JobFor, FileOf, IsTagged
<1>11. QED
  BY <1>5, <1>7, <1>8, <1>9, <1>10 DEF SerialInv

(* drops the rows that are not in it,                                      *)
LEMMA DeleteSourcesSerial ==
    ASSUME SerialInv, Track, NEW b \in Binding, DeleteSourcesNotInPaths(b), IInv'
    PROVE  SerialInv'
<1> DEFINE run == [scan[b] EXCEPT !.pc = "pruned"]
<1>1. scan[b] \in ScanRun /\ b[2] \in Source
  BY IngestAssumption DEF SerialInv, IInv, TypeOK
<1>2. scan[b].pc = "read" /\ scan[b].pending = {} /\ scan[b].snapshot = cat[b[2]]
  BY DEF SerialInv, ScanIsCurrent, DeleteSourcesNotInPaths
<1>3. /\ run \in ScanRun /\ run.pc = "pruned" /\ run.snapshot = cat[b[2]] /\ run.pending = {}
  BY <1>1, <1>2 DEF ScanRun
<1>4. /\ scan' = [scan EXCEPT ![b] = run]
      /\ \A p \in Path : files'[p] = IF StaleRow(b, p) THEN None ELSE files[p]
      /\ UNCHANGED <<items, members, cat, titles, sweep>>
  BY DEF DeleteSourcesNotInPaths
<1> HIDE DEF run
<1>5. /\ \A o \in Binding : scan'[o] = IF o = b THEN run ELSE scan[o]
      /\ \A o \in fresh' : o \in Binding /\ (o \in fresh \/ (o = b /\ run.pc = "read"))
      /\ SweepAlone' /\ OneScanAtATime' /\ ScanIsCurrent'
      /\ MembersAreBound' /\ SweepIsCurrent' /\ HistoryTyped'
  BY <1>2, <1>3, <1>4, ScanMovesOn
<1>6. \A j \in TitleJob : titles[j].pc = "idle"
  BY <1>2, NoTitlesYet
<1>7. TitleIsCurrent' /\ TitleIsWritten'
  BY <1>4, <1>6 DEF TitleIsCurrent, TitleIsWritten
<1>8. RowsReported'
  <2> SUFFICES ASSUME NEW o \in fresh', scan'[o].pc # "read", NEW p \in Path,
                      files'[p] # None, files'[p].source = o[2]
               PROVE  p \in PathsOf(cat[o[2]])
    BY <1>4 DEF RowsReported, PathsOf
  <2>1. o \in fresh /\ o \in Binding /\ files'[p] = files[p] /\ ~StaleRow(b, p)
    BY <1>3, <1>4, <1>5
  <2>2. CASE o = b
    BY <1>2, <2>1, <2>2 DEF StaleRow
  <2>3. CASE o # b
    BY <1>5, <2>1, <2>3 DEF SerialInv, RowsReported
  <2>4. QED
    BY <2>2, <2>3
<1>9. MembersAdmitted'
  BY <1>3, <1>4, <1>5 DEF SerialInv, MembersAdmitted, Admitted, Reported, IsTagged
<1>10. TitlesDone'
  <2> SUFFICES ASSUME NEW o \in fresh', scan'[o].pc \notin {"read", "pruned"},
                      NEW k \in Reported(cat[o[2]]) \ scan'[o].pending
               PROVE  Done(JobFor(o, cat[o[2]], k))'
    BY <1>4 DEF TitlesDone, JobFor, FileOf, IsTagged, Reported
  <2> DEFINE i == JobFor(o, cat[o[2]], k)
  <2>1. o \in fresh /\ o \in Binding /\ scan'[o] = scan[o] /\ k \in Key
    BY <1>3, <1>5, ReportedKeys
  <2>2. i \in TitleJob /\ i.path = FileOf(cat[o[2]], k) /\ i.path \in Path \cup {None}
    BY <2>1, CurrentJob DEF SerialInv, TitleJob
  <2>3. Done(i)
    BY <1>6, <2>1, <2>2 DEF SerialInv, TitlesDone
  <2>4. i.path # None => files'[i.path] = files[i.path]
    BY <1>2, <1>4, <2>1, <2>2, <2>3, DoneNotStale
  <2>5. Done(i)'
    BY <1>4, <2>3, <2>4 DEF Done, Row, JobFor, FileOf, IsTagged
  <2>6. QED
    BY <2>5
<1>11. QED
  BY <1>5, <1>7, <1>8, <1>9, <1>10 DEF SerialInv

(* drops the memberships its filter does not admit,                        *)
LEMMA DeleteMembershipSerial ==
    ASSUME SerialInv, Track, NEW b \in Binding, DeleteMembershipNotInKeys(b), IInv'
    PROVE  SerialInv'
<1> DEFINE run == [scan[b] EXCEPT !.pc = "enqueueing", !.pending = Reported(scan[b].snapshot)]
<1>1. scan[b] \in ScanRun /\ b[2] \in Source
  BY IngestAssumption DEF SerialInv, IInv, TypeOK
<1>2. scan[b].pc = "pruned" /\ scan[b].snapshot = cat[b[2]]
  BY DEF SerialInv, ScanIsCurrent, DeleteMembershipNotInKeys
<1>3. /\ run \in ScanRun /\ run.pc = "enqueueing" /\ run.snapshot = cat[b[2]]
      /\ run.pending = Reported(cat[b[2]])
  BY <1>1, <1>2, ReportedKeys DEF ScanRun
<1>4. /\ scan' = [scan EXCEPT ![b] = run]
      /\ members' = {m \in members : ~StaleMember(b, m)}
      /\ UNCHANGED <<items, files, cat, titles, sweep>>
  BY DEF DeleteMembershipNotInKeys
<1> HIDE DEF run
<1>5. /\ \A o \in Binding : scan'[o] = IF o = b THEN run ELSE scan[o]
      /\ \A o \in fresh' : o \in Binding /\ (o \in fresh \/ (o = b /\ run.pc = "read"))
      /\ SweepAlone' /\ OneScanAtATime' /\ ScanIsCurrent'
      /\ MembersAreBound' /\ SweepIsCurrent' /\ HistoryTyped'
  BY <1>2, <1>3, <1>4, ScanMovesOn
<1>6. \A j \in TitleJob : titles[j].pc = "idle"
  BY <1>2, NoTitlesYet
<1>7. TitleIsCurrent' /\ TitleIsWritten'
  BY <1>4, <1>6 DEF TitleIsCurrent, TitleIsWritten
<1>8. RowsReported'
  BY <1>2, <1>3, <1>4, <1>5 DEF SerialInv, RowsReported
<1>9. MembersAdmitted'
  <2> SUFFICES ASSUME NEW o \in fresh', scan'[o].pc \notin {"read", "pruned"},
                      NEW m \in members', <<m.library, m.source>> = o
               PROVE  m.key \in Admitted(o, cat[o[2]])
    BY <1>4 DEF MembersAdmitted, Admitted, Reported, IsTagged
  <2>1. o \in fresh /\ o \in Binding /\ m \in members /\ ~StaleMember(b, m)
    BY <1>3, <1>4, <1>5
  <2>2. CASE o = b
    BY <1>2, <2>1, <2>2 DEF StaleMember
  <2>3. CASE o # b
    BY <1>5, <2>1, <2>3 DEF SerialInv, MembersAdmitted
  <2>4. QED
    BY <2>2, <2>3
<1>10. TitlesDone'
  <2> SUFFICES ASSUME NEW o \in fresh', scan'[o].pc \notin {"read", "pruned"},
                      NEW k \in Reported(cat[o[2]]) \ scan'[o].pending
               PROVE  Done(JobFor(o, cat[o[2]], k))'
    BY <1>4 DEF TitlesDone, JobFor, FileOf, IsTagged, Reported
  <2> DEFINE i == JobFor(o, cat[o[2]], k)
             m == [library |-> i.library, key |-> i.key, source |-> i.source]
  <2>1. o \in fresh /\ o \in Binding /\ scan'[o] = scan[o] /\ k \in Key /\ o # b
    BY <1>3, <1>5, ReportedKeys
  <2>2. i \in TitleJob /\ i.library = o[1] /\ i.source = o[2]
    BY <2>1, CurrentJob DEF SerialInv
  <2>3. Done(i)
    BY <1>6, <2>1, <2>2 DEF SerialInv, TitlesDone
  <2>4. o[1] # b[1] \/ o[2] # b[2]
    BY <2>1, IngestAssumption
  <2>5. ~StaleMember(b, m)
    BY <2>2, <2>4 DEF StaleMember
  <2>6. m \in members => m \in members'
    BY <1>4, <2>5
  <2>7. Done(i)'
    BY <1>4, <2>3, <2>6 DEF Done, Row, JobFor, FileOf, IsTagged
  <2>8. QED
    BY <2>7
<1>11. QED
  BY <1>5, <1>7, <1>8, <1>9, <1>10 DEF SerialInv

(* enqueues each title,                                                    *)
LEMMA EnqueueSerial ==
    ASSUME SerialInv, Track, NEW b \in Binding, NEW q \in Key, EnqueueTitle(b, q), IInv'
    PROVE  SerialInv'
<1> DEFINE run == [scan[b] EXCEPT !.pending = @ \ {q}]
           j == JobFor(b, cat[b[2]], q)
<1>1. scan[b] \in ScanRun /\ b[2] \in Source
  BY IngestAssumption DEF SerialInv, IInv, TypeOK
<1>2. scan[b].pc = "enqueueing" /\ scan[b].snapshot = cat[b[2]] /\ q \in scan[b].pending
  BY DEF SerialInv, ScanIsCurrent, EnqueueTitle, NextPending
<1>3. /\ run \in ScanRun /\ run.pc = "enqueueing" /\ run.snapshot = cat[b[2]]
      /\ run.pending = scan[b].pending \ {q}
      /\ run.pending \subseteq Reported(cat[b[2]])
  BY <1>1, <1>2 DEF ScanRun, SerialInv, ScanIsCurrent
<1>4. /\ scan' = [scan EXCEPT ![b] = run]
      /\ titles' = IF titles[j].pc = "idle" THEN [titles EXCEPT ![j] = TitleIn("queued", 0)]
                   ELSE titles
      /\ UNCHANGED <<items, files, members, cat, sweep>>
  BY <1>2 DEF EnqueueTitle, tables
<1> HIDE DEF run
<1>5. /\ j \in TitleJob /\ For(j) = b /\ j.source = b[2] /\ j.key = q
      /\ q \in Reported(cat[b[2]])
  BY <1>2, CurrentJob DEF SerialInv, ScanIsCurrent
<1>6. /\ \A i \in TitleJob :
            titles'[i] = titles[i] \/ (i = j /\ titles'[i] = TitleIn("queued", 0))
      /\ titles'[j].pc # "idle"
      /\ \A i \in TitleJob : titles[i].pc # "idle" => titles'[i].pc # "idle"
  BY <1>4, <1>5 DEF SerialInv, IInv, TypeOK, TitleIn
<1>7. /\ \A o \in Binding : scan'[o] = IF o = b THEN run ELSE scan[o]
      /\ \A o \in fresh' : o \in Binding /\ (o \in fresh \/ (o = b /\ run.pc = "read"))
      /\ SweepAlone' /\ OneScanAtATime' /\ ScanIsCurrent'
      /\ MembersAreBound' /\ SweepIsCurrent' /\ HistoryTyped'
  <2>1. \A i \in TitleJob : titles'[i].pc # "idle" => titles[i].pc # "idle" \/ For(i) = b
    BY <1>5, <1>6
  <2>2. QED
    BY <1>2, <1>3, <1>4, <2>1, ScanMovesOn
<1>8. TitleIsCurrent'
  <2> SUFFICES ASSUME NEW i \in TitleJob, titles'[i].pc # "idle"
               PROVE  /\ For(i) \in Binding
                      /\ i.key \in Reported(cat[i.source])
                      /\ i = JobFor(For(i), cat[i.source], i.key)
                      /\ scan'[For(i)].pc \in {"idle", "enqueueing"}
    BY <1>4 DEF TitleIsCurrent, For, Reported, JobFor, FileOf, IsTagged
  <2>1. CASE i = j
    BY <1>3, <1>5, <1>7, <2>1
  <2>2. CASE i # j
    BY <1>3, <1>6, <1>7, <2>2 DEF SerialInv, TitleIsCurrent
  <2>3. QED
    BY <2>1, <2>2
<1>9. TitleIsWritten'
  <2>1. UNCHANGED <<items, files>>
    BY <1>4
  <2>2. \A i \in TitleJob : titles'[i].pc # "queued" => titles'[i] = titles[i]
    BY <1>6 DEF TitleIn
  <2>3. QED
    BY <2>1, <2>2 DEF SerialInv, TitleIsWritten, Row
<1>10. RowsReported'
  BY <1>2, <1>3, <1>4, <1>7 DEF SerialInv, RowsReported
<1>11. MembersAdmitted'
  BY <1>2, <1>3, <1>4, <1>7 DEF SerialInv, MembersAdmitted, Admitted, Reported, IsTagged
<1>12. TitlesDone'
  <2> SUFFICES ASSUME NEW o \in fresh', scan'[o].pc \notin {"read", "pruned"},
                      NEW k \in Reported(cat[o[2]]) \ scan'[o].pending
               PROVE  \/ titles'[JobFor(o, cat[o[2]], k)].pc # "idle"
                      \/ Done(JobFor(o, cat[o[2]], k))'
    BY <1>4 DEF TitlesDone, JobFor, FileOf, IsTagged, Reported
  <2>1. /\ o \in fresh /\ o \in Binding /\ k \in Key
        /\ scan[o].pc \notin {"read", "pruned"}
    BY <1>2, <1>3, <1>7, ReportedKeys
  <2>2. CASE o = b /\ k = q
    BY <1>6, <2>2
  <2>3. CASE ~(o = b /\ k = q)
    <3>1. k \notin scan[o].pending
      BY <1>3, <1>7, <2>1, <2>3
    <3>2. JobFor(o, cat[o[2]], k) \in TitleJob
      BY <2>1, CurrentJob DEF SerialInv
    <3>3. titles[JobFor(o, cat[o[2]], k)].pc # "idle" \/ Done(JobFor(o, cat[o[2]], k))
      BY <2>1, <3>1 DEF SerialInv, TitlesDone
    <3>4. Done(JobFor(o, cat[o[2]], k)) => Done(JobFor(o, cat[o[2]], k))'
      BY <1>4 DEF Done, Row, JobFor, FileOf, IsTagged
    <3>5. QED
      BY <1>6, <3>2, <3>3, <3>4
  <2>4. QED
    BY <2>2, <2>3
<1>13. QED
  BY <1>7, <1>8, <1>9, <1>10, <1>11, <1>12 DEF SerialInv

(* and ends with nothing left to enqueue.                                  *)
LEMMA FinishScanSerial ==
    ASSUME SerialInv, Track, NEW b \in Binding, FinishScan(b), IInv'
    PROVE  SerialInv'
<1> DEFINE run == ScanIn("idle", 0)
<1>1. run \in ScanRun /\ run.pc = "idle" /\ run.pending = {}
  BY FreshRuns, IngestAssumption DEF ScanIn
<1>2. scan[b].pc = "enqueueing" /\ scan[b].pending = {}
  BY DEF FinishScan
<1>3. /\ scan' = [scan EXCEPT ![b] = run]
      /\ UNCHANGED <<items, files, members, cat, titles, sweep>>
  BY DEF FinishScan, tables
<1> HIDE DEF run
<1>4. /\ \A o \in Binding : scan'[o] = IF o = b THEN run ELSE scan[o]
      /\ \A o \in fresh' : o \in Binding /\ (o \in fresh \/ (o = b /\ run.pc = "read"))
      /\ SweepAlone' /\ OneScanAtATime' /\ ScanIsCurrent'
      /\ MembersAreBound' /\ SweepIsCurrent' /\ HistoryTyped'
  BY <1>1, <1>2, <1>3, ScanMovesOn
<1>5. TitleIsCurrent'
  BY <1>1, <1>3, <1>4 DEF SerialInv, TitleIsCurrent, For, Reported, JobFor, FileOf, IsTagged
<1>6. TitleIsWritten'
  BY <1>3 DEF SerialInv, TitleIsWritten, Row
<1>7. RowsReported'
  BY <1>1, <1>2, <1>3, <1>4 DEF SerialInv, RowsReported
<1>8. MembersAdmitted'
  BY <1>1, <1>2, <1>3, <1>4 DEF SerialInv, MembersAdmitted, Admitted, Reported, IsTagged
<1>9. TitlesDone'
  <2> SUFFICES ASSUME NEW o \in fresh', scan'[o].pc \notin {"read", "pruned"},
                      NEW k \in Reported(cat[o[2]]) \ scan'[o].pending
               PROVE  \/ titles[JobFor(o, cat[o[2]], k)].pc # "idle"
                      \/ Done(JobFor(o, cat[o[2]], k))'
    BY <1>3 DEF TitlesDone, JobFor, FileOf, IsTagged, Reported
  <2>1. o \in fresh /\ scan[o].pc \notin {"read", "pruned"} /\ k \notin scan[o].pending
    BY <1>1, <1>2, <1>4
  <2>2. titles[JobFor(o, cat[o[2]], k)].pc # "idle" \/ Done(JobFor(o, cat[o[2]], k))
    BY <2>1 DEF SerialInv, TitlesDone
  <2>3. QED
    BY <1>3, <2>2 DEF Done, Row, JobFor, FileOf, IsTagged
<1>10. QED
  BY <1>4, <1>5, <1>6, <1>7, <1>8, <1>9 DEF SerialInv

-----------------------------------------------------------------------------
(* What people do while nothing runs.                                      *)
LEMMA AsksSerial ==
    ASSUME SerialInv, Track, Quiet, Asks, IInv'
    PROVE  SerialInv'
<1>1. /\ \A b \in Binding : scan[b].pc = "idle" /\ scan[b].pending = {}
      /\ \A j \in TitleJob : titles[j].pc = "idle"
      /\ sweep.pc = "idle"
  BY DEF Quiet, SerialInv, ScanIsCurrent
<1>2. UNCHANGED <<items, files, members, titles>>
  BY DEF Asks, CatalogueChanges, RequestScan, RequestSweep, tables
<1>3. TitleIsCurrent' /\ TitleIsWritten'
  BY <1>1, <1>2 DEF TitleIsCurrent, TitleIsWritten
<1>4. MembersAreBound'
  BY <1>2 DEF SerialInv, MembersAreBound
<1>5. \A b \in Binding : scan'[b].pc \in {"idle", "queued"} /\ scan'[b].pending = {}
  BY <1>1 DEF Asks, CatalogueChanges, RequestScan, RequestSweep, ScanIn, SerialInv, IInv, TypeOK
<1>6. \A b \in fresh' : b \in fresh /\ b \in Binding /\ cat'[b[2]] = cat[b[2]]
  BY <1>1, <1>5 DEF Track
<1>7. ScanIsCurrent'
  BY <1>5 DEF ScanIsCurrent
<1>8. RowsReported'
  BY <1>1, <1>2, <1>6 DEF SerialInv, RowsReported, PathsOf
<1>9. MembersAdmitted'
  <2> SUFFICES ASSUME NEW b \in fresh', NEW m \in members, <<m.library, m.source>> = b
               PROVE  m.key \in Admitted(b, cat'[b[2]])
    BY <1>2 DEF MembersAdmitted
  <2>1. m.key \in Admitted(b, cat[b[2]])
    BY <1>1, <1>6 DEF SerialInv, MembersAdmitted
  <2>2. QED
    BY <1>6, <2>1
<1>10. TitlesDone'
  <2> SUFFICES ASSUME NEW b \in fresh', NEW k \in Reported(cat[b[2]])
               PROVE  Done(JobFor(b, cat[b[2]], k))'
    BY <1>6 DEF TitlesDone, JobFor, FileOf, IsTagged
  <2>1. JobFor(b, cat[b[2]], k) \in TitleJob
    BY <1>6, CurrentJob, ReportedKeys DEF SerialInv
  <2>2. Done(JobFor(b, cat[b[2]], k))
    BY <1>1, <1>6, <2>1 DEF SerialInv, TitlesDone
  <2>3. QED
    BY <1>2, <1>6, <2>2 DEF Done, Row, JobFor, FileOf, IsTagged
<1>11. HistoryTyped'
  BY <1>6 DEF HistoryTyped, Track
<1>12. swept' => swept /\ scan' = scan
  BY <1>1 DEF Track
<1>13. sweep'.pc \in {"idle", "queued"}
  BY <1>1 DEF Asks, CatalogueChanges, RequestScan, RequestSweep, SweepIn
<1>14. SweepIsCurrent'
  BY <1>2, <1>12, <1>13 DEF SerialInv, SweepIsCurrent, Live, HasFile, Childless, Present
<1>15. SweepAlone' /\ OneScanAtATime'
  <2>1. CASE scan' = scan
    BY <1>1, <1>2, <2>1 DEF SweepAlone, OneScanAtATime
  <2>2. CASE scan' # scan
    <3>1. PICK b \in Binding : RequestScan(b)
      BY <2>2 DEF Asks, CatalogueChanges, RequestSweep
    <3>2. sweep'.pc = "idle" /\ ~swept' /\ \A o \in Binding : scan'[o].pc # "idle" => o = b
      BY <1>1, <1>12, <2>2, <3>1 DEF RequestScan, SerialInv, IInv, TypeOK
    <3>3. QED
      BY <1>1, <1>2, <3>2 DEF SweepAlone, OneScanAtATime
  <2>3. QED
    BY <2>1, <2>2
<1>16. QED
  BY <1>3, <1>4, <1>7, <1>8, <1>9, <1>10, <1>11, <1>14, <1>15 DEF SerialInv

-----------------------------------------------------------------------------
(* SweepItems.                                                             *)

(* A title reported and written stays live through a sweep.                *)
LEMMA SweepSparesDone ==
    ASSUME SerialInv, SweepStep, NEW b \in fresh, NEW k \in Reported(cat[b[2]])
    PROVE  /\ Done(JobFor(b, cat[b[2]], k))
           /\ items'[k] = "live"
<1>1. b \in Binding /\ sweep.pc # "idle"
  BY DEF SerialInv, HistoryTyped, SweepStep, ListItems, MarkFileless, MarkChildless
<1>2. scan[b].pc = "idle" /\ scan[b].pending = {} /\ \A j \in TitleJob : titles[j].pc = "idle"
  BY <1>1 DEF SerialInv, SweepAlone, ScanIsCurrent
<1>3. ASSUME NEW o \in Reported(cat[b[2]])
      PROVE  /\ Done(JobFor(b, cat[b[2]], o)) /\ o \in Key /\ items[o] = "live"
             /\ o \in Playable /\ cat[b[2]].file[o] # None => HasFile(o)
  <2> DEFINE i == JobFor(b, cat[b[2]], o)
  <2>1. /\ i \in TitleJob /\ i.key = o /\ i.path = FileOf(cat[b[2]], o)
        /\ i.path \in Path \cup {None} /\ o \in Key
    BY <1>1, ReportedKeys, CurrentJob DEF SerialInv, TitleJob
  <2>2. Done(i)
    BY <1>2, <2>1 DEF SerialInv, TitlesDone
  <2>3. i.path # None => files[i.path] # None /\ files[i.path].item = o
    <3>1. i.path # None => o \in Playable /\ i.source \in Source
      BY <2>1 DEF FileOf, TitleJob
    <3>2. i.path # None => Row(i) \in FileRow
      BY <2>1, <3>1 DEF Row, FileRow
    <3>3. i.path # None => files[i.path] = Row(i)
      BY <2>2 DEF Done
    <3>4. QED
      BY <2>1, <3>2, <3>3, IngestAssumption DEF Row
  <2>4. QED
    BY <2>1, <2>2, <2>3 DEF Done, HasFile, FileOf
<1>4. PICK p \in Playable : cat[b[2]].file[p] # None /\ k \in Above(p)
  BY DEF Reported
<1>5. Above(p) \subseteq Reported(cat[b[2]])
  BY <1>4 DEF Reported
<1>6. k = p \/ (k \in Folder /\ \E c \in Above(p) : c \in Children(k))
  BY <1>4, AboveIsHeld
<1>7. CASE ListItems
  BY <1>3, <1>7 DEF ListItems, tables
<1>8. CASE MarkFileless
  <2>1. k \in Playable => HasFile(k)
    BY <1>3, <1>4, <1>6 DEF Folder
  <2>2. QED
    BY <1>3, <1>8, <2>1 DEF MarkFileless
<1>9. CASE MarkChildless
  <2>1. ~Childless(k)
    BY <1>3, <1>4, <1>5, <1>6 DEF Childless, Folder
  <2>2. QED
    BY <1>3, <1>9, <2>1 DEF MarkChildless
<1>10. QED
  BY <1>3, <1>7, <1>8, <1>9 DEF SweepStep

(* Each statement of the sweep keeps the invariant.                        *)
LEMMA SweepSerial ==
    ASSUME SerialInv, Track, SweepStep, IInv'
    PROVE  SerialInv'
<1>1. /\ \A b \in Binding : scan[b].pc = "idle" /\ scan[b].pending = {}
      /\ \A j \in TitleJob : titles[j].pc = "idle"
  BY DEF SerialInv, SweepAlone, ScanIsCurrent, SweepStep, ListItems, MarkFileless, MarkChildless
<1>2. UNCHANGED <<files, members, cat, scan, titles>>
  BY DEF SweepStep, ListItems, MarkFileless, MarkChildless, tables
<1>3. SweepAlone' /\ OneScanAtATime' /\ ScanIsCurrent' /\ TitleIsCurrent' /\ TitleIsWritten'
  BY <1>1, <1>2 DEF SweepAlone, OneScanAtATime, ScanIsCurrent, TitleIsCurrent, TitleIsWritten
<1>4. fresh' \subseteq fresh
  BY <1>1, <1>2 DEF Track
<1>5. MembersAreBound'
  BY <1>2 DEF SerialInv, MembersAreBound
<1>6. RowsReported' /\ MembersAdmitted'
  BY <1>2, <1>4 DEF SerialInv, RowsReported, MembersAdmitted, Admitted, Reported, IsTagged, PathsOf
<1>7. TitlesDone'
  <2> SUFFICES ASSUME NEW b \in fresh', NEW k \in Reported(cat[b[2]])
               PROVE  Done(JobFor(b, cat[b[2]], k))'
    BY <1>2 DEF TitlesDone, JobFor, FileOf, IsTagged
  <2>1. Done(JobFor(b, cat[b[2]], k)) /\ items'[k] = "live"
    BY <1>4, SweepSparesDone
  <2>2. QED
    BY <1>2, <2>1 DEF Done, Row, JobFor, FileOf, IsTagged
<1>8. HistoryTyped'
  BY DEF HistoryTyped, Track
<1>9. SweepIsCurrent'
  <2>1. sweep \in SweepRun /\ items \in [Key -> ItemState] /\ Playable \subseteq Key
    BY IngestAssumption DEF SerialInv, IInv, TypeOK
  <2>2. CASE ListItems
    <3>1. UNCHANGED items /\ (swept' => swept) /\ sweep'.pc \in {"idle", "listed"}
      BY <2>1, <2>2 DEF ListItems, tables, Track, SweepIn, SweepRun
    <3>2. sweep'.pc = "listed" => sweep'.disturbed = Live
      BY <2>1, <2>2 DEF ListItems, SweepIn, SweepRun
    <3>3. QED
      BY <1>2, <3>1, <3>2 DEF SerialInv, SweepIsCurrent, Live, HasFile, Childless, Present
  <2>3. CASE MarkFileless
    <3>1. sweep'.pc = "folders" /\ (swept' => swept)
      BY <2>1, <2>3 DEF MarkFileless, Track, SweepRun
    <3>2. sweep.disturbed = Live
      BY <2>3 DEF SerialInv, SweepIsCurrent, MarkFileless
    <3>3. \A k \in Playable : items'[k] = "live" => HasFile(k)
      BY <2>1, <2>3, <3>2 DEF MarkFileless, Live
    <3>4. swept => items' = items
      BY <2>1, <2>3, <3>2 DEF SerialInv, SweepIsCurrent, MarkFileless
    <3>5. QED
      BY <1>2, <3>1, <3>3, <3>4 DEF SerialInv, SweepIsCurrent, Live, HasFile, Childless, Present
  <2>4. CASE MarkChildless
    <3>1. \A k \in Playable : items'[k] = "live" => HasFile(k)
      BY <2>1, <2>4 DEF SerialInv, SweepIsCurrent, MarkChildless, Live
    <3>2. sweep'.pc \in {"folders", "idle"} /\ (sweep'.pc = "folders" => sweep' = sweep)
      BY <2>4 DEF MarkChildless, SweepIn
    <3>3. swept' => /\ \A k \in Key : ~Childless(k)
                    /\ items' = items
      BY <2>1, <2>4 DEF SerialInv, SweepIsCurrent, MarkChildless, Track
    <3>4. QED
      BY <1>2, <3>1, <3>2, <3>3 DEF SweepIsCurrent, Live, HasFile, Childless, Present
  <2>5. QED
    BY <2>2, <2>3, <2>4 DEF SweepStep
<1>10. QED
  BY <1>3, <1>5, <1>6, <1>7, <1>8, <1>9 DEF SerialInv

-----------------------------------------------------------------------------
(* Every step, and every step that changes nothing, keeps the invariant.   *)
LEMMA SerialStepSound ==
    ASSUME SourcesApart, FilesApart
    PROVE  SerialInv /\ [SerialNext /\ Track]_auditVars => SerialInv'
<1>1. ASSUME SerialInv, SerialNext, Track PROVE SerialInv'
  <2>1. IInv'
    BY <1>1, StepSound DEF SerialInv, SerialNext, Next
  <2>2. ASSUME NEW b \in Binding, ScanStep(b) PROVE SerialInv'
    BY <1>1, <2>1, <2>2, ReadTitlesSerial, DeleteSourcesSerial, DeleteMembershipSerial,
       EnqueueSerial, FinishScanSerial DEF ScanStep
  <2>3. QED
    BY <1>1, <2>1, <2>2, TitleStepSerial, SweepSerial, AsksSerial DEF SerialNext, Works
<1>2. ASSUME SerialInv, UNCHANGED auditVars PROVE SerialInv'
  <2>1. IInv'
    BY <1>2, StutterSound DEF SerialInv, auditVars
  <2>2. UNCHANGED <<cat, items, files, members, scan, titles, sweep, fresh, swept>>
    BY <1>2 DEF auditVars, vars
  <2>3. SweepAlone' /\ OneScanAtATime' /\ ScanIsCurrent'
    BY <1>2, <2>2 DEF SerialInv, SweepAlone, OneScanAtATime, ScanIsCurrent
  <2>4. TitleIsCurrent'
    BY <1>2, <2>2 DEF SerialInv, TitleIsCurrent
  <2>5. TitleIsWritten' /\ MembersAreBound' /\ RowsReported' /\ MembersAdmitted'
    BY <1>2, <2>2 DEF SerialInv, TitleIsWritten, MembersAreBound, RowsReported, MembersAdmitted
  <2>6. TitlesDone'
    BY <1>2, <2>2 DEF SerialInv, TitlesDone, Done
  <2>7. SweepIsCurrent' /\ HistoryTyped'
    BY <1>2, <2>2 DEF SerialInv, SweepIsCurrent, HistoryTyped, Live, HasFile, Childless, Present
  <2>8. QED
    BY <2>1, <2>3, <2>4, <2>5, <2>6, <2>7 DEF SerialInv
<1>3. QED
  BY <1>1, <1>2

(* The inductive invariant holds throughout.                               *)
THEOREM SerialSound ==
    ASSUME SourcesApart, FilesApart PROVE SerialSpec => []SerialInv
<1>1. SerialInv /\ [SerialNext /\ Track]_auditVars => SerialInv'
  BY SerialStepSound
<1>2. QED
  BY <1>1, SerialInitSound, PTL DEF SerialSpec

-----------------------------------------------------------------------------
(* What the invariant says of a settled state, binding by binding.         *)
LEMMA SettledBinding ==
    ASSUME SerialInv, Settled, NEW b \in Binding
    PROVE  /\ \A p \in Path : files[p] # None /\ files[p].source = b[2]
                                 => p \in PathsOf(cat[b[2]])
           /\ \A m \in members : <<m.library, m.source>> = b => m.key \in Admitted(b, cat[b[2]])
           /\ \A k \in Reported(cat[b[2]]) : k \in Key /\ Done(JobFor(b, cat[b[2]], k))
<1>1. b \in fresh /\ scan[b].pc = "idle" /\ scan[b].pending = {}
  BY DEF Settled, Quiet, SerialInv, ScanIsCurrent
<1>2. \A k \in Reported(cat[b[2]]) : k \in Key /\ Done(JobFor(b, cat[b[2]], k))
  <2> SUFFICES ASSUME NEW k \in Reported(cat[b[2]])
               PROVE  k \in Key /\ Done(JobFor(b, cat[b[2]], k))
    OBVIOUS
  <2>1. k \in Key /\ JobFor(b, cat[b[2]], k) \in TitleJob
    BY ReportedKeys, CurrentJob DEF SerialInv
  <2>2. titles[JobFor(b, cat[b[2]], k)].pc = "idle"
    BY <2>1 DEF Settled, Quiet
  <2>3. QED
    BY <1>1, <2>1, <2>2 DEF SerialInv, TitlesDone
<1>3. QED
  BY <1>1, <1>2 DEF SerialInv, RowsReported, MembersAdmitted

(* A playable title with a file is reported.                               *)
LEMMA FileReported ==
    ASSUME NEW c, NEW k \in Playable, c.file[k] # None
    PROVE  k \in Reported(c)
<1>1. k \in Above(k)
  BY IngestAssumption DEF Above
<1>2. QED
  BY <1>1 DEF Reported

(* Every source is bound to a library.                                     *)
SourcesBound == \A s \in Source : \E l \in Library : <<l, s>> \in Binding

(* An item has a season above it and a series above that, and no more.     *)
ThreeLevels ==
    \A k \in Key : Parent[k] # None /\ Parent[Parent[k]] # None
                      => Parent[Parent[Parent[k]]] = None

(* What is settled is in the tables: files,                                *)
LEMMA FilesSettled ==
    ASSUME SourcesBound PROVE SerialInv => SettledFiles
<1> SUFFICES ASSUME SerialInv, Settled PROVE FilesAgree
  BY DEF SettledFiles
<1>1. ASSUME NEW s \in Source, NEW k \in Playable, cat[s].file[k] # None
      PROVE  files[cat[s].file[k]] = [item |-> k, source |-> s]
  <2>1. PICK l \in Library : <<l, s>> \in Binding
    BY DEF SourcesBound
  <2> DEFINE b == <<l, s>>
             j == JobFor(b, cat[s], k)
  <2>2. b \in Binding /\ b[2] = s
    BY <2>1
  <2> HIDE DEF b
  <2>3. k \in Key /\ Done(j)
    BY <1>1, <2>2, FileReported, SettledBinding
  <2>4. j.path = cat[s].file[k] /\ j.key = k /\ j.source = s
    BY <2>2, <2>3, CurrentJob DEF FileOf, SerialInv
  <2>5. QED
    BY <1>1, <2>3, <2>4 DEF Done, Row
<1>2. ASSUME NEW p \in Path, files[p] # None PROVE p \in PathsOf(cat[files[p].source])
  <2>1. files[p].source \in Source
    BY <1>2 DEF SerialInv, IInv, TypeOK, FileRow
  <2>2. PICK l \in Library : <<l, files[p].source>> \in Binding
    BY <2>1 DEF SourcesBound
  <2> DEFINE b == <<l, files[p].source>>
  <2>3. b \in Binding /\ b[2] = files[p].source
    BY <2>2
  <2> HIDE DEF b
  <2>4. QED
    BY <1>2, <2>3, SettledBinding
<1>3. QED
  BY <1>1, <1>2 DEF FilesAgree

(* titles,                                                                 *)
LEMMA TitlesSettled ==
    ASSUME SourcesBound PROVE SerialInv => SettledTitles
<1> SUFFICES ASSUME SerialInv, Settled, NEW s \in Source, NEW k \in Reported(cat[s])
             PROVE  k \in Live
  BY DEF SettledTitles, ReportedIsLive
<1>1. PICK l \in Library : <<l, s>> \in Binding
  BY DEF SourcesBound
<1> DEFINE b == <<l, s>>
<1>2. b \in Binding /\ b[2] = s
  BY <1>1
<1> HIDE DEF b
<1>3. k \in Key /\ Done(JobFor(b, cat[s], k))
  BY <1>2, SettledBinding
<1>4. JobFor(b, cat[s], k).key = k
  BY <1>2, <1>3, CurrentJob DEF SerialInv
<1>5. QED
  BY <1>3, <1>4 DEF Done, Live

(* memberships,                                                            *)
LEMMA MembersSettled == SerialInv => SettledMembers
<1> SUFFICES ASSUME SerialInv, Settled PROVE MembersAgree
  BY DEF SettledMembers
<1>1. ASSUME NEW m \in members
      PROVE  /\ m \in Member
             /\ <<m.library, m.source>> \in Binding
             /\ m.key \in Admitted(<<m.library, m.source>>, cat[m.source])
  <2> DEFINE b == <<m.library, m.source>>
  <2>1. m \in Member /\ b \in Binding /\ b[2] = m.source /\ b = <<m.library, m.source>>
    BY DEF SerialInv, IInv, TypeOK, MembersAreBound
  <2> HIDE DEF b
  <2>2. m.key \in Admitted(b, cat[b[2]])
    BY <2>1, SettledBinding
  <2>3. QED
    BY <2>1, <2>2
<1>2. ASSUME NEW m \in Member, <<m.library, m.source>> \in Binding,
             m.key \in Admitted(<<m.library, m.source>>, cat[m.source])
      PROVE  m \in members
  <2> DEFINE b == <<m.library, m.source>>
             j == JobFor(b, cat[b[2]], m.key)
  <2>1. b \in Binding /\ b[1] = m.library /\ b[2] = m.source
    BY <1>2
  <2>2. m.key \in Admitted(b, cat[b[2]])
    BY <1>2
  <2> HIDE DEF b
  <2>3. m.key \in Reported(cat[b[2]]) /\ IsTagged(b, cat[b[2]], m.key)
    BY <2>2 DEF Admitted
  <2>4. Done(j) /\ m.key \in Key
    BY <2>1, <2>3, SettledBinding
  <2>5. j.tagged /\ j.library = m.library /\ j.source = m.source /\ j.key = m.key
    BY <2>1, <2>3, <2>4, CurrentJob DEF SerialInv
  <2>6. [library |-> m.library, key |-> m.key, source |-> m.source] \in members
    BY <2>4, <2>5 DEF Done
  <2>7. m = [library |-> m.library, key |-> m.key, source |-> m.source]
    BY DEF Member
  <2>8. QED
    BY <2>6, <2>7
<1>3. QED
  BY <1>1, <1>2 DEF MembersAgree

(* A live child of a title nobody reports, three levels at most, is one    *)
(* nobody reports either.                                                  *)
LEMMA ChildReported ==
    ASSUME ThreeLevels, NEW c, NEW k \in Key, NEW d \in Children(k), d \in Reported(c)
    PROVE  k \in Reported(c)
<1>1. PICK p \in Playable : c.file[p] # None /\ d \in Above(p)
  BY DEF Reported
<1>2. p \in Key /\ d \in Key /\ Parent[d] = k /\ k # None /\ d # None
  BY <1>1, IngestAssumption DEF Children
<1>3. k \in Above(p)
  <2>1. CASE d = p \/ d = Parent[p]
    BY <1>2, <2>1 DEF Above
  <2>2. CASE Parent[p] # None /\ d = Parent[Parent[p]]
    BY <1>2, <2>2, IngestAssumption DEF ThreeLevels
  <2>3. QED
    BY <1>1, <2>1, <2>2 DEF Above
<1>4. QED
  BY <1>1, <1>3 DEF Reported

(* and, after a sweep, nothing else.                                       *)
LEMMA SweptSettled ==
    ASSUME SourcesBound, ThreeLevels PROVE SerialInv => SweptExactly
<1> DEFINE Any == UNION {Reported(cat[s]) : s \in Source}
           Bare(f) == f \in Folder /\ Present(f) /\ \A c \in Children(f) : ~Present(c)
<1> SUFFICES ASSUME SerialInv, Settled, swept, NEW k \in Live \ Any
             PROVE  \E f \in Folder : k \in Above(f) /\ Bare(f)
  BY DEF SweptExactly
<1>1. FilesAgree
  BY FilesSettled DEF SettledFiles
<1>2. ASSUME NEW d \in Live, d \notin Any PROVE d \in Folder
  <2>1. d \in Key
    BY DEF Live
  <2>2. SUFFICES ASSUME d \in Playable PROVE FALSE
    BY <2>1 DEF Folder
  <2>3. PICK p \in Path : files[p] # None /\ files[p].item = d
    BY <2>2 DEF SerialInv, SweepIsCurrent, HasFile
  <2>4. files[p].source \in Source /\ p \in PathsOf(cat[files[p].source])
    BY <1>1, <2>3 DEF FilesAgree, SerialInv, IInv, TypeOK, FileRow
  <2>5. PICK o \in Playable : cat[files[p].source].file[o] = p /\ p # None
    BY <2>4 DEF PathsOf
  <2>6. files[p] = [item |-> o, source |-> files[p].source]
    BY <1>1, <2>4, <2>5 DEF FilesAgree
  <2>7. o = d
    BY <2>3, <2>6
  <2>8. d \in Reported(cat[files[p].source])
    BY <2>5, <2>7, FileReported
  <2>9. QED
    BY <1>2, <2>4, <2>8
<1>3. ASSUME NEW d \in Live, d \notin Any
      PROVE  \/ Bare(d)
             \/ \E c \in Children(d) : c \in Live /\ c \notin Any
  <2>1. d \in Key /\ d \in Folder /\ items[d] = "live" /\ Present(d) /\ ~Childless(d)
    BY <1>2, <1>3 DEF Live, Present, SerialInv, SweepIsCurrent
  <2>2. CASE \A c \in Children(d) : ~Present(c)
    BY <2>1, <2>2
  <2>3. CASE \E c \in Children(d) : Present(c)
    <3>1. PICK c \in Children(d) : items[c] = "live"
      BY <2>1, <2>3 DEF Childless
    <3>2. c \in Live
      BY <3>1 DEF Children, Live
    <3>3. c \notin Any
      BY <1>3, <2>1, ChildReported
    <3>4. QED
      BY <3>2, <3>3
  <2>4. QED
    BY <2>2, <2>3
<1>4. k \in Live /\ k \notin Any /\ k \in Key /\ k # None
  BY IngestAssumption DEF Live
<1> HIDE DEF Any
<1>5. ASSUME NEW f \in Key, k \in Above(f), Bare(f)
      PROVE  \E g \in Folder : k \in Above(g) /\ Bare(g)
  BY <1>5
<1>6. CASE Bare(k)
  BY <1>4, <1>5, <1>6 DEF Above
<1>7. CASE \E c \in Children(k) : c \in Live /\ c \notin Any
  <2>1. PICK c \in Children(k) : c \in Live /\ c \notin Any
    BY <1>7
  <2>2. c \in Key /\ Parent[c] = k
    BY DEF Children
  <2>3. CASE Bare(c)
    <3>1. k \in Above(c)
      BY <1>4, <2>2 DEF Above
    <3>2. QED
      BY <1>5, <2>2, <2>3, <3>1
  <2>4. CASE \E d \in Children(c) : d \in Live /\ d \notin Any
    <3>1. PICK d \in Children(c) : d \in Live /\ d \notin Any
      BY <2>4
    <3>2. d \in Key /\ Parent[d] = c /\ c # None
      BY <2>2, IngestAssumption DEF Children
    <3>3. CASE Bare(d)
      <4>1. k \in Above(d)
        BY <1>4, <2>2, <3>2 DEF Above
      <4>2. QED
        BY <1>5, <3>2, <3>3, <4>1
    <3>4. CASE \E e \in Children(d) : e \in Live /\ e \notin Any
      <4>1. PICK e \in Key : Parent[e] = d
        BY <3>4 DEF Children
      <4>2. d # None
        BY <3>2, IngestAssumption
      <4>3. QED
        BY <1>4, <2>2, <3>2, <4>1, <4>2 DEF ThreeLevels
    <3>5. QED
      BY <1>3, <3>1, <3>3, <3>4
  <2>5. QED
    BY <1>3, <2>1, <2>3, <2>4
<1>8. QED
  BY <1>3, <1>4, <1>6, <1>7

-----------------------------------------------------------------------------
(* Once every binding has been scanned and its titles written, one request *)
(* at a time, every file of every source has its row under the item it     *)
(* belongs to and no other row is left: where the sources' paths are apart *)
(* and no two titles share a file (one file of two episodes does not       *)
(* settle), and no source is left unbound, which nobody would scan.        *)
THEOREM FilesSettle ==
    ASSUME SourcesApart, FilesApart, SourcesBound PROVE SerialSpec => []SettledFiles
<1>1. SerialInv => SettledFiles
  BY FilesSettled
<1>2. QED
  BY <1>1, SerialSound, PTL

(* ... and every title with a file, its season and its series are live,    *)
(* in whatever order their runs were executed.                             *)
THEOREM TitlesSettle ==
    ASSUME SourcesApart, FilesApart, SourcesBound PROVE SerialSpec => []SettledTitles
<1>1. SerialInv => SettledTitles
  BY TitlesSettled
<1>2. QED
  BY <1>1, SerialSound, PTL

(* ... and each library lists exactly the titles its bindings' tags admit, *)
(* whatever other libraries the sources are bound to.                      *)
THEOREM MembersSettle ==
    ASSUME SourcesApart, FilesApart PROVE SerialSpec => []SettledMembers
<1>1. SerialInv => SettledMembers
  BY MembersSettled
<1>2. QED
  BY <1>1, SerialSound, PTL

(* A sweep after that leaves live what the sources report and, besides     *)
(* that, only the folders over one that never got a child: however many    *)
(* passes over the folders it takes, none of them is stopped short.        *)
THEOREM SweepIsExact ==
    ASSUME SourcesApart, FilesApart, SourcesBound, ThreeLevels
    PROVE  SerialSpec => []SweptExactly
<1>1. SerialInv => SweptExactly
  BY SweptSettled
<1>2. QED
  BY <1>1, SerialSound, PTL

-----------------------------------------------------------------------------
(* What is repaired stays repaired, in any interleaving of Next.           *)

(* Who writes memberships: a scan, and a run that ends.                    *)
LEMMA MembersWritten ==
    ASSUME [Next]_vars, members' # members
    PROVE  \/ \E b \in Binding : DeleteMembershipNotInKeys(b)
           \/ \E j \in TitleJob : SaveMembership(j)
<1>1. ~Asks
  BY DEF Asks, CatalogueChanges, RequestScan, RequestSweep, tables
<1>2. ASSUME NEW b \in Binding, ScanStep(b) PROVE DeleteMembershipNotInKeys(b)
  BY <1>2 DEF ScanStep, ReadTitles, DeleteSourcesNotInPaths, EnqueueTitle, FinishScan, tables
<1>3. ASSUME NEW j \in TitleJob, TitleStep(j) PROVE SaveMembership(j)
  BY <1>3 DEF TitleStep, ParentMissing, SaveScanned, ReadBack, ReadBackFails, SaveSource,
     SaveSourceFails, ReadSource, ReadSourceFails, tables
<1>4. ~SweepStep
  BY DEF SweepStep, ListItems, MarkFileless, MarkChildless, tables
<1>5. ~Breaks
  BY DEF Breaks, ScanFails, EnqueueLost, TitleFails, SweepFails, Fault, tables
<1>6. ~UNCHANGED vars
  BY DEF vars
<1>7. QED
  BY <1>1, <1>2, <1>3, <1>4, <1>5, <1>6 DEF Next, Works

(* An up to date run of RefreshItem was enqueued for a title reported now. *)
LEMMA RunUpToDate ==
    ASSUME IInv, UpToDate, NEW j \in TitleJob, titles[j].pc # "idle"
    PROVE  /\ For(j) \in Binding /\ For(j)[2] = j.source
           /\ j.source \in Source /\ j.key \in Key
           /\ j.key \in Reported(cat[j.source])
           /\ j = JobFor(For(j), cat[j.source], j.key)
           /\ j.path = FileOf(cat[j.source], j.key)
           /\ j.tagged = IsTagged(For(j), cat[j.source], j.key)
<1>1. /\ For(j) \in Binding /\ For(j)[2] = j.source
      /\ j.source \in Source /\ j.key \in Key
      /\ j.key \in Reported(cat[j.source])
      /\ j = JobFor(For(j), cat[j.source], j.key)
  BY DEF UpToDate, For, TitleJob
<1>2. QED
  BY <1>1, CurrentJob

(* No file row changes,                                                    *)
LEMMA RepairedFiles ==
    ASSUME IInv, UpToDate, Repaired, [Next]_vars
    PROVE  files' = files
<1> SUFFICES ASSUME files' # files PROVE FALSE
  OBVIOUS
<1>1. CASE \E b \in Binding : DeleteSourcesNotInPaths(b)
  <2>1. PICK b \in Binding : DeleteSourcesNotInPaths(b)
    BY <1>1
  <2>2. scan[b].snapshot = cat[b[2]]
    BY <2>1, PruningScan DEF UpToDate
  <2>3. \A p \in Path : ~StaleRow(b, p)
    BY <2>2 DEF StaleRow, Repaired, FilesAgree
  <2>4. files' = [p \in Path |-> files[p]]
    BY <2>1, <2>3 DEF DeleteSourcesNotInPaths
  <2>5. QED
    BY <2>4 DEF IInv, TypeOK
<1>2. CASE \E j \in TitleJob : SaveSource(j)
  <2>1. PICK j \in TitleJob : SaveSource(j)
    BY <1>2
  <2>2. /\ j.path \in Path
        /\ titles[j].pc # "idle" /\ titles[j].pc = "read"
        /\ files' = [files EXCEPT ![j.path] = Row(j)]
    BY <2>1, SavingTitle DEF SaveSource
  <2>3. j.path # None /\ j.key \in Playable
    BY <2>2 DEF IInv, ReadHasPath, TitleIsPossible
  <2>4. j.source \in Source /\ j.path = cat[j.source].file[j.key]
    BY <2>2, <2>3, RunUpToDate DEF FileOf
  <2>5. files[j.path] = Row(j)
    BY <2>3, <2>4 DEF Repaired, FilesAgree, Row
  <2>6. QED
    BY <2>2, <2>5 DEF IInv, TypeOK
<1>3. QED
  BY <1>1, <1>2, FilesWritten

(* no membership does,                                                     *)
LEMMA RepairedMembers ==
    ASSUME IInv, UpToDate, Repaired, [Next]_vars
    PROVE  members' = members
<1> SUFFICES ASSUME members' # members PROVE FALSE
  OBVIOUS
<1>1. CASE \E b \in Binding : DeleteMembershipNotInKeys(b)
  <2>1. PICK b \in Binding : DeleteMembershipNotInKeys(b)
    BY <1>1
  <2>2. scan[b].pc = "pruned" /\ b[2] \in Source /\ b = <<b[1], b[2]>>
    BY <2>1, IngestAssumption DEF DeleteMembershipNotInKeys
  <2>3. scan[b].snapshot # None
    BY <2>2, IngestAssumption DEF IInv, SnapshotIsPossible
  <2>4. scan[b].snapshot = cat[b[2]]
    BY <2>3 DEF UpToDate
  <2>5. ASSUME NEW m \in members, m.library = b[1], m.source = b[2]
        PROVE  m.key \in Admitted(b, cat[b[2]])
    BY <2>2, <2>5 DEF Repaired, MembersAgree
  <2>6. \A m \in members : ~StaleMember(b, m)
    BY <2>4, <2>5 DEF StaleMember
  <2>7. QED
    BY <2>1, <2>6 DEF DeleteMembershipNotInKeys
<1>2. CASE \E j \in TitleJob : SaveMembership(j)
  <2>1. PICK j \in TitleJob : SaveMembership(j)
    BY <1>2
  <2> DEFINE m == [library |-> j.library, key |-> j.key, source |-> j.source]
  <2>2. titles[j].pc # "idle" /\ j.tagged /\ members' = members \cup {m}
    BY <2>1 DEF SaveMembership
  <2>3. m \in Member /\ m.library = j.library /\ m.key = j.key /\ m.source = j.source
    BY DEF Member, TitleJob
  <2> HIDE DEF m
  <2>4. j.key \in Admitted(For(j), cat[j.source]) /\ For(j) \in Binding
    BY <2>2, RunUpToDate DEF Admitted
  <2>5. m \in members
    BY <2>3, <2>4 DEF Repaired, MembersAgree, For
  <2>6. QED
    BY <2>2, <2>5
<1>3. QED
  BY <1>1, <1>2, MembersWritten

(* and no title reported now stops being live.                             *)
LEMMA RepairedItems ==
    ASSUME IInv, Repaired, [Next]_vars, NEW s \in Source, NEW k \in Reported(cat[s])
    PROVE  k \in Live'
<1>1. /\ k \in Key /\ items[k] = "live" /\ items \in [Key -> ItemState]
  BY DEF Repaired, ReportedIsLive, Live, IInv, TypeOK
<1>2. PICK p \in Playable : cat[s].file[p] # None /\ k \in Above(p)
  BY DEF Reported
<1>3. Above(p) \subseteq Live
  BY <1>2 DEF Repaired, ReportedIsLive, Reported
<1>4. HasFile(p)
  <2>1. files[cat[s].file[p]] = [item |-> p, source |-> s] /\ cat[s].file[p] \in Path
    BY <1>2 DEF Repaired, FilesAgree, IInv, TypeOK, Catalogue
  <2>2. [item |-> p, source |-> s] \in FileRow
    BY DEF FileRow
  <2>3. QED
    BY <2>1, <2>2, IngestAssumption DEF HasFile
<1>5. QED
  BY <1>2, <1>3, <1>4, HeldLives

(* Runs stay up to date that start over, or start from what the source     *)
(* reports now.                                                            *)
LEMMA RunsKept ==
    ASSUME UpToDate, cat' = cat,
           \A b \in Binding :
              scan'[b] = scan[b] \/ /\ scan'[b].snapshot \in {None, cat[b[2]]}
                                    /\ scan'[b].pending \subseteq Reported(cat[b[2]]),
           \A j \in TitleJob : titles'[j].pc # "idle" =>
              \/ titles[j].pc # "idle"
              \/ /\ For(j) \in Binding
                 /\ j.key \in Reported(cat[j.source])
                 /\ j = JobFor(For(j), cat[j.source], j.key)
    PROVE  UpToDate'
<1>1. \A b \in Binding : /\ scan'[b].snapshot \in {None, cat'[b[2]]}
                         /\ scan'[b].pending \subseteq Reported(cat'[b[2]])
  BY DEF UpToDate
<1>2. ASSUME NEW j \in TitleJob, titles'[j].pc # "idle"
      PROVE  /\ <<j.library, j.source>> \in Binding
             /\ j.key \in Reported(cat[j.source])
             /\ j = JobFor(<<j.library, j.source>>, cat[j.source], j.key)
  BY <1>2 DEF UpToDate, For
<1>3. QED
  BY <1>1, <1>2 DEF UpToDate

(* Every step keeps the runs up to date, unless the source changes.         *)
LEMMA RepairedRuns ==
    ASSUME IInv, UpToDate, [Next]_vars, cat' = cat
    PROVE  UpToDate'
<1>1. /\ scan \in [Binding -> ScanRun] /\ titles \in [TitleJob -> TitleRun]
      /\ \A b \in Binding : b[2] \in Source /\ scan[b] \in ScanRun
  BY IngestAssumption DEF IInv, TypeOK
<1>2. ASSUME NEW b \in Binding, NEW run, scan' = [scan EXCEPT ![b] = run], titles' = titles,
             run.snapshot \in {None, cat[b[2]]}, run.pending \subseteq Reported(cat[b[2]])
      PROVE  UpToDate'
  <2>1. \A o \in Binding :
           scan'[o] = scan[o] \/ /\ scan'[o].snapshot \in {None, cat[o[2]]}
                                 /\ scan'[o].pending \subseteq Reported(cat[o[2]])
    BY <1>1, <1>2
  <2>2. QED
    BY <1>2, <2>1, RunsKept
<1>3. ASSUME NEW phase, NEW n
      PROVE  ScanIn(phase, n).snapshot = None /\ ScanIn(phase, n).pending = {}
  BY DEF ScanIn
<1>4. ASSUME scan' = scan, titles' = titles PROVE UpToDate'
  BY <1>4, RunsKept
<1>5. CASE Asks
  <2>1. ASSUME NEW b \in Binding, RequestScan(b) PROVE UpToDate'
    BY <1>2, <1>3, <2>1 DEF RequestScan
  <2>2. QED
    BY <1>4, <1>5, <2>1 DEF Asks, CatalogueChanges, RequestSweep
<1>6. ASSUME NEW b \in Binding, ReadTitles(b) PROVE UpToDate'
  <2> DEFINE run == [scan[b] EXCEPT !.pc = "read", !.snapshot = cat[b[2]]]
  <2>1. run.snapshot = cat[b[2]] /\ run.pending = scan[b].pending
    BY <1>1 DEF ScanRun
  <2>2. scan' = [scan EXCEPT ![b] = run] /\ titles' = titles
    BY <1>6 DEF ReadTitles
  <2> HIDE DEF run
  <2>3. QED
    BY <1>2, <2>1, <2>2 DEF UpToDate
<1>7. ASSUME NEW b \in Binding, DeleteSourcesNotInPaths(b) PROVE UpToDate'
  <2> DEFINE run == [scan[b] EXCEPT !.pc = "pruned"]
  <2>1. run.snapshot = scan[b].snapshot /\ run.pending = scan[b].pending
    BY <1>1 DEF ScanRun
  <2>2. scan' = [scan EXCEPT ![b] = run] /\ titles' = titles
    BY <1>7 DEF DeleteSourcesNotInPaths
  <2> HIDE DEF run
  <2>3. QED
    BY <1>2, <2>1, <2>2 DEF UpToDate
<1>8. ASSUME NEW b \in Binding, scan[b].pc \in {"read", "pruned", "enqueueing"}
      PROVE  scan[b].snapshot = cat[b[2]]
  BY <1>1, <1>8, IngestAssumption DEF IInv, SnapshotIsPossible, UpToDate
<1>9. ASSUME NEW b \in Binding, DeleteMembershipNotInKeys(b) PROVE UpToDate'
  <2> DEFINE run == [scan[b] EXCEPT !.pc = "enqueueing", !.pending = Reported(scan[b].snapshot)]
  <2>1. run.snapshot = cat[b[2]] /\ run.pending = Reported(cat[b[2]])
    BY <1>1, <1>8, <1>9 DEF ScanRun, DeleteMembershipNotInKeys
  <2>2. scan' = [scan EXCEPT ![b] = run] /\ titles' = titles
    BY <1>9 DEF DeleteMembershipNotInKeys
  <2> HIDE DEF run
  <2>3. QED
    BY <1>2, <2>1, <2>2
<1>10. ASSUME NEW b \in Binding, NEW k \in Key, NextPending(b, k),
              scan' = [scan EXCEPT ![b].pending = @ \ {k}]
       PROVE  /\ scan[b].snapshot = cat[b[2]] /\ k \in Reported(cat[b[2]])
              /\ \A o \in Binding :
                    scan'[o] = scan[o] \/ /\ scan'[o].snapshot \in {None, cat[o[2]]}
                                          /\ scan'[o].pending \subseteq Reported(cat[o[2]])
  <2> DEFINE run == [scan[b] EXCEPT !.pending = @ \ {k}]
  <2>1. scan[b].snapshot = cat[b[2]] /\ k \in scan[b].pending
    BY <1>8, <1>10 DEF NextPending
  <2>2. run.snapshot = cat[b[2]] /\ run.pending \subseteq scan[b].pending
    BY <1>1, <2>1 DEF ScanRun
  <2>3. scan' = [scan EXCEPT ![b] = run]
    BY <1>10
  <2> HIDE DEF run
  <2>4. scan[b].pending \subseteq Reported(cat[b[2]])
    BY DEF UpToDate
  <2>5. QED
    BY <1>1, <2>1, <2>2, <2>3, <2>4
<1>11. ASSUME NEW b \in Binding, NEW k \in Key, EnqueueTitle(b, k) PROVE UpToDate'
  <2> DEFINE j == JobFor(b, cat[b[2]], k)
  <2>1. /\ scan[b].snapshot = cat[b[2]] /\ k \in Reported(cat[b[2]])
        /\ \A o \in Binding :
              scan'[o] = scan[o] \/ /\ scan'[o].snapshot \in {None, cat[o[2]]}
                                    /\ scan'[o].pending \subseteq Reported(cat[o[2]])
    BY <1>10, <1>11 DEF EnqueueTitle
  <2>2. \A i \in TitleJob : titles'[i] = titles[i] \/ i = j
    BY <1>1, <1>11, <2>1 DEF EnqueueTitle
  <2>3. For(j) = b /\ j.key = k /\ j.source = b[2]
    BY CurrentJob
  <2>4. j = JobFor(For(j), cat[j.source], j.key)
    BY <2>3
  <2> HIDE DEF j
  <2>5. QED
    BY <2>1, <2>2, <2>3, <2>4, RunsKept
<1>12. ASSUME NEW b \in Binding, FinishScan(b) PROVE UpToDate'
  BY <1>2, <1>3, <1>12 DEF FinishScan
<1>13. ASSUME NEW j \in TitleJob, titles[j].pc # "idle", scan' = scan, NEW run,
              titles' = [titles EXCEPT ![j] = run]
       PROVE  UpToDate'
  <2>1. \A i \in TitleJob : titles'[i] = titles[i] \/ i = j
    BY <1>1, <1>13
  <2>2. QED
    BY <1>13, <2>1, RunsKept
<1>14. ASSUME NEW j \in TitleJob, TitleStep(j) PROVE UpToDate'
  BY <1>13, <1>14 DEF TitleStep, ParentMissing, SaveScanned, ReadBack, ReadBackFails, SaveSource,
     SaveSourceFails, ReadSource, ReadSourceFails, SaveMembership, TitleMoves
<1>15. CASE SweepStep
  BY <1>4, <1>15 DEF SweepStep, ListItems, MarkFileless, MarkChildless
<1>16. ASSUME NEW b \in Binding, ScanFails(b) PROVE UpToDate'
  <2>1. ScanRetry(scan[b]).snapshot = None /\ ScanRetry(scan[b]).pending = {}
    BY <1>3 DEF ScanRetry
  <2>2. QED
    BY <1>2, <1>16, <2>1 DEF ScanFails
<1>17. ASSUME NEW b \in Binding, NEW k \in Key, EnqueueLost(b, k) PROVE UpToDate'
  BY <1>10, <1>17, RunsKept DEF EnqueueLost
<1>18. ASSUME NEW j \in TitleJob, TitleFails(j) PROVE UpToDate'
  BY <1>13, <1>18 DEF TitleFails
<1>19. CASE SweepFails
  BY <1>4, <1>19 DEF SweepFails
<1>20. CASE UNCHANGED vars
  BY <1>4, <1>20 DEF vars
<1>21. QED
  BY <1>5, <1>6, <1>7, <1>9, <1>11, <1>12, <1>14, <1>15, <1>16, <1>17, <1>18, <1>19, <1>20
     DEF Next, Works, Breaks, ScanStep

(* What is repaired stays repaired, whatever scans of whichever library,   *)
(* retries, failures and sweeps interleave, as long as no run works from   *)
(* what a source no longer reports.                                        *)
THEOREM RepairLasts == Spec => RepairedStays
<1>1. ASSUME IInv, [Next]_vars, UpToDate, Repaired, cat' = cat
      PROVE  UpToDate' /\ Repaired'
  <2>1. UpToDate' /\ files' = files /\ members' = members
    BY <1>1, RepairedRuns, RepairedFiles, RepairedMembers
  <2>2. FilesAgree'
    BY <1>1, <2>1 DEF Repaired, FilesAgree, PathsOf
  <2>3. MembersAgree'
    BY <1>1, <2>1 DEF Repaired, MembersAgree, Admitted, Reported, IsTagged
  <2>4. ReportedIsLive'
    BY <1>1, RepairedItems DEF ReportedIsLive, Reported
  <2>5. QED
    BY <2>1, <2>2, <2>3, <2>4 DEF Repaired
<1>2. IInv /\ [Next]_vars => [UpToDate /\ Repaired /\ cat' = cat => UpToDate' /\ Repaired']_vars
  BY <1>1
<1>3. QED
  BY <1>2, AlwaysSound, PTL DEF Spec, RepairedStays
=============================================================================
