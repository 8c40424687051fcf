---------------------------- MODULE ProbeProofs ----------------------------
(***************************************************************************)
(* What holds of Probe for every set of files, any number of versions,     *)
(* rows, attempts and failures, and whether or not files change while they *)
(* are being probed.                                                       *)
(***************************************************************************)
EXTENDS Probe, TLAPS

Holding == {"locked", "cleared"}

(* A file that is there has a version.                                     *)
ThereHasVersion == \A p \in Path : disk[p].there => disk[p].version \in Version

(* A run that has looked its row up knows a path, and from ffprobe on a    *)
(* version.                                                                *)
RunKnowsFile ==
    \A j \in Job :
        /\ probe[j].pc \notin {"idle", "queued"} => probe[j].path \in Path
        /\ probe[j].pc \in {"read", "found", "saving"} \cup Holding => probe[j].version \in Version

(* A transaction that has updated a row keeps it: the row is still there,  *)
(* no other one has updated it, and once the streams are cleared there are *)
(* no others.                                                              *)
RowHeld ==
    /\ \A j \in Job : probe[j].pc \in Holding => rows[j[2]] # None
    /\ \A j, k \in Job : j[2] = k[2] /\ probe[j].pc \in Holding /\ probe[k].pc \in Holding => j = k
    /\ \A j \in Job : probe[j].pc = "cleared" => probe[j].seen = streams[j[2]]

(* The inductive invariant.                                                *)
IInv == TypeOK /\ ThereHasVersion /\ RunKnowsFile /\ RowHeld /\ OneReading

-----------------------------------------------------------------------------
(* A run at rest, or queued for one of its attempts, is a run.             *)
LEMMA FreshRuns ==
    \A phase \in {"idle", "queued"}, n \in 0 .. Attempts :
        ProbeIn(phase, n) \in ProbeRun /\ ProbeIn(phase, n).pc = phase
BY ProbeAssumption DEF ProbeIn, ProbeRun, Time

(* So is a run after a failure.                                            *)
LEMMA FailedRuns ==
    ASSUME IInv, NEW j \in Job
    PROVE  AfterFailure(j) \in ProbeRun /\ AfterFailure(j).pc \in {"idle", "queued"}
<1>1. probe[j].tries \in 0 .. Attempts /\ 0 \in 0 .. Attempts
  BY ProbeAssumption DEF IInv, TypeOK, ProbeRun
<1>2. probe[j].tries + 1 < Attempts => probe[j].tries + 1 \in 0 .. Attempts
  BY <1>1, ProbeAssumption
<1>3. QED
  BY <1>1, <1>2, FreshRuns DEF AfterFailure

(* The first state.                                                        *)
LEMMA InitSound == Init => IInv
<1> SUFFICES ASSUME Init PROVE IInv
  OBVIOUS
<1>1. 0 \in 0 .. Attempts /\ 0 \in Time /\ 0 \in 0 .. Faults
  BY ProbeAssumption DEF Time
<1>2. \A j \in Job : probe[j] \in ProbeRun /\ probe[j].pc = "idle"
  BY <1>1, FreshRuns DEF Init
<1>3. TypeOK
  BY <1>1, <1>2 DEF Init, TypeOK, NoRefresh, RefreshRun
<1>4. ThereHasVersion /\ OneReading
  BY DEF Init, ThereHasVersion, OneReading
<1>5. RunKnowsFile /\ RowHeld
  BY <1>2 DEF RunKnowsFile, RowHeld, Holding
<1>6. QED
  BY <1>3, <1>4, <1>5 DEF IInv

-----------------------------------------------------------------------------
(* The files move, a scan reads them, a sweep marks an item, RefreshItem   *)
(* writes one: rows, streams and probes stay as they are.                  *)
LEMMA BesidesRows ==
    ASSUME IInv, UNCHANGED <<rows, streams, probe, faults>>,
           disk' \in [Path -> [version : Time, there : BOOLEAN]], ThereHasVersion',
           marked' \subseteq Path, refresh' \in [Path \X Time -> RefreshRun]
    PROVE  IInv'
BY DEF IInv, TypeOK, RunKnowsFile, RowHeld, OneReading

LEMMA WorldSound ==
    ASSUME IInv, NEW p \in Path, Replace(p) \/ Remove(p) \/ Scan(p) \/ Sweep(p)
    PROVE  IInv'
<1> USE DEF IInv
<1>1. disk[p] \in [version : Time, there : BOOLEAN]
  BY DEF TypeOK
<1>2. CASE Replace(p)
  <2>1. disk[p].version + 1 \in Version /\ disk[p].version + 1 \in Time
    BY <1>1, <1>2, ProbeAssumption DEF Replace, Version, Time
  <2>2. disk' \in [Path -> [version : Time, there : BOOLEAN]] /\ ThereHasVersion'
    BY <1>2, <2>1 DEF Replace, TypeOK, ThereHasVersion
  <2>3. QED
    BY <1>2, <2>2, BesidesRows DEF Replace, tables, TypeOK
<1>3. CASE Remove(p)
  <2>1. disk' \in [Path -> [version : Time, there : BOOLEAN]] /\ ThereHasVersion'
    BY <1>1, <1>3 DEF Remove, TypeOK, ThereHasVersion
  <2>2. QED
    BY <1>3, <2>1, BesidesRows DEF Remove, tables, TypeOK
<1>4. CASE Scan(p)
  <2> DEFINE t == IF disk[p].there THEN disk[p].version ELSE 0
  <2>1. t \in Time
    BY <1>1, ProbeAssumption DEF Time
  <2>2. refresh' = [refresh EXCEPT ![<<p, t>>].pc = "queued"]
    BY <1>4 DEF Scan
  <2> HIDE DEF t
  <2>3. refresh' \in [Path \X Time -> RefreshRun]
    BY <2>1, <2>2 DEF TypeOK, RefreshRun
  <2>4. QED
    BY <1>4, <2>3, BesidesRows DEF Scan, tables, TypeOK, ThereHasVersion
<1>5. CASE Sweep(p)
  <2>1. marked' \subseteq Path
    BY <1>5 DEF Sweep, TypeOK
  <2>2. QED
    BY <1>5, <2>1, BesidesRows DEF Sweep, TypeOK, ThereHasVersion
<1>6. QED
  BY <1>2, <1>3, <1>4, <1>5

-----------------------------------------------------------------------------
(* A probe moves while the tables and the files stay.  Taking a row must   *)
(* be shown to be taking it alone, and clearing streams to see them all.   *)
LEMMA ProbeMoved ==
    ASSUME IInv, NEW j \in Job, NEW run \in ProbeRun,
           probe' = [probe EXCEPT ![j] = run],
           UNCHANGED <<tables, disk, refresh>>, faults' \in 0 .. Faults,
           run.pc \notin {"idle", "queued"} => run.path \in Path,
           run.pc \in {"read", "found", "saving"} \cup Holding => run.version \in Version,
           run.pc \in Holding =>
               /\ rows[j[2]] # None
               /\ \A k \in Job : k[2] = j[2] /\ probe[k].pc \in Holding => k = j,
           run.pc = "cleared" => run.seen = streams[j[2]]
    PROVE  IInv'
<1> USE DEF IInv
<1>1. \A k \in Job : probe'[k] = IF k = j THEN run ELSE probe[k]
  BY DEF TypeOK
<1>2. TypeOK'
  BY DEF TypeOK, tables
<1>3. RunKnowsFile'
  BY <1>1 DEF RunKnowsFile
<1>4. RowHeld'
  BY <1>1 DEF RowHeld, tables
<1>5. ThereHasVersion' /\ OneReading'
  BY DEF ThereHasVersion, OneReading, tables
<1>6. QED
  BY <1>2, <1>3, <1>4, <1>5

(* A probe that ends or starts over holds nothing.                         *)
LEMMA ProbeLeaves ==
    ASSUME IInv, NEW j \in Job, NEW run \in ProbeRun, run.pc \in {"idle", "queued"},
           Moves(j, run), UNCHANGED <<tables, disk, refresh>>, faults' \in 0 .. Faults
    PROVE  IInv'
BY ProbeMoved DEF Moves, Holding

(* A scan that drops a row, and RefreshItem's other statements.            *)
LEMMA RefreshStepSound == ASSUME IInv, NEW p \in Path, RefreshStep(p) PROVE IInv'
<1> USE DEF IInv
<1>1. \A i \in RowsOf(p) : i \in Id
  BY DEF RowsOf
<1>2. NoRefresh \in RefreshRun /\ \A v \in Version : <<p, v>> \in Path \X Time
  BY ProbeAssumption DEF NoRefresh, RefreshRun, Version, Time
<1>3. \A j \in Job : j[2] \in Id
  BY DEF Job
<1>4. CASE DropRow(p)
  <2>1. rows' \in [Id -> Row \cup {None}] /\ streams' \in [Id -> SUBSET Version]
    BY <1>4 DEF DropRow, TypeOK
  <2>2. refresh' \in [Path \X Time -> RefreshRun]
    BY <1>2, <1>4 DEF DropRow, TypeOK
  <2>3. \A j \in Job : probe[j].pc \in Holding => j[2] \notin RowsOf(p)
    BY <1>4 DEF DropRow, Held, Holding
  <2>4. RowHeld'
    <3>1. \A i \in Id : i \notin RowsOf(p) => rows'[i] = rows[i] /\ streams'[i] = streams[i]
      BY <1>4 DEF DropRow
    <3>2. probe' = probe
      BY <1>4 DEF DropRow
    <3>3. QED
      BY <1>3, <2>3, <3>1, <3>2 DEF RowHeld, Holding
  <2>5. OneReading'
    BY <1>4 DEF DropRow, OneReading
  <2>6. QED
    BY <1>4, <2>1, <2>2, <2>4, <2>5 DEF DropRow, TypeOK, ThereHasVersion, RunKnowsFile
<1>5. ASSUME NEW v \in Version, SaveScanned(p, v) PROVE IInv'
  <2>1. marked' \subseteq Path /\ refresh' \in [Path \X Time -> RefreshRun]
    BY <1>5 DEF SaveScanned, TypeOK, RefreshRun
  <2>2. QED
    BY <1>5, <2>1, BesidesRows DEF SaveScanned, TypeOK, ThereHasVersion
<1>6. ASSUME NEW v \in Version, SaveSource(p, v) PROVE IInv'
  <2>1. UNCHANGED <<disk, streams, marked, probe, faults>>
    BY <1>6 DEF SaveSource
  <2>2. ASSUME NEW i \in Id, NEW row \in Row, rows' = [rows EXCEPT ![i] = row],
               rows[i] # None => row.probed = rows[i].probed,
               rows[i] = None => row.probed = None,
               refresh' = [refresh EXCEPT ![<<p, v>>] = [pc |-> "saved", row |-> i]]
        PROVE  IInv'
    <3>1. rows' \in [Id -> Row \cup {None}] /\ refresh' \in [Path \X Time -> RefreshRun]
      BY <2>2 DEF TypeOK, RefreshRun
    <3>2. \A k \in Id : rows'[k] = IF k = i THEN row ELSE rows[k]
      BY <2>2 DEF TypeOK
    <3>3. row # None
      BY ProbeAssumption, <2>2 DEF Row
    <3>4. RowHeld'
      BY <1>3, <2>1, <3>2, <3>3 DEF RowHeld
    <3>5. OneReading'
      BY <2>1, <2>2, <3>2, <3>3 DEF OneReading
    <3>6. QED
      BY <2>1, <3>1, <3>4, <3>5 DEF TypeOK, ThereHasVersion, RunKnowsFile
  <2>3. CASE \E i \in RowsOf(p) :
                /\ rows' = [rows EXCEPT ![i].modified = v]
                /\ refresh' = [refresh EXCEPT ![<<p, v>>] = [pc |-> "saved", row |-> i]]
    <3>1. PICK i \in RowsOf(p) :
             /\ rows' = [rows EXCEPT ![i].modified = v]
             /\ refresh' = [refresh EXCEPT ![<<p, v>>] = [pc |-> "saved", row |-> i]]
      BY <2>3
    <3>2. i \in Id /\ rows[i] # None /\ rows[i] \in Row
      BY DEF RowsOf, TypeOK
    <3>3. [rows[i] EXCEPT !.modified = v] \in Row
      BY <3>2 DEF Row
    <3>4. [rows[i] EXCEPT !.modified = v].probed = rows[i].probed
      BY <3>2 DEF Row
    <3>5. QED
      BY <2>2, <3>1, <3>2, <3>3, <3>4
  <2>4. CASE \E i \in Id :
                /\ Unused(i)
                /\ rows' = [rows EXCEPT ![i] = [path |-> p, modified |-> v, probed |-> None]]
                /\ refresh' = [refresh EXCEPT ![<<p, v>>] = [pc |-> "saved", row |-> i]]
    BY <2>2, <2>4 DEF Unused, Row
  <2>5. QED
    BY <1>6, <2>3, <2>4 DEF SaveSource
<1>7. ASSUME NEW v \in Version, EnqueueProbe(p, v) PROVE IInv'
  <2> DEFINE i == refresh[<<p, v>>].row
             j == <<"ProbeFile", i>>
             run == ProbeIn("queued", 0)
  <2>1. refresh' \in [Path \X Time -> RefreshRun] /\ UNCHANGED <<tables, disk, faults>>
    BY <1>2, <1>7 DEF EnqueueProbe, TypeOK, RefreshRun
  <2>2. probe' = probe \/ (probe' = [probe EXCEPT ![j] = run] /\ probe[j].pc = "idle")
    BY <1>7 DEF EnqueueProbe
  <2>3. run \in ProbeRun /\ run.pc = "queued"
    BY FreshRuns, ProbeAssumption
  <2>4. \A k \in Job : probe'[k] = probe[k] \/ probe'[k] = run
    BY <2>2 DEF TypeOK
  <2>5. probe' \in [Job -> ProbeRun]
    BY <2>2, <2>3 DEF TypeOK
  <2>6. TypeOK'
    BY <2>1, <2>5 DEF TypeOK, tables
  <2>7. RunKnowsFile' /\ RowHeld'
    BY <2>1, <2>3, <2>4 DEF RunKnowsFile, RowHeld, Holding, tables
  <2>8. QED
    BY <2>1, <2>6, <2>7 DEF ThereHasVersion, OneReading, tables
<1>8. QED
  BY <1>4, <1>5, <1>6, <1>7 DEF RefreshStep

-----------------------------------------------------------------------------
(* ProbeFiles lists the rows that need a probe while none of its runs is   *)
(* under way.                                                              *)
LEMMA ListFilesSound == IInv /\ ListFiles => IInv'
<1> SUFFICES ASSUME IInv, ListFiles PROVE IInv'
  OBVIOUS
<1> USE DEF IInv
<1>1. ProbeIn("queued", 0) \in ProbeRun /\ ProbeIn("queued", 0).pc = "queued"
  BY FreshRuns, ProbeAssumption
<1>2. \A j \in Job : probe'[j] = probe[j] \/ probe'[j] = ProbeIn("queued", 0)
  BY DEF ListFiles
<1>3. probe' \in [Job -> ProbeRun] /\ UNCHANGED <<tables, disk, refresh, faults>>
  BY <1>1 DEF ListFiles, TypeOK
<1>4. RunKnowsFile' /\ RowHeld'
  BY <1>1, <1>2, <1>3 DEF RunKnowsFile, RowHeld, Holding, tables
<1>5. QED
  BY <1>3, <1>4 DEF TypeOK, ThereHasVersion, OneReading, tables

(* The statements of ProbeSource.                                          *)
LEMMA ProbeStepSound == ASSUME IInv, NEW j \in Job, ProbeStep(j) PROVE IInv'
<1> USE DEF IInv
<1>1. /\ probe[j] \in ProbeRun
      /\ j[2] \in Id
      /\ faults \in 0 .. Faults
  BY DEF TypeOK, Job
<1>2. ProbeIn("idle", 0) \in ProbeRun /\ ProbeIn("idle", 0).pc = "idle"
  BY FreshRuns, ProbeAssumption
<1>3. ASSUME Ends(j), UNCHANGED <<tables, disk, refresh, faults>> PROVE IInv'
  BY <1>1, <1>2, <1>3, ProbeLeaves DEF Ends
<1>4. CASE LookUp(j)
  <2>1. CASE rows[j[2]] # None /\ NeedsProbe(rows[j[2]])
    <3> DEFINE run == [probe[j] EXCEPT !.pc = "looked", !.path = rows[j[2]].path]
    <3>1. rows[j[2]].path \in Path
      BY <1>1, <2>1 DEF TypeOK, Row
    <3>2. run \in ProbeRun /\ run.pc = "looked" /\ run.path \in Path
      BY <1>1, <3>1 DEF ProbeRun
    <3>3. probe' = [probe EXCEPT ![j] = run] /\ UNCHANGED <<tables, disk, refresh, faults>>
      BY <1>4, <2>1 DEF LookUp, Moves
    <3>4. QED
      BY <1>1, <3>2, <3>3, ProbeMoved DEF Holding
  <2>2. QED
    BY <1>3, <1>4, <2>1 DEF LookUp
<1>5. CASE ReadFile(j)
  <2> DEFINE run == [probe[j] EXCEPT !.pc = "read", !.version = disk[probe[j].path].version]
  <2>1. probe[j].path \in Path /\ disk[probe[j].path].version \in Version
    BY <1>5 DEF ReadFile, RunKnowsFile, ThereHasVersion
  <2>2. run \in ProbeRun /\ run.pc = "read" /\ run.path \in Path /\ run.version \in Version
    BY <1>1, <2>1 DEF ProbeRun
  <2>3. probe' = [probe EXCEPT ![j] = run] /\ UNCHANGED <<tables, disk, refresh, faults>>
    BY <1>5 DEF ReadFile, Moves
  <2>4. QED
    BY <1>1, <2>2, <2>3, ProbeMoved DEF Holding
<1>6. CASE FindItem(j)
  <2>1. CASE probe[j].path \in marked
    BY <1>3, <1>6, <2>1 DEF FindItem
  <2>2. CASE probe[j].path \notin marked
    <3> DEFINE run == [probe[j] EXCEPT !.pc = "found"]
    <3>1. run \in ProbeRun /\ run.pc = "found" /\ run.path \in Path /\ run.version \in Version
      BY <1>1, <1>6 DEF FindItem, ProbeRun, RunKnowsFile
    <3>2. probe' = [probe EXCEPT ![j] = run] /\ UNCHANGED <<tables, disk, refresh, faults>>
      BY <1>6, <2>2 DEF FindItem, Moves
    <3>3. QED
      BY <1>1, <3>1, <3>2, ProbeMoved DEF Holding
  <2>3. QED
    BY <2>1, <2>2
<1>7. CASE BeginSave(j)
  <2> DEFINE run == [probe[j] EXCEPT !.pc = "saving", !.at = disk[probe[j].path].version]
  <2>1. probe[j].path \in Path /\ probe[j].version \in Version
    BY <1>7 DEF BeginSave, RunKnowsFile
  <2>2. disk[probe[j].path].version \in Time
    BY <2>1 DEF TypeOK
  <2>3. run \in ProbeRun /\ run.pc = "saving" /\ run.path \in Path /\ run.version \in Version
    BY <1>1, <2>1, <2>2 DEF ProbeRun
  <2>4. probe' = [probe EXCEPT ![j] = run] /\ UNCHANGED <<tables, disk, refresh, faults>>
    BY <1>7 DEF BeginSave, Moves
  <2>5. QED
    BY <1>1, <2>3, <2>4, ProbeMoved DEF Holding
<1>8. CASE UpdateRow(j)
  <2>1. CASE rows[j[2]] = None
    BY <1>3, <1>8, <2>1 DEF UpdateRow
  <2>2. CASE rows[j[2]] # None
    <3> DEFINE run == [probe[j] EXCEPT !.pc = "locked"]
    <3>1. run \in ProbeRun /\ run.pc = "locked" /\ run.path \in Path /\ run.version \in Version
      BY <1>1, <1>8 DEF UpdateRow, ProbeRun, RunKnowsFile
    <3>2. probe' = [probe EXCEPT ![j] = run] /\ UNCHANGED <<tables, disk, refresh, faults>>
      BY <1>8, <2>2 DEF UpdateRow, Moves
    <3>3. \A k \in Job : k[2] = j[2] => probe[k].pc \notin Holding
      BY <1>8 DEF UpdateRow, Held, Holding
    <3>4. QED
      BY <1>1, <2>2, <3>1, <3>2, <3>3, ProbeMoved
  <2>3. QED
    BY <2>1, <2>2
<1>9. CASE ClearStreams(j)
  <2> DEFINE run == [probe[j] EXCEPT !.pc = "cleared", !.seen = streams[j[2]]]
  <2>1. probe[j].pc = "locked" /\ streams[j[2]] \in SUBSET Version
    BY <1>1, <1>9 DEF ClearStreams, TypeOK
  <2>2. /\ run \in ProbeRun /\ run.pc = "cleared" /\ run.path \in Path
        /\ run.version \in Version /\ run.seen = streams[j[2]]
    BY <1>1, <2>1 DEF ProbeRun, RunKnowsFile, Holding
  <2>3. probe' = [probe EXCEPT ![j] = run] /\ UNCHANGED <<tables, disk, refresh, faults>>
    BY <1>9 DEF ClearStreams, Moves
  <2>4. /\ rows[j[2]] # None
        /\ \A k \in Job : k[2] = j[2] /\ probe[k].pc \in Holding => k = j
    BY <2>1 DEF RowHeld, Holding
  <2>5. QED
    BY <1>1, <2>2, <2>3, <2>4, ProbeMoved
<1>10. CASE Commit(j)
  <2> DEFINE i == j[2]
             v == probe[j].version
             row == [rows[i] EXCEPT !.probed = probe[j].at]
  <2>1. /\ probe[j].pc = "cleared" /\ v \in Version
        /\ rows[i] # None /\ probe[j].seen = streams[i]
        /\ probe[j].at \in Time
    BY <1>1, <1>10 DEF Commit, RunKnowsFile, RowHeld, Holding, ProbeRun
  <2>2. rows[i] \in Row
    BY <1>1, <2>1 DEF TypeOK
  <2>3. row \in Row /\ row.probed = probe[j].at /\ row # None /\ probe[j].at # None
    BY <2>1, <2>2, ProbeAssumption DEF Row, Time
  <2>4. \A k \in Id : rows'[k] = IF k = i THEN row ELSE rows[k]
    BY <1>10 DEF Commit, TypeOK
  <2>5. \A k \in Id : streams'[k] = IF k = i THEN {v} ELSE streams[k]
    BY <1>10, <2>1 DEF Commit, TypeOK
  <2>6. \A k \in Job : probe'[k] = IF k = j THEN ProbeIn("idle", 0) ELSE probe[k]
    BY <1>10 DEF Commit, Ends, Moves, TypeOK
  <2>7. UNCHANGED <<marked, disk, refresh, faults>>
    BY <1>10 DEF Commit
  <2>8. rows' \in [Id -> Row \cup {None}] /\ streams' \in [Id -> SUBSET Version]
    BY <1>10, <2>1, <2>3, <2>4, <2>5 DEF Commit, TypeOK
  <2>9. probe' \in [Job -> ProbeRun]
    BY <1>2, <1>10 DEF Commit, Ends, Moves, TypeOK
  <2>10. TypeOK' /\ ThereHasVersion'
    BY <2>7, <2>8, <2>9 DEF TypeOK, ThereHasVersion
  <2>11. RunKnowsFile'
    BY <1>2, <2>6 DEF RunKnowsFile, Holding
  <2>12. \A k \in Job : probe'[k].pc \in Holding => k # j /\ k[2] # i /\ probe'[k] = probe[k]
    BY <1>2, <2>1, <2>6 DEF RowHeld, Holding
  <2>13. RowHeld'
    BY <2>4, <2>5, <2>12 DEF RowHeld, Holding, Job
  <2>14. OneReading'
    <3>1. row.probed # None
      BY <2>3
    <3> HIDE DEF row, v
    <3>2. ASSUME NEW k \in Id
          PROVE  IF rows'[k] = None \/ rows'[k].probed = None THEN streams'[k] = {}
                 ELSE \E u \in Version : streams'[k] = {u}
      <4>1. CASE k = i
        BY <2>1, <2>3, <2>4, <2>5, <3>1, <4>1
      <4>2. CASE k # i
        BY <2>4, <2>5, <4>2 DEF OneReading
      <4>3. QED
        BY <4>1, <4>2
    <3>3. QED
      BY <3>2 DEF OneReading
  <2>15. QED
    BY <2>10, <2>11, <2>13, <2>14
<1>11. QED
  BY <1>4, <1>5, <1>6, <1>7, <1>8, <1>9, <1>10 DEF ProbeStep

(* A lost enqueue ends a run of RefreshItem.                               *)
LEMMA LossSound ==
    ASSUME IInv, NEW p \in Path, NEW v \in Version, EnqueueLost(p, v) PROVE IInv'
<1> USE DEF IInv
<1>1. NoRefresh \in RefreshRun
  BY DEF NoRefresh, RefreshRun
<1>2. /\ refresh' \in [Path \X Time -> RefreshRun]
      /\ faults' \in 0 .. Faults
  <2>1. refresh' \in [Path \X Time -> RefreshRun]
    BY <1>1 DEF EnqueueLost, TypeOK
  <2>2. faults' \in 0 .. Faults
    BY ProbeAssumption DEF EnqueueLost, TypeOK
  <2>3. QED
    BY <2>1, <2>2
<1>3. UNCHANGED <<tables, disk, probe>>
  BY DEF EnqueueLost
<1>4. QED
  BY <1>2, <1>3 DEF TypeOK, ThereHasVersion, RunKnowsFile, RowHeld, OneReading, tables

(* Failed attempts.                                                        *)
LEMMA FailuresSound ==
    ASSUME IInv, NEW j \in Job, ReadFails(j) \/ ProbeFails(j) PROVE IInv'
<1>1. AfterFailure(j) \in ProbeRun /\ AfterFailure(j).pc \in {"idle", "queued"}
  BY FailedRuns
<1>2. faults' \in 0 .. Faults /\ Moves(j, AfterFailure(j)) /\ UNCHANGED <<tables, disk, refresh>>
  BY ProbeAssumption DEF ReadFails, ProbeFails, IInv, TypeOK
<1>3. QED
  BY <1>1, <1>2, ProbeLeaves

(* Every step of every run keeps the inductive invariant.                  *)
LEMMA StepSound == IInv /\ [Next]_vars => IInv'
<1>1. IInv /\ UNCHANGED vars => IInv'
  BY DEF vars, tables, IInv, TypeOK, ThereHasVersion, RunKnowsFile, RowHeld, OneReading
<1>2. QED
  BY <1>1, WorldSound, ListFilesSound, RefreshStepSound, ProbeStepSound, FailuresSound,
     LossSound
     DEF Next, Works

-----------------------------------------------------------------------------
(* Rows, probes and files keep their types: no run of a job exceeds its    *)
(* attempts, no row is dated with a version that never was.                *)
THEOREM ProbeTypeCorrect == Spec => []TypeOK
<1>1. IInv => TypeOK
  BY DEF IInv
<1>2. QED
  BY <1>1, InitSound, StepSound, PTL DEF Spec

(* The streams of a row come from one run of ffprobe, and are there        *)
(* exactly when the row says it was probed, although ProbeFile and         *)
(* ProbeFiles may save to it at once while scans move and drop it: the     *)
(* update of the row, first in the transaction, is what they wait at.      *)
THEOREM StreamsOfOneReading == Spec => []OneReading
<1>1. IInv => OneReading
  BY DEF IInv
<1>2. QED
  BY <1>1, InitSound, StepSound, PTL DEF Spec
=============================================================================
