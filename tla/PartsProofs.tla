----------------------------- MODULE PartsProofs -----------------------------
(***************************************************************************)
(* What is kept of titles: that the marks a user has put on one, what is   *)
(* locked of it, and its places in libraries outlast everyone else who     *)
(* writes, for any titles, devices, editors and libraries.  What is proved *)
(* of jobs wherever they are, of the jobs of Parts.  And that what all the *)
(* parts keep has its types, from the invariants of each.                  *)
(***************************************************************************)
EXTENDS SignInProofs, SourcesProofs

-----------------------------------------------------------------------------
(* User data.                                                              *)

\* What devices do is what UserData says.
LEMMA UserDataMoves == PartsSpec => U!Spec
<1>1. PartsInit => U!Init
  BY DEF PartsInit
<1>2. [PartsNext]_partsVars => [U!Next]_(U!vars)
  BY DEF PartsNext, SignsIn, RunsJobs, Identifies, Plays, Configures, Rearranges,
         partsVars, userDataVars, U!vars
<1>3. QED
  BY <1>1, <1>2, PTL DEF PartsSpec, U!Spec

\* A request that no save has overtaken has read the row there is.
MarksInv ==
  /\ U!TypeOK
  /\ \A d \in Device : udRequests[d] # None /\ ~udRequests[d].overtaken =>
       udRequests[d].read = udDatum

Plain == [played: BOOLEAN, count: Nat, favorite: BOOLEAN, position: Positions \cup {0}]

\* What a request takes back of a row only if it is one to do that.
Keeps(read, after, request) ==
  /\ read.played /\ ~after.played => U!Unplays(request)
  /\ read.favorite # after.favorite => U!SetsFavorite(request)
  /\ after.count < read.count => U!SetsCount(request)

(* What a handler makes of a row: it takes a mark back only if it is asked *)
(* to, and lowers the count only if it is given one.                       *)
LEMMA ChangedKeeps ==
    ASSUME U!Parameters, NEW read \in U!Datum, NEW request \in Reports,
           NEW runTime \in RunTimes, NEW after, after = U!Changed(read, request, runTime)
    PROVE  after \in Plain /\ Keeps(read, after, request)
<1>1. read \in Plain /\ read.count \in Nat /\ read.count + 1 \in Nat
      /\ ~(read.count < read.count) /\ ~(read.count + 1 < read.count)
  BY DEF U!Datum, U!Parameters, Plain
<1>2. PICK more \in Nat : more = read.count + 1
  BY <1>1
<1>3. request \in U!Request
  BY DEF U!Parameters
<1>4. CASE request \in [kind: {"progress", "stop"}, position: Positions]
  <2>1. /\ request.position \in Positions /\ request.kind \in {"progress", "stop"}
    BY <1>4
  <2>2. CASE after = [read EXCEPT !.position = request.position]
    BY <1>1, <2>1, <2>2 DEF Plain, Keeps
  <2>3. CASE after = [read EXCEPT !.played = TRUE, !.count = more, !.position = 0]
    BY <1>1, <1>2, <2>1, <2>3 DEF Plain, Keeps
  <2>4. QED
    BY <1>2, <2>1, <2>2, <2>3 DEF U!Changed, U!Stopped
<1>5. CASE request \in [kind: {"favorite", "played"}, value: BOOLEAN]
  <2>1. request.value \in BOOLEAN /\ request.kind \in {"favorite", "played"}
    BY <1>5
  <2>2. CASE request.kind = "favorite"
    <3>1. after = [read EXCEPT !.favorite = request.value]
      BY <2>2 DEF U!Changed
    <3>2. QED
      BY <1>1, <2>1, <2>2, <3>1 DEF Plain, Keeps, U!SetsFavorite
  <2>3. CASE request.kind = "played"
    <3>1. PICK count \in Nat :
            /\ ~(count < read.count)
            /\ after = [read EXCEPT !.played = request.value, !.position = 0, !.count = count]
      BY <1>1, <1>2, <2>3 DEF U!Changed, U!Marked
    <3>2. after \in Plain
      BY <1>1, <2>1, <3>1 DEF Plain
    <3>3. after.count = count /\ after.favorite = read.favorite
      BY <1>1, <3>1 DEF Plain
    <3>4. after.played = request.value
      BY <1>1, <3>1 DEF Plain
    <3>5. QED
      BY <2>1, <2>3, <3>1, <3>2, <3>3, <3>4 DEF Keeps, U!Unplays
  <2>4. QED
    BY <2>1, <2>2, <2>3
<1>6. CASE request \in U!Update
  <2>1. /\ request.kind = "update" /\ request.played \in BOOLEAN \cup {None}
        /\ request.favorite \in BOOLEAN \cup {None}
        /\ request.count \in 0..Counts \cup {None}
        /\ request.position \in Positions \cup {None}
    BY <1>6 DEF U!Update
  <2>2. PICK played \in BOOLEAN, favorite \in BOOLEAN :
          /\ played = U!Set(request.played, read.played)
          /\ favorite = U!Set(request.favorite, read.favorite)
    BY <1>1, <2>1 DEF U!Set, Plain
  <2>3. PICK count \in Nat, position \in Positions \cup {0} :
          /\ count = U!Set(request.count, read.count)
          /\ position = U!Set(request.position, read.position)
    <3>1. U!Set(request.count, read.count) \in Nat
      <4>1. \A n \in 0..Counts : n \in Nat
        BY DEF U!Parameters
      <4>2. QED
        BY <1>1, <2>1, <4>1 DEF U!Set
    <3>2. U!Set(request.position, read.position) \in Positions \cup {0}
      BY <1>1, <2>1 DEF U!Set, Plain
    <3>3. QED
      BY <3>1, <3>2
  <2>4. after = [played |-> played, count |-> count, favorite |-> favorite,
                 position |-> position]
    BY <2>1, <2>2, <2>3 DEF U!Changed
  <2>5. read.played /\ ~played => U!Unplays(request)
    BY <2>1, <2>2 DEF U!Set, U!Unplays
  <2>6. read.favorite # favorite => U!SetsFavorite(request)
    BY <2>1, <2>2 DEF U!Set, U!SetsFavorite
  <2>7. count < read.count => U!SetsCount(request)
    BY <1>1, <2>1, <2>3 DEF U!Set, U!SetsCount
  <2>8. QED
    BY <2>4, <2>5, <2>6, <2>7 DEF Plain, Keeps
<1>7. QED
  BY <1>3, <1>4, <1>5, <1>6 DEF U!Request

(* A save makes stale what the other devices have read, and marks them.    *)
LEMMA SaveSound ==
    ASSUME U!Parameters, MarksInv, NEW d \in Device, U!Save(d)
    PROVE  MarksInv'
<1>1. PICK runTime \in RunTimes :
        udDatum' = U!Changed(udRequests[d].read, udRequests[d].request, runTime)
  BY DEF U!Save
<1>2. /\ udRequests[d].read \in U!Datum /\ udRequests[d].request \in Reports
  BY DEF U!Save, MarksInv, U!TypeOK
<1>3. udDatum' \in Plain /\ udDatum'.count <= Counts
  BY <1>1, <1>2, ChangedKeeps DEF U!Save
<1>4. udDatum' \in U!Datum
  BY <1>3 DEF Plain, U!Datum, U!Parameters
<1> DEFINE Under == [request: Reports, read: U!Datum, overtaken: BOOLEAN]
<1>5. ASSUME NEW e \in Device
      PROVE  /\ udRequests'[e] \in {None} \cup Under
             /\ udRequests'[e] # None => udRequests'[e].overtaken
  <2>1. CASE e # d /\ udRequests[e] # None
    <3>1. udRequests[e] \in Under
      BY <2>1 DEF MarksInv, U!TypeOK
    <3>2. udRequests'[e] = [udRequests[e] EXCEPT !.overtaken = TRUE]
      BY <2>1 DEF U!Save
    <3>3. QED
      BY <3>1, <3>2
  <2>2. CASE e = d \/ udRequests[e] = None
    BY <2>2 DEF U!Save
  <2>3. QED
    BY <2>1, <2>2
<1>6. udRequests' \in [Device -> {None} \cup Under]
  BY <1>5 DEF U!Save
<1>7. QED
  BY <1>4, <1>5, <1>6 DEF MarksInv, U!TypeOK

LEMMA MarksStep ==
    ASSUME U!Parameters, MarksInv, [U!Next]_(U!vars)
    PROVE  MarksInv'
<1> DEFINE Under == [request: Reports, read: U!Datum, overtaken: BOOLEAN]
<1>1. ASSUME NEW d \in Device, U!Read(d) PROVE MarksInv'
  <2>1. PICK request \in Reports :
          udRequests' = [udRequests EXCEPT ![d] = [request |-> request, read |-> udDatum,
                                                   overtaken |-> FALSE]]
    BY <1>1 DEF U!Read
  <2> DEFINE new == [request |-> request, read |-> udDatum, overtaken |-> FALSE]
  <2>2. new \in Under /\ new.read = udDatum
    BY DEF MarksInv, U!TypeOK
  <2> HIDE DEF new
  <2>3. udRequests' = [udRequests EXCEPT ![d] = new] /\ UNCHANGED udDatum
    BY <1>1, <2>1 DEF U!Read, new
  <2>4. QED
    BY <2>2, <2>3 DEF MarksInv, U!TypeOK
<1>2. ASSUME NEW d \in Device, U!Fails(d) PROVE MarksInv'
  BY <1>2 DEF U!Fails, MarksInv, U!TypeOK
<1>3. CASE UNCHANGED U!vars
  BY <1>3 DEF U!vars, MarksInv, U!TypeOK
<1>4. QED
  BY <1>1, <1>2, <1>3, SaveSound DEF U!Next

LEMMA MarksInvariant == PartsSpec => []MarksInv
<1>1. U!Parameters
  BY PartsAssumption DEF PartsAssumption
<1>2. U!Init => MarksInv
  BY <1>1 DEF U!Init, MarksInv, U!TypeOK, U!Datum, U!Parameters
<1>3. MarksInv /\ [U!Next]_(U!vars) => MarksInv'
  BY <1>1, MarksStep
<1>4. QED
  BY <1>2, <1>3, UserDataMoves, PTL DEF U!Spec

(* A title stays played until a request unplays it, a favourite or not     *)
(* until one sets that, and its count falls only by one that sets it, or   *)
(* by a save of a row that another has saved since it was read (the        *)
(* handlers of user data write the row whole).                             *)
THEOREM MarksOutlastReports == PartsSpec => MarksKept
<1>1. U!Parameters
  BY PartsAssumption DEF PartsAssumption
<1> DEFINE SameMarks ==
      /\ udDatum.played /\ ~udDatum'.played => U!UnplayedNow
      /\ udDatum.favorite # udDatum'.favorite => U!FavoriteNow
      /\ udDatum'.count < udDatum.count => U!CountedNow
<1>2. ASSUME MarksInv, NEW d \in Device, U!Save(d) PROVE SameMarks
  <2>1. U!Saved(d)
    BY <1>2 DEF U!Save, U!Saved
  <2>2. CASE udRequests[d].overtaken
    BY <2>1, <2>2 DEF U!UnplayedNow, U!FavoriteNow, U!CountedNow
  <2>3. CASE ~udRequests[d].overtaken
    <3>1. udRequests[d].read = udDatum /\ udRequests[d].request \in Reports
          /\ udDatum \in U!Datum
      BY <2>1, <2>3, <1>2 DEF MarksInv, U!TypeOK, U!Saved
    <3>2. PICK runTime \in RunTimes :
            udDatum' = U!Changed(udDatum, udRequests[d].request, runTime)
      BY <1>2, <3>1 DEF U!Save
    <3>3. Keeps(udDatum, udDatum', udRequests[d].request)
      BY <1>1, <3>1, <3>2, ChangedKeeps
    <3>4. QED
      BY <2>1, <3>3 DEF Keeps, U!UnplayedNow, U!FavoriteNow, U!CountedNow
  <2>4. QED
    BY <2>2, <2>3
<1>3. ASSUME MarksInv, UNCHANGED udDatum PROVE SameMarks
  <2>1. udDatum.count \in Nat
    BY <1>1, <1>3 DEF MarksInv, U!TypeOK, U!Datum, U!Parameters
  <2>2. QED
    BY <1>3, <2>1
<1>4. MarksInv /\ [U!Next]_(U!vars) => [SameMarks]_(U!vars)
  BY <1>2, <1>3 DEF U!Next, U!Read, U!Fails
<1>5. QED
  BY <1>4, MarksInvariant, UserDataMoves, PTL DEF U!Spec, MarksKept, U!MarksKept

-----------------------------------------------------------------------------
(* Metadata.                                                               *)

\* What scans, identifications and editors do is what Metadata says.
LEMMA MetadataMoves == PartsSpec => M!Spec
<1>1. PartsInit => M!Init
  BY DEF PartsInit
<1>2. [PartsNext]_partsVars => [M!Next]_(M!vars)
  BY DEF PartsNext, SignsIn, RunsJobs, Identifies, Plays, Configures, Rearranges,
         partsVars, metadataVars, M!vars
<1>3. QED
  BY <1>1, <1>2, PTL DEF PartsSpec, M!Spec

\* A run that no edit has crossed knows the locks there are. One that has written the
\* ids is not at rest with all done before the rest is written. What is queued has an
\* attempt left.
Identified(row, run) ==
  /\ run.pc \in {"fetch", "row"} /\ ~run.crossed => run.locked = row.locked
  /\ row.ids = "found" /\ row.named # "found" => run.pc # "none"
  /\ run.pc = "queued" => run.tries < Attempts

MetadataInv ==
  /\ M!TypeOK
  /\ \A i \in Film : Identified(meRows[i], meRuns[i])

OtherPartsTyped ==
  /\ meScans \in [Film -> {"idle", "read", "enqueue"}]
  /\ meMarked \subseteq Film /\ meBatch \subseteq Film
  /\ meEdits \in [Editor -> [item: Film, read: M!Row, request: Edits] \cup {None}]
  /\ meSpent \in 0..EditLimit

(* A step at one title, that leaves it as it should be.                    *)
LEMMA OneTitle ==
    ASSUME MetadataInv, NEW i \in Film, NEW row \in M!Row, NEW run \in M!Run,
           meRows' = [meRows EXCEPT ![i] = row], meRuns' = [meRuns EXCEPT ![i] = run],
           Identified(row, run), OtherPartsTyped'
    PROVE  MetadataInv'
<1>1. M!TypeOK'
  BY DEF MetadataInv, M!TypeOK, OtherPartsTyped
<1>2. \A j \in Film : Identified(meRows'[j], meRuns'[j])
  BY DEF MetadataInv, M!TypeOK
<1>3. QED
  BY <1>1, <1>2 DEF MetadataInv, Identified

(* The same of a run alone.                                                *)
LEMMA OneRun ==
    ASSUME MetadataInv, NEW i \in Film, NEW run \in M!Run,
           UNCHANGED meRows, meRuns' = [meRuns EXCEPT ![i] = run],
           Identified(meRows[i], run), OtherPartsTyped'
    PROVE  MetadataInv'
<1>1. M!TypeOK'
  BY DEF MetadataInv, M!TypeOK, OtherPartsTyped
<1>2. \A j \in Film : Identified(meRows'[j], meRuns'[j])
  BY DEF MetadataInv, M!TypeOK
<1>3. QED
  BY <1>1, <1>2 DEF MetadataInv, Identified

(* What touches neither rows nor runs.                                     *)
LEMMA NoTitle ==
    ASSUME MetadataInv, UNCHANGED <<meRows, meRuns>>, OtherPartsTyped'
    PROVE  MetadataInv'
<1>1. \A j \in Film : Identified(meRows'[j], meRuns'[j])
  BY DEF MetadataInv
<1>2. QED
  BY <1>1 DEF MetadataInv, M!TypeOK, OtherPartsTyped, Identified

(* Scans and batches: what they write is no lock and no id, and what they  *)
(* enqueue is a run from its start.                                        *)
LEMMA ScansSound ==
    ASSUME M!Parameters, MetadataInv, NEW i \in Film,
           \/ M!Mark(i) \/ M!SaveScanned(i) \/ M!ReadBack(i) \/ M!ScanFails(i)
           \/ M!ScanEnqueues(i) \/ M!BatchEnqueues(i) \/ M!EnqueueFails(i)
    PROVE  MetadataInv'
<1> USE DEF M!Parameters
<1>1. meRows[i] \in M!Row /\ meRuns[i] \in M!Run /\ Identified(meRows[i], meRuns[i])
      /\ OtherPartsTyped
  BY DEF MetadataInv, M!TypeOK, OtherPartsTyped
<1>2. CASE M!SaveScanned(i)
  <2>1. OtherPartsTyped'
    BY <1>1, <1>2 DEF M!SaveScanned, OtherPartsTyped
  <2>2. CASE M!Unclaimed(meRows[i])
    <3> DEFINE row == meRows[i]
               named == [row EXCEPT !.values["name"] = "scan"]
               after == [named EXCEPT !.values["year"] = "scan"]
    <3>1. meRows' = [[meRows EXCEPT ![i] = named] EXCEPT ![i] = after]
      BY <1>1, <1>2, <2>2 DEF M!SaveScanned, MetadataInv, M!TypeOK
    <3>2. meRows' = [meRows EXCEPT ![i] = after]
      BY <3>1 DEF MetadataInv, M!TypeOK
    <3>3. after \in M!Row /\ after.ids = row.ids /\ after.named = row.named
          /\ after.locked = row.locked
      <4>1. named \in M!Row /\ named.ids = row.ids /\ named.named = row.named
            /\ named.locked = row.locked
        BY <1>1 DEF M!Row
      <4> HIDE DEF named
      <4>2. QED
        BY <4>1 DEF M!Row
    <3>4. Identified(after, meRuns[i])
      BY <1>1, <3>3 DEF Identified
    <3>5. meRuns' = [meRuns EXCEPT ![i] = meRuns[i]]
      BY <1>2 DEF M!SaveScanned, MetadataInv, M!TypeOK
    <3> HIDE DEF after
    <3>6. QED
      BY <1>1, <2>1, <3>2, <3>3, <3>4, <3>5, OneTitle
  <2>3. CASE ~M!Unclaimed(meRows[i])
    BY <1>2, <2>1, <2>3, NoTitle DEF M!SaveScanned
  <2>4. QED
    BY <2>2, <2>3
<1>3. CASE M!Mark(i) \/ M!ReadBack(i) \/ M!ScanFails(i)
  BY <1>1, <1>3, NoTitle DEF M!Mark, M!ReadBack, M!ScanFails, OtherPartsTyped
<1>4. CASE M!ScanEnqueues(i) \/ M!BatchEnqueues(i)
  <2>1. OtherPartsTyped' /\ UNCHANGED meRows /\ meRuns' = M!Enqueued(i)
    BY <1>1, <1>4 DEF M!ScanEnqueues, M!BatchEnqueues, OtherPartsTyped
  <2>2. CASE M!Running(i)
    BY <2>1, <2>2, NoTitle DEF M!Enqueued
  <2>3. CASE ~M!Running(i)
    <3> PICK zero \in 0..Attempts : zero = 0
      OBVIOUS
    <3> DEFINE after == [meRuns[i] EXCEPT !.pc = "queued", !.tries = zero]
    <3>1. meRuns' = [meRuns EXCEPT ![i] = after]
      BY <2>1, <2>3 DEF M!Enqueued, MetadataInv, M!TypeOK
    <3>2. after \in M!Run /\ after.pc = "queued" /\ after.tries = 0
      BY <1>1 DEF M!Run
    <3>3. Identified(meRows[i], after)
      BY <1>1, <3>2 DEF Identified
    <3> HIDE DEF after
    <3>4. QED
      BY <2>1, <3>1, <3>2, <3>3, OneRun
  <2>4. QED
    BY <2>2, <2>3
<1>5. CASE M!EnqueueFails(i)
  BY <1>1, <1>5, NoTitle DEF M!EnqueueFails, M!Spends, OtherPartsTyped
<1>6. QED
  BY <1>2, <1>3, <1>4, <1>5

(* Identification: the locks that it reads are those there are, and what   *)
(* it writes first it is still at.                                         *)
LEMMA IdentifiesSound ==
    ASSUME M!Parameters, MetadataInv, NEW i \in Film,
           \/ M!ReadItem(i) \/ M!ReadMarked(i) \/ M!Matches(i) \/ M!MatchesNothing(i)
           \/ M!IdentifyFails(i)
    PROVE  MetadataInv'
<1>1. meRows[i] \in M!Row /\ meRuns[i] \in M!Run /\ Identified(meRows[i], meRuns[i])
      /\ OtherPartsTyped
  BY DEF MetadataInv, M!TypeOK, OtherPartsTyped
<1>2. OtherPartsTyped' /\ UNCHANGED meRows
  BY <1>1 DEF M!ReadItem, M!ReadMarked, M!Matches, M!MatchesNothing, M!IdentifyFails,
     M!Spends, OtherPartsTyped, M!Parameters
<1>3. meRows[i].locked \in SUBSET M!Lock
  BY <1>1 DEF M!Row
<1>4. ASSUME NEW pc \in {"queued", "row", "missed", "failed"},
             meRuns' = [meRuns EXCEPT ![i].pc = pc],
             pc = "queued" => meRuns[i].tries < Attempts,
             pc = "row" => meRuns[i].pc = "fetch"
      PROVE  MetadataInv'
  <2> DEFINE after == [meRuns[i] EXCEPT !.pc = pc]
  <2>1. /\ after \in M!Run /\ after.pc = pc /\ after.tries = meRuns[i].tries
        /\ after.locked = meRuns[i].locked /\ after.crossed = meRuns[i].crossed
    BY <1>1 DEF M!Run
  <2>2. meRuns' = [meRuns EXCEPT ![i] = after]
    BY <1>4
  <2> HIDE DEF after
  <2>3. Identified(meRows[i], after)
    BY <1>1, <1>4, <2>1 DEF Identified
  <2>4. QED
    BY <1>2, <2>1, <2>2, <2>3, OneRun
<1>5. CASE M!ReadItem(i)
  <2>1. meRuns[i].tries \in 0..Attempts /\ meRuns[i].tries < Attempts
    BY <1>1, <1>5 DEF M!ReadItem, Identified, M!Run
  <2>2. PICK n \in 0..Attempts : n = meRuns[i].tries + 1
    BY <2>1 DEF M!Parameters
  <2> DEFINE after == [meRuns[i] EXCEPT !.pc = "fetch", !.tries = n,
                                        !.locked = meRows[i].locked, !.crossed = FALSE]
  <2>3. meRuns' = [meRuns EXCEPT ![i] = after]
    BY <1>5, <2>2 DEF M!ReadItem, MetadataInv, M!TypeOK, M!Run
  <2>4. after \in M!Run /\ after.pc = "fetch" /\ after.locked = meRows[i].locked
    BY <1>1, <1>3 DEF M!Run
  <2> HIDE DEF after
  <2>5. Identified(meRows[i], after)
    BY <1>1, <2>4 DEF Identified
  <2>6. QED
    BY <1>2, <2>3, <2>4, <2>5, OneRun
<1>6. CASE M!ReadMarked(i) \/ M!MatchesNothing(i)
  <2>1. meRuns' = [meRuns EXCEPT ![i].pc = "missed"]
    BY <1>6 DEF M!ReadMarked, M!MatchesNothing
  <2>2. QED
    BY <1>4, <2>1
<1>7. CASE M!Matches(i)
  <2>1. meRuns' = [meRuns EXCEPT ![i].pc = "row"] /\ meRuns[i].pc = "fetch"
    BY <1>7 DEF M!Matches
  <2>2. QED
    BY <1>4, <2>1
<1>8. CASE M!IdentifyFails(i)
  <2>1. PICK pc \in {"queued", "failed"} :
          /\ meRuns' = [meRuns EXCEPT ![i].pc = pc]
          /\ pc = "queued" => meRuns[i].tries < Attempts
    BY <1>8 DEF M!IdentifyFails
  <2>2. QED
    BY <1>4, <2>1
<1>9. QED
  BY <1>5, <1>6, <1>7, <1>8

(* What the first statement of UpdateMetadata writes: the ids, and values  *)
(* but for those whose lock the run has read.                              *)
LEMMA RowUpdated ==
    ASSUME M!Parameters, MetadataInv, NEW i \in Film, M!UpdateRow(i)
    PROVE  LET row == meRows[i]
               after == [row EXCEPT !.ids = "found",
                                    !.values = [f \in M!Field |->
                                      IF f \in M!Stripped(meRuns[i].locked)
                                      THEN row.values[f] ELSE "found"]]
           IN /\ meRows' = [meRows EXCEPT ![i] = after]
              /\ after \in M!Row /\ after.ids = "found" /\ after.named = row.named
              /\ after.locked = row.locked
              /\ \A f \in M!Stripped(meRuns[i].locked) : after.values[f] = row.values[f]
<1> DEFINE row == meRows[i]
           kept == M!Stripped(meRuns[i].locked)
           values == [f \in M!Field |-> IF f \in kept THEN row.values[f] ELSE "found"]
           after == [row EXCEPT !.ids = "found", !.values = values]
<1>1. row \in M!Row /\ kept \subseteq M!Field
  BY DEF MetadataInv, M!TypeOK, M!Stripped
<1>2. meRows' = [meRows EXCEPT ![i] = after]
  <2>1. [row EXCEPT !.ids = "found"].values = row.values
    BY <1>1 DEF M!Row
  <2>2. QED
    BY <2>1 DEF M!UpdateRow, MetadataInv, M!TypeOK
<1>3. values \in [M!Field -> {"scan", "found", "edit"}]
      /\ \A f \in kept : values[f] = row.values[f]
  BY <1>1 DEF M!Row
<1> HIDE DEF values
<1>4. /\ after \in M!Row /\ after.ids = "found" /\ after.named = row.named
      /\ after.locked = row.locked /\ after.values = values
  BY <1>1, <1>3 DEF M!Row
<1>5. QED
  BY <1>2, <1>3, <1>4 DEF values

LEMMA UpdatesSound ==
    ASSUME M!Parameters, MetadataInv, NEW i \in Film, M!UpdateRow(i) \/ M!ReplaceNamed(i)
    PROVE  MetadataInv'
<1>1. meRows[i] \in M!Row /\ meRuns[i] \in M!Run /\ Identified(meRows[i], meRuns[i])
      /\ OtherPartsTyped
  BY DEF MetadataInv, M!TypeOK, OtherPartsTyped
<1>2. OtherPartsTyped'
  BY <1>1 DEF M!UpdateRow, M!ReplaceNamed, OtherPartsTyped
<1>3. CASE M!UpdateRow(i)
  <2>1. PICK row \in M!Row : meRows' = [meRows EXCEPT ![i] = row]
    BY <1>3, RowUpdated
  <2> DEFINE after == [meRuns[i] EXCEPT !.pc = "named"]
  <2>2. meRuns' = [meRuns EXCEPT ![i] = after]
    BY <1>3 DEF M!UpdateRow
  <2>3. after \in M!Run /\ after.pc = "named"
    BY <1>1 DEF M!Run
  <2> HIDE DEF after
  <2>4. Identified(row, after)
    BY <1>1, <1>3, <2>3 DEF M!UpdateRow, Identified
  <2>5. QED
    BY <1>2, <2>1, <2>2, <2>3, <2>4, OneTitle
<1>4. CASE M!ReplaceNamed(i)
  <2> DEFINE row == [meRows[i] EXCEPT !.named = "found"]
             after == [meRuns[i] EXCEPT !.pc = "none"]
  <2>1. meRows' = [meRows EXCEPT ![i] = row] /\ meRuns' = [meRuns EXCEPT ![i] = after]
    BY <1>4 DEF M!ReplaceNamed
  <2>2. row \in M!Row /\ row.named = "found" /\ row.ids = meRows[i].ids
    BY <1>1 DEF M!Row
  <2>3. after \in M!Run /\ after.pc = "none"
    BY <1>1 DEF M!Run
  <2> HIDE DEF row, after
  <2>4. Identified(row, after)
    BY <1>1, <1>4, <2>2, <2>3 DEF M!ReplaceNamed, Identified
  <2>5. QED
    BY <1>2, <2>1, <2>2, <2>3, <2>4, OneTitle
<1>5. QED
  BY <1>3, <1>4

(* An edit that is saved crosses the run there is, and gives a title no    *)
(* ids that it would have to find.                                         *)
LEMMA EditsSound ==
    ASSUME M!Parameters, MetadataInv, NEW c \in Editor, M!ReadForEdit(c) \/ M!SaveEdit(c)
    PROVE  MetadataInv'
<1> DEFINE EditsKept == [item: Film, read: M!Row, request: Edits]
<1>1. CASE M!ReadForEdit(c)
  <2>1. PICK edit \in EditsKept : meEdits' = [meEdits EXCEPT ![c] = edit]
    BY <1>1 DEF M!ReadForEdit, MetadataInv, M!TypeOK
  <2>2. OtherPartsTyped' /\ UNCHANGED <<meRows, meRuns>>
    BY <1>1, <2>1 DEF M!ReadForEdit, M!Spends, MetadataInv, M!TypeOK, OtherPartsTyped,
                      M!Parameters
  <2>3. QED
    BY <2>2, NoTitle
<1>2. CASE M!SaveEdit(c)
  <2>1. meEdits[c] \in EditsKept
    BY <1>2 DEF M!SaveEdit, MetadataInv, M!TypeOK
  <2>2. PICK i \in Film : i = meEdits[c].item
    BY <2>1
  <2>3. PICK request \in M!Request : request = meEdits[c].request
    BY <2>1 DEF M!Parameters
  <2>4. meRows[i] \in M!Row /\ meRuns[i] \in M!Run /\ Identified(meRows[i], meRuns[i])
    BY DEF MetadataInv, M!TypeOK
  <2>5. OtherPartsTyped'
    BY <1>2 DEF M!SaveEdit, MetadataInv, M!TypeOK, OtherPartsTyped
  <2>6. PICK values \in [M!Field -> {"scan", "found", "edit"}] :
          values = [f \in M!Field |-> M!Or(request.values[f], meRows[i].values[f])]
    BY <2>4 DEF M!Or, M!Request, M!Row
  <2>7. PICK ids \in {"none", "found", "edit"} :
          ids = M!Or(request.ids, meRows[i].ids) /\ ids \in {"edit", meRows[i].ids}
    BY <2>4 DEF M!Or, M!Request, M!Row
  <2>8. PICK locked \in SUBSET M!Lock : locked = M!LockedBy(meEdits[c], meRows[i])
    BY <2>1, <2>3, <2>4 DEF M!LockedBy, M!Or, M!Request, M!Row, M!Lock
  <2>9. PICK lockData \in BOOLEAN : lockData = M!Or(request.lockData, meRows[i].lockData)
    BY <2>4 DEF M!Or, M!Request, M!Row
  <2> DEFINE crossed == meRuns[i].pc \in {"fetch", "row"}
  <2> DEFINE row == [values |-> values, named |-> meRows[i].named, ids |-> ids,
                     locked |-> locked, lockData |-> lockData]
             after == [meRuns[i] EXCEPT !.crossed = crossed]
  <2>10. meRows' = [meRows EXCEPT ![i] = row] /\ meRuns' = [meRuns EXCEPT ![i] = after]
    BY <1>2, <2>2, <2>3, <2>6, <2>7, <2>8, <2>9 DEF M!SaveEdit
  <2>11. row \in M!Row /\ row.named = meRows[i].named /\ row.ids = ids
    BY <2>4 DEF M!Row
  <2>12. /\ after \in M!Run /\ after.pc = meRuns[i].pc /\ after.tries = meRuns[i].tries
         /\ after.pc \in {"fetch", "row"} => after.crossed
    <3>1. crossed \in BOOLEAN /\ (meRuns[i].pc \in {"fetch", "row"} => crossed)
      OBVIOUS
    <3> HIDE DEF crossed
    <3>2. QED
      BY <2>4, <3>1 DEF M!Run
  <2> HIDE DEF row, after
  <2>13. Identified(row, after)
    BY <2>4, <2>7, <2>11, <2>12 DEF Identified
  <2>14. QED
    BY <2>5, <2>10, <2>11, <2>12, <2>13, OneTitle
<1>3. QED
  BY <1>1, <1>2

LEMMA MetadataStep ==
    ASSUME M!Parameters, MetadataInv, [M!Next]_(M!vars)
    PROVE  MetadataInv'
<1>1. ASSUME NEW force \in BOOLEAN, M!ListPending(force) PROVE MetadataInv'
  BY <1>1, NoTitle DEF M!ListPending, MetadataInv, M!TypeOK, OtherPartsTyped
<1>2. CASE UNCHANGED M!vars
  BY <1>2, NoTitle DEF M!vars, MetadataInv, M!TypeOK, OtherPartsTyped
<1>3. QED
  BY <1>1, <1>2, ScansSound, IdentifiesSound, UpdatesSound, EditsSound DEF M!Next

LEMMA MetadataInvariant == PartsSpec => []MetadataInv
<1>1. M!Parameters
  BY PartsAssumption DEF PartsAssumption
<1>2. M!Init => MetadataInv
  <2> SUFFICES ASSUME M!Init PROVE MetadataInv
    OBVIOUS
  <2>1. ASSUME NEW i \in Film
        PROVE  meRows[i] \in M!Row /\ meRuns[i] \in M!Run
               /\ Identified(meRows[i], meRuns[i])
    BY <1>1 DEF M!Init, M!Row, M!Run, Identified, M!Parameters
  <2>2. meRows \in [Film -> M!Row] /\ meRuns \in [Film -> M!Run]
    BY <2>1 DEF M!Init
  <2>3. meSpent \in 0..EditLimit
    BY <1>1 DEF M!Init, M!Parameters
  <2>4. QED
    BY <2>1, <2>2, <2>3 DEF M!Init, MetadataInv, M!TypeOK
<1>3. MetadataInv /\ [M!Next]_(M!vars) => MetadataInv'
  BY <1>1, MetadataStep
<1>4. QED
  BY <1>2, <1>3, MetadataMoves, PTL DEF M!Spec

(* A title that carries the provider's ids carries its genres, studios and *)
(* people too, or its run is still at it, has failed for good, or has      *)
(* ended finding no title or no match: no run that fails between the two   *)
(* statements of UpdateMetadata ends as if it had done them.               *)
THEOREM NothingHalfIdentified == PartsSpec => []WholeOrPending
<1>1. MetadataInv => WholeOrPending
  BY DEF MetadataInv, Identified, WholeOrPending, M!WholeOrPending, M!Running
<1>2. QED
  BY <1>1, MetadataInvariant, PTL

(* A scan changes neither name nor year of a title whose name is locked;   *)
(* identification changes no name and no overview that is locked, unless   *)
(* an edit has been saved since it read the item.  It may change the year  *)
(* under the lock of the name (unclaimedTitle and stripLockedFields).      *)
THEOREM LocksAreKept == PartsSpec => LocksHold
<1>1. M!Parameters
  BY PartsAssumption DEF PartsAssumption
<1> DEFINE Scanned(i) ==
             (meScans'[i] # meScans[i] /\ "Name" \in meRows[i].locked)
               => ~M!Changes(i, "name") /\ ~M!Changes(i, "year")
           Found(i) ==
             (meRuns[i].pc = "row" /\ meRuns'[i].pc = "named" /\ ~meRuns[i].crossed)
               => /\ "Name" \in meRows[i].locked => ~M!Changes(i, "name")
                  /\ "Overview" \in meRows[i].locked => ~M!Changes(i, "overview")
           Held(i) ==
             /\ Scanned(i)
             /\ Found(i)
<1>2. ASSUME MetadataInv, [M!Next]_(M!vars), NEW i \in Film PROVE Scanned(i) /\ Found(i)
  <2>1. UNCHANGED meRows => Scanned(i) /\ Found(i)
    BY DEF M!Changes
  <2>2. ASSUME NEW j \in Film, M!SaveScanned(j) PROVE Scanned(i) /\ Found(i)
    <3>1. meRuns'[i] = meRuns[i] /\ (j # i => meScans'[i] = meScans[i])
          /\ (j = i /\ "Name" \in meRows[i].locked => UNCHANGED meRows)
      BY <1>2, <2>2 DEF M!SaveScanned, M!Unclaimed, MetadataInv, M!TypeOK
    <3>2. QED
      BY <2>1, <3>1
  <2>3. ASSUME NEW j \in Film, M!UpdateRow(j) PROVE Scanned(i) /\ Found(i)
    <3>1. UNCHANGED meScans /\ (j # i => meRuns'[i] = meRuns[i])
      BY <2>3 DEF M!UpdateRow, MetadataInv, M!TypeOK
    <3>2. CASE j = i /\ ~meRuns[i].crossed
      <4>1. meRuns[i].locked = meRows[i].locked
        BY <1>2, <2>3, <3>2 DEF M!UpdateRow, MetadataInv, Identified
      <4>2. \A f \in M!Stripped(meRows[i].locked) :
              meRows'[i].values[f] = meRows[i].values[f]
        BY <1>1, <1>2, <2>3, <3>2, <4>1, RowUpdated DEF MetadataInv, M!TypeOK
      <4>3. QED
        BY <3>1, <4>2 DEF M!Stripped, M!Field, M!Changes
    <3>3. QED
      BY <3>1, <3>2
  <2>4. ASSUME NEW j \in Film, M!ReplaceNamed(j) PROVE Scanned(i) /\ Found(i)
    <3>1. UNCHANGED meScans /\ ~(meRuns[i].pc = "row" /\ meRuns'[i].pc = "named")
      BY <1>2, <2>4 DEF M!ReplaceNamed, MetadataInv, M!TypeOK, M!Run
    <3>2. QED
      BY <3>1
  <2>5. ASSUME NEW c \in Editor, M!SaveEdit(c) PROVE Scanned(i) /\ Found(i)
    <3>1. UNCHANGED meScans /\ meRuns'[i].pc = meRuns[i].pc
      BY <1>2, <2>5 DEF M!SaveEdit, MetadataInv, M!TypeOK, M!Run
    <3>2. QED
      BY <3>1
  <2>6. QED
    BY <1>2, <2>1, <2>2, <2>3, <2>4, <2>5 DEF M!Next, M!vars, M!ReadBack, M!ScanEnqueues,
       M!BatchEnqueues, M!EnqueueFails, M!ReadItem, M!ReadMarked, M!Matches,
       M!MatchesNothing, M!IdentifyFails, M!ListPending, M!ReadForEdit, M!Mark, M!ScanFails
<1>3. MetadataInv /\ [M!Next]_(M!vars) => [\A i \in Film : Held(i)]_(M!vars)
  BY <1>2
<1>4. QED
  BY <1>3, MetadataInvariant, MetadataMoves, PTL DEF M!Spec, LocksHold, M!LocksHold

-----------------------------------------------------------------------------
(* Libraries.                                                              *)

\* What scans, runs and deletions do is what Libraries says.
LEMMA LibrariesMove == PartsSpec => L!Spec
<1>1. PartsInit => L!Init
  BY DEF PartsInit
<1>2. [PartsNext]_partsVars => [L!Next]_(L!vars)
  BY DEF PartsNext, SignsIn, RunsJobs, Identifies, Plays, Configures, Rearranges,
         partsVars, librariesVars, L!vars
<1>3. QED
  BY <1>1, <1>2, PTL DEF PartsSpec, L!Spec

\* What is above a title that is there is there.
ParentsThere == \A i \in liItems : L!ParentThere(i)

\* A library is there until its deletion commits.
DeletionsThere == \A l \in Library : liDeletions[l] # None => l \in liLibraries

LibrariesInv == L!TypeOK /\ ParentsThere /\ DeletionsThere /\ EveryTitleHeld

(* Scans: what they enqueue is a run from its start.                       *)
LEMMA ScansTyped ==
    ASSUME L!Parameters, L!TypeOK, NEW l \in Library,
           \/ L!Scan(l) \/ L!Prune(l) \/ L!ScanFails(l)
           \/ \E i \in Title : L!EnqueueTitle(l, i) \/ L!EnqueueFails(l, i)
    PROVE  L!TypeOK'
<1>1. liScans[l] \in {None} \cup L!Scanning
  BY DEF L!TypeOK
<1>2. CASE L!Scan(l)
  <2>1. PICK scan \in L!Scanning : liScans' = [liScans EXCEPT ![l] = scan]
    BY <1>2 DEF L!Scan, L!Scanning
  <2>2. liSpent' \in 0..ScanLimit
    BY <1>2 DEF L!Scan, L!Spends, L!TypeOK, L!Parameters
  <2>3. QED
    BY <1>2, <2>1, <2>2 DEF L!Scan, L!TypeOK
<1>3. CASE L!Prune(l)
  <2>1. [liScans[l] EXCEPT !.pc = "pruned"] \in L!Scanning
    BY <1>1, <1>3 DEF L!Prune, L!Scanning
  <2>2. liScans' \in [Library -> {None} \cup L!Scanning]
    BY <1>3, <2>1 DEF L!Prune, L!TypeOK
  <2>3. liMembers' \subseteq Library \X Title /\ liLoose' \subseteq Title
    BY <1>3 DEF L!Prune, L!TypeOK
  <2>4. QED
    BY <1>3, <2>2, <2>3 DEF L!Prune, L!TypeOK
<1>4. CASE L!ScanFails(l)
  BY <1>4 DEF L!ScanFails, L!TypeOK
<1>5. ASSUME NEW i \in Title, L!EnqueueTitle(l, i) \/ L!EnqueueFails(l, i)
      PROVE  L!TypeOK'
  <2>1. PICK left \in SUBSET Title : left = liScans[l].left \ {i}
    BY <1>1, <1>5 DEF L!EnqueueTitle, L!EnqueueFails, L!Scanning
  <2>2. [liScans[l] EXCEPT !.left = left] \in L!Scanning
    BY <1>1, <1>5 DEF L!EnqueueTitle, L!EnqueueFails, L!Scanning
  <2>3. \/ liScans' = [liScans EXCEPT ![l] = None]
        \/ liScans' = [liScans EXCEPT ![l].left = left]
    BY <1>5, <2>1 DEF L!EnqueueTitle, L!EnqueueFails, L!Took
  <2>4. liScans' \in [Library -> {None} \cup L!Scanning]
    BY <2>2, <2>3 DEF L!TypeOK
  <2>5. CASE L!EnqueueTitle(l, i)
    <3>1. [pc |-> "queued", tries |-> 0, tagged |-> i \in liScans[l].admitted] \in L!Run
      BY DEF L!Run, L!Parameters
    <3>2. liRuns' \in [Library \X Title -> L!Run]
      BY <2>5, <3>1 DEF L!EnqueueTitle, L!TypeOK
    <3>3. QED
      BY <2>4, <2>5, <3>2 DEF L!EnqueueTitle, L!TypeOK
  <2>6. CASE L!EnqueueFails(l, i)
    <3>1. liSpent' \in 0..ScanLimit
      BY <2>6 DEF L!EnqueueFails, L!Spends, L!TypeOK, L!Parameters
    <3>2. QED
      BY <2>4, <2>6, <3>1 DEF L!EnqueueFails, L!TypeOK
  <2>7. QED
    BY <1>5, <2>5, <2>6
<1>6. QED
  BY <1>2, <1>3, <1>4, <1>5

\* The steps of a run that has begun.
RunStep(l, i) ==
  L!Save(l, i) \/ L!EndUntagged(l, i) \/ L!Join(l, i) \/ L!Refused(l, i) \/ L!RunFails(l, i)

LEMMA RunsTyped ==
    ASSUME L!Parameters, L!TypeOK, NEW l \in Library, NEW i \in Title, RunStep(l, i)
    PROVE  L!TypeOK'
<1> DEFINE r == <<l, i>>
<1>1. r \in Library \X Title /\ liRuns[r] \in L!Run
  BY DEF L!TypeOK
<1>2. L!Idle \in L!Run
  BY DEF L!Idle, L!Run, L!Parameters
<1>3. CASE L!Save(l, i)
  <2>1. [liRuns[r] EXCEPT !.pc = "saved"] \in L!Run
    BY <1>1 DEF L!Run
  <2>2. QED
    BY <1>1, <1>3, <2>1 DEF L!Save, L!TypeOK
<1>4. CASE L!EndUntagged(l, i)
  BY <1>1, <1>2, <1>4 DEF L!EndUntagged, L!Left, L!TypeOK
<1>5. CASE L!Join(l, i)
  BY <1>1, <1>2, <1>5 DEF L!Join, L!TypeOK
<1>6. CASE L!Refused(l, i) \/ L!RunFails(l, i)
  <2>1. L!Retry(l, i)
    BY <1>6 DEF L!Refused, L!RunFails
  <2>2. liLoose' \subseteq Title
    BY <2>1 DEF L!Retry, L!Left, L!TypeOK
  <2>3. PICK run \in L!Run : liRuns' = [liRuns EXCEPT ![r] = run]
    <3>1. CASE liRuns[r].tries + 1 < Attempts
      <4>1. [pc |-> "queued", tries |-> liRuns[r].tries + 1, tagged |-> liRuns[r].tagged]
              \in L!Run
        BY <1>1, <3>1 DEF L!Run, L!Parameters
      <4>2. QED
        BY <2>1, <3>1, <4>1 DEF L!Retry
    <3>2. CASE ~(liRuns[r].tries + 1 < Attempts)
      BY <1>2, <2>1, <3>2 DEF L!Retry
    <3>3. QED
      BY <3>1, <3>2
  <2>4. liRuns' \in [Library \X Title -> L!Run]
    BY <1>1, <2>3 DEF L!TypeOK
  <2>5. liSpent' \in 0..ScanLimit
    BY <1>6 DEF L!Refused, L!RunFails, L!Spends, L!TypeOK, L!Parameters
  <2>6. QED
    BY <1>6, <2>2, <2>4, <2>5 DEF L!Refused, L!RunFails, L!TypeOK
<1>7. QED
  BY <1>3, <1>4, <1>5, <1>6 DEF RunStep

\* What goes with a library.
Gone(l) == L!Under(L!Under(L!HeldByNone(l)))

LEMMA CommitTyped ==
    ASSUME L!TypeOK, NEW l \in Library, L!CommitDeletion(l)
    PROVE  L!TypeOK'
<1>1. /\ liLibraries' \subseteq Library /\ liItems' \subseteq Title
      /\ liMembers' \subseteq Library \X Title /\ liLoose' \subseteq Title
      /\ UNCHANGED <<liScans, liSpent>>
  BY DEF L!CommitDeletion, L!TypeOK
<1>2. liRuns' \in [Library \X Title -> L!Run]
  <2>1. ASSUME NEW r \in Library \X Title
        PROVE  liRuns[r] \in L!Run /\ [liRuns[r] EXCEPT !.pc = "stale"] \in L!Run
    BY DEF L!TypeOK, L!Run
  <2>2. QED
    BY <2>1 DEF L!CommitDeletion
<1>3. liDeletions' \in [Library -> {None} \cup L!Deletion]
  <2>1. ASSUME NEW m \in Library, liDeletions[m] # None
        PROVE  [liDeletions[m] EXCEPT !.listed = @ \ Gone(l)] \in L!Deletion
    BY <2>1 DEF L!TypeOK, L!Deletion
  <2>2. QED
    BY <2>1 DEF L!CommitDeletion, Gone
<1>4. QED
  BY <1>1, <1>2, <1>3 DEF L!TypeOK

LEMMA DeletionsTyped ==
    ASSUME L!Parameters, L!TypeOK, NEW l \in Library,
           L!ListItems(l) \/ L!DeleteRow(l) \/ L!CommitDeletion(l) \/ L!DeletionFails(l)
    PROVE  L!TypeOK'
<1>1. CASE L!ListItems(l)
  <2>1. PICK deletion \in L!Deletion : liDeletions' = [liDeletions EXCEPT ![l] = deletion]
    BY <1>1 DEF L!ListItems, L!Deletion
  <2>2. QED
    BY <1>1, <2>1 DEF L!ListItems, L!TypeOK
<1>2. CASE L!DeleteRow(l)
  <2>1. liDeletions[l] \in L!Deletion /\ liMembers \in SUBSET (Library \X Title)
    BY <1>2 DEF L!DeleteRow, L!Doing, L!TypeOK
  <2> DEFINE deletion == [liDeletions[l] EXCEPT !.pc = "chosen", !.seen = liMembers]
  <2>2. deletion \in L!Deletion
    BY <2>1 DEF L!Deletion
  <2>3. liDeletions' = [liDeletions EXCEPT ![l] = deletion]
    BY <1>2, <2>1 DEF L!DeleteRow, L!TypeOK, L!Deletion
  <2> HIDE DEF deletion
  <2>4. QED
    BY <1>2, <2>2, <2>3 DEF L!DeleteRow, L!TypeOK
<1>3. CASE L!DeletionFails(l)
  BY <1>3 DEF L!DeletionFails, L!TypeOK
<1>4. QED
  BY <1>1, <1>2, <1>3, CommitTyped

(* Pruning leaves no library to a title only where it was the last one,    *)
(* and what a scan enqueues is at it.                                      *)
LEMMA ScansHold ==
    ASSUME L!Parameters, LibrariesInv, NEW l \in Library,
           \/ L!Scan(l) \/ L!Prune(l) \/ L!ScanFails(l)
           \/ \E i \in Title : L!EnqueueTitle(l, i) \/ L!EnqueueFails(l, i)
    PROVE  LibrariesInv'
<1>1. L!TypeOK /\ L!TypeOK' /\ UNCHANGED <<liItems, liLibraries, liDeletions>>
  BY ScansTyped DEF LibrariesInv, L!Scan, L!Prune, L!ScanFails, L!EnqueueTitle,
     L!EnqueueFails
<1>2. ParentsThere' /\ DeletionsThere'
  BY <1>1 DEF LibrariesInv, ParentsThere, L!ParentThere, DeletionsThere
<1>3. CASE L!Prune(l)
  <2> DEFINE dropped == {i \in Title \ liScans[l].admitted : <<l, i>> \in liMembers}
  <2>1. /\ liMembers' = liMembers \ ({l} \X dropped) /\ UNCHANGED liRuns
        /\ liLoose' = liLoose \cup {i \in dropped : L!HoldersOf(i) = {l}}
    BY <1>3 DEF L!Prune
  <2>2. ASSUME NEW i \in liItems, L!HoldersOf(i) # {}
        PROVE  L!HoldersOf(i)' # {} \/ i \in liLoose'
    <3>1. i \in Title
      BY <1>1 DEF L!TypeOK
    <3>2. CASE i \in dropped
      <4>1. L!HoldersOf(i)' = L!HoldersOf(i) \ {l}
        BY <2>1, <3>1, <3>2 DEF L!HoldersOf
      <4>2. QED
        BY <2>1, <2>2, <3>2, <4>1
    <3>3. CASE i \notin dropped
      <4>1. L!HoldersOf(i)' = L!HoldersOf(i)
        BY <2>1, <3>1, <3>3 DEF L!HoldersOf
      <4>2. QED
        BY <2>2, <4>1
    <3>4. QED
      BY <3>2, <3>3
  <2>3. EveryTitleHeld'
    BY <1>1, <2>1, <2>2 DEF LibrariesInv, EveryTitleHeld, L!EveryTitleHeld, L!Busy
  <2>4. QED
    BY <1>1, <1>2, <2>3 DEF LibrariesInv
<1>4. CASE ~L!Prune(l)
  <2>1. UNCHANGED <<liMembers, liLoose>>
    BY <1>4 DEF L!Scan, L!ScanFails, L!EnqueueTitle, L!EnqueueFails
  <2>2. \A r \in Library \X Title : liRuns[r].pc # "idle" => liRuns'[r].pc # "idle"
    BY <1>1, <1>4 DEF L!Scan, L!ScanFails, L!EnqueueTitle, L!EnqueueFails, L!TypeOK
  <2>3. \A i \in Title : L!Busy(i) => L!Busy(i)'
    BY <2>2 DEF L!Busy
  <2>4. EveryTitleHeld'
    BY <1>1, <2>1, <2>3 DEF LibrariesInv, EveryTitleHeld, L!EveryTitleHeld, L!HoldersOf,
       L!TypeOK
  <2>5. QED
    BY <1>1, <1>2, <2>4 DEF LibrariesInv
<1>5. QED
  BY <1>3, <1>4

(* A run that ends leaves its title in a library, or to itself for a       *)
(* reason that is known.                                                   *)
LEMMA RunsHold ==
    ASSUME L!Parameters, LibrariesInv, NEW l \in Library, NEW i \in Title, RunStep(l, i)
    PROVE  LibrariesInv'
<1>1. L!TypeOK /\ L!TypeOK'
  BY RunsTyped DEF LibrariesInv
<1>2. ParentsThere' /\ DeletionsThere'
  BY DEF RunStep, L!Save, L!EndUntagged, L!Join, L!Refused, L!RunFails, LibrariesInv,
     ParentsThere, L!ParentThere, DeletionsThere
<1>3. /\ \A j \in liItems' : j = i \/ j \in liItems
      /\ liMembers \subseteq liMembers'
      /\ \A j \in liLoose : j = i \/ j \in liLoose'
      /\ \A r \in Library \X Title : r # <<l, i>> => liRuns'[r] = liRuns[r]
  BY <1>1 DEF RunStep, L!Save, L!EndUntagged, L!Join, L!Refused, L!RunFails, L!Retry, L!Left,
     L!TypeOK
<1>4. ASSUME NEW j \in liItems', j # i
      PROVE  L!HoldersOf(j)' # {} \/ L!Busy(j)' \/ j \in liLoose'
  <2>1. L!Busy(j) => L!Busy(j)'
    BY <1>1, <1>3, <1>4 DEF L!Busy, L!TypeOK
  <2>2. L!HoldersOf(j) # {} => L!HoldersOf(j)' # {}
    BY <1>3 DEF L!HoldersOf
  <2>3. QED
    BY <1>3, <1>4, <2>1, <2>2 DEF LibrariesInv, EveryTitleHeld, L!EveryTitleHeld
<1>5. L!HoldersOf(i)' # {} \/ L!Busy(i)' \/ i \in liLoose'
  <2>1. <<l, i>> \in Library \X Title /\ liRuns[<<l, i>>] \in L!Run
    BY <1>1 DEF L!TypeOK
  <2>2. CASE L!Save(l, i)
    <3>1. liRuns'[<<l, i>>].pc = "saved"
      BY <1>1, <2>1, <2>2 DEF L!Save, L!TypeOK, L!Run
    <3>2. QED
      BY <3>1 DEF L!Busy
  <2>3. CASE L!Join(l, i)
    BY <2>3 DEF L!Join, L!HoldersOf
  <2>4. CASE liLoose' = L!Left(i) /\ UNCHANGED liMembers
    BY <2>4 DEF L!Left, L!HoldersOf
  <2>5. CASE L!Retry(l, i) /\ UNCHANGED liMembers
    <3>1. CASE liRuns[<<l, i>>].tries + 1 < Attempts
      <4>1. liRuns'[<<l, i>>].pc = "queued"
        BY <1>1, <2>1, <2>5, <3>1 DEF L!Retry, L!TypeOK
      <4>2. QED
        BY <4>1 DEF L!Busy
    <3>2. CASE ~(liRuns[<<l, i>>].tries + 1 < Attempts)
      BY <2>4, <2>5, <3>2 DEF L!Retry
    <3>3. QED
      BY <3>1, <3>2
  <2>6. QED
    BY <2>2, <2>3, <2>4, <2>5 DEF RunStep, L!EndUntagged, L!Refused, L!RunFails
<1>6. EveryTitleHeld'
  BY <1>4, <1>5 DEF EveryTitleHeld, L!EveryTitleHeld
<1>7. QED
  BY <1>1, <1>2, <1>6 DEF LibrariesInv

(* What goes takes all that is under it, since titles are in seasons, and  *)
(* those in series, and no further.                                        *)
LEMMA GoneTakesAll ==
    ASSUME L!Parameters, L!NoneApart, L!TypeOK, NEW l \in Library, NEW i \in Title
    PROVE  /\ Parent[i] \in Gone(l) => i \in Gone(l)
           /\ i \in Gone(l) => i \in L!HeldByNone(l) \/ (Parent[i] \in Gone(l) /\ Parent[i] \in Title)
<1>1. L!HeldByNone(l) \subseteq Title
  BY DEF L!HeldByNone, L!TypeOK
<1>2. QED
  BY <1>1 DEF Gone, L!Under, L!Parameters, L!NoneApart

(* What a deletion was the last to hold goes with it, but for what joined  *)
(* after it had listed its titles or was seen in another library; nothing  *)
(* is left whose parent goes.                                              *)
LEMMA CommitHolds ==
    ASSUME L!Parameters, L!NoneApart, LibrariesInv, NEW l \in Library, L!CommitDeletion(l)
    PROVE  LibrariesInv'
<1>1. L!TypeOK /\ L!TypeOK'
  BY CommitTyped DEF LibrariesInv
<1> DEFINE late(i) == i \notin liDeletions[l].listed \/ L!SeenElsewhere(l, i)
           behind == {i \in liItems : L!HoldersOf(i) = {l} /\ late(i)}
<1>2. /\ liItems' = liItems \ Gone(l)
      /\ liMembers' = {m \in liMembers : m[1] # l /\ m[2] \notin Gone(l)}
      /\ liLoose' = (liLoose \cup behind) \ Gone(l)
  BY DEF L!CommitDeletion, Gone
<1>3. ASSUME NEW i \in liItems' PROVE L!ParentThere(i)'
  <2>1. i \in Title /\ i \notin Gone(l) /\ L!ParentThere(i)
    BY <1>1, <1>2 DEF L!TypeOK, LibrariesInv, ParentsThere
  <2>2. Parent[i] \notin Gone(l)
    BY <1>1, <2>1, GoneTakesAll
  <2>3. QED
    BY <1>2, <2>1, <2>2 DEF L!ParentThere
<1>4. \A r \in Library \X Title : liRuns[r].pc # "idle" => liRuns'[r].pc # "idle"
  <2>1. ASSUME NEW r \in Library \X Title
        PROVE  [liRuns[r] EXCEPT !.pc = "stale"].pc = "stale"
    BY <1>1 DEF L!TypeOK, L!Run
  <2>2. QED
    BY <2>1 DEF L!CommitDeletion
<1>5. ASSUME NEW i \in liItems'
      PROVE  L!HoldersOf(i)' # {} \/ L!Busy(i)' \/ i \in liLoose'
  <2>1. i \in Title /\ i \in liItems /\ i \notin Gone(l) /\ i \notin L!HeldByNone(l)
    BY <1>1, <1>2 DEF L!TypeOK, Gone, L!Under
  <2>2. L!HoldersOf(i)' = L!HoldersOf(i) \ {l}
    BY <1>2, <2>1 DEF L!HoldersOf
  <2>3. L!Busy(i) => L!Busy(i)'
    BY <1>4, <2>1 DEF L!Busy
  <2>4. i \in liLoose => i \in liLoose'
    BY <1>2, <2>1
  <2>5. CASE L!HoldersOf(i) = {l}
    <3>1. i \in behind
      BY <2>1, <2>5 DEF L!HeldByNone
    <3>2. QED
      BY <1>2, <2>1, <3>1
  <2>6. CASE L!HoldersOf(i) # {l}
    BY <2>1, <2>2, <2>3, <2>4, <2>6 DEF LibrariesInv, EveryTitleHeld, L!EveryTitleHeld
  <2>7. QED
    BY <2>5, <2>6
<1>6. DeletionsThere'
  BY <1>1 DEF L!CommitDeletion, LibrariesInv, DeletionsThere, L!TypeOK
<1>7. QED
  BY <1>1, <1>3, <1>5, <1>6 DEF LibrariesInv, ParentsThere, EveryTitleHeld, L!EveryTitleHeld

LEMMA LibrariesStep ==
    ASSUME L!Parameters, L!NoneApart, LibrariesInv, [L!Next]_(L!vars)
    PROVE  LibrariesInv'
<1>1. CASE UNCHANGED <<liItems, liMembers, liRuns, liLoose>> /\ L!TypeOK' /\ DeletionsThere'
  BY <1>1 DEF LibrariesInv, ParentsThere, L!ParentThere, EveryTitleHeld, L!EveryTitleHeld,
     L!HoldersOf, L!Busy
<1>2. ASSUME NEW l \in Library, L!ListItems(l) \/ L!DeleteRow(l) \/ L!DeletionFails(l)
      PROVE  LibrariesInv'
  <2>1. L!TypeOK' /\ L!TypeOK
    BY <1>2, DeletionsTyped DEF LibrariesInv
  <2>2. DeletionsThere'
    BY <1>2, <2>1 DEF LibrariesInv, DeletionsThere, L!TypeOK, L!ListItems, L!DeleteRow,
       L!DeletionFails, L!Doing
  <2>3. QED
    BY <1>1, <1>2, <2>1, <2>2 DEF L!ListItems, L!DeleteRow, L!DeletionFails
<1>3. CASE UNCHANGED L!vars
  BY <1>1, <1>3 DEF L!vars, LibrariesInv, L!TypeOK, DeletionsThere
<1>4. ASSUME NEW l \in Library, NEW i \in Title,
             L!EnqueueTitle(l, i) \/ L!EnqueueFails(l, i) \/ RunStep(l, i)
      PROVE  LibrariesInv'
  BY <1>4, ScansHold, RunsHold
<1>5. ASSUME NEW l \in Library, L!Scan(l) \/ L!Prune(l) \/ L!ScanFails(l)
      PROVE  LibrariesInv'
  BY <1>5, ScansHold
<1>6. QED
  BY <1>2, <1>3, <1>4, <1>5, CommitHolds DEF L!Next, RunStep

LEMMA LibrariesInvariant == PartsSpec => []LibrariesInv
<1>1. L!Parameters /\ L!NoneApart
  BY PartsAssumption DEF PartsAssumption
<1>2. L!Init => LibrariesInv
  BY <1>1 DEF L!Init, LibrariesInv, L!TypeOK, L!Idle, L!Run, L!Parameters, ParentsThere,
     DeletionsThere, EveryTitleHeld, L!EveryTitleHeld
<1>3. LibrariesInv /\ [L!Next]_(L!vars) => LibrariesInv'
  BY <1>1, LibrariesStep
<1>4. QED
  BY <1>2, <1>3, LibrariesMove, PTL DEF L!Spec

(* A title with a row is in a library, or a run is still to end that may   *)
(* put it into one, but for those pruned or left out by their tags, given  *)
(* up by their run, joined after a deletion had listed its titles, or seen *)
(* by one in another library that let go of them before it committed, for  *)
(* any libraries and titles and any number of deletions at a time          *)
(* (DeleteLibrary beside RefreshSource and RefreshItem).                   *)
THEOREM TitlesAreHeld == PartsSpec => []EveryTitleHeld
<1>1. LibrariesInv => EveryTitleHeld
  BY DEF LibrariesInv
<1>2. QED
  BY <1>1, LibrariesInvariant, PTL

(* A title that goes with a library was in no other when the last          *)
(* statement looked, or the title above it goes too, however many          *)
(* libraries are deleted at a time (DeleteLibrary).                        *)
THEOREM SharedTitlesStay == PartsSpec => SharedTitlesSurvive
<1>1. L!Parameters /\ L!NoneApart
  BY PartsAssumption DEF PartsAssumption
<1> DEFINE Unshared(i) ==
      \/ Parent[i] \in liItems \ liItems'
      \/ \E l \in liLibraries \ liLibraries' :
           \A m \in L!HoldersOf(i) : m = l \/ <<m, i>> \notin liDeletions[l].seen
<1>2. ASSUME LibrariesInv, NEW l \in Library, L!CommitDeletion(l),
             NEW i \in liItems \ liItems'
      PROVE  Unshared(i)
  <2>1. /\ liItems' = liItems \ Gone(l) /\ L!TypeOK /\ i \in Title
        /\ l \in liLibraries \ liLibraries'
    BY <1>2 DEF LibrariesInv, DeletionsThere, L!TypeOK, L!CommitDeletion, L!Doing, Gone
  <2>2. i \in L!HeldByNone(l) \/ (Parent[i] \in Gone(l) /\ Parent[i] \in Title)
    BY <1>1, <1>2, <2>1, GoneTakesAll
  <2>3. CASE i \in L!HeldByNone(l)
    BY <2>1, <2>3 DEF L!HeldByNone, L!SeenElsewhere, L!HoldersOf
  <2>4. CASE Parent[i] \in Gone(l) /\ Parent[i] \in Title
    <3>1. Parent[i] \in liItems
      BY <1>1, <1>2, <2>4 DEF LibrariesInv, ParentsThere, L!ParentThere, L!NoneApart
    <3>2. QED
      BY <2>1, <2>4, <3>1
  <2>5. QED
    BY <2>2, <2>3, <2>4
<1>3. LibrariesInv /\ [L!Next]_(L!vars) => [\A i \in liItems \ liItems' : Unshared(i)]_(L!vars)
  <2> SUFFICES ASSUME LibrariesInv, L!Next, NEW i \in liItems \ liItems' PROVE Unshared(i)
    OBVIOUS
  <2>1. CASE \E l \in Library : L!CommitDeletion(l)
    BY <1>2, <2>1
  <2>2. CASE ~\E l \in Library : L!CommitDeletion(l)
    <3>1. liItems \subseteq liItems'
      BY <2>2 DEF L!Next, L!Scan, L!Prune, L!EnqueueTitle, L!EnqueueFails, L!ScanFails,
         L!Save, L!EndUntagged, L!Join, L!Refused, L!RunFails, L!ListItems, L!DeleteRow,
         L!DeletionFails
    <3>2. QED
      BY <3>1
  <2>3. QED
    BY <2>1, <2>2
<1>4. QED
  BY <1>3, LibrariesInvariant, LibrariesMove, PTL
     DEF L!Spec, SharedTitlesSurvive, L!SharedTitlesSurvive

-----------------------------------------------------------------------------
(* Jobs.                                                                   *)

\* JobsProofs is about these jobs as about any.
P == INSTANCE JobsProofs WITH
       Library <- Shelf, Limit <- JobLimit,
       runs <- joRuns, slots <- joSlots, stop <- joStop, owed <- joOwed, spent <- joSpent

LEMMA SameJobs ==
    /\ J!Parameters = P!Parameters /\ J!NoneApart = P!NoneApart /\ J!TypeOK = P!TypeOK
    /\ J!Init = P!Init /\ J!Next = P!Next /\ J!vars = P!vars
    /\ J!OneAtATime = P!OneAtATime /\ J!AskedIsScanned = P!AskedIsScanned
    /\ J!CancelReachesAll = P!CancelReachesAll
BY DEF J!Next, J!Init, J!TypeOK, J!Parameters, J!NoneApart, J!Ask, J!Id, J!Take,
       J!AttemptStep, J!Told, J!AttemptFails, J!TimesOut, J!EnqueueFails,
       J!WorkerCrash, J!ListRunning, J!CancelNext, J!CancelAnswers, J!CancelEnds,
       J!EndCancelled, J!Run, J!Attempt, J!Stop, J!Leaf, J!Spends, J!Start,
       J!AtRest, J!Renewed, J!Busy, J!Begin, J!EnqueueChild, J!Finish, J!Excuses,
       J!Frees, J!Retried, J!Open, J!Scans, J!Started, J!Children, P!Next, P!Init,
       P!TypeOK, P!Parameters, P!NoneApart, P!Ask, P!Id, P!Take, P!AttemptStep,
       P!Told, P!AttemptFails, P!TimesOut, P!EnqueueFails, P!WorkerCrash,
       P!ListRunning, P!CancelNext, P!CancelAnswers, P!CancelEnds, P!EndCancelled,
       P!Run, P!Attempt, P!Stop, P!Leaf, P!Spends, P!Start, P!AtRest, P!Renewed,
       P!Busy, P!Begin, P!EnqueueChild, P!Finish, P!Excuses, P!Frees, P!Retried,
       P!Open, P!Scans, P!Started, P!Children, J!vars, P!vars, J!OneAtATime,
       P!OneAtATime, J!AskedIsScanned, P!AskedIsScanned, J!CancelReachesAll,
       P!CancelReachesAll

\* What the worker and its callers do is what Jobs says.
LEMMA JobsMove == PartsSpec => P!Init /\ [][P!Next]_(P!vars)
<1>1. PartsInit => P!Init
  BY SameJobs DEF PartsInit
<1>2. [PartsNext]_partsVars => [P!Next]_(P!vars)
  BY SameJobs DEF PartsNext, SignsIn, RunsJobs, Identifies, Plays, Configures, Rearranges,
     partsVars, jobsVars, P!vars
<1>3. QED
  BY <1>1, <1>2, PTL DEF PartsSpec

\* Signing in is what SignIn says.
LEMMA SignInMoves == PartsSpec => Spec
<1>1. PartsInit => Init
  BY DEF PartsInit
<1>2. [PartsNext]_partsVars => [Next]_vars
  BY DEF PartsNext, SignsIn, RunsJobs, Identifies, Plays, Configures, Rearranges,
     partsVars, vars
<1>3. QED
  BY <1>1, <1>2, PTL DEF PartsSpec, Spec

LEMMA JobsHold == PartsSpec => []P!JobsInv
<1>1. P!Parameters /\ P!NoneApart
  BY PartsAssumption, SameJobs DEF PartsAssumption
<1>2. P!Init /\ [][P!Next]_(P!vars) => []P!JobsInv
  BY <1>1, P!JobsInvariant
<1>3. QED
  BY <1>2, JobsMove, PTL

-----------------------------------------------------------------------------
(* Two attempts of one id run side by side only if the run gave the        *)
(* earlier one up, for any libraries and slots, however often a job is     *)
(* asked for (Params.id and the id reuse policy of Enqueue).               *)
THEOREM NoTwoAtATime == PartsSpec => []OneAtATime
<1>1. P!JobsInv => OneAtATime
  BY SameJobs DEF P!JobsInv, OneAtATime
<1>2. QED
  BY <1>1, JobsHold, PTL

(* A refresh asked for with nothing running scans every binding of every   *)
(* library before all is at rest again, whatever is asked for meanwhile,   *)
(* unless something fails or is cancelled (refreshAll and refreshOne).     *)
THEOREM WhatIsAskedIsScanned == PartsSpec => []AskedIsScanned
<1>1. P!JobsInv => AskedIsScanned
  BY SameJobs, P!OwedScanned DEF AskedIsScanned
<1>2. QED
  BY <1>1, JobsHold, PTL

(* A Cancel that succeeds has reached every run that it found: each has    *)
(* ended, has been asked to, or a later run has taken its id (the loop of  *)
(* Cancel over the executions).                                            *)
THEOREM CancelReaches == PartsSpec => []CancelReachesAll
<1>1. P!JobsInv => P!CancelReachesAll
  BY DEF P!JobsInv, P!ListedReached, P!CancelReachesAll
<1>2. P!JobsInv => CancelReachesAll
  BY <1>1, SameJobs DEF CancelReachesAll
<1>3. QED
  BY <1>2, JobsHold, PTL

(* Accounts, sessions, requests, jobs, transactions, rows and runs have    *)
(* their types, whatever is asked for, fails or is cancelled.              *)
THEOREM PartsTyped == PartsSpec => []PartsTypeOK
<1>1. Spec => []TypeOK
  BY PartsAssumption, SignInTypeCorrect DEF PartsAssumption
<1>2. P!JobsInv => J!TypeOK
  BY SameJobs DEF P!JobsInv
<1>3. BoundInv => C!TypeOK
  BY DEF BoundInv
<1>4. MarksInv /\ MetadataInv /\ LibrariesInv => U!TypeOK /\ M!TypeOK /\ L!TypeOK
  BY DEF MarksInv, MetadataInv, LibrariesInv
<1>5. TypeOK /\ J!TypeOK /\ C!TypeOK /\ U!TypeOK /\ M!TypeOK /\ L!TypeOK => PartsTypeOK
  BY DEF PartsTypeOK
<1>6. QED
  BY <1>1, <1>2, <1>3, <1>4, <1>5, SignInMoves, JobsHold, BoundInvariant, MarksInvariant,
     MetadataInvariant, LibrariesInvariant, PTL
=============================================================================
