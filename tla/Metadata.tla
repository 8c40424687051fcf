------------------------------ MODULE Metadata ------------------------------
(***************************************************************************)
(* Who writes what is known of a title: scans, identification against TMDB *)
(* and users' edits, over one row and the genres, studios and people       *)
(* beside it, one action per statement, while the sweep may mark a title   *)
(* as deleted and a scan bring it back.                                    *)
(***************************************************************************)
EXTENDS Naturals

CONSTANTS
  Item,       \* titles, all with a row in the tables
  Known,      \* those whose key has a TMDB id
  Client,     \* users editing, each with one edit under way at most
  Requests,   \* what they may ask for
  None,       \* absent from a request; no edit
  Attempts,   \* attempts of a run, 8 in the code
  Limit       \* at most so many edits and faults

Field == {"name", "year", "overview"}
Lock == {"Name", "Overview"}

\* What a request sets, None for what it leaves out; genres, studios and people
\* are left out of all of them.
Request == [values: [Field -> {"edit", None}], ids: {"edit", None},
            locked: (SUBSET Lock) \cup {None}, lockData: BOOLEAN \cup {None}]

\* What the constants are to be: the instances assume it.
Parameters ==
  /\ Known \subseteq Item
  /\ Requests \subseteq Request
  /\ Attempts \in Nat \ {0}
  /\ Limit \in Nat

VARIABLES
  rows,    \* items, with their genres, studios and people
  marked,  \* those with deleted_at set
  scans,   \* RefreshItem of each item, from its upsert on
  batch,   \* the items RefreshMetadata has listed and not enqueued yet
  runs,    \* RefreshItemMetadata of each item
  edits,   \* the edit each client has under way
  spent    \* how much of the limit is used up

vars == <<rows, marked, scans, batch, runs, edits, spent>>

\* A value is known by who wrote it. `named' is what replaceNamed writes, and
\* `ids' is provider_ids, "none" for NULL.
Row == [values: [Field -> {"scan", "found", "edit"}], named: {"scan", "found"},
        ids: {"none", "found", "edit"}, locked: SUBSET Lock, lockData: BOOLEAN]

\* `locked' is what the run has read. No statement reads `crossed', that an edit
\* was saved since, or whether a run that has succeeded found no title or no match
\* ("missed") or wrote it all ("none").
Run == [pc: {"none", "queued", "fetch", "row", "named", "missed", "failed"},
        tries: 0..Attempts, locked: SUBSET Lock, crossed: BOOLEAN]

TypeOK ==
  /\ rows \in [Item -> Row]
  /\ marked \subseteq Item
  /\ scans \in [Item -> {"idle", "read", "enqueue"}]
  /\ batch \subseteq Item
  /\ runs \in [Item -> Run]
  /\ edits \in [Client -> [item: Item, read: Row, request: Requests] \cup {None}]
  /\ spent \in 0..Limit

Init ==
  /\ rows = [i \in Item |-> [values |-> [f \in Field |-> "scan"], named |-> "scan",
                             ids |-> "none", locked |-> {}, lockData |-> FALSE]]
  /\ marked = {}
  /\ scans = [i \in Item |-> "idle"]
  /\ batch = {}
  /\ runs = [i \in Item |-> [pc |-> "none", tries |-> 0, locked |-> {},
                             crossed |-> FALSE]]
  /\ edits = [c \in Client |-> None]
  /\ spent = 0

Spends == spent < Limit /\ spent' = spent + 1

-----------------------------------------------------------------------------
(* Scans and batches, which ask for identification.                        *)

\* slip: a title is the scan's until something has identified it.
Unidentified(row) == row.ids = "none"

Unclaimed(row) == row.ids = "none" /\ ~row.lockData /\ "Name" \notin row.locked

\* The sweep, once the title has no file.
Mark(i) ==
  /\ i \notin marked
  /\ marked' = marked \cup {i}
  /\ UNCHANGED <<rows, scans, batch, runs, edits, spent>>

\* SaveScanned: name and year are the scan's if nobody has claimed them, and the title
\* is not deleted any more.
SaveScanned(i) ==
  /\ scans[i] = "idle"
  /\ scans' = [scans EXCEPT ![i] = "read"]
  /\ marked' = marked \ {i}
  /\ rows' = IF Unclaimed(rows[i])
             THEN [rows EXCEPT ![i].values["name"] = "scan", ![i].values["year"] = "scan"]
             ELSE rows
  /\ UNCHANGED <<batch, runs, edits, spent>>

\* The row read back says whether to enqueue, after the files are saved.
ReadBack(i) ==
  /\ scans[i] = "read" /\ i \notin marked
  /\ scans' = [scans EXCEPT ![i] = IF rows[i].ids = "none" THEN "enqueue" ELSE "idle"]
  /\ UNCHANGED <<rows, marked, batch, runs, edits, spent>>

\* A title marked meanwhile is not found, or a statement fails: the run starts over, or
\* has had its last attempt.
ScanFails(i) ==
  /\ scans[i] = "read"
  /\ scans' = [scans EXCEPT ![i] = "idle"]
  /\ UNCHANGED <<rows, marked, batch, runs, edits, spent>>

\* IdentifyItems lists what it needs, all of it if forced. The library, the item
\* and the force that are asked for make runs of their own, side by side.
ListPending(force) ==
  /\ batch' = batch \cup {i \in Item \ marked :
                            ~rows[i].lockData /\ (force \/ rows[i].ids = "none")}
  /\ UNCHANGED <<rows, marked, scans, runs, edits, spent>>

Running(i) == runs[i].pc \notin {"none", "missed", "failed"}

Enqueued(i) ==
  IF Running(i) THEN runs ELSE [runs EXCEPT ![i].pc = "queued", ![i].tries = 0]

ScanEnqueues(i) ==
  /\ scans[i] = "enqueue"
  /\ scans' = [scans EXCEPT ![i] = "idle"]
  /\ runs' = Enqueued(i)
  /\ UNCHANGED <<rows, marked, batch, edits, spent>>

BatchEnqueues(i) ==
  /\ i \in batch
  /\ batch' = batch \ {i}
  /\ runs' = Enqueued(i)
  /\ UNCHANGED <<rows, marked, scans, edits, spent>>

\* Either enqueue may fail: the scan logs it, the batch lists again when its run
\* is retried.
EnqueueFails(i) ==
  /\ Spends
  /\ \/ scans[i] = "enqueue" /\ scans' = [scans EXCEPT ![i] = "idle"] /\ UNCHANGED batch
     \/ i \in batch /\ batch' = batch \ {i} /\ UNCHANGED scans
  /\ UNCHANGED <<rows, marked, runs, edits>>

-----------------------------------------------------------------------------
(* Identification.                                                         *)

\* slip: what has been identified is left as it is.
ReadUnlessKnown(i) ==
  /\ runs[i].pc = "queued" /\ i \notin marked
  /\ runs' = [runs EXCEPT ![i].pc = IF rows[i].ids = "none" THEN "fetch" ELSE "none",
                          ![i].tries = @ + 1, ![i].locked = rows[i].locked,
                          ![i].crossed = FALSE]
  /\ UNCHANGED <<rows, marked, scans, batch, edits, spent>>

\* IdentifyItem reads the item.
ReadItem(i) ==
  /\ runs[i].pc = "queued" /\ i \notin marked
  /\ runs' = [runs EXCEPT ![i].pc = "fetch", ![i].tries = @ + 1,
                          ![i].locked = rows[i].locked, ![i].crossed = FALSE]
  /\ UNCHANGED <<rows, marked, scans, batch, edits, spent>>

\* A title that is marked is not found, and the run has succeeded.
ReadMarked(i) ==
  /\ runs[i].pc = "queued" /\ i \in marked
  /\ runs' = [runs EXCEPT ![i].pc = "missed"]
  /\ UNCHANGED <<rows, marked, scans, batch, edits, spent>>

\* The requests to TMDB, which take as long as its limiter makes them wait. It may have
\* a match, or no longer.
Matches(i) ==
  /\ runs[i].pc = "fetch" /\ i \in Known
  /\ runs' = [runs EXCEPT ![i].pc = "row"]
  /\ UNCHANGED <<rows, marked, scans, batch, edits, spent>>

\* No id to ask with, or no match: the run has succeeded.
MatchesNothing(i) ==
  /\ runs[i].pc = "fetch"
  /\ runs' = [runs EXCEPT ![i].pc = "missed"]
  /\ UNCHANGED <<rows, marked, scans, batch, edits, spent>>

\* stripLockedFields: the Name lock covers the sort name, and not the year.
Stripped(locked) ==
  {f \in Field : \/ f = "name" /\ "Name" \in locked
                 \/ f = "overview" /\ "Overview" \in locked}

\* UpdateMetadata's first statement.
UpdateRow(i) ==
  /\ runs[i].pc = "row"
  /\ LET kept == Stripped(runs[i].locked) IN
       rows' = [rows EXCEPT ![i].ids = "found",
                            ![i].values = [f \in Field |-> IF f \in kept THEN @[f] ELSE "found"]]
  /\ runs' = [runs EXCEPT ![i].pc = "named"]
  /\ UNCHANGED <<marked, scans, batch, edits, spent>>

\* Its second, and the artwork, whose failures are logged.
ReplaceNamed(i) ==
  /\ runs[i].pc = "named"
  /\ rows' = [rows EXCEPT ![i].named = "found"]
  /\ runs' = [runs EXCEPT ![i].pc = "none"]
  /\ UNCHANGED <<marked, scans, batch, edits, spent>>

\* slip: a run is retried for ever.
RetriedForEver(i) ==
  /\ runs[i].pc \in {"queued", "fetch", "row", "named"}
  /\ Spends
  /\ runs' = [runs EXCEPT ![i].pc = "queued"]
  /\ UNCHANGED <<rows, marked, scans, batch, edits>>

\* A statement or a request fails, and the run is retried from the start.
IdentifyFails(i) ==
  /\ runs[i].pc \in {"queued", "fetch", "row", "named"}
  /\ Spends
  /\ runs' = [runs EXCEPT ![i].pc = IF runs[i].tries < Attempts THEN "queued" ELSE "failed"]
  /\ UNCHANGED <<rows, marked, scans, batch, edits>>

-----------------------------------------------------------------------------
(* Edits.                                                                  *)

\* UpdateItem reads the item.
ReadForEdit(c) ==
  /\ edits[c] = None
  /\ Spends
  /\ \E i \in Item, request \in Requests :
       /\ i \notin marked
       /\ edits' = [edits EXCEPT ![c] = [item |-> i, read |-> rows[i], request |-> request]]
  /\ UNCHANGED <<rows, marked, scans, batch, runs>>

Or(value, otherwise) == IF value = None THEN otherwise ELSE value

Retitled(edit) ==
  \E f \in {"name", "year"} : Or(edit.request.values[f], edit.read.values[f]) # edit.read.values[f]

\* EditMetadata adds the lock to those sent, or else to those read.
LockedBy(edit, row) ==
  IF Retitled(edit) THEN Or(edit.request.locked, edit.read.locked) \cup {"Name"}
  ELSE Or(edit.request.locked, row.locked)

SaveEdit(c) ==
  /\ edits[c] # None
  /\ LET i == edits[c].item
         request == edits[c].request
         row == rows[i]
     IN /\ rows' = [rows EXCEPT ![i] =
                      [values |-> [f \in Field |-> Or(request.values[f], row.values[f])],
                       named |-> row.named,
                       ids |-> Or(request.ids, row.ids),
                       locked |-> LockedBy(edits[c], row),
                       lockData |-> Or(request.lockData, row.lockData)]]
        /\ runs' = [runs EXCEPT ![i].crossed = runs[i].pc \in {"fetch", "row"}]
  /\ edits' = [edits EXCEPT ![c] = None]
  /\ UNCHANGED <<marked, scans, batch, spent>>

-----------------------------------------------------------------------------
Next ==
  \/ \E i \in Item :
       \/ Mark(i) \/ SaveScanned(i) \/ ReadBack(i) \/ ScanFails(i)
       \/ ScanEnqueues(i) \/ BatchEnqueues(i) \/ EnqueueFails(i)
       \/ ReadItem(i) \/ ReadMarked(i) \/ Matches(i) \/ MatchesNothing(i)
       \/ UpdateRow(i) \/ ReplaceNamed(i) \/ IdentifyFails(i)
  \/ \E force \in BOOLEAN : ListPending(force)
  \/ \E c \in Client : ReadForEdit(c) \/ SaveEdit(c)

Spec == Init /\ [][Next]_vars

-----------------------------------------------------------------------------
(* What must hold.                                                         *)

Changes(i, f) == rows'[i].values[f] # rows[i].values[f]

\* No scan takes back a title that is locked, whenever the lock was set
\* (unclaimedTitle decides in the statement), and no identification a name or
\* an overview that was locked when it read the item (stripLockedFields).
LocksHold ==
  [][\A i \in Item :
       /\ (scans'[i] # scans[i] /\ "Name" \in rows[i].locked)
            => ~Changes(i, "name") /\ ~Changes(i, "year")
       /\ (runs[i].pc = "row" /\ runs'[i].pc = "named" /\ ~runs[i].crossed)
            => /\ "Name" \in rows[i].locked => ~Changes(i, "name")
               /\ "Overview" \in rows[i].locked => ~Changes(i, "overview")]_vars

\* What carries the provider's ids carries its genres, studios and people too,
\* unless its run is still at it, has failed for good, or succeeded without a title or
\* a match: the second statement of UpdateMetadata may fail after the first, and then
\* the retry does the whole again, or finds that there is nothing to do it to.
WholeOrPending ==
  \A i \in Item :
    rows[i].ids = "found" /\ rows[i].named # "found" =>
      Running(i) \/ runs[i].pc \in {"failed", "missed"}
=============================================================================
