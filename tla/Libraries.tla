----------------------------- MODULE Libraries -----------------------------
(***************************************************************************)
(* Who holds a title: libraries, whose scans prune and fill them by runs   *)
(* of RefreshItem, and their deletion, of several at a time, which takes   *)
(* the titles that no other holds.  What runs do to files is in the module *)
(* Ingest.  Each library is bound to one source here.                      *)
(***************************************************************************)
EXTENDS Naturals, FiniteSets

CONSTANTS
  Library,    \* libraries, which are all there at first
  Item,       \* titles, by key
  Parent,     \* Parent[i]: the series or season that i is in, or None
  None,       \* no parent, nothing under way
  Attempts,   \* attempts of a run, 8 in the code
  Limit       \* at most so many scans and faults

\* What the constants are to be: the instances assume it. An episode is in a season,
\* and that in a series, which is in none.
Parameters ==
  /\ Parent \in [Item -> Item \cup {None}]
  /\ \A i, j, k \in Item : Parent[i] = j /\ Parent[j] = k => Parent[k] = None
  /\ Attempts \in Nat \ {0}
  /\ Limit \in Nat

\* No title is None: assumed where it is used.
NoneApart == None \notin Item

VARIABLES
  libraries,   \* those that are there
  items,       \* the titles that have a row
  members,     \* library_items, as committed
  scans,       \* RefreshSource of each library
  runs,        \* RefreshItem, by library and title
  deletions,   \* the transaction of DeleteLibrary of each library
  loose,       \* history: titles without a library, for a reason that is known
  spent        \* how much of the limit is used up

vars == <<libraries, items, members, scans, runs, deletions, loose, spent>>

\* `left': the titles that are still to be enqueued.
Scanning == [pc: {"read", "pruned"}, admitted: SUBSET Item, left: SUBSET Item]

\* "stale": the row that the run has saved is gone, and it still has its id.
Run == [pc: {"idle", "queued", "saved", "stale"}, tries: 0..Attempts, tagged: BOOLEAN]

\* `listed': the first statement's answer. `seen': the memberships there are when the
\* last one looks.
Deletion == [pc: {"listed", "chosen"}, listed: SUBSET Item, seen: SUBSET (Library \X Item)]

TypeOK ==
  /\ libraries \subseteq Library
  /\ items \subseteq Item
  /\ members \subseteq Library \X Item
  /\ scans \in [Library -> {None} \cup Scanning]
  /\ runs \in [Library \X Item -> Run]
  /\ deletions \in [Library -> {None} \cup Deletion]
  /\ loose \subseteq Item
  /\ spent \in 0..Limit

Idle == [pc |-> "idle", tries |-> 0, tagged |-> FALSE]

Init ==
  /\ libraries = Library
  /\ items = {}
  /\ members = {}
  /\ scans = [l \in Library |-> None]
  /\ runs = [r \in Library \X Item |-> Idle]
  /\ deletions = [l \in Library |-> None]
  /\ loose = {}
  /\ spent = 0

Spends == spent < Limit /\ spent' = spent + 1
HoldersOf(i) == {l \in Library : <<l, i>> \in members}
Doing(l, pc) == deletions[l] # None /\ deletions[l].pc = pc

\* The deletion has deleted the library's row and not ended yet: what is to refer to
\* it, or to delete its memberships too, waits.
Locked(l) == Doing(l, "chosen")

\* What ends without a library for this title leaves it to itself, unless one has it.
Left(i) == IF HoldersOf(i) = {} THEN loose \cup {i} ELSE loose

-----------------------------------------------------------------------------
(* RefreshSource, of a library that is there.                              *)

\* The source answers with the titles, and some have the tag of the library.
Scan(l) ==
  /\ scans[l] = None /\ l \in libraries
  /\ Spends
  /\ \E admitted \in SUBSET Item :
       scans' = [scans EXCEPT ![l] = [pc |-> "read", admitted |-> admitted, left |-> Item]]
  /\ UNCHANGED <<libraries, items, members, runs, deletions, loose>>

\* DeleteMembershipNotInKeys.
Prune(l) ==
  /\ scans[l] # None /\ scans[l].pc = "read" /\ ~Locked(l)
  /\ LET dropped == {i \in Item \ scans[l].admitted : <<l, i>> \in members} IN
       /\ members' = members \ ({l} \X dropped)
       /\ loose' = loose \cup {i \in dropped : HoldersOf(i) = {l}}
  /\ scans' = [scans EXCEPT ![l].pc = "pruned"]
  /\ UNCHANGED <<libraries, items, runs, deletions, spent>>

Took(l, i) ==
  LET left == scans[l].left \ {i} IN
    scans' = IF left = {} THEN [scans EXCEPT ![l] = None] ELSE [scans EXCEPT ![l].left = left]

\* The titles are enqueued one by one, with the tag or without; one whose run is still
\* under way is not enqueued again.
EnqueueTitle(l, i) ==
  /\ scans[l] # None /\ scans[l].pc = "pruned" /\ i \in scans[l].left
  /\ Took(l, i)
  /\ runs' = IF runs[<<l, i>>].pc # "idle" THEN runs
             ELSE [runs EXCEPT ![<<l, i>>] = [pc |-> "queued", tries |-> 0,
                                              tagged |-> i \in scans[l].admitted]]
  /\ UNCHANGED <<libraries, items, members, deletions, loose, spent>>

\* An enqueue that fails is logged.
EnqueueFails(l, i) ==
  /\ scans[l] # None /\ scans[l].pc = "pruned" /\ i \in scans[l].left
  /\ Spends
  /\ Took(l, i)
  /\ UNCHANGED <<libraries, items, members, runs, deletions, loose>>

\* The scan ends before it is done, and is retried, or not, from its start.
ScanFails(l) ==
  /\ scans[l] # None
  /\ scans' = [scans EXCEPT ![l] = None]
  /\ UNCHANGED <<libraries, items, members, runs, deletions, loose, spent>>

-----------------------------------------------------------------------------
(* RefreshItem, of a title and a library.                                  *)

ParentThere(i) == Parent[i] # None => Parent[i] \in items

\* The title, and its files, which are not modelled here.
Save(l, i) ==
  /\ runs[<<l, i>>].pc = "queued" /\ ParentThere(i)
  /\ items' = items \cup {i}
  /\ runs' = [runs EXCEPT ![<<l, i>>].pc = "saved"]
  /\ UNCHANGED <<libraries, members, scans, deletions, loose, spent>>

\* A run without the tag is done with that.
EndUntagged(l, i) ==
  /\ runs[<<l, i>>].pc \in {"saved", "stale"} /\ ~runs[<<l, i>>].tagged
  /\ runs' = [runs EXCEPT ![<<l, i>>] = Idle]
  /\ loose' = Left(i)
  /\ UNCHANGED <<libraries, items, members, scans, deletions, spent>>

\* SaveMembership, which waits while the library is being deleted.
Join(l, i) ==
  /\ runs[<<l, i>>].pc = "saved" /\ runs[<<l, i>>].tagged
  /\ l \in libraries /\ ~Locked(l)
  /\ members' = members \cup {<<l, i>>}
  /\ runs' = [runs EXCEPT ![<<l, i>>] = Idle]
  /\ loose' = loose \ {i}
  /\ UNCHANGED <<libraries, items, scans, deletions, spent>>

\* The run starts over, or has had its last attempt.
Retry(l, i) ==
  LET run == runs[<<l, i>>] IN
    IF run.tries + 1 < Attempts
    THEN /\ runs' = [runs EXCEPT ![<<l, i>>] = [pc |-> "queued", tries |-> run.tries + 1,
                                               tagged |-> run.tagged]]
         /\ UNCHANGED loose
    ELSE runs' = [runs EXCEPT ![<<l, i>>] = Idle] /\ loose' = Left(i)

\* The foreign keys refuse what is gone.
Refused(l, i) ==
  /\ \/ runs[<<l, i>>].pc = "queued" /\ ~ParentThere(i)
     \/ runs[<<l, i>>].pc = "saved" /\ runs[<<l, i>>].tagged /\ l \notin libraries
     \/ runs[<<l, i>>].pc = "stale" /\ runs[<<l, i>>].tagged
  /\ Retry(l, i)
  /\ UNCHANGED <<libraries, items, members, scans, deletions, spent>>

\* Any statement may fail, the read back of a title that is marked deleted included.
RunFails(l, i) ==
  /\ runs[<<l, i>>].pc # "idle"
  /\ Spends
  /\ Retry(l, i)
  /\ UNCHANGED <<libraries, items, members, scans, deletions>>

-----------------------------------------------------------------------------
(* DeleteLibrary, one transaction: what it has deleted others see once it  *)
(* commits.  Of two of one library the second waits for the first, and     *)
(* then finds no row, or goes on as if it had listed later.                *)

ListItems(l) ==
  /\ deletions[l] = None /\ l \in libraries
  /\ deletions' = [deletions EXCEPT ![l] =
                     [pc |-> "listed", listed |-> {i \in Item : l \in HoldersOf(i)},
                      seen |-> {}]]
  /\ UNCHANGED <<libraries, items, members, scans, runs, loose, spent>>

\* The library is deleted, and the last statement begins, whose view is of now.
DeleteRow(l) ==
  /\ Doing(l, "listed")
  /\ deletions' = [deletions EXCEPT ![l].pc = "chosen", ![l].seen = members]
  /\ UNCHANGED <<libraries, items, members, scans, runs, loose, spent>>

\* slip: every title of the library goes with it.
EveryListed(l) == deletions[l].listed \cap items

\* slip: the titles are left to themselves.
NoneListed(l) == {}

SeenElsewhere(l, i) == \E m \in Library \ {l} : <<m, i>> \in deletions[l].seen

\* Those of its titles that no library holds, another one that is being deleted at
\* the same time included.
HeldByNone(l) == {i \in deletions[l].listed \cap items : ~SeenElsewhere(l, i)}

Under(keys) == keys \cup {i \in Item : Parent[i] \in keys}

\* It deletes them, joined to another library meanwhile or not, with what is under
\* them, seasons and their episodes. What joined after the list was read, or was seen
\* in another library and is in none now, stays behind.
CommitDeletion(l) ==
  /\ Doing(l, "chosen")
  /\ libraries' = libraries \ {l}
  /\ LET gone == Under(Under(HeldByNone(l)))
         behind == {i \in items : /\ HoldersOf(i) = {l}
                                  /\ i \notin deletions[l].listed \/ SeenElsewhere(l, i)}
     IN /\ items' = items \ gone
        /\ members' = {m \in members : m[1] # l /\ m[2] \notin gone}
        /\ loose' = (loose \cup behind) \ gone
        /\ runs' = [r \in Library \X Item |->
                      IF r[2] \in gone /\ runs[r].pc = "saved"
                      THEN [runs[r] EXCEPT !.pc = "stale"] ELSE runs[r]]
        /\ deletions' = [m \in Library |->
                           IF m = l \/ deletions[m] = None THEN None
                           ELSE [deletions[m] EXCEPT !.listed = @ \ gone]]
  /\ UNCHANGED <<scans, spent>>

DeletionFails(l) ==
  /\ deletions[l] # None
  /\ deletions' = [deletions EXCEPT ![l] = None]
  /\ UNCHANGED <<libraries, items, members, scans, runs, loose, spent>>

-----------------------------------------------------------------------------
Next ==
  \/ \E l \in Library :
       \/ Scan(l) \/ Prune(l) \/ ScanFails(l)
       \/ ListItems(l) \/ DeleteRow(l) \/ CommitDeletion(l) \/ DeletionFails(l)
  \/ \E l \in Library, i \in Item :
       \/ EnqueueTitle(l, i) \/ EnqueueFails(l, i)
       \/ Save(l, i) \/ EndUntagged(l, i) \/ Join(l, i) \/ Refused(l, i) \/ RunFails(l, i)

Spec == Init /\ [][Next]_vars

-----------------------------------------------------------------------------
(* What must hold.                                                         *)

Busy(i) == \E l \in Library : runs[<<l, i>>].pc # "idle"

\* A title with a row is in a library, or a run is still to end that may put it into
\* one, but for those that were pruned or left out by their tags, whose run was given
\* up, that joined a library after a deletion had listed its titles, and that a
\* deletion saw in another library which let go of them by its end, as one deleted at
\* the same time does (DeleteLibrary).
EveryTitleHeld == \A i \in items : HoldersOf(i) # {} \/ Busy(i) \/ i \in loose

\* A title that goes with a library was in no other when the last statement looked,
\* or the title above it goes (DeleteLibrary).
SharedTitlesSurvive ==
  [][\A i \in items \ items' :
       \/ Parent[i] \in items \ items'
       \/ \E l \in libraries \ libraries' :
            \A m \in HoldersOf(i) : m = l \/ <<m, i>> \notin deletions[l].seen]_vars
=============================================================================
