----------------------------- MODULE Playlists -----------------------------
(***************************************************************************)
(* The entries of one playlist (internal/playlists/playlists.go).          *)
(*                                                                         *)
(* A client sees a list; the table has a row per entry with a sort_order.  *)
(* Each operation is a transaction of several statements, and Postgres     *)
(* runs it at READ COMMITTED: a statement sees what others had committed   *)
(* when it began, and what its own transaction has written; rows that a    *)
(* transaction has written are its own until it ends.  A statement that    *)
(* writes the rows of a condition finds them when it begins, waits for     *)
(* those that others have written, and writes the ones that are there and  *)
(* meet the condition still: rows inserted since are not among them.       *)
(*                                                                         *)
(* A transaction whose remaining statements only insert, or only set rows  *)
(* found by their ids, does these and commits in one step.                 *)
(***************************************************************************)
EXTENDS Naturals, SequencesExt

CONSTANTS
    Client,   \* requests handled at the same time
    Title,    \* items that can be played
    Folder,   \* items that have others beneath them
    Beneath,  \* per folder, the titles beneath it in the order of their index
    Lists,    \* what the requests give: sequences of titles and folders
    Entries,  \* bound: how many entries a playlist has
    Requests, \* bound: how many requests arrive
    None

Id == 1 .. Entries
Position == 0 .. 2 * Entries

ASSUME PlaylistsAssumption ==
    /\ Entries \in Nat /\ Requests \in Nat
    /\ Title \cap Folder = {}
    /\ Beneath \in [Folder -> Seq(Title)]
    /\ Lists \subseteq Seq(Title \cup Folder)
    /\ None \notin Id \cup [title : Title, at : Position]

VARIABLES
    there,  \* the titles that have not been deleted
    rows,   \* playlist_entries by id: item_id and sort_order
    tx,     \* the open transaction of each client
    asked   \* how many requests have arrived

vars == <<there, rows, tx, asked>>

(* A row: item_id, and sort_order as the place it is at.                   *)
Row == [title : Title, at : Position]

Request ==
    [kind : {"AddItems", "Update"}, items : Lists]
        \cup [kind : {"RemoveEntries"}, ids : SUBSET Id]
        \cup [kind : {"MoveEntry"}, id : Id, to : 0 .. Entries]

Run == [pc : {"idle", "begun", "counted", "expanded", "clearing", "cleared", "removed",
              "ordered", "found", "shifting", "shifted"},
        request : Request \cup {None},
        at : Position,                     \* the count, or the place of the entry to move
        titles : {<<>>} \cup Seq(Title),   \* the items, expanded
        targets : SUBSET Id,               \* the rows that the statement found as it began
        plan : UNION {[S -> Position] : S \in SUBSET Id},              \* places to be given
        writes : UNION {[S -> Row \cup {None}] : S \in SUBSET Id},     \* rows written so far
        alone : BOOLEAN]                   \* no one has committed since it began

Idle == [pc |-> "idle", request |-> None, at |-> 0, titles |-> <<>>,
         targets |-> {}, plan |-> <<>>, writes |-> <<>>, alone |-> TRUE]

TypeOK ==
    /\ there \subseteq Title
    /\ rows \in [Id -> Row \cup {None}]
    /\ tx \in [Client -> Run]
    /\ asked \in 0 .. Requests

-----------------------------------------------------------------------------
(* The table as a list: by place, rows of one place by id.                 *)

Present(w) == {i \in Id : w[i] # None}

Index(w, i) ==
    Cardinality({k \in Present(w) : w[k].at < w[i].at \/ (w[k].at = w[i].at /\ k < i)})

ListOf(w) ==
    [n \in 1 .. Cardinality(Present(w)) |-> CHOOSE i \in Present(w) : Index(w, i) = n - 1]

TitlesOf(w) == [n \in DOMAIN ListOf(w) |-> w[ListOf(w)[n]].title]

(* Each entry's sort_order is its index.                                   *)
Orderly(w) == \A i \in Present(w) : w[i].at = Index(w, i)

(* expand: items no longer there are ignored, folders become what is       *)
(* beneath them.                                                           *)
Expanded(items) ==
    LET each(x) == IF x \in Folder THEN Beneath[x] ELSE <<x>>
        all == FlattenSeq([n \in DOMAIN items |-> each(items[n])])
    IN  FlattenSeq([n \in DOMAIN all |-> IF all[n] \in there THEN <<all[n]>> ELSE <<>>])

(* The rows that appendEntries inserts under new ids.                      *)
Appended(ids, titles, from) ==
    [i \in ToSet(ids) |->
        LET n == CHOOSE n \in DOMAIN ids : ids[n] = i
        IN  [title |-> titles[n], at |-> from + n - 1]]

NewIds(n, S) == {ids \in [1 .. n -> S] : \A a, b \in 1 .. n : ids[a] = ids[b] => a = b}

(* Create.                                                                 *)
Init ==
    /\ there = Title
    /\ \E items \in Lists :
          \E ids \in NewIds(Len(Expanded(items)), Id) :
             rows = [i \in Id |-> IF i \in ToSet(ids) THEN Appended(ids, Expanded(items), 0)[i]
                                 ELSE None]
    /\ tx = [c \in Client |-> Idle]
    /\ asked = 0

-----------------------------------------------------------------------------
\* The table with these rows written.
With(w, writes) == [i \in Id |-> IF i \in DOMAIN writes THEN writes[i] ELSE w[i]]

View(c) == With(rows, tx[c].writes)

Free(c, S) == \A d \in Client \ {c} : DOMAIN tx[d].writes \cap S = {}

(* An id no row has and no request names.                                  *)
Unused(i) ==
    /\ rows[i] = None
    /\ \A d \in Client :
          /\ i \notin tx[d].targets \cup DOMAIN tx[d].plan \cup DOMAIN tx[d].writes
          /\ tx[d].pc # "idle" =>
                CASE tx[d].request.kind = "RemoveEntries" -> i \notin tx[d].request.ids
                  [] tx[d].request.kind = "MoveEntry" -> i # tx[d].request.id
                  [] OTHER -> TRUE

Does(c, kind, pc) == tx[c].pc = pc /\ tx[c].request.kind = kind
Goes(c, run) == tx' = [tx EXCEPT ![c] = run] /\ UNCHANGED <<there, rows, asked>>
Ends(c) == Goes(c, Idle)

Interrupted(run) == [run EXCEPT !.alone = run.pc = "idle"]
Commits(c, writes) ==
    /\ rows' = With(View(c), writes)
    /\ tx' = [d \in Client |-> IF d = c THEN Idle ELSE Interrupted(tx[d])]
    /\ UNCHANGED <<there, asked>>

-----------------------------------------------------------------------------
(* A request arrives; the entries it names are ones its client has seen.   *)
Begin(c) ==
    /\ tx[c].pc = "idle"
    /\ \E r \in Request :
          /\ r.kind = "RemoveEntries" => r.ids # {} /\ r.ids \subseteq Present(rows)
          /\ r.kind = "MoveEntry" => r.id \in Present(rows)
          /\ tx' = [tx EXCEPT ![c] = [Idle EXCEPT !.pc = "begun", !.request = r]]
    /\ asked < Requests
    /\ asked' = asked + 1
    /\ UNCHANGED <<there, rows>>

(* AddItems and MoveEntry count the entries; an index outside is refused.  *)
Count(c) ==
    /\ Does(c, "AddItems", "begun") \/ Does(c, "MoveEntry", "begun")
    /\ LET count == Cardinality(Present(rows))
       IN  IF tx[c].request.kind = "MoveEntry" /\ tx[c].request.to >= count THEN Ends(c)
           ELSE Goes(c, [tx[c] EXCEPT !.pc = "counted", !.at = count])

Expand(c) ==
    /\ Does(c, "AddItems", "counted") \/ Does(c, "Update", "begun")
    /\ Goes(c, [tx[c] EXCEPT !.pc = "expanded", !.titles = Expanded(tx[c].request.items)])

(* Update's delete of the entries finds them,                              *)
FindAll(c) ==
    /\ Does(c, "Update", "expanded")
    /\ Goes(c, [tx[c] EXCEPT !.pc = "clearing", !.targets = Present(rows)])

(* and deletes them.                                                       *)
Clear(c) ==
    LET still == tx[c].targets \cap Present(rows)
    IN  /\ Does(c, "Update", "clearing")
        /\ Free(c, still)
        /\ Goes(c, [tx[c] EXCEPT !.pc = "cleared", !.targets = {},
                                 !.writes = [i \in still |-> None]])

(* appendEntries: AddItems goes on from the count, Update from zero.  The  *)
(* item of an entry must be there still.                                   *)
Insert(c) ==
    LET n == Len(tx[c].titles)
    IN  /\ Does(c, "AddItems", "expanded") \/ Does(c, "Update", "cleared")
        /\ IF ToSet(tx[c].titles) \subseteq there
           THEN \E ids \in NewIds(n, {i \in Id : Unused(i)}) :
                   Commits(c, Appended(ids, tx[c].titles, tx[c].at))
           ELSE Ends(c)

(* RemoveEntries deletes,                                                  *)
Delete(c) ==
    LET ids == tx[c].request.ids \cap Present(rows)
    IN  /\ Does(c, "RemoveEntries", "begun")
        /\ Free(c, ids)
        /\ Goes(c, [tx[c] EXCEPT !.pc = "removed", !.writes = [i \in ids |-> None]])

(* reads the rest in order,                                                *)
Misplaced(w) == {i \in Present(w) : w[i].at # Index(w, i)}
ReadOrder(c) ==
    /\ Does(c, "RemoveEntries", "removed")
    /\ Goes(c, [tx[c] EXCEPT !.pc = "ordered",
                             !.plan = [i \in Misplaced(View(c)) |-> Index(View(c), i)]])

(* and gives each entry that is not at its index that index; an entry gone *)
(* by then fails the transaction.                                          *)
Renumber(c) ==
    LET plan == tx[c].plan
    IN  /\ Does(c, "RemoveEntries", "ordered")
        /\ Free(c, DOMAIN plan)
        /\ IF DOMAIN plan \subseteq Present(rows)
           THEN Commits(c, [i \in DOMAIN plan |-> [rows[i] EXCEPT !.at = plan[i]]])
           ELSE Ends(c)

(* MoveEntry reads its entry's place,                                      *)
Find(c) ==
    LET r == tx[c].request
    IN  /\ Does(c, "MoveEntry", "counted")
        /\ IF rows[r.id] = None \/ rows[r.id].at = r.to THEN Ends(c)
           ELSE Goes(c, [tx[c] EXCEPT !.pc = "found", !.at = rows[r.id].at])

(* and shifts the entries between there and the new place by one: the      *)
(* update finds them,                                                      *)
ShiftedDown(row, from, to) ==  \* slip: towards the front whichever way the entry goes
    IF (row.at >= to /\ row.at < from) \/ (row.at > from /\ row.at <= to)
    THEN [row EXCEPT !.at = @ - 1] ELSE row
ShiftedThrough(row, from, to) ==  \* slip: the entry at the new place stays
    IF row.at > to /\ row.at < from THEN [row EXCEPT !.at = @ + 1]
    ELSE IF row.at > from /\ row.at < to THEN [row EXCEPT !.at = @ - 1]
    ELSE row
Shifted(row, from, to) ==
    IF row.at >= to /\ row.at < from THEN [row EXCEPT !.at = @ + 1]
    ELSE IF row.at > from /\ row.at <= to THEN [row EXCEPT !.at = @ - 1]
    ELSE row
Between(c) ==
    {i \in Present(rows) : Shifted(rows[i], tx[c].at, tx[c].request.to) # rows[i]}
FindBetween(c) ==
    /\ Does(c, "MoveEntry", "found")
    /\ Goes(c, [tx[c] EXCEPT !.pc = "shifting", !.targets = Between(c)])

(* shifts those that are between still, from where they are now,           *)
Shift(c) ==
    LET between == tx[c].targets \cap Between(c)
        moved(i) == Shifted(rows[i], tx[c].at, tx[c].request.to)
    IN  /\ Does(c, "MoveEntry", "shifting")
        /\ Free(c, tx[c].targets \cap Present(rows))
        /\ Goes(c, [tx[c] EXCEPT !.pc = "shifted", !.targets = {},
                                 !.writes = [i \in between |-> moved(i)]])

(* and puts it there.                                                      *)
Place(c) ==
    LET r == tx[c].request
    IN  /\ Does(c, "MoveEntry", "shifted")
        /\ Free(c, {r.id})
        /\ IF rows[r.id] = None THEN Ends(c)
           ELSE Commits(c, [i \in {r.id} |-> [rows[i] EXCEPT !.at = r.to]])

(* A lost connection, a client gone, or the victim of a deadlock.          *)
Abort(c) == tx[c].pc # "idle" /\ Ends(c)

(* DeleteItem: an item goes, and its entries in every playlist with it.    *)
DeleteItem(t) ==
    LET gone == {i \in Present(rows) : rows[i].title = t}
    IN  /\ t \in there
        /\ \A d \in Client : DOMAIN tx[d].writes \cap gone = {}
        /\ there' = there \ {t}
        /\ rows' = [i \in Id |-> IF i \in gone THEN None ELSE rows[i]]
        /\ tx' = [d \in Client |-> Interrupted(tx[d])]
        /\ UNCHANGED asked

Next ==
    \/ \E c \in Client :
          \/ Begin(c) \/ Count(c) \/ Expand(c) \/ FindAll(c) \/ Clear(c) \/ Insert(c)
          \/ Delete(c) \/ ReadOrder(c) \/ Renumber(c)
          \/ Find(c) \/ FindBetween(c) \/ Shift(c) \/ Place(c) \/ Abort(c)
    \/ \E t \in Title : DeleteItem(t)

Spec == Init /\ [][Next]_vars

-----------------------------------------------------------------------------
(* Properties.                                                             *)

Completes(c) == tx[c].pc # "idle" /\ tx'[c].pc = "idle" /\ rows' # rows

(* Both lists have these entries in the same order.                        *)
Precedes(list, i, k) ==
    \E m, n \in DOMAIN list : m < n /\ list[m] = i /\ list[n] = k
SameOrder(S, old, new) ==
    \A i, k \in S : Precedes(old, i, k) <=> Precedes(new, i, k)

(* What a client asked for of the list it sees.                            *)
Asked(r, w, v) ==
    LET old == ListOf(w)
        new == ListOf(v)
    IN  CASE r.kind = "AddItems" ->
                 /\ IsPrefix(old, new)
                 /\ SubSeq(TitlesOf(v), Len(old) + 1, Len(new)) = Expanded(r.items)
          [] r.kind = "Update" -> TitlesOf(v) = Expanded(r.items)
          [] r.kind = "RemoveEntries" ->
                 /\ ToSet(new) = ToSet(old) \ r.ids
                 /\ SameOrder(ToSet(new), old, new)
          [] r.kind = "MoveEntry" ->
                 /\ ToSet(new) = ToSet(old)
                 /\ new[r.to + 1] = r.id
                 /\ SameOrder(ToSet(old) \ {r.id}, old, new)

(* A request that nothing else commits during does to the list what it was *)
(* asked: removing and replacing whatever state others have left the       *)
(* places in, and setting them right; adding and moving where the places   *)
(* are right.                                                              *)
AloneActsOnList ==
    [][\A c \in Client :
          Completes(c) /\ tx[c].alone
             /\ (tx[c].request.kind \in {"AddItems", "MoveEntry"} => Orderly(rows))
          => Asked(tx[c].request, rows, rows') /\ Orderly(rows')]_vars

(* Items added to a playlist come after all that are in it.                *)
AppendsToTheEnd ==
    [][\A c \in Client :
          Completes(c) /\ tx[c].alone /\ tx[c].request.kind = "AddItems"
          => IsPrefix(ListOf(rows), ListOf(rows'))]_vars
=============================================================================
