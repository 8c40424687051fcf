------------------------------ MODULE UserData ------------------------------
(***************************************************************************)
(* What a user has done with a title: the one row that playback reports,   *)
(* marks and updates read and write back whole (internal/items/userdata.go *)
(* and its handlers), from several devices at a time.                      *)
(***************************************************************************)
EXTENDS Naturals

CONSTANTS
  Device,     \* the user's devices, one request under way each
  RunTimes,   \* the run times the title may have, None if not known
  Positions,  \* the positions that are reported
  Requests,   \* what the devices may send
  Counts,     \* bound: the plays that are counted
  None        \* not known, not set, nothing under way

\* UpdateItemUserData sets what the request names, and leaves the rest as it read it.
Update == [kind: {"update"}, played: BOOLEAN \cup {None}, favorite: BOOLEAN \cup {None},
           count: 0..Counts \cup {None}, position: Positions \cup {None}]

Request == [kind: {"progress", "stop"}, position: Positions]
             \cup [kind: {"favorite", "played"}, value: BOOLEAN] \cup Update

\* What the constants are to be: the instances assume it.
Parameters ==
  /\ RunTimes \subseteq Nat \cup {None}
  /\ Positions \subseteq Nat
  /\ Requests \subseteq Request
  /\ Counts \in Nat

VARIABLES
  datum,     \* the row; a missing one reads as it is at first
  requests   \* what each device asks for, and has read for it

vars == <<datum, requests>>

Datum == [played: BOOLEAN, count: 0..Counts, favorite: BOOLEAN, position: Positions \cup {0}]

TypeOK ==
  /\ datum \in Datum
  /\ requests \in [Device -> {None} \cup
                     [request: Requests, read: Datum, overtaken: BOOLEAN]]

Init ==
  /\ datum = [played |-> FALSE, count |-> 0, favorite |-> FALSE, position |-> 0]
  /\ requests = [d \in Device |-> None]

-----------------------------------------------------------------------------
\* Nine tenths of a run time that is known and not zero.
Watched(runTime, position) ==
  runTime \notin {None, 0} /\ 10 * position >= 9 * runTime

\* slip: a title that was not watched to its end is not played.
StopDecides(read, request, runTime) ==
  IF Watched(runTime, request.position)
  THEN [read EXCEPT !.played = TRUE, !.count = @ + 1, !.position = 0]
  ELSE [read EXCEPT !.played = FALSE, !.position = request.position]

\* recordStop.
Stopped(read, request, runTime) ==
  IF Watched(runTime, request.position)
  THEN [read EXCEPT !.played = TRUE, !.count = @ + 1, !.position = 0]
  ELSE [read EXCEPT !.position = request.position]

\* savePlayed.
Marked(read, played) ==
  [read EXCEPT !.played = played, !.position = 0, !.count = IF played THEN @ + 1 ELSE @]

Set(value, otherwise) == IF value = None THEN otherwise ELSE value

\* The row a handler makes of the one it has read.
Changed(read, request, runTime) ==
  CASE request.kind = "progress" -> [read EXCEPT !.position = request.position]
    [] request.kind = "stop" -> Stopped(read, request, runTime)
    [] request.kind = "favorite" -> [read EXCEPT !.favorite = request.value]
    [] request.kind = "played" -> Marked(read, request.value)
    [] request.kind = "update" -> [played |-> Set(request.played, read.played),
                                   count |-> Set(request.count, read.count),
                                   favorite |-> Set(request.favorite, read.favorite),
                                   position |-> Set(request.position, read.position)]

\* CurrentUserDatum.
Read(d) ==
  /\ requests[d] = None
  /\ \E request \in Requests :
       requests' = [requests EXCEPT ![d] = [request |-> request, read |-> datum,
                                            overtaken |-> FALSE]]
  /\ UNCHANGED datum

\* SaveUserItemDatum: every column, as the handler has it.
Save(d) ==
  /\ requests[d] # None
  /\ \E runTime \in RunTimes :
       datum' = Changed(requests[d].read, requests[d].request, runTime)
  /\ datum'.count <= Counts
  /\ requests' = [e \in Device |->
                    IF e = d THEN None
                    ELSE IF requests[e] # None THEN [requests[e] EXCEPT !.overtaken = TRUE]
                    ELSE None]

\* The title is gone, or the connection is: nothing is saved.
Fails(d) ==
  /\ requests[d] # None
  /\ requests' = [requests EXCEPT ![d] = None]
  /\ UNCHANGED datum

Next == \E d \in Device : Read(d) \/ Save(d) \/ Fails(d)

Spec == Init /\ [][Next]_vars

-----------------------------------------------------------------------------
(* What must hold.                                                         *)

\* What takes back that a title is played, sets whether it is a favourite, and
\* sets how often it has been played.
Unplays(request) ==
  \/ request.kind = "played" /\ ~request.value
  \/ request.kind = "update" /\ request.played = FALSE

SetsFavorite(request) ==
  request.kind = "favorite" \/ (request.kind = "update" /\ request.favorite # None)

SetsCount(request) == request.kind = "update" /\ request.count # None

Saved(d) == requests[d] # None /\ requests'[d] = None

\* The row is saved by a request that unplays, one that sets the favourite, one that
\* sets the count, or as a device read it before another saved it (the handlers write
\* every column of what they have read).
UnplayedNow ==
  \E d \in Device : Saved(d) /\ (requests[d].overtaken \/ Unplays(requests[d].request))

FavoriteNow ==
  \E d \in Device : Saved(d) /\ (requests[d].overtaken \/ SetsFavorite(requests[d].request))

CountedNow ==
  \E d \in Device : Saved(d) /\ (requests[d].overtaken \/ SetsCount(requests[d].request))

\* What is played, a favourite or counted stays so until a request says otherwise,
\* whatever devices go on reporting, unless the save is of a row that another has
\* saved since it was read.
MarksKept ==
  [][/\ datum.played /\ ~datum'.played => UnplayedNow
     /\ datum.favorite # datum'.favorite => FavoriteNow
     /\ datum'.count < datum.count => CountedNow]_vars
=============================================================================
