------------------------------ MODULE Progress ------------------------------
(***************************************************************************)
(* Jobs, encodings, web sockets and calls of TMDB, which share no state,   *)
(* side by side as in Parts, and fair: the parts of which something must   *)
(* happen in the end.  A part that does not move is where it begins, and   *)
(* nothing of its own fairness is enabled there.  Encoder is extended, and *)
(* its constants are this module's.                                        *)
(***************************************************************************)
EXTENDS Encoder

CONSTANTS
  None,       \* no attempt, no reservation, nobody
  Attempts,   \* attempts of a run, and of a request
  Shelf,      \* libraries that jobs refresh
  Bound,      \* Bound[l]: the sources bound to library l
  Slot,       \* what the worker executes at a time
  JobLimit,   \* requests, cancellings and faults of jobs
  Room,       \* replies the channel of a web socket holds
  Caller,     \* runs that identify
  Spacing,    \* the time between two reservations
  Ahead       \* how far ahead there are reservations when a call starts

VARIABLES
  part,
  joRuns, joSlots, joStop, joOwed, joSpent,
  skPeer, skConn, skReader, skHeld, skReplies, skWriter,
  tmNext, tmMutex, tmDescribed, tmCalls

jobsVars == <<joRuns, joSlots, joStop, joOwed, joSpent>>
socketVars == <<skPeer, skConn, skReader, skHeld, skReplies, skWriter>>
tmdbVars == <<tmNext, tmMutex, tmDescribed, tmCalls>>

partsVars == <<part, jobsVars, vars, socketVars, tmdbVars>>

-----------------------------------------------------------------------------
J == INSTANCE Jobs WITH
       Library <- Shelf, Limit <- JobLimit,
       runs <- joRuns, slots <- joSlots, stop <- joStop, owed <- joOwed, spent <- joSpent

K == INSTANCE Socket WITH
       peer <- skPeer, conn <- skConn, reader <- skReader, held <- skHeld,
       replies <- skReplies, writer <- skWriter

T == INSTANCE Tmdb WITH
       next <- tmNext, mutex <- tmMutex, described <- tmDescribed, calls <- tmCalls

ASSUME PartsAssumption ==
  /\ J!Parameters /\ J!NoneApart
  /\ Parameters /\ K!Parameters
  /\ T!Parameters /\ T!NoneApart

-----------------------------------------------------------------------------
PartsInit ==
  /\ part \in {"jobs", "encoder", "socket", "tmdb"}
  /\ J!Init /\ Init /\ K!Init /\ T!Init

Is(name) == part = name /\ UNCHANGED part

RunsJobs ==
  /\ Is("jobs") /\ J!Next
  /\ UNCHANGED <<vars, socketVars, tmdbVars>>

Encodes ==
  /\ Is("encoder") /\ Next
  /\ UNCHANGED <<jobsVars, socketVars, tmdbVars>>

Talks ==
  /\ Is("socket") /\ K!Next
  /\ UNCHANGED <<jobsVars, vars, tmdbVars>>

AsksTmdb ==
  /\ Is("tmdb") /\ T!Next
  /\ UNCHANGED <<jobsVars, vars, socketVars>>

PartsNext == RunsJobs \/ Encodes \/ Talks \/ AsksTmdb

PartsSpec ==
  /\ PartsInit /\ [][PartsNext]_partsVars
  /\ J!Fairness /\ Fairness /\ K!Fairness /\ T!Fairness

-----------------------------------------------------------------------------
(* The variables of the part that moves have their types.                  *)
PartsTypeOK ==
  /\ part = "jobs" => J!TypeOK
  /\ part = "encoder" => TypeOK
  /\ part = "socket" => K!TypeOK
  /\ part = "tmdb" => T!TypeOK

(* What the modules say of them, each with its reasons there.              *)

\* Every run of a job ends.
RunsEnd == J!RunsEnd

\* A web socket whose client has gone ends at both its goroutines.
SocketEnds == K!SocketEnds

\* Reservations of TMDB's limiter are apart.
Spaced == T!Spaced

\* Every call of TMDB ends.
CallsEnd == T!CallsEnd
=============================================================================
