-------------------------------- MODULE Tmdb --------------------------------
(***************************************************************************)
(* Calls of TMDB (internal/metadata/tmdb): the limiter that spaces them,   *)
(* the retries of an answer that asks for them, and the mutex under which  *)
(* the first caller has the artwork's address looked up for all.  Times    *)
(* are relative to now, and what is further back than Past is Past.        *)
(***************************************************************************)
EXTENDS Integers, FiniteSets

CONSTANTS
  Caller,     \* runs that identify, one call each at a time
  Spacing,    \* the time between two reservations
  Attempts,   \* of one request, 4 in the code
  Ahead,      \* bound: how far ahead there are reservations when a call starts
  None        \* no reservation, nobody

\* What the constants are to be: the instances assume it.
Parameters ==
  /\ IsFiniteSet(Caller)
  /\ Spacing \in Nat \ {0} /\ Attempts \in Nat \ {0} /\ Ahead \in Nat

\* No moment is None.
NoneApart == None \notin Int

VARIABLES
  next,        \* the limiter's next moment
  mutex,       \* who holds the client's
  described,   \* whether the artwork's address is known
  calls        \* what each caller does

vars == <<next, mutex, described, calls>>

Past == -Spacing
Moment == Past..Ahead + Spacing * (1 + Cardinality(Caller))

\* `wait' and `request' are those of the call, `lock', `imageWait' and
\* `imageRequest' those of images. `due': the moment the latest reservation is for.
Call == [pc: {"idle", "wait", "request", "lock", "imageWait", "imageRequest"},
         due: Moment \cup {None}, tries: 0..Attempts]

TypeOK ==
  /\ next \in Moment
  /\ mutex \in Caller \cup {None}
  /\ described \in BOOLEAN
  /\ calls \in [Caller -> Call]

Init ==
  /\ next = Past
  /\ mutex = None
  /\ described = FALSE
  /\ calls = [c \in Caller |-> [pc |-> "idle", due |-> None, tries |-> 0]]

At(c, pc) == calls[c].pc = pc
Later(s, t) == IF s > t THEN s ELSE t
Moves(c, pc) == calls' = [calls EXCEPT ![c].pc = pc]

Sooner(moment) == IF moment = None THEN None ELSE Later(moment - 1, Past)

Tick ==
  /\ next' = Sooner(next)
  /\ calls' = [c \in Caller |-> [calls[c] EXCEPT !.due = Sooner(@)]]
  /\ UNCHANGED <<mutex, described>>

-----------------------------------------------------------------------------
(* The limiter.                                                            *)

\* slip: reservations that nobody has made since are made up for.
ReserveFromLast(c, pc) ==
  /\ calls' = [calls EXCEPT ![c] = [pc |-> pc, due |-> Later(next, 0), tries |-> 0]]
  /\ next' = next + Spacing

\* Under the limiter's own mutex: the next moment, which is now after a pause.
Reserve(c, pc) ==
  /\ calls' = [calls EXCEPT ![c] = [pc |-> pc, due |-> Later(next, 0), tries |-> 0]]
  /\ next' = Later(next, 0) + Spacing

Start(c) ==
  /\ At(c, "idle") /\ next <= Ahead
  /\ Reserve(c, "wait")
  /\ UNCHANGED <<mutex, described>>

Due(c) ==
  /\ At(c, "wait") /\ calls[c].due <= 0
  /\ Moves(c, "request")
  /\ UNCHANGED <<next, mutex, described>>

\* The run is cancelled while it waits; the moment it has reserved passes unused.
GivesUp(c) ==
  /\ At(c, "wait")
  /\ Moves(c, "idle")
  /\ UNCHANGED <<next, mutex, described>>

-----------------------------------------------------------------------------
(* Requests.                                                               *)

\* Too many requests, or an error of the server: after a while, once more, which
\* takes no reservation.
AskedAgain(c) ==
  /\ At(c, "request") \/ At(c, "imageRequest")
  /\ calls[c].tries + 1 < Attempts
  /\ calls' = [calls EXCEPT ![c].tries = @ + 1]
  /\ UNCHANGED <<next, mutex, described>>

Found(c) ==
  /\ At(c, "request")
  /\ Moves(c, "lock")
  /\ UNCHANGED <<next, mutex, described>>

\* Not found, an error, or half a minute has gone by.
Missed(c) ==
  /\ At(c, "request")
  /\ Moves(c, "idle")
  /\ UNCHANGED <<next, mutex, described>>

-----------------------------------------------------------------------------
(* images, under the client's mutex from here to its return.               *)

Lock(c) ==
  /\ At(c, "lock") /\ mutex = None
  /\ IF described
     THEN Moves(c, "idle") /\ UNCHANGED <<next, mutex>>
     ELSE Reserve(c, "imageWait") /\ mutex' = c
  /\ UNCHANGED described

ImageDue(c) ==
  /\ At(c, "imageWait") /\ calls[c].due <= 0
  /\ Moves(c, "imageRequest")
  /\ UNCHANGED <<next, mutex, described>>

\* slip: an early return leaves the mutex locked.
FailsLocked(c) ==
  /\ At(c, "imageWait") \/ At(c, "imageRequest")
  /\ Moves(c, "idle")
  /\ UNCHANGED <<next, mutex, described>>

\* The run is cancelled, or the request fails: there is no artwork this time.
ImageFails(c) ==
  /\ At(c, "imageWait") \/ At(c, "imageRequest")
  /\ Moves(c, "idle")
  /\ mutex' = None
  /\ UNCHANGED <<next, described>>

Described(c) ==
  /\ At(c, "imageRequest")
  /\ Moves(c, "idle")
  /\ mutex' = None
  /\ described' = TRUE
  /\ UNCHANGED <<next>>

-----------------------------------------------------------------------------
Next ==
  \/ Tick
  \/ \E c \in Caller :
       \/ Start(c) \/ Due(c) \/ GivesUp(c)
       \/ AskedAgain(c) \/ Found(c) \/ Missed(c)
       \/ Lock(c) \/ ImageDue(c) \/ ImageFails(c) \/ Described(c)

\* Time passes, a request ends with its answer or its time-out, and Go's mutex is
\* handed to one that has waited long.
Fairness ==
  /\ WF_vars(Tick)
  /\ \A c \in Caller :
       /\ WF_vars(Due(c)) /\ WF_vars(Found(c) \/ Missed(c))
       /\ SF_vars(Lock(c)) /\ WF_vars(ImageDue(c))
       /\ WF_vars(At(c, "imageRequest") /\ (Described(c) \/ ImageFails(c)))

Spec == Init /\ [][Next]_vars /\ Fairness

-----------------------------------------------------------------------------
(* What must hold.                                                         *)

\* No two reservations are for moments less than the spacing apart, after a pause
\* as in a rush, and with artwork looked up in between (limiter.wait).
Spaced ==
  \A c, d \in Caller :
    (c # d /\ calls[c].due \notin {None, Past} /\ calls[d].due \notin {None, Past})
      => calls[c].due - calls[d].due >= Spacing \/ calls[d].due - calls[c].due >= Spacing

\* Every call ends, those too that wait for another's look-up of the artwork, which
\* waits for the limiter and for TMDB with the mutex held and may fail (images).
CallsEnd == \A c \in Caller : ~At(c, "idle") ~> At(c, "idle")
=============================================================================
