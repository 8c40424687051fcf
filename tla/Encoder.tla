------------------------------ MODULE Encoder ------------------------------
(***************************************************************************)
(* Encoding for streams: the slots of internal/transcode's Encoder, the    *)
(* ffmpeg process of each stream, and the relay of internal/server/stream  *)
(* with its watch for stalls.                                              *)
(***************************************************************************)
EXTENDS Naturals, FiniteSets

CONSTANTS
  Client,   \* those who ask for streams, one each at a time
  Slots     \* encodings at a time

\* What the constants are to be: the instances assume it.
Parameters == Slots \in Nat \ {0} /\ IsFiniteSet(Client)

VARIABLES
  taken,     \* the slots taken: what the channel holds
  streams    \* the request of each client, with its process

vars == <<taken, streams>>

\* `pc': open has the slot, start peeks at the first output, failing waits for a
\* process that gave none, relay reads its output, write hands the client what was
\* read, close waits for the process. `proc': whether ffmpeg has written nothing
\* yet, writes, hangs, has closed its output or has ended. `client': whether it
\* takes what is written, does not or has left. `cancelled': the context, with which the
\* process is killed. `deadline': kill has set the one for writes.
Stream == [pc: {"idle", "open", "start", "failing", "relay", "write", "close"},
           proc: {"none", "silent", "writing", "hung", "closed", "ended"},
           client: {"reading", "slow", "gone"}, cancelled: BOOLEAN, deadline: BOOLEAN]

TypeOK == taken \in 0..Slots /\ streams \in [Client -> Stream]

Idle == [pc |-> "idle", proc |-> "none", client |-> "reading", cancelled |-> FALSE,
         deadline |-> FALSE]

Init == taken = 0 /\ streams = [c \in Client |-> Idle]

At(c, pc) == streams[c].pc = pc

-----------------------------------------------------------------------------
(* The encoder.                                                            *)

\* slip: one slot more than there are.
OpenPastLast(c) ==
  /\ At(c, "idle") /\ taken <= Slots
  /\ taken' = taken + 1
  /\ streams' = [streams EXCEPT ![c].pc = "open"]

\* Open: with no slot left the answer is 503.
Open(c) ==
  /\ At(c, "idle") /\ taken < Slots
  /\ taken' = taken + 1
  /\ streams' = [streams EXCEPT ![c].pc = "open"]

\* start: a specification, a pipe or an executable that will not do is an error.
OpenFails(c) ==
  /\ At(c, "open")
  /\ taken' = taken - 1
  /\ streams' = [streams EXCEPT ![c] = Idle]

Start(c) ==
  /\ At(c, "open")
  /\ streams' = [streams EXCEPT ![c].pc = "start", ![c].proc = "silent"]
  /\ UNCHANGED taken

\* Peek has a byte,
Started(c) ==
  /\ At(c, "start") /\ streams[c].proc # "silent"
  /\ streams' = [streams EXCEPT ![c].pc = "relay"]
  /\ UNCHANGED taken

\* or the output was closed before there was one; then the process is waited for
\* before the slot is given back.
PeekFails(c) ==
  /\ At(c, "start") /\ streams[c].proc \in {"closed", "ended"}
  /\ streams' = [streams EXCEPT ![c].pc = "failing"]
  /\ UNCHANGED taken

StartFails(c) ==
  /\ At(c, "failing") /\ streams[c].proc = "ended"
  /\ taken' = taken - 1
  /\ streams' = [streams EXCEPT ![c] = Idle]

-----------------------------------------------------------------------------
(* The relay, of one buffer after another.                                 *)

Reads(c) ==
  /\ At(c, "relay") /\ streams[c].proc = "writing"
  /\ streams' = [streams EXCEPT ![c].pc = "write"]
  /\ UNCHANGED taken

\* A write returns when the client has taken it.
Written(c) ==
  /\ At(c, "write") /\ streams[c].client = "reading"
  /\ streams' = [streams EXCEPT ![c].pc = "relay"]
  /\ UNCHANGED taken

\* The copy ends with the output, or with a write that fails for want of a client
\* or at its deadline.
CopyEnds(c) ==
  \/ At(c, "relay") /\ streams[c].proc \in {"closed", "ended"}
  \/ At(c, "write") /\ (streams[c].client = "gone" \/ streams[c].deadline)

\* slip: a stream that was cancelled has no slot to give back.
FreesUnlessCancelled(c) ==
  /\ CopyEnds(c)
  /\ taken' = IF streams[c].cancelled THEN taken ELSE taken - 1
  /\ streams' = [streams EXCEPT ![c].pc = "close"]

\* slot.Close, the first and only one, gives the slot back, then process.Close
\* closes the pipe.
Close(c) ==
  /\ CopyEnds(c)
  /\ taken' = taken - 1
  /\ streams' = [streams EXCEPT ![c].pc = "close"]

\* Wait returns when the process has ended; the context is cancelled after it.
Waited(c) ==
  /\ At(c, "close") /\ streams[c].proc = "ended"
  /\ streams' = [streams EXCEPT ![c] = Idle]
  /\ UNCHANGED taken

\* Nothing is read while a write lasts, while ffmpeg hangs, or once the copy has
\* ended.
NothingMoves(c) ==
  At(c, "write") \/ (At(c, "relay") /\ streams[c].proc = "hung") \/ At(c, "close")


\* UntilStalled's watch, from the first byte until the context ends: nothing has
\* moved for the stall time, and kill cancels the context and sets the deadline.
Watch(c) ==
  /\ NothingMoves(c) /\ ~streams[c].cancelled
  /\ streams' = [streams EXCEPT ![c].cancelled = TRUE, ![c].deadline = TRUE]
  /\ UNCHANGED taken

\* The server cancels the request's context once it notices.
ClientNoticed(c) ==
  /\ ~At(c, "idle") /\ streams[c].client = "gone" /\ ~streams[c].cancelled
  /\ streams' = [streams EXCEPT ![c].cancelled = TRUE]
  /\ UNCHANGED taken

-----------------------------------------------------------------------------
(* ffmpeg and the clients.                                                 *)

Alive == {"silent", "writing", "hung", "closed"}

ProcMoves(c, to) ==
  /\ streams' = [streams EXCEPT ![c].proc = to]
  /\ UNCHANGED taken

Writes(c) == streams[c].proc \in {"silent", "hung"} /\ ProcMoves(c, "writing")
Hangs(c) == streams[c].proc = "writing" /\ ProcMoves(c, "hung")
ClosesOutput(c) == streams[c].proc \in {"silent", "writing"} /\ ProcMoves(c, "closed")
Ends(c) == streams[c].proc \in {"silent", "writing", "closed"} /\ ProcMoves(c, "ended")

\* A context that ends kills its process, at once or after WaitDelay.
Killed(c) ==
  streams[c].cancelled /\ streams[c].proc \in Alive /\ ProcMoves(c, "ended")

ClientMoves(c, to) ==
  /\ ~At(c, "idle")
  /\ streams' = [streams EXCEPT ![c].client = to]
  /\ UNCHANGED taken

Slows(c) == streams[c].client = "reading" /\ ClientMoves(c, "slow")
Resumes(c) == streams[c].client = "slow" /\ ClientMoves(c, "reading")
Leaves(c) == streams[c].client # "gone" /\ ClientMoves(c, "gone")

-----------------------------------------------------------------------------
Next ==
  \E c \in Client :
    \/ Open(c) \/ OpenFails(c) \/ Start(c) \/ Started(c) \/ PeekFails(c) \/ StartFails(c)
    \/ Reads(c) \/ Written(c) \/ Close(c) \/ Waited(c) \/ Watch(c) \/ ClientNoticed(c)
    \/ Writes(c) \/ Hangs(c) \/ ClosesOutput(c) \/ Ends(c) \/ Killed(c)
    \/ Slows(c) \/ Resumes(c) \/ Leaves(c)

\* Goroutines run, connections that are gone are noticed and a killed process
\* ends; an output that is there for its reader again and again comes to its end,
\* as the file does. Nothing else is asked: ffmpeg may hang, wait for a reader, or
\* stay when it has closed its output, and the client need not take anything.
Fairness ==
  \A c \in Client :
    /\ WF_vars(Close(c) \/ Waited(c)) /\ WF_vars(Watch(c))
    /\ WF_vars(ClientNoticed(c)) /\ WF_vars(Killed(c))
    /\ SF_vars(At(c, "relay") /\ streams[c].proc = "writing" /\ Ends(c))

Spec == Init /\ [][Next]_vars /\ Fairness

-----------------------------------------------------------------------------
(* What must hold.                                                         *)

Holding == {"open", "start", "failing", "relay", "write"}

\* The channel holds a slot for every stream being started or relayed, and no
\* other: each is given back once, however the stream ends (Open's error paths,
\* slot.Close).
SlotsAccounted == taken = Cardinality({c \in Client : streams[c].pc \in Holding})

=============================================================================
