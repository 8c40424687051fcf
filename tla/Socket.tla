------------------------------- MODULE Socket -------------------------------
(***************************************************************************)
(* The web socket of a client: the handler of internal/server/socket, which *)
(* writes, and the goroutine it starts, which reads and passes replies on   *)
(* through a channel.                                                       *)
(***************************************************************************)
EXTENDS Naturals

CONSTANT Room   \* what the channel of replies holds, 8 in the code

\* What the constants are to be: the instances assume it.
Parameters == Room \in Nat \ {0}

VARIABLES
  peer,      \* whether the client reads and answers, lets it lie, or has gone
  conn,      \* whether the handler has closed the connection
  reader,    \* the goroutine
  held,      \* the reply it holds, between a message and the channel
  replies,   \* how many the channel holds
  writer     \* the handler

vars == <<peer, conn, reader, held, replies, writer>>

TypeOK ==
  /\ peer \in {"reading", "idle", "gone"}
  /\ conn \in {"none", "open", "closed"}
  /\ reader \in {"none", "reading", "done"}
  /\ held \in BOOLEAN
  /\ replies \in 0..Room
  /\ writer \in {"none", "writing", "waiting", "returned"}

Init ==
  /\ peer = "reading"
  /\ conn = "none"
  /\ reader = "none"
  /\ held = FALSE
  /\ replies = 0
  /\ writer = "none"

-----------------------------------------------------------------------------
(* The goroutine that reads.                                               *)

\* Upgrade; the first write is the invitation to keep alive.
Handle ==
  /\ conn = "none"
  /\ conn' = "open"
  /\ reader' = "reading"
  /\ writer' = "writing"
  /\ UNCHANGED <<peer, held, replies>>

\* KeepAlive from the client; what else it sends is passed over.
ReadKeepAlive ==
  /\ reader = "reading" /\ ~held
  /\ peer # "gone" /\ conn = "open"
  /\ held' = TRUE
  /\ UNCHANGED <<peer, conn, reader, replies, writer>>

\* slip: the reader waits for room.
EnqueueWaits ==
  /\ held /\ replies < Room
  /\ held' = FALSE
  /\ replies' = replies + 1
  /\ UNCHANGED <<peer, conn, reader, writer>>

\* enqueue: without room the reply is dropped.
Enqueue ==
  /\ held
  /\ held' = FALSE
  /\ replies' = IF replies < Room THEN replies + 1 ELSE replies
  /\ UNCHANGED <<peer, conn, reader, writer>>

\* The connection is closed at either end.
ReadFails ==
  /\ reader = "reading" /\ ~held
  /\ peer = "gone" \/ conn = "closed"
  /\ reader' = "done"
  /\ UNCHANGED <<peer, conn, held, replies, writer>>

-----------------------------------------------------------------------------
(* The handler.                                                            *)

\* A write into a connection whose client reads, or that still has room.
Wrote ==
  /\ writer = "writing"
  /\ writer' = "waiting"
  /\ UNCHANGED <<peer, conn, reader, held, replies>>

\* The handler returns, and its deferred Close closes the connection.
Returns ==
  /\ writer' = "returned"
  /\ conn' = "closed"
  /\ UNCHANGED <<peer, reader, held, replies>>

WriteFails == writer = "writing" /\ peer = "gone" /\ Returns

TakeReply ==
  /\ writer = "waiting" /\ replies > 0
  /\ replies' = replies - 1
  /\ writer' = "writing"
  /\ UNCHANGED <<peer, conn, reader, held>>

Tick ==
  /\ writer = "waiting"
  /\ writer' = "writing"
  /\ UNCHANGED <<peer, conn, reader, held, replies>>

Done == writer = "waiting" /\ reader = "done" /\ Returns

-----------------------------------------------------------------------------
PeerMoves(state) ==
  /\ conn # "none" /\ peer # "gone" /\ peer # state
  /\ peer' = state
  /\ UNCHANGED <<conn, reader, held, replies, writer>>

Next ==
  \/ Handle
  \/ ReadKeepAlive \/ Enqueue \/ ReadFails
  \/ Wrote \/ WriteFails \/ TakeReply \/ Tick \/ Done
  \/ \E state \in {"reading", "idle", "gone"} : PeerMoves(state)

\* Goroutines run, and a read or a write of a connection that has lost its client
\* does not wait for ever. A client that is there but reads nothing may hold up a
\* write as long as it likes: no deadline is set. Of the cases that are ready select
\* takes one at random, so none is passed over for ever.
Fairness ==
  /\ WF_vars(Enqueue) /\ WF_vars(ReadFails)
  /\ WF_vars(writer = "writing" /\ peer # "idle" /\ (Wrote \/ WriteFails))
  /\ SF_vars(Done)

Spec == Init /\ [][Next]_vars /\ Fairness

-----------------------------------------------------------------------------
(* What must hold.                                                         *)

\* Once the client has gone both the handler and its goroutine end, in whatever
\* they were doing, and however many replies were waiting (enqueue never blocks,
\* done ends the loop, Close ends the read).
SocketEnds == (conn = "open" /\ peer = "gone") ~> (writer = "returned" /\ reader = "done")
=============================================================================
