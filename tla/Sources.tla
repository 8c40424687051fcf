------------------------------ MODULE Sources ------------------------------
(***************************************************************************)
(* The configuration of the sources and the libraries they are bound to:   *)
(* Update of internal/sources, one transaction that replaces all of it, as *)
(* READ COMMITTED transactions of several clients interleave, one action   *)
(* per statement.                                                          *)
(***************************************************************************)
EXTENDS Naturals, Sequences

CONSTANTS
  Source,     \* sources, by their URL
  Library,    \* libraries
  Client,     \* who saves a configuration, once at a time each
  Clash,      \* pairs of sources whose root paths overlap
  Requests,   \* the configurations that are sent
  None        \* no row; nobody

Entry == [source: Source, libraries: SUBSET Library]
Put == [seen: SUBSET Library, libraries: SUBSET Library]

\* What the constants are to be: the instances assume it.
Parameters ==
  /\ Requests \subseteq Seq(Entry)
  /\ Clash \subseteq Source \X Source

VARIABLES
  table,   \* the committed rows, each as the libraries it is bound to
  lock,    \* who holds the row, or the entry of the URL's index
  tx       \* the transaction of each client

vars == <<table, lock, tx>>

\* `todo': the rows the first statement deletes. `next': the entry the loop is at.
\* `seen': the bindings it has deleted. `put': what the transaction leaves of the
\* rows it has written. `alone': no other has been open since it began.
Tx == [pc: {"delete", "upsert", "clear", "insert"}, request: Requests,
       next: Nat, todo: SUBSET Source, seen: SUBSET Library,
       put: [Source -> {None} \cup Put], alone: BOOLEAN]

\* Nobody, no row and no transaction is None: assumed where it is used.
NoneApart ==
  /\ None \notin Client /\ None \notin Put /\ None \notin Tx
  /\ \A bound \in SUBSET Library : bound # None

TypeOK ==
  /\ table \in [Source -> {None} \cup SUBSET Library]
  /\ lock \in [Source -> {None} \cup Client]
  /\ tx \in [Client -> {None} \cup Tx]

Init ==
  /\ table = [s \in Source |-> None]
  /\ lock = [s \in Source |-> None]
  /\ tx = [c \in Client |-> None]

Is(c, pc) == tx[c] # None /\ tx[c].pc = pc
Entries(request) == {request[n] : n \in DOMAIN request}
Current(c) == tx[c].request[tx[c].next]
Free(s, c) == lock[s] \in {None, c}

\* slip: what is not named stays.
NothingUnnamed(request) == {}

Unnamed(request) ==
  {s \in Source : table[s] # None /\ \A e \in Entries(request) : e.source # s}

\* roots: no two of the sources claim one directory.
Disjoint(request) ==
  \A m, n \in DOMAIN request : m < n => <<request[m].source, request[n].source>> \notin Clash

-----------------------------------------------------------------------------
\* The transaction and the snapshot of its first statement.
Begin(c, request) ==
  /\ tx[c] = None
  /\ LET others == {d \in Client : tx[d] # None} IN
       tx' = [d \in Client |->
                IF d = c
                THEN [pc |-> "delete", request |-> request, next |-> 1,
                      todo |-> Unnamed(request), seen |-> {},
                      put |-> [s \in Source |-> None], alone |-> others = {}]
                ELSE IF d \in others THEN [tx[d] EXCEPT !.alone = FALSE] ELSE None]
  /\ UNCHANGED <<table, lock>>

\* It waits for a row that another has written, and looks at it again. The
\* bindings of a source go with it.
DeleteRow(c, s) ==
  /\ Is(c, "delete") /\ s \in tx[c].todo /\ Free(s, c)
  /\ lock' = [lock EXCEPT ![s] = c]
  /\ tx' = [tx EXCEPT ![c].todo = @ \ {s}]
  /\ UNCHANGED table

EndTx(c) ==
  /\ lock' = [s \in Source |-> IF lock[s] = c THEN None ELSE lock[s]]
  /\ tx' = [tx EXCEPT ![c] = None]

\* Whatever fails rolls back: an entry that is not valid, a library that is gone,
\* a deadlock, the connection.
Rollback(c) ==
  /\ tx[c] # None
  /\ EndTx(c)
  /\ UNCHANGED table

CheckRoots(c) ==
  /\ Is(c, "delete") /\ tx[c].todo = {} /\ Disjoint(tx[c].request)
  /\ tx' = [tx EXCEPT ![c].pc = "upsert"]
  /\ UNCHANGED <<table, lock>>

\* slip: a source that is there is left as it is, and not locked.
UpsertNew(c) ==
  /\ Is(c, "upsert") /\ tx[c].next <= Len(tx[c].request)
  /\ LET s == Current(c).source IN
       \/ table[s] # None /\ UNCHANGED lock
       \/ table[s] = None /\ Free(s, c) /\ lock' = [lock EXCEPT ![s] = c]
  /\ tx' = [tx EXCEPT ![c].pc = "clear"]
  /\ UNCHANGED table

Upsert(c) ==
  /\ Is(c, "upsert") /\ tx[c].next <= Len(tx[c].request)
  /\ Free(Current(c).source, c)
  /\ lock' = [lock EXCEPT ![Current(c).source] = c]
  /\ tx' = [tx EXCEPT ![c].pc = "clear"]
  /\ UNCHANGED table

ClearBindings(c) ==
  /\ Is(c, "clear")
  /\ LET s == Current(c).source IN
       tx' = [tx EXCEPT ![c].pc = "insert",
                        ![c].seen = IF table[s] = None THEN {} ELSE table[s]]
  /\ UNCHANGED <<table, lock>>

InsertBindings(c) ==
  /\ Is(c, "insert")
  /\ tx' = [tx EXCEPT ![c].pc = "upsert", ![c].next = @ + 1,
                      ![c].put[Current(c).source] =
                         [seen |-> tx[c].seen, libraries |-> Current(c).libraries]]
  /\ UNCHANGED <<table, lock>>

\* What another has committed meanwhile, and this one has not written, stays.
Commit(c) ==
  /\ Is(c, "upsert") /\ tx[c].next > Len(tx[c].request)
  /\ table' = [s \in Source |->
                 IF tx[c].put[s] # None
                 THEN ((IF table[s] = None THEN {} ELSE table[s]) \ tx[c].put[s].seen)
                        \cup tx[c].put[s].libraries
                 ELSE IF lock[s] = c THEN None
                 ELSE table[s]]
  /\ EndTx(c)

Next ==
  \E c \in Client :
    \/ \E request \in Requests : Begin(c, request)
    \/ \E s \in Source : DeleteRow(c, s)
    \/ CheckRoots(c) \/ Upsert(c) \/ ClearBindings(c) \/ InsertBindings(c)
    \/ Commit(c) \/ Rollback(c)

Spec == Init /\ [][Next]_vars

-----------------------------------------------------------------------------
(* What must hold.                                                         *)

\* A source is bound to the libraries one request binds it to, never to those of
\* two that were saved at a time (the upsert of its row comes before its bindings
\* and makes the other wait).
BoundAsAsked ==
  \A s \in Source : table[s] # None =>
    \E request \in Requests : [source |-> s, libraries |-> table[s]] \in Entries(request)

\* Of entries for one source, at paths that are apart, the last counts.
Final(request) ==
  {request[n] : n \in {m \in DOMAIN request :
                         \A k \in DOMAIN request :
                           k > m => request[k].source # request[m].source}}

\* A configuration that is saved with no other under way is what is stored then,
\* whatever was stored before, and one that is refused or fails changes nothing.
SavedAlone ==
  [][\A c \in Client : tx[c] # None /\ tx[c].alone /\ tx'[c] = None =>
       IF Commit(c)
       THEN /\ Disjoint(tx[c].request)
            /\ {[source |-> s, libraries |-> table'[s]] : s \in {t \in Source : table'[t] # None}}
                 = Final(tx[c].request)
       ELSE UNCHANGED table]_vars
=============================================================================
