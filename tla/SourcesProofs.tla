--------------------------- MODULE SourcesProofs ---------------------------
(***************************************************************************)
(* That the bindings of a source are those of one request, and that what   *)
(* is saved alone is what is stored, for any sources, libraries, clients   *)
(* and configurations, beside the other parts.                             *)
(***************************************************************************)
EXTENDS Parts, TLAPS

\* What the sources do is what Sources says.
LEMMA SourcesMove == PartsSpec => C!Spec
<1>1. PartsInit => C!Init
  BY DEF PartsInit
<1>2. [PartsNext]_partsVars => [C!Next]_(C!vars)
  BY DEF PartsNext, SignsIn, RunsJobs, Identifies, Plays, Configures, Rearranges,
         partsVars, sourcesVars, C!vars
<1>3. QED
  BY <1>1, <1>2, PTL DEF PartsSpec, C!Spec

Open(c) == soTx[c] # None

Bindings(s) == IF soTable[s] = None THEN {} ELSE soTable[s]

\* Between its upsert and its bindings a transaction is at an entry there is.
AtAnEntry(t) ==
  /\ t.next \in 1..Len(t.request) + 1
  /\ t.pc \in {"clear", "insert"} => t.next <= Len(t.request)

\* What a transaction has put it holds, as one entry asks; a row that it holds stays
\* as it was seen.
PutIsHeld(c, t) ==
  \A s \in Source : t.put[s] # None =>
    /\ soLock[s] = c
    /\ t.put[s].seen = Bindings(s)
    /\ [source |-> s, libraries |-> t.put[s].libraries] \in C!Entries(t.request)

\* The source of the entry it is at it holds from the upsert on.
EntryIsHeld(c, t) ==
  LET s == t.request[t.next].source IN
    /\ t.pc \in {"clear", "insert"} => soLock[s] = c
    /\ t.pc = "insert" => t.seen = Bindings(s)

Steady(c, t) == AtAnEntry(t) /\ PutIsHeld(c, t) /\ EntryIsHeld(c, t)

BoundInv ==
  /\ C!TypeOK
  /\ \A c \in Saver : Open(c) => Steady(c, soTx[c])
  /\ BoundAsAsked

Assumed == C!Parameters /\ C!NoneApart

-----------------------------------------------------------------------------
(* What an entry is.                                                       *)
LEMMA EntriesTyped ==
    ASSUME Assumed, NEW t \in C!Tx, NEW n \in 1..Len(t.request)
    PROVE  /\ t.request \in Seq(C!Entry)
           /\ t.request[n] \in C!Entry
           /\ t.request[n] \in C!Entries(t.request)
<1>1. t.request \in Seq(C!Entry)
  BY DEF Assumed, C!Parameters, C!Tx
<1>2. QED
  BY <1>1 DEF C!Entries

(* A transaction is steady as long as what it holds is still its own and   *)
(* nobody has written it.                                                  *)
LEMMA HeldStays ==
    ASSUME Assumed, NEW d \in Saver, NEW t \in C!Tx, Steady(d, t),
           \A s \in Source : soLock[s] = d => soLock'[s] = d /\ soTable'[s] = soTable[s]
    PROVE  Steady(d, t)'
<1>1. PutIsHeld(d, t)'
  BY DEF Steady, PutIsHeld, Bindings, C!Entries
<1>2. CASE t.pc \in {"clear", "insert"}
  <2>1. t.next \in 1..Len(t.request)
    BY <1>2, EntriesTyped DEF Steady, AtAnEntry, Assumed, C!Parameters, C!Tx
  <2>2. t.request[t.next].source \in Source
    BY <2>1, EntriesTyped DEF C!Entry
  <2>3. QED
    BY <1>1, <2>2 DEF Steady, EntryIsHeld, AtAnEntry, Bindings
<1>3. QED
  BY <1>1, <1>2 DEF Steady, EntryIsHeld, AtAnEntry

-----------------------------------------------------------------------------
(* One transaction goes on to a state in which it is steady; it takes      *)
(* nothing another holds, and commits nothing.                             *)
LEMMA OneConnectionGoesOn ==
    ASSUME Assumed, BoundInv, NEW c \in Saver, NEW new \in C!Tx,
           soTx' = [soTx EXCEPT ![c] = new], UNCHANGED soTable,
           soLock' \in [Source -> {None} \cup Saver],
           \A s \in Source : soLock'[s] = soLock[s] \/ (C!Free(s, c) /\ soLock'[s] = c),
           Steady(c, new)'
    PROVE  BoundInv'
<1>1. C!TypeOK'
  BY DEF BoundInv, C!TypeOK
<1>2. BoundAsAsked'
  BY DEF BoundInv, BoundAsAsked, C!BoundAsAsked
<1>3. ASSUME NEW d \in Saver, Open(d)' PROVE Steady(d, soTx[d])'
  <2>1. CASE d = c
    <3>1. soTx'[d] = new
      BY <2>1 DEF BoundInv, C!TypeOK
    <3>2. QED
      BY <2>1, <3>1 DEF Steady, AtAnEntry, PutIsHeld, EntryIsHeld, Bindings
  <2>2. CASE d # c
    <3>1. soTx'[d] = soTx[d] /\ Open(d) /\ soTx[d] \in C!Tx
      BY <1>3, <2>2 DEF BoundInv, C!TypeOK, Open
    <3>2. \A s \in Source : soLock[s] = d => soLock'[s] = d
      BY <2>2 DEF C!Free, Assumed, C!NoneApart
    <3>3. QED
      BY <3>1, <3>2, HeldStays DEF BoundInv, Steady, AtAnEntry, PutIsHeld, EntryIsHeld, Bindings
  <2>3. QED
    BY <2>1, <2>2
<1>4. QED
  BY <1>1, <1>2, <1>3 DEF BoundInv

(* A transaction that begins has put nothing; of the others it changes     *)
(* only the history.                                                       *)
LEMMA BeginSound ==
    ASSUME Assumed, BoundInv, NEW c \in Saver, NEW request \in Configurations,
           C!Begin(c, request)
    PROVE  BoundInv'
<1> DEFINE new == [pc |-> "delete", request |-> request, next |-> 1,
                   todo |-> C!Unnamed(request), seen |-> {},
                   put |-> [s \in Source |-> None],
                   alone |-> {d \in Saver : soTx[d] # None} = {}]
<1> USE DEF BoundInv, C!TypeOK
<1>1. new \in C!Tx /\ new.put = [s \in Source |-> None] /\ new.pc = "delete"
      /\ new.next \in 1..Len(new.request) + 1
  <2>1. request \in Seq(C!Entry)
    BY DEF Assumed, C!Parameters
  <2>2. C!Unnamed(request) \in SUBSET Source
    BY DEF C!Unnamed
  <2>3. QED
    BY <2>1, <2>2 DEF C!Tx
<1>2. soTx' = [d \in Saver |-> IF d = c THEN new
                               ELSE IF soTx[d] # None THEN [soTx[d] EXCEPT !.alone = FALSE]
                               ELSE None]
      /\ UNCHANGED <<soTable, soLock>>
  BY DEF C!Begin
<1> HIDE DEF new
<1>3. ASSUME NEW d \in Saver, soTx[d] # None
      PROVE  [soTx[d] EXCEPT !.alone = FALSE] \in C!Tx
  BY <1>3 DEF C!Tx
<1>4. C!TypeOK'
  BY <1>1, <1>2, <1>3
<1>5. ASSUME NEW d \in Saver, Open(d)' PROVE Steady(d, soTx[d])'
  <2>1. CASE d = c
    BY <1>1, <1>2, <2>1 DEF Steady, AtAnEntry, PutIsHeld, EntryIsHeld
  <2>2. CASE d # c
    <3>1. Open(d) /\ soTx'[d] = [soTx[d] EXCEPT !.alone = FALSE]
      BY <1>2, <1>5, <2>2 DEF Open
    <3>2. soTx[d] \in C!Tx /\ Steady(d, soTx[d])
      BY <3>1 DEF Open
    <3>3. /\ soTx'[d].pc = soTx[d].pc /\ soTx'[d].request = soTx[d].request
          /\ soTx'[d].next = soTx[d].next /\ soTx'[d].seen = soTx[d].seen
          /\ soTx'[d].put = soTx[d].put
      BY <3>1, <3>2 DEF C!Tx
    <3>4. QED
      BY <1>2, <3>2, <3>3 DEF Steady, AtAnEntry, PutIsHeld, EntryIsHeld, Bindings
  <2>3. QED
    BY <2>1, <2>2
<1>6. QED
  BY <1>2, <1>4, <1>5 DEF BoundAsAsked, C!BoundAsAsked

LEMMA DeleteRowSound ==
    ASSUME Assumed, BoundInv, NEW c \in Saver, NEW s \in Source, C!DeleteRow(c, s)
    PROVE  BoundInv'
<1>1. soTx[c] \in C!Tx /\ Steady(c, soTx[c]) /\ soTx[c].pc = "delete"
  BY DEF C!DeleteRow, C!Is, BoundInv, C!TypeOK, Open
<1> DEFINE after == [soTx[c] EXCEPT !.todo = @ \ {s}]
<1>2. /\ after \in C!Tx /\ after.pc = "delete" /\ after.request = soTx[c].request
      /\ after.next = soTx[c].next /\ after.put = soTx[c].put
  BY <1>1 DEF C!Tx
<1> PICK new \in C!Tx : new = after
  BY <1>2
<1>3. soTx' = [soTx EXCEPT ![c] = new] /\ UNCHANGED soTable
      /\ soLock' = [soLock EXCEPT ![s] = c] /\ C!Free(s, c)
  BY DEF C!DeleteRow
<1>4. soLock' \in [Source -> {None} \cup Saver]
  BY <1>3 DEF BoundInv, C!TypeOK
<1>5. \A r \in Source : soLock'[r] = soLock[r] \/ (C!Free(r, c) /\ soLock'[r] = c)
  BY <1>3 DEF BoundInv, C!TypeOK
<1>6. Steady(c, new)'
  BY <1>1, <1>2, <1>3, <1>5 DEF Steady, AtAnEntry, PutIsHeld, EntryIsHeld, Bindings
<1>7. QED
  BY <1>2, <1>3, <1>4, <1>5, <1>6, OneConnectionGoesOn

LEMMA CheckRootsSound ==
    ASSUME Assumed, BoundInv, NEW c \in Saver, C!CheckRoots(c)
    PROVE  BoundInv'
<1>1. soTx[c] \in C!Tx /\ Steady(c, soTx[c])
  BY DEF C!CheckRoots, C!Is, BoundInv, C!TypeOK, Open
<1> DEFINE after == [soTx[c] EXCEPT !.pc = "upsert"]
<1>2. /\ after \in C!Tx /\ after.pc = "upsert" /\ after.request = soTx[c].request
      /\ after.next = soTx[c].next /\ after.put = soTx[c].put
  BY <1>1 DEF C!Tx
<1> PICK new \in C!Tx : new = after
  BY <1>2
<1>3. soTx' = [soTx EXCEPT ![c] = new] /\ UNCHANGED <<soTable, soLock>>
  BY DEF C!CheckRoots
<1>4. Steady(c, new)'
  BY <1>1, <1>2, <1>3 DEF Steady, AtAnEntry, PutIsHeld, EntryIsHeld, Bindings
<1>5. QED
  BY <1>2, <1>3, <1>4, OneConnectionGoesOn DEF BoundInv, C!TypeOK

LEMMA UpsertSound ==
    ASSUME Assumed, BoundInv, NEW c \in Saver, C!Upsert(c)
    PROVE  BoundInv'
<1>1. soTx[c] \in C!Tx /\ Steady(c, soTx[c]) /\ soTx[c].next <= Len(soTx[c].request)
  BY DEF C!Upsert, C!Is, BoundInv, C!TypeOK, Open
<1> DEFINE after == [soTx[c] EXCEPT !.pc = "clear"]
<1>2. /\ after \in C!Tx /\ after.pc = "clear" /\ after.request = soTx[c].request
      /\ after.next = soTx[c].next /\ after.put = soTx[c].put
  BY <1>1 DEF C!Tx
<1> PICK new \in C!Tx : new = after
  BY <1>2
<1>3. soTx[c].next \in 1..Len(soTx[c].request)
  BY <1>1 DEF Steady, AtAnEntry, Assumed, C!Parameters, C!Tx
<1>4. PICK s \in Source : s = C!Current(c).source
  BY <1>1, <1>3, EntriesTyped DEF C!Current, C!Entry
<1>5. soTx' = [soTx EXCEPT ![c] = new] /\ UNCHANGED soTable
      /\ soLock' = [soLock EXCEPT ![s] = c] /\ C!Free(s, c)
      /\ new.request[new.next].source = s
  BY <1>2, <1>4 DEF C!Upsert, C!Current
<1>6. soLock' \in [Source -> {None} \cup Saver] /\ soLock'[s] = c
  BY <1>5 DEF BoundInv, C!TypeOK
<1>7. \A r \in Source : soLock'[r] = soLock[r] \/ (C!Free(r, c) /\ soLock'[r] = c)
  BY <1>5 DEF BoundInv, C!TypeOK
<1>8. Steady(c, new)'
  BY <1>1, <1>2, <1>5, <1>6, <1>7 DEF Steady, AtAnEntry, PutIsHeld, EntryIsHeld, Bindings
<1>9. QED
  BY <1>2, <1>5, <1>6, <1>7, <1>8, OneConnectionGoesOn

LEMMA ClearBindingsSound ==
    ASSUME Assumed, BoundInv, NEW c \in Saver, C!ClearBindings(c)
    PROVE  BoundInv'
<1>1. soTx[c] \in C!Tx /\ Steady(c, soTx[c]) /\ soTx[c].pc = "clear"
  BY DEF C!ClearBindings, C!Is, BoundInv, C!TypeOK, Open
<1>2. soTx[c].next \in 1..Len(soTx[c].request)
  BY <1>1 DEF Steady, AtAnEntry, Assumed, C!Parameters, C!Tx
<1>3. PICK s \in Source : s = C!Current(c).source
  BY <1>1, <1>2, EntriesTyped DEF C!Current, C!Entry
<1>4. PICK bound \in SUBSET Target : bound = Bindings(s)
  BY DEF Bindings, BoundInv, C!TypeOK
<1> DEFINE after == [soTx[c] EXCEPT !.pc = "insert", !.seen = bound]
<1>5. /\ after \in C!Tx /\ after.pc = "insert" /\ after.request = soTx[c].request
      /\ after.next = soTx[c].next /\ after.put = soTx[c].put /\ after.seen = bound
  BY <1>1 DEF C!Tx
<1> PICK new \in C!Tx : new = after
  BY <1>5
<1>6. soTx' = [soTx EXCEPT ![c] = new] /\ UNCHANGED <<soTable, soLock>>
      /\ new.request[new.next].source = s
  BY <1>3, <1>4, <1>5 DEF C!ClearBindings, C!Current, Bindings, BoundInv, C!TypeOK
<1>7. Steady(c, new)'
  BY <1>1, <1>3, <1>4, <1>5, <1>6
     DEF Steady, AtAnEntry, PutIsHeld, EntryIsHeld, Bindings, C!Current
<1>8. QED
  BY <1>5, <1>6, <1>7, OneConnectionGoesOn DEF BoundInv, C!TypeOK

LEMMA InsertBindingsSound ==
    ASSUME Assumed, BoundInv, NEW c \in Saver, C!InsertBindings(c)
    PROVE  BoundInv'
<1>1. soTx[c] \in C!Tx /\ Steady(c, soTx[c]) /\ soTx[c].pc = "insert"
  BY DEF C!InsertBindings, C!Is, BoundInv, C!TypeOK, Open
<1>2. soTx[c].next \in 1..Len(soTx[c].request)
  BY <1>1 DEF Steady, AtAnEntry, Assumed, C!Parameters, C!Tx
<1>3. PICK entry \in C!Entry : entry = C!Current(c) /\ entry \in C!Entries(soTx[c].request)
  BY <1>1, <1>2, EntriesTyped DEF C!Current
<1>4. PICK s \in Source : s = entry.source
  BY DEF C!Entry
<1>5. PICK put \in C!Put : put = [seen |-> soTx[c].seen, libraries |-> entry.libraries]
  BY <1>1 DEF C!Entry, C!Put, C!Tx
<1>6. /\ entry = [source |-> s, libraries |-> put.libraries]
      /\ put.seen = Bindings(s) /\ soLock[s] = c
  BY <1>1, <1>3, <1>4, <1>5 DEF Steady, EntryIsHeld, C!Current, C!Entry
<1>7. PICK n \in Nat : n = soTx[c].next + 1
  BY <1>1 DEF C!Tx
<1> DEFINE puts == [soTx[c].put EXCEPT ![s] = put]
           after == [soTx[c] EXCEPT !.pc = "upsert", !.next = n, !.put = puts]
<1>8. puts \in [Source -> {None} \cup C!Put]
  BY <1>1 DEF C!Tx
<1>9. soTx' = [soTx EXCEPT ![c] = after] /\ UNCHANGED <<soTable, soLock>>
  BY <1>1, <1>3, <1>4, <1>5, <1>7 DEF C!InsertBindings, BoundInv, C!TypeOK, C!Tx
<1> HIDE DEF puts
<1>10. /\ after \in C!Tx /\ after.pc = "upsert" /\ after.request = soTx[c].request
       /\ after.next = n /\ after.put = puts
  BY <1>1, <1>8 DEF C!Tx
<1> PICK new \in C!Tx : new = after
  BY <1>10
<1>11. new.put = [soTx[c].put EXCEPT ![s] = put]
  BY <1>10 DEF puts
<1>12. AtAnEntry(new)'
  BY <1>1, <1>2, <1>7, <1>10 DEF AtAnEntry, Assumed, C!Parameters, C!Tx
<1>13. PutIsHeld(c, new)'
  <2> SUFFICES ASSUME NEW r \in Source, new.put[r] # None
               PROVE  /\ soLock[r] = c
                      /\ new.put[r].seen = Bindings(r)
                      /\ [source |-> r, libraries |-> new.put[r].libraries]
                           \in C!Entries(new.request)
    BY <1>9 DEF PutIsHeld, Bindings
  <2>1. CASE r = s
    BY <2>1, <1>1, <1>3, <1>6, <1>10, <1>11 DEF C!Tx
  <2>2. CASE r # s
    BY <2>2, <1>1, <1>10, <1>11 DEF Steady, PutIsHeld, C!Tx
  <2>3. QED
    BY <2>1, <2>2
<1>14. Steady(c, new)'
  BY <1>10, <1>12, <1>13 DEF Steady, EntryIsHeld, AtAnEntry
<1>15. QED
  BY <1>9, <1>14, OneConnectionGoesOn DEF BoundInv, C!TypeOK

(* A transaction that ends gives back its locks and leaves the rows of the *)
(* others as they are.                                                     *)
LEMMA OneEnds ==
    ASSUME Assumed, BoundInv, NEW c \in Saver, C!EndTx(c),
           C!TypeOK', BoundAsAsked',
           \A s \in Source : soLock[s] \notin {None, c} => soTable'[s] = soTable[s]
    PROVE  BoundInv'
<1>1. ASSUME NEW d \in Saver, Open(d)' PROVE Steady(d, soTx[d])'
  <2>1. d # c /\ soTx'[d] = soTx[d] /\ Open(d) /\ soTx[d] \in C!Tx
    BY <1>1 DEF BoundInv, C!TypeOK, Open, C!EndTx
  <2>2. \A s \in Source : soLock[s] = d => soLock'[s] = d /\ soTable'[s] = soTable[s]
    BY <2>1 DEF C!EndTx, Assumed, C!NoneApart
  <2>3. QED
    BY <2>1, <2>2, HeldStays DEF BoundInv, Steady, AtAnEntry, PutIsHeld, EntryIsHeld, Bindings
<1>2. QED
  BY <1>1 DEF BoundInv

LEMMA EndTyped ==
    ASSUME BoundInv, NEW c \in Saver, C!EndTx(c),
           soTable' \in [Source -> {None} \cup SUBSET Target]
    PROVE  C!TypeOK'
BY DEF BoundInv, C!TypeOK, C!EndTx

LEMMA RollbackSound ==
    ASSUME Assumed, BoundInv, NEW c \in Saver, C!Rollback(c)
    PROVE  BoundInv'
<1>1. C!TypeOK'
  BY EndTyped DEF C!Rollback, BoundInv, C!TypeOK
<1>2. BoundAsAsked'
  BY DEF C!Rollback, BoundInv, BoundAsAsked, C!BoundAsAsked
<1>3. QED
  BY <1>1, <1>2, OneEnds DEF C!Rollback

(* What is committed of a row that the transaction has put is what it has  *)
(* put, since what it saw is what is there.                                *)
LEMMA PutIsCommitted ==
    ASSUME BoundInv, NEW c \in Saver, C!Commit(c), NEW s \in Source
    PROVE  soTable'[s] = IF soTx[c].put[s] # None THEN soTx[c].put[s].libraries
                         ELSE IF soLock[s] = c THEN None ELSE soTable[s]
<1>1. Steady(c, soTx[c])
  BY DEF C!Commit, C!Is, BoundInv, Open
<1>2. soTx[c].put[s] # None => soTx[c].put[s].seen = Bindings(s)
  BY <1>1 DEF Steady, PutIsHeld
<1>3. QED
  BY <1>2 DEF C!Commit, Bindings

LEMMA CommitSound ==
    ASSUME Assumed, BoundInv, NEW c \in Saver, C!Commit(c)
    PROVE  BoundInv'
<1>1. soTx[c] \in C!Tx /\ Steady(c, soTx[c])
  BY DEF C!Commit, C!Is, BoundInv, C!TypeOK, Open
<1>2. ASSUME NEW s \in Source
      PROVE  soTable'[s] \in {None} \cup SUBSET Target
  <2>1. soTx[c].put[s] # None => soTx[c].put[s].libraries \in SUBSET Target
    BY <1>1 DEF C!Tx, C!Put
  <2>2. QED
    BY <2>1, PutIsCommitted DEF BoundInv, C!TypeOK
<1>3. soTable' \in [Source -> {None} \cup SUBSET Target]
  BY <1>2 DEF C!Commit
<1>4. ASSUME NEW s \in Source, soTable'[s] # None
      PROVE  \E request \in Configurations :
               [source |-> s, libraries |-> soTable'[s]] \in C!Entries(request)
  <2>1. CASE soTx[c].put[s] # None
    BY <1>1, <2>1, PutIsCommitted DEF Steady, PutIsHeld, C!Tx
  <2>2. CASE soTx[c].put[s] = None
    BY <1>4, <2>2, PutIsCommitted DEF BoundInv, BoundAsAsked, C!BoundAsAsked
  <2>3. QED
    BY <2>1, <2>2
<1>5. BoundAsAsked'
  BY <1>4 DEF BoundAsAsked, C!BoundAsAsked, C!Entries
<1>6. \A s \in Source : soLock[s] \notin {None, c} => soTable'[s] = soTable[s]
  BY <1>1, PutIsCommitted DEF Steady, PutIsHeld
<1>7. QED
  BY <1>3, <1>5, <1>6, EndTyped, OneEnds DEF C!Commit

LEMMA BoundStep == ASSUME Assumed, BoundInv, C!Next PROVE BoundInv'
<1>1. PICK c \in Saver :
        \/ \E request \in Configurations : C!Begin(c, request)
        \/ \E s \in Source : C!DeleteRow(c, s)
        \/ C!CheckRoots(c) \/ C!Upsert(c) \/ C!ClearBindings(c) \/ C!InsertBindings(c)
        \/ C!Commit(c) \/ C!Rollback(c)
  BY DEF C!Next
<1>2. QED
  BY <1>1, BeginSound, DeleteRowSound, CheckRootsSound, UpsertSound, ClearBindingsSound,
     InsertBindingsSound, CommitSound, RollbackSound

LEMMA BoundInvariant == PartsSpec => []BoundInv
<1> USE PartsAssumption DEF PartsAssumption
<1>1. Assumed
  BY DEF Assumed
<1>2. C!Init => BoundInv
  BY DEF C!Init, BoundInv, C!TypeOK, Open, BoundAsAsked, C!BoundAsAsked
<1>3. BoundInv /\ UNCHANGED C!vars => BoundInv'
  BY DEF C!vars, BoundInv, C!TypeOK, Open, BoundAsAsked, C!BoundAsAsked, Steady, AtAnEntry,
         PutIsHeld, EntryIsHeld, Bindings, C!Entries
<1>4. BoundInv /\ [C!Next]_(C!vars) => BoundInv'
  BY <1>1, <1>3, BoundStep
<1>5. QED
  BY <1>2, <1>4, SourcesMove, PTL DEF C!Spec

(* A source is bound to the libraries one request binds it to, however     *)
(* many configurations are saved at a time: who holds a row has put what   *)
(* its own request asks, and the others wait (Update).                     *)
THEOREM BoundByOne == PartsSpec => []BoundAsAsked
<1>1. BoundInv => BoundAsAsked
  BY DEF BoundInv
<1>2. QED
  BY <1>1, BoundInvariant, PTL

-----------------------------------------------------------------------------
(* What is saved alone.                                                    *)

\* What has been put of a source is what the last entry so far asks for it.
LastPut(t) ==
  /\ \A n \in 1..t.next - 1 : t.put[t.request[n].source] # None
  /\ \A s \in Source : t.put[s] # None =>
       \E n \in 1..t.next - 1 :
         /\ t.request[n] = [source |-> s, libraries |-> t.put[s].libraries]
         /\ \A k \in 1..t.next - 1 : k > n => t.request[k].source # s

\* The roots have been checked, and nothing is left to delete.
Checked(t) == t.pc # "delete" => t.todo = {} /\ C!Disjoint(t.request)

\* Rows that are not named are deleted already or to be.
DeletesAll(c, t) ==
  \A s \in C!Unnamed(t.request) : s \in t.todo \/ soLock[s] = c

\* Of the others none is open, and so nothing is committed meanwhile.
Alone(c, t) == t.alone => DeletesAll(c, t) /\ \A d \in Saver : Open(d) => d = c

SavedInv ==
  /\ BoundInv
  /\ \A c \in Saver : Open(c) =>
       LastPut(soTx[c]) /\ Checked(soTx[c]) /\ Alone(c, soTx[c])

(* One transaction goes on, and the others are what they were: if this one *)
(* is alone they are not open, and if one of them is this one is not.      *)
LEMMA SavedGoesOn ==
    ASSUME SavedInv, BoundInv', NEW c \in Saver, Open(c), NEW new \in C!Tx,
           soTx' = [soTx EXCEPT ![c] = new], UNCHANGED soTable,
           LastPut(new), Checked(new), new.alone = soTx[c].alone,
           new.alone => DeletesAll(c, new)'
    PROVE  SavedInv'
<1>1. ASSUME NEW d \in Saver, Open(d)'
      PROVE  LastPut(soTx'[d]) /\ Checked(soTx'[d]) /\ Alone(d, soTx[d])'
  <2>1. CASE d = c
    <3>1. soTx'[d] = new
      BY <2>1 DEF SavedInv, BoundInv, C!TypeOK
    <3>2. new.alone => \A e \in Saver : Open(e)' => e = c
      BY DEF SavedInv, BoundInv, C!TypeOK, Open, Alone
    <3>3. QED
      BY <2>1, <3>1, <3>2 DEF Alone, DeletesAll, C!Unnamed, C!Entries
  <2>2. CASE d # c
    <3>1. soTx'[d] = soTx[d] /\ Open(d)
      BY <1>1, <2>2 DEF SavedInv, BoundInv, C!TypeOK, Open
    <3>2. ~soTx[d].alone
      BY <2>2, <3>1 DEF SavedInv, Alone
    <3>3. QED
      BY <3>1, <3>2 DEF SavedInv, Alone
  <2>3. QED
    BY <2>1, <2>2
<1>2. QED
  BY <1>1 DEF SavedInv, LastPut, Checked, C!Disjoint

LEMMA SavedBegins ==
    ASSUME Assumed, SavedInv, NEW c \in Saver, NEW request \in Configurations,
           C!Begin(c, request)
    PROVE  SavedInv'
<1> DEFINE others == {d \in Saver : soTx[d] # None}
           new == [pc |-> "delete", request |-> request, next |-> 1,
                   todo |-> C!Unnamed(request), seen |-> {},
                   put |-> [s \in Source |-> None], alone |-> others = {}]
<1>1. BoundInv'
  BY BeginSound DEF SavedInv
<1>2. soTx' = [d \in Saver |-> IF d = c THEN new
                               ELSE IF d \in others THEN [soTx[d] EXCEPT !.alone = FALSE]
                               ELSE None]
      /\ UNCHANGED <<soTable, soLock>>
  BY DEF C!Begin
<1>3. ASSUME NEW d \in Saver, Open(d)'
      PROVE  (LastPut(soTx[d]) /\ Checked(soTx[d]) /\ Alone(d, soTx[d]))'
  <2>1. CASE d = c
    <3>1. /\ soTx'[d].pc = "delete" /\ soTx'[d].next = 1 /\ soTx'[d].request = request
          /\ soTx'[d].todo = C!Unnamed(request) /\ soTx'[d].put = [s \in Source |-> None]
          /\ soTx'[d].alone = (others = {})
      BY <1>2, <2>1
    <3>2. (LastPut(soTx[d]) /\ Checked(soTx[d]))'
      BY <3>1 DEF LastPut, Checked
    <3>3. DeletesAll(d, soTx[d])'
      BY <1>2, <3>1 DEF DeletesAll, C!Unnamed, C!Entries
    <3>4. others = {} => \A e \in Saver : Open(e)' => e = c
      BY <1>2 DEF Open
    <3>5. QED
      BY <2>1, <3>1, <3>2, <3>3, <3>4 DEF Alone
  <2>2. CASE d # c
    <3>1. d \in others /\ Open(d) /\ soTx'[d] = [soTx[d] EXCEPT !.alone = FALSE]
      BY <1>2, <1>3, <2>2 DEF Open
    <3>2. soTx[d] \in C!Tx
      BY <3>1 DEF SavedInv, BoundInv, C!TypeOK, Open
    <3>3. /\ soTx'[d].pc = soTx[d].pc /\ soTx'[d].request = soTx[d].request
          /\ soTx'[d].next = soTx[d].next /\ soTx'[d].todo = soTx[d].todo
          /\ soTx'[d].put = soTx[d].put /\ soTx'[d].alone = FALSE
      BY <3>1, <3>2 DEF C!Tx
    <3>4. LastPut(soTx[d]) /\ Checked(soTx[d])
      BY <3>1 DEF SavedInv
    <3>5. QED
      BY <3>3, <3>4 DEF LastPut, Checked, Alone, C!Disjoint
  <2>3. QED
    BY <2>1, <2>2
<1>4. QED
  BY <1>1, <1>3 DEF SavedInv

LEMMA SavedDeletesRow ==
    ASSUME Assumed, SavedInv, NEW c \in Saver, NEW s \in Source, C!DeleteRow(c, s)
    PROVE  SavedInv'
<1> DEFINE after == [soTx[c] EXCEPT !.todo = @ \ {s}]
<1>1. BoundInv' /\ Open(c) /\ soTx[c] \in C!Tx /\ soTx[c].pc = "delete"
  BY DeleteRowSound DEF SavedInv, BoundInv, C!TypeOK, C!DeleteRow, C!Is, Open
<1>2. LastPut(soTx[c]) /\ Alone(c, soTx[c])
  BY <1>1 DEF SavedInv
<1>3. /\ after \in C!Tx /\ after.pc = "delete" /\ after.request = soTx[c].request
      /\ after.next = soTx[c].next /\ after.put = soTx[c].put
      /\ after.todo = soTx[c].todo \ {s} /\ after.alone = soTx[c].alone
  BY <1>1 DEF C!Tx
<1> PICK new \in C!Tx : new = after
  BY <1>3
<1>4. soTx' = [soTx EXCEPT ![c] = new] /\ UNCHANGED soTable
      /\ soLock' = [soLock EXCEPT ![s] = c] /\ soLock \in [Source -> {None} \cup Saver]
  BY DEF C!DeleteRow, SavedInv, BoundInv, C!TypeOK
<1> HIDE DEF after
<1>5. new.alone => DeletesAll(c, new)'
  BY <1>2, <1>3, <1>4 DEF Alone, DeletesAll, C!Unnamed, C!Entries
<1>6. LastPut(new) /\ Checked(new)
  BY <1>2, <1>3 DEF LastPut, Checked
<1>7. QED
  BY <1>1, <1>3, <1>4, <1>5, <1>6, SavedGoesOn

LEMMA SavedChecksRoots ==
    ASSUME Assumed, SavedInv, NEW c \in Saver, C!CheckRoots(c)
    PROVE  SavedInv'
<1> DEFINE after == [soTx[c] EXCEPT !.pc = "upsert"]
<1>1. BoundInv' /\ Open(c) /\ soTx[c] \in C!Tx
      /\ soTx[c].todo = {} /\ C!Disjoint(soTx[c].request)
  BY CheckRootsSound DEF SavedInv, BoundInv, C!TypeOK, C!CheckRoots, C!Is, Open
<1>2. LastPut(soTx[c]) /\ Alone(c, soTx[c])
  BY <1>1 DEF SavedInv
<1>3. /\ after \in C!Tx /\ after.pc = "upsert" /\ after.request = soTx[c].request
      /\ after.next = soTx[c].next /\ after.put = soTx[c].put
      /\ after.todo = soTx[c].todo /\ after.alone = soTx[c].alone
  BY <1>1 DEF C!Tx
<1> PICK new \in C!Tx : new = after
  BY <1>3
<1>4. soTx' = [soTx EXCEPT ![c] = new] /\ UNCHANGED <<soTable, soLock>>
  BY DEF C!CheckRoots
<1> HIDE DEF after
<1>5. new.alone => DeletesAll(c, new)'
  BY <1>2, <1>3, <1>4 DEF Alone, DeletesAll, C!Unnamed, C!Entries
<1>6. LastPut(new) /\ Checked(new)
  BY <1>1, <1>2, <1>3 DEF LastPut, Checked
<1>7. QED
  BY <1>1, <1>3, <1>4, <1>5, <1>6, SavedGoesOn

LEMMA SavedUpserts ==
    ASSUME Assumed, SavedInv, NEW c \in Saver, C!Upsert(c)
    PROVE  SavedInv'
<1> DEFINE after == [soTx[c] EXCEPT !.pc = "clear"]
<1>1. BoundInv' /\ Open(c) /\ soTx[c] \in C!Tx /\ soTx[c].pc = "upsert"
  BY UpsertSound DEF SavedInv, BoundInv, C!TypeOK, C!Upsert, C!Is, Open
<1>2. LastPut(soTx[c]) /\ Checked(soTx[c]) /\ Alone(c, soTx[c])
  BY <1>1 DEF SavedInv
<1>3. /\ after \in C!Tx /\ after.pc = "clear" /\ after.request = soTx[c].request
      /\ after.next = soTx[c].next /\ after.put = soTx[c].put
      /\ after.todo = soTx[c].todo /\ after.alone = soTx[c].alone
  BY <1>1 DEF C!Tx
<1> PICK new \in C!Tx : new = after
  BY <1>3
<1>4. soTx' = [soTx EXCEPT ![c] = new] /\ UNCHANGED soTable
      /\ soLock' = [soLock EXCEPT ![C!Current(c).source] = c]
      /\ soLock \in [Source -> {None} \cup Saver]
  BY DEF C!Upsert, SavedInv, BoundInv, C!TypeOK
<1> HIDE DEF after
<1>5. new.alone => DeletesAll(c, new)'
  BY <1>2, <1>3, <1>4 DEF Alone, DeletesAll, C!Unnamed, C!Entries
<1>6. LastPut(new) /\ Checked(new)
  BY <1>1, <1>2, <1>3 DEF LastPut, Checked
<1>7. QED
  BY <1>1, <1>3, <1>4, <1>5, <1>6, SavedGoesOn

LEMMA SavedClears ==
    ASSUME Assumed, SavedInv, NEW c \in Saver, C!ClearBindings(c)
    PROVE  SavedInv'
<1>1. BoundInv' /\ Open(c) /\ soTx[c] \in C!Tx /\ soTx[c].pc = "clear"
  BY ClearBindingsSound DEF SavedInv, BoundInv, C!TypeOK, C!ClearBindings, C!Is, Open
<1>2. LastPut(soTx[c]) /\ Checked(soTx[c]) /\ Alone(c, soTx[c])
  BY <1>1 DEF SavedInv
<1>3. soTx[c].next \in 1..Len(soTx[c].request)
  BY <1>1 DEF SavedInv, BoundInv, Steady, AtAnEntry, Assumed, C!Parameters, C!Tx
<1>4. PICK s \in Source : s = C!Current(c).source
  BY <1>1, <1>3, EntriesTyped DEF C!Current, C!Entry
<1>5. PICK bound \in SUBSET Target : bound = Bindings(s)
  BY DEF Bindings, SavedInv, BoundInv, C!TypeOK
<1> DEFINE after == [soTx[c] EXCEPT !.pc = "insert", !.seen = bound]
<1>6. /\ after \in C!Tx /\ after.pc = "insert" /\ after.request = soTx[c].request
      /\ after.next = soTx[c].next /\ after.put = soTx[c].put
      /\ after.todo = soTx[c].todo /\ after.alone = soTx[c].alone
  BY <1>1 DEF C!Tx
<1> PICK new \in C!Tx : new = after
  BY <1>6
<1>7. soTx' = [soTx EXCEPT ![c] = new] /\ UNCHANGED <<soTable, soLock>>
  BY <1>4, <1>5 DEF C!ClearBindings, Bindings, SavedInv, BoundInv, C!TypeOK
<1> HIDE DEF after
<1>8. new.alone => DeletesAll(c, new)'
  BY <1>2, <1>6, <1>7 DEF Alone, DeletesAll, C!Unnamed, C!Entries
<1>9. LastPut(new) /\ Checked(new)
  BY <1>1, <1>2, <1>6 DEF LastPut, Checked
<1>10. QED
  BY <1>1, <1>6, <1>7, <1>8, <1>9, SavedGoesOn

LEMMA SavedInserts ==
    ASSUME Assumed, SavedInv, NEW c \in Saver, C!InsertBindings(c)
    PROVE  SavedInv'
<1>1. BoundInv' /\ Open(c) /\ soTx[c] \in C!Tx /\ soTx[c].pc = "insert"
  BY InsertBindingsSound DEF SavedInv, BoundInv, C!TypeOK, C!InsertBindings, C!Is, Open
<1>2. LastPut(soTx[c]) /\ Checked(soTx[c]) /\ Alone(c, soTx[c])
  BY <1>1 DEF SavedInv
<1>3. PICK m \in Nat : m = soTx[c].next /\ m \in 1..Len(soTx[c].request)
  BY <1>1 DEF SavedInv, BoundInv, Steady, AtAnEntry, Assumed, C!Parameters, C!Tx
<1>4. PICK entry \in C!Entry : entry = soTx[c].request[m]
  BY <1>1, <1>3, EntriesTyped
<1>5. PICK s \in Source : s = entry.source
  BY DEF C!Entry
<1>6. PICK put \in C!Put : put = [seen |-> soTx[c].seen, libraries |-> entry.libraries]
  BY <1>1 DEF C!Entry, C!Put, C!Tx
<1>7. put # None /\ entry = [source |-> s, libraries |-> put.libraries]
  BY <1>5, <1>6 DEF C!Entry, Assumed, C!NoneApart
<1> DEFINE puts == [soTx[c].put EXCEPT ![s] = put]
           after == [soTx[c] EXCEPT !.pc = "upsert", !.next = m + 1, !.put = puts]
<1>8. puts \in [Source -> {None} \cup C!Put]
  BY <1>1 DEF C!Tx
<1>9. soTx' = [soTx EXCEPT ![c] = after] /\ UNCHANGED <<soTable, soLock>>
  BY <1>1, <1>3, <1>4, <1>5, <1>6 DEF C!InsertBindings, C!Current, SavedInv, BoundInv,
     C!TypeOK, C!Tx
<1> HIDE DEF puts
<1>10. m + 1 \in Nat
  OBVIOUS
<1>11. /\ after \in C!Tx /\ after.pc = "upsert" /\ after.request = soTx[c].request
       /\ after.next = m + 1 /\ after.put = puts
       /\ after.todo = soTx[c].todo /\ after.alone = soTx[c].alone
  BY <1>1, <1>8, <1>10 DEF C!Tx
<1> PICK new \in C!Tx : new = after
  BY <1>11
<1>12. puts[s] = put /\ \A r \in Source : r # s => puts[r] = soTx[c].put[r]
  BY <1>1 DEF puts, C!Tx
<1> HIDE DEF after
<1>13. new.alone => DeletesAll(c, new)'
  BY <1>2, <1>9, <1>11 DEF Alone, DeletesAll, C!Unnamed, C!Entries
<1>14. \A n \in 1..m : soTx[c].request[n].source \in Source
  BY <1>1, <1>3, EntriesTyped DEF C!Entry
<1>15. \A n \in 1..m : puts[soTx[c].request[n].source] # None
  <2> TAKE n \in 1..m
  <2>1. CASE n = m
    BY <2>1, <1>4, <1>5, <1>7, <1>12
  <2>2. CASE n # m
    <3>1. n \in 1..m - 1
      BY <2>2
    <3>2. soTx[c].put[soTx[c].request[n].source] # None
      BY <3>1, <1>2, <1>3 DEF LastPut
    <3>3. QED
      BY <3>2, <1>7, <1>12, <1>14
  <2>3. QED
    BY <2>1, <2>2
<1>16. ASSUME NEW r \in Source, puts[r] # None
       PROVE  \E n \in 1..m :
                /\ soTx[c].request[n] = [source |-> r, libraries |-> puts[r].libraries]
                /\ \A k \in 1..m : k > n => soTx[c].request[k].source # r
  <2>1. CASE r = s
    <3>1. m \in 1..m /\ \A k \in 1..m : ~(k > m)
      BY <1>3
    <3>2. QED
      BY <2>1, <3>1, <1>4, <1>7, <1>12
  <2>2. CASE r # s
    <3>1. PICK n \in 1..m - 1 :
            /\ soTx[c].request[n] = [source |-> r, libraries |-> soTx[c].put[r].libraries]
            /\ \A k \in 1..m - 1 : k > n => soTx[c].request[k].source # r
      BY <1>2, <1>3, <1>12, <1>16, <2>2 DEF LastPut
    <3>2. n \in 1..m /\ \A k \in 1..m : k = m \/ k \in 1..m - 1
      BY <1>3
    <3>3. soTx[c].request[m].source # r
      BY <1>4, <1>5, <2>2
    <3>4. QED
      BY <2>2, <3>1, <3>2, <3>3, <1>12
  <2>3. QED
    BY <2>1, <2>2
<1>17. LastPut(new)
  <2>1. new.next - 1 = m /\ new.put = puts /\ new.request = soTx[c].request
    BY <1>11
  <2>2. QED
    BY <2>1, <1>15, <1>16 DEF LastPut
<1>18. Checked(new)
  BY <1>1, <1>2, <1>11 DEF Checked
<1>19. QED
  BY <1>1, <1>9, <1>11, <1>13, <1>17, <1>18, SavedGoesOn

(* One that ends is not open, and the others have not been alone.          *)
LEMMA SavedEnds ==
    ASSUME Assumed, SavedInv, NEW c \in Saver, Open(c), C!EndTx(c), BoundInv'
    PROVE  SavedInv'
<1>1. ASSUME NEW d \in Saver, Open(d)'
      PROVE  (LastPut(soTx[d]) /\ Checked(soTx[d]) /\ Alone(d, soTx[d]))'
  <2>1. d # c /\ soTx'[d] = soTx[d] /\ Open(d)
    BY <1>1 DEF SavedInv, BoundInv, C!TypeOK, Open, C!EndTx
  <2>2. LastPut(soTx[d]) /\ Checked(soTx[d]) /\ ~soTx[d].alone
    BY <2>1 DEF SavedInv, Alone
  <2>3. QED
    BY <2>1, <2>2 DEF LastPut, Checked, Alone, C!Disjoint
<1>2. QED
  BY <1>1 DEF SavedInv

LEMMA SavedStep == ASSUME Assumed, SavedInv, C!Next PROVE SavedInv'
<1>1. PICK c \in Saver :
        \/ \E request \in Configurations : C!Begin(c, request)
        \/ \E s \in Source : C!DeleteRow(c, s)
        \/ C!CheckRoots(c) \/ C!Upsert(c) \/ C!ClearBindings(c) \/ C!InsertBindings(c)
        \/ C!Commit(c) \/ C!Rollback(c)
  BY DEF C!Next
<1>2. CASE C!Commit(c)
  BY <1>2, CommitSound, SavedEnds DEF SavedInv, C!Commit, C!Is, Open
<1>3. CASE C!Rollback(c)
  BY <1>3, RollbackSound, SavedEnds DEF SavedInv, C!Rollback, Open
<1>4. QED
  BY <1>1, <1>2, <1>3, SavedBegins, SavedDeletesRow, SavedChecksRoots, SavedUpserts,
     SavedClears, SavedInserts

LEMMA SavedInvariant == PartsSpec => []SavedInv
<1> USE PartsAssumption DEF PartsAssumption
<1>1. Assumed
  BY DEF Assumed
<1>2. C!Init => SavedInv
  BY DEF C!Init, SavedInv, BoundInv, C!TypeOK, Open, BoundAsAsked, C!BoundAsAsked
<1>3. SavedInv /\ UNCHANGED C!vars => SavedInv'
  <2> SUFFICES ASSUME SavedInv, UNCHANGED C!vars PROVE SavedInv'
    OBVIOUS
  <2>1. BoundInv'
    BY DEF C!vars, SavedInv, BoundInv, C!TypeOK, Open, BoundAsAsked, C!BoundAsAsked, Steady,
           AtAnEntry, PutIsHeld, EntryIsHeld, Bindings, C!Entries
  <2>2. QED
    BY <2>1 DEF C!vars, SavedInv, Open, LastPut, Checked, C!Disjoint, Alone, DeletesAll,
                C!Unnamed, C!Entries
<1>4. SavedInv /\ [C!Next]_(C!vars) => SavedInv'
  BY <1>1, <1>3, SavedStep
<1>5. QED
  BY <1>2, <1>4, SourcesMove, PTL DEF C!Spec

(* What a transaction that has been alone commits is what it was asked.    *)
LEMMA CommitStores ==
    ASSUME Assumed, SavedInv, NEW c \in Saver, C!Commit(c), soTx[c].alone
    PROVE  {[source |-> s, libraries |-> soTable'[s]] :
              s \in {t \in Source : soTable'[t] # None}} = C!Final(soTx[c].request)
<1> DEFINE t == soTx[c]
           length == Len(t.request)
<1>1. t \in C!Tx /\ t.pc = "upsert" /\ t.next = length + 1 /\ length \in Nat
      /\ DOMAIN t.request = 1..length
  BY DEF C!Commit, C!Is, SavedInv, BoundInv, C!TypeOK, Open, Steady, AtAnEntry, Assumed,
         C!Parameters, C!Tx
<1>2. LastPut(t) /\ t.todo = {} /\ DeletesAll(c, t)
  BY <1>1 DEF C!Commit, C!Is, SavedInv, Open, Checked, Alone
<1>3. \A n \in 1..length : t.request[n] \in C!Entry /\ t.put[t.request[n].source] # None
  BY <1>1, <1>2, EntriesTyped DEF LastPut
<1>4. ASSUME NEW s \in Source, soTable'[s] # None
      PROVE  t.put[s] # None /\ soTable'[s] = t.put[s].libraries
  <2>1. CASE t.put[s] = None
    <3>1. soLock[s] # c /\ soTable[s] # None
      BY <1>4, <2>1, PutIsCommitted DEF SavedInv
    <3>2. s \notin C!Unnamed(t.request)
      BY <1>2, <3>1 DEF DeletesAll
    <3>3. PICK n \in 1..length : t.request[n].source = s
      BY <1>1, <3>1, <3>2 DEF C!Unnamed, C!Entries
    <3>4. QED
      BY <1>3, <2>1, <3>3
  <2>2. QED
    BY <1>4, <2>1, PutIsCommitted DEF SavedInv
<1>5. ASSUME NEW s \in Source, soTable'[s] # None
      PROVE  [source |-> s, libraries |-> soTable'[s]] \in C!Final(t.request)
  <2>1. PICK n \in 1..length :
          /\ t.request[n] = [source |-> s, libraries |-> soTable'[s]]
          /\ \A k \in 1..length : k > n => t.request[k].source # s
    BY <1>1, <1>2, <1>4, <1>5 DEF LastPut
  <2>2. QED
    BY <1>1, <2>1 DEF C!Final
<1>6. ASSUME NEW e \in C!Final(t.request)
      PROVE  \E s \in {r \in Source : soTable'[r] # None} :
               e = [source |-> s, libraries |-> soTable'[s]]
  <2>1. PICK n \in 1..length :
          e = t.request[n] /\ \A k \in 1..length : k > n => t.request[k].source # e.source
    BY <1>1 DEF C!Final
  <2>2. PICK s \in Source : s = e.source
    BY <1>3, <2>1 DEF C!Entry
  <2>3. t.put[s] # None
    BY <1>3, <2>1, <2>2
  <2>4. PICK m \in 1..length :
          /\ t.request[m] = [source |-> s, libraries |-> t.put[s].libraries]
          /\ \A k \in 1..length : k > m => t.request[k].source # s
    BY <1>1, <1>2, <2>3 DEF LastPut
  <2>5. m = n
    BY <1>1, <2>1, <2>2, <2>4
  <2>6. soTable'[s] = t.put[s].libraries /\ soTable'[s] \in SUBSET Target
    BY <1>1, <2>3, PutIsCommitted DEF SavedInv, C!Tx, C!Put
  <2>7. QED
    BY <2>1, <2>2, <2>4, <2>5, <2>6 DEF Assumed, C!NoneApart
<1>7. QED
  BY <1>5, <1>6

(* A configuration that is saved with no other under way is what is stored *)
(* then, whatever was stored before, and what is refused changes nothing:  *)
(* rows are deleted before others are put, and the last entry of a source  *)
(* is the one that is left (Update).                                       *)
THEOREM AloneIsStored == PartsSpec => SavedAlone
<1> USE PartsAssumption DEF PartsAssumption
<1>1. Assumed
  BY DEF Assumed
<1> DEFINE Stored(c) ==
      IF C!Commit(c)
      THEN /\ C!Disjoint(soTx[c].request)
           /\ {[source |-> s, libraries |-> soTable'[s]] :
                 s \in {t \in Source : soTable'[t] # None}} = C!Final(soTx[c].request)
      ELSE UNCHANGED soTable
<1>2. ASSUME SavedInv, C!Next, NEW c \in Saver, Open(c), soTx[c].alone, soTx'[c] = None
      PROVE  Stored(c)
  <2>1. C!Commit(c) \/ UNCHANGED soTable
    <3>1. PICK d \in Saver :
            \/ \E request \in Configurations : C!Begin(d, request)
            \/ \E s \in Source : C!DeleteRow(d, s)
            \/ C!CheckRoots(d) \/ C!Upsert(d) \/ C!ClearBindings(d)
            \/ C!InsertBindings(d) \/ C!Commit(d) \/ C!Rollback(d)
      BY <1>2 DEF C!Next
    <3>2. CASE C!Commit(d)
      <4>1. c = d
        BY <1>2, <3>2 DEF C!Commit, C!EndTx, SavedInv, BoundInv, C!TypeOK, Open
      <4>2. QED
        BY <3>2, <4>1
    <3>3. QED
      BY <3>1, <3>2 DEF C!Begin, C!DeleteRow, C!CheckRoots, C!Upsert, C!ClearBindings,
                        C!InsertBindings, C!Rollback
  <2>2. CASE C!Commit(c)
    <3>1. C!Disjoint(soTx[c].request)
      BY <1>2, <2>2 DEF C!Commit, C!Is, SavedInv, Checked
    <3>2. QED
      BY <1>1, <1>2, <2>2, <3>1, CommitStores
  <2>3. QED
    BY <2>1, <2>2
<1>3. SavedInv /\ [C!Next]_(C!vars) =>
        [\A c \in Saver : soTx[c] # None /\ soTx[c].alone /\ soTx'[c] = None =>
           Stored(c)]_(C!vars)
  BY <1>2 DEF Open, C!vars
<1>4. QED
  BY <1>3, SavedInvariant, SourcesMove, PTL DEF C!Spec, SavedAlone, C!SavedAlone
=============================================================================
