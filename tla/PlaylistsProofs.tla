--------------------------- MODULE PlaylistsProofs ---------------------------
(***************************************************************************)
(* That a request which nothing else commits during does to the list of    *)
(* entries what it was asked, for any clients, titles, folders and lists,  *)
(* any number of entries and requests, and the types this rests on.        *)
(***************************************************************************)
EXTENDS Playlists, FiniteSetTheorems, SequenceTheorems, TLAPS

-----------------------------------------------------------------------------
(* Sequences of sequences, one after the other.                            *)

\* A set of numbers has a least one: of the intervals up to them one has
\* no other inside.
LEMMA LeastNumber ==
    ASSUME NEW T \in SUBSET Nat, T # {}
    PROVE  \E m \in T : \A k \in T : m <= k
<1> DEFINE U == {1 .. n : n \in T}
<1>1. U \subseteq FiniteSubsetsOf(Nat) /\ U # {}
  <2>1. ASSUME NEW n \in T PROVE 1 .. n \in FiniteSubsetsOf(Nat)
    BY FS_Interval DEF FiniteSubsetsOf
  <2>2. QED
    BY <2>1
<1>2. \E x \in U : \A y \in U : <<y, x>> \notin StrictSubsetOrdering(Nat)
  <2> HIDE DEF U
  <2>1. QED
    BY <1>1, WFMin, FS_StrictSubsetOrderingWellFounded
<1>3. PICK m \in T : \A y \in U : <<y, 1 .. m>> \notin StrictSubsetOrdering(Nat)
  BY <1>2
<1>4. ASSUME NEW k \in T, k < m PROVE FALSE
  <2>1. m \in 1 .. m /\ m \notin 1 .. k
    BY <1>4
  <2>2. 1 .. k \subseteq 1 .. m /\ 1 .. k # 1 .. m
    BY <1>4, <2>1
  <2>3. <<1 .. k, 1 .. m>> \in StrictSubsetOrdering(Nat)
    BY <2>2 DEF StrictSubsetOrdering
  <2>4. QED
    BY <1>3, <1>4, <2>3
<1>5. QED
  BY <1>4

\* What FlattenSeq computes up to its n-th step, ...
Flattens(f, ss, n) ==
    f = [i \in 1 .. n |-> IF i = 1 THEN ss[i] ELSE f[i - 1] \o ss[i]]

\* ... there is,
LEMMA FlatteningExists ==
    ASSUME NEW ss, NEW n \in Nat
    PROVE  \E f : Flattens(f, ss, n)
<1> DEFINE Bad == {k \in Nat : ~\E f : Flattens(f, ss, k)}
<1> SUFFICES ASSUME Bad # {} PROVE FALSE
  OBVIOUS
<1>1. PICK k \in Bad : \A m \in Bad : k <= m
  <2> HIDE DEF Bad
  <2>1. Bad \subseteq Nat
    BY DEF Bad
  <2>2. QED
    BY <2>1, LeastNumber
<1>2. k # 0
  <2>1. Flattens([i \in 1 .. 0 |-> ss], ss, 0)
    BY DEF Flattens
  <2>2. QED
    BY <2>1, <1>1
<1>3. PICK f : Flattens(f, ss, k - 1)
  BY <1>1, <1>2
<1> DEFINE g == [i \in 1 .. k |-> IF i = 1 THEN ss[i] ELSE f[i - 1] \o ss[i]]
<1>4. ASSUME NEW i \in 1 .. k - 1 PROVE g[i] = f[i]
  <2> HIDE DEF Bad
  <2>1. k \in Nat
    BY DEF Bad
  <2>2. i \in 1 .. k
    BY <2>1
  <2>3. g[i] = IF i = 1 THEN ss[i] ELSE f[i - 1] \o ss[i]
    BY <2>2
  <2>4. f[i] = IF i = 1 THEN ss[i] ELSE f[i - 1] \o ss[i]
    BY <1>3 DEF Flattens
  <2>5. QED
    BY <2>3, <2>4
<1>5. ASSUME NEW i \in 1 .. k, i # 1 PROVE g[i] = g[i - 1] \o ss[i]
  <2>1. i - 1 \in 1 .. k - 1
    BY <1>1, <1>5
  <2>2. g[i - 1] = f[i - 1]
    BY <2>1, <1>4
  <2>3. QED
    BY <2>2, <1>5
<1>6. Flattens(g, ss, k)
  <2>1. g = [i \in 1 .. k |-> IF i = 1 THEN ss[i] ELSE g[i - 1] \o ss[i]]
    BY <1>5
  <2>2. QED
    BY <2>1 DEF Flattens
<1>7. QED
  BY <1>1, <1>6

\* and it is a sequence of what the sequences have.
LEMMA FlattenedTyped ==
    ASSUME NEW S, NEW ss \in Seq(Seq(S))
    PROVE  FlattenSeq(ss) \in Seq(S)
<1>1. CASE Len(ss) = 0
  BY <1>1, EmptySeq DEF FlattenSeq
<1>2. CASE Len(ss) # 0
  <2> DEFINE f == CHOOSE h : Flattens(h, ss, Len(ss))
             Bad == {k \in Nat : k \in 1 .. Len(ss) /\ f[k] \notin Seq(S)}
  <2>1. Len(ss) \in Nat /\ Len(ss) \in 1 .. Len(ss) /\ \A i \in 1 .. Len(ss) : ss[i] \in Seq(S)
    BY <1>2, LenProperties, ElementOfSeq
  <2>2. Flattens(f, ss, Len(ss))
    <3> HIDE DEF Bad
    <3>1. \E h : Flattens(h, ss, Len(ss))
      BY FlatteningExists, <2>1
    <3>2. QED
      BY <3>1, Zenon
  <2>3. FlattenSeq(ss) = f[Len(ss)]
    BY <1>2 DEF FlattenSeq, Flattens
  <2>4. Bad = {}
    <3> SUFFICES ASSUME Bad # {} PROVE FALSE
      OBVIOUS
    <3>1. PICK k \in Bad : \A m \in Bad : k <= m
      <4> HIDE DEF Bad
      <4>1. Bad \subseteq Nat
        BY DEF Bad
      <4>2. QED
        BY <4>1, LeastNumber
    <3> HIDE DEF f
    <3>2. f[k] = IF k = 1 THEN ss[k] ELSE f[k - 1] \o ss[k]
      BY <2>2, <3>1 DEF Flattens
    <3>3. k # 1
      BY <3>1, <3>2, <2>1
    <3>4. k - 1 \in 1 .. Len(ss) /\ k - 1 < k
      BY <3>1, <3>3, <2>1
    <3>5. f[k - 1] \in Seq(S)
      BY <3>1, <3>4
    <3>6. f[k - 1] \o ss[k] \in Seq(S)
      BY <3>5, <3>1, <2>1, ConcatProperties
    <3>7. QED
      BY <3>1, <3>2, <3>3, <3>6
  <2>5. QED
    BY <2>1, <2>3, <2>4
<1>3. QED
  BY <1>1, <1>2

\* What a request's items expand to are titles.
LEMMA ExpandedTyped ==
    ASSUME NEW items \in Lists
    PROVE  Expanded(items) \in Seq(Title)
<1> DEFINE each(x) == IF x \in Folder THEN Beneath[x] ELSE <<x>>
           all == FlattenSeq([n \in DOMAIN items |-> each(items[n])])
           kept == [n \in DOMAIN all |-> IF all[n] \in there THEN <<all[n]>> ELSE <<>>]
<1>1. items \in Seq(Title \cup Folder)
  BY PlaylistsAssumption
<1>2. \A n \in DOMAIN items : items[n] \in Title \cup Folder
  BY <1>1, ElementOfSeq, LenProperties
<1>3. \A n \in DOMAIN items : each(items[n]) \in Seq(Title)
  BY <1>2, PlaylistsAssumption
<1>4. [n \in DOMAIN items |-> each(items[n])] \in Seq(Seq(Title))
  <2> HIDE DEF each
  <2>1. Len(items) \in Nat /\ DOMAIN items = 1 .. Len(items)
    BY <1>1, LenProperties
  <2>2. [n \in DOMAIN items |-> each(items[n])] \in [1 .. Len(items) -> Seq(Title)]
    BY <1>3, <2>1
  <2>3. QED
    BY <2>1, <2>2, SeqDef
<1>5. all \in Seq(Title)
  BY <1>4, FlattenedTyped
<1> HIDE DEF all
<1>6. \A n \in DOMAIN all : all[n] \in Title
  BY <1>5, ElementOfSeq, LenProperties
<1>7. kept \in Seq(Seq(Title))
  <2>1. Len(all) \in Nat /\ DOMAIN all = 1 .. Len(all)
    BY <1>5, LenProperties
  <2>2. \A n \in DOMAIN all : <<all[n]>> \in Seq(Title) /\ <<>> \in Seq(Title)
    BY <1>6
  <2>3. kept \in [1 .. Len(all) -> Seq(Title)]
    BY <2>1, <2>2
  <2>4. QED
    BY <2>1, <2>3, SeqDef
<1>8. FlattenSeq(kept) \in Seq(Title)
  BY <1>7, FlattenedTyped
<1>9. QED
  BY <1>8 DEF Expanded, all
-----------------------------------------------------------------------------
(* The table as a list.                                                    *)

Table == [Id -> Row \cup {None}]

\* The entries listed before i.
Before(w, i) ==
    {k \in Present(w) : w[k].at < w[i].at \/ (w[k].at = w[i].at /\ k < i)}

LEMMA IdsAreNumbers == IsFiniteSet(Id) /\ Cardinality(Id) = Entries /\ Id \subseteq Nat
<1>1. Entries \in Nat
  BY PlaylistsAssumption
<1>2. QED
  BY <1>1, FS_Interval DEF Id

LEMMA FirstNumbers ==
    ASSUME NEW n \in Nat
    PROVE  IsFiniteSet(0 .. n - 1) /\ Cardinality(0 .. n - 1) = n
<1>1. 0 \in Int /\ n - 1 \in Int /\ (IF 0 > n - 1 THEN 0 ELSE n - 1 - 0 + 1) = n
  OBVIOUS
<1>2. QED
  BY <1>1, FS_Interval

LEMMA EntriesAreFew ==
    ASSUME NEW w, NEW S \in SUBSET Present(w)
    PROVE  IsFiniteSet(S) /\ Cardinality(S) \in 0 .. Entries
<1>1. S \in SUBSET Id
  BY DEF Present
<1>2. IsFiniteSet(S) /\ Cardinality(S) <= Entries
  BY <1>1, IdsAreNumbers, FS_Subset
<1>3. Cardinality(S) \in Nat
  BY <1>2, FS_CardinalityType
<1>4. QED
  BY <1>2, <1>3, PlaylistsAssumption

LEMMA EntriesTyped ==
    ASSUME NEW w \in Table, NEW i \in Present(w)
    PROVE  i \in Nat /\ i \in Id /\ w[i] \in Row /\ w[i].at \in Nat /\ w[i].title \in Title
<1>1. i \in Id /\ w[i] \in Row
  BY DEF Table, Present
<1>2. Position \subseteq Nat
  BY PlaylistsAssumption DEF Position
<1>3. QED
  BY <1>1, <1>2, IdsAreNumbers DEF Row

LEMMA IndexCounts ==
    ASSUME NEW w, NEW i \in Present(w)
    PROVE  /\ Index(w, i) = Cardinality(Before(w, i)) /\ IsFiniteSet(Before(w, i))
           /\ Index(w, i) \in Nat
<1>1. Before(w, i) \in SUBSET Present(w)
  BY DEF Before
<1>2. IsFiniteSet(Before(w, i)) /\ Cardinality(Before(w, i)) \in 0 .. Entries
  BY <1>1, EntriesAreFew
<1>3. QED
  BY <1>2 DEF Index, Before

\* What is listed before has the lower index, ...
LEMMA IndexOrders ==
    ASSUME NEW w \in Table, NEW i \in Present(w), NEW k \in Before(w, i)
    PROVE  Index(w, k) < Index(w, i)
<1>1. k \in Present(w)
  BY DEF Before
<1>2. Before(w, k) \subseteq Before(w, i)
  <2> SUFFICES ASSUME NEW l \in Before(w, k) PROVE l \in Before(w, i)
    OBVIOUS
  <2>1. l \in Present(w)
    BY DEF Before
  <2>2. QED
    BY <1>1, <2>1, EntriesTyped DEF Before
<1>3. k \notin Before(w, k)
  BY <1>1, EntriesTyped DEF Before
<1>4. Before(w, k) # Before(w, i)
  BY <1>3
<1>5. Cardinality(Before(w, k)) < Cardinality(Before(w, i))
  BY <1>1, <1>2, <1>4, FS_Subset, IndexCounts
<1>6. QED
  BY <1>1, <1>5, IndexCounts

\* and of two entries one is listed before the other.
LEMMA IndexOrdersAll ==
    ASSUME NEW w \in Table, NEW i \in Present(w), NEW k \in Present(w)
    PROVE  /\ Index(w, k) < Index(w, i) <=> k \in Before(w, i)
           /\ Index(w, k) = Index(w, i) => k = i
<1>1. k \in Before(w, i) \/ i \in Before(w, k) \/ i = k
  BY EntriesTyped DEF Before
<1>2. k \in Before(w, i) => Index(w, k) < Index(w, i)
  BY IndexOrders
<1>3. i \in Before(w, k) => Index(w, i) < Index(w, k)
  BY IndexOrders
<1>4. QED
  BY <1>1, <1>2, <1>3, IndexCounts

LEMMA IndexBounded ==
    ASSUME NEW w \in Table, NEW i \in Present(w)
    PROVE  Index(w, i) \in 0 .. Cardinality(Present(w)) - 1
<1>1. Before(w, i) \in SUBSET Present(w) /\ i \notin Before(w, i)
  BY EntriesTyped DEF Before
<1>2. IsFiniteSet(Present(w)) /\ Cardinality(Present(w)) \in Nat
  BY EntriesAreFew
<1>3. Cardinality(Before(w, i)) <= Cardinality(Present(w))
      /\ Cardinality(Before(w, i)) # Cardinality(Present(w))
  BY <1>1, <1>2, FS_Subset
<1>4. QED
  BY <1>2, <1>3, IndexCounts

\* Each index below the number of entries is that of one.
LEMMA IndexReaches ==
    ASSUME NEW w \in Table, NEW n \in 0 .. Cardinality(Present(w)) - 1
    PROVE  \E i \in Present(w) : Index(w, i) = n
<1> DEFINE m == Cardinality(Present(w))
           f == [i \in Present(w) |-> Index(w, i)]
<1>1. IsFiniteSet(Present(w)) /\ m \in Nat
  BY EntriesAreFew
<1>2. f \in Injection(Present(w), 0 .. m - 1)
  BY IndexBounded, IndexOrdersAll DEF Injection, IsInjective
<1>3. IsFiniteSet(0 .. m - 1) /\ Cardinality(0 .. m - 1) = m
  BY <1>1, FirstNumbers
<1>4. f \in Surjection(Present(w), 0 .. m - 1)
  BY <1>2, <1>3, FS_Injection
<1>5. QED
  BY <1>4 DEF Surjection

LEMMA ListOfEntries ==
    ASSUME NEW w \in Table
    PROVE  /\ ListOf(w) \in Seq(Id) /\ Len(ListOf(w)) = Cardinality(Present(w))
           /\ Cardinality(Present(w)) \in 0 .. Entries
           /\ DOMAIN ListOf(w) = 1 .. Cardinality(Present(w))
           /\ \A n \in 1 .. Cardinality(Present(w)) :
                 ListOf(w)[n] \in Present(w) /\ Index(w, ListOf(w)[n]) = n - 1
           /\ \A i \in Present(w) : Index(w, i) + 1 \in 1 .. Cardinality(Present(w))
                                     /\ ListOf(w)[Index(w, i) + 1] = i
<1> DEFINE m == Cardinality(Present(w))
<1>1. m \in 0 .. Entries /\ m \in Nat
  <2>1. m \in 0 .. Entries
    BY EntriesAreFew
  <2> HIDE DEF m
  <2>2. QED
    BY <2>1, PlaylistsAssumption
<1>2. DOMAIN ListOf(w) = 1 .. m
  BY DEF ListOf
<1>3. ASSUME NEW n \in 1 .. m
      PROVE  ListOf(w)[n] \in Present(w) /\ Index(w, ListOf(w)[n]) = n - 1
  <2>1. \E i \in Present(w) : Index(w, i) = n - 1
    BY <1>1, IndexReaches
  <2>2. ListOf(w)[n] = CHOOSE i \in Present(w) : Index(w, i) = n - 1
    BY DEF ListOf
  <2>3. QED
    BY <2>1, <2>2
<1>4. ASSUME NEW i \in Present(w)
      PROVE  Index(w, i) + 1 \in 1 .. m /\ ListOf(w)[Index(w, i) + 1] = i
  <2>1. Index(w, i) + 1 \in 1 .. m /\ Index(w, i) \in Nat
    BY <1>1, IndexBounded
  <2>2. QED
    BY <2>1, <1>3, IndexOrdersAll
<1>5. ListOf(w) \in [1 .. m -> Id]
  BY <1>2, <1>3 DEF ListOf, Present
<1>6. ListOf(w) \in Seq(Id) /\ Len(ListOf(w)) = m
  BY <1>1, <1>5, IsASeq, LenProperties
<1>7. QED
  BY <1>1, <1>2, <1>3, <1>4, <1>6

LEMMA ListedAndOrdered ==
    ASSUME NEW w \in Table
    PROVE  /\ ToSet(ListOf(w)) = Present(w)
           /\ \A i, k \in Present(w) : Precedes(ListOf(w), i, k) <=> i \in Before(w, k)
<1>1. ToSet(ListOf(w)) = Present(w)
  BY ListOfEntries DEF ToSet
<1>2. ASSUME NEW i \in Present(w), NEW k \in Present(w)
      PROVE  Precedes(ListOf(w), i, k) <=> Index(w, i) < Index(w, k)
  <2>1. ASSUME Precedes(ListOf(w), i, k) PROVE Index(w, i) < Index(w, k)
    <3>1. PICK m, n \in DOMAIN ListOf(w) : m < n /\ ListOf(w)[m] = i /\ ListOf(w)[n] = k
      BY <2>1 DEF Precedes
    <3>2. QED
      BY <3>1, ListOfEntries
  <2>2. ASSUME Index(w, i) < Index(w, k) PROVE Precedes(ListOf(w), i, k)
    <3>1. Index(w, i) + 1 < Index(w, k) + 1
      BY <2>2, IndexCounts
    <3>2. QED
      BY <3>1, ListOfEntries DEF Precedes
  <2>3. QED
    BY <2>1, <2>2
<1>3. QED
  BY <1>1, <1>2, IndexOrdersAll

\* Places from zero on, one entry at each, are the indexes.
LEMMA PlacesAreIndexes ==
    ASSUME NEW w \in Table, NEW m \in Nat, m = Cardinality(Present(w)),
           \A i \in Present(w) : w[i].at \in 0 .. m - 1,
           \A i, k \in Present(w) : w[i].at = w[k].at => i = k
    PROVE  \A i \in Present(w) : Index(w, i) = w[i].at
<1> DEFINE f == [i \in Present(w) |-> w[i].at]
<1>1. f \in Surjection(Present(w), 0 .. m - 1)
  <2>1. f \in Injection(Present(w), 0 .. m - 1)
    BY DEF Injection, IsInjective
  <2>2. IsFiniteSet(0 .. m - 1) /\ Cardinality(0 .. m - 1) = m
    BY FirstNumbers
  <2>3. QED
    BY <2>1, <2>2, FS_Injection
<1> SUFFICES ASSUME NEW i \in Present(w) PROVE Index(w, i) = w[i].at
  OBVIOUS
<1> DEFINE g == [k \in Before(w, i) |-> w[k].at]
<1>2. w[i].at \in Nat /\ w[i].at <= m - 1
  OBVIOUS
<1>3. Before(w, i) = {k \in Present(w) : w[k].at < w[i].at}
  BY EntriesTyped DEF Before
<1>4. g \in Injection(Before(w, i), 0 .. w[i].at - 1)
  BY <1>2, <1>3 DEF Injection, IsInjective
<1>5. g \in Surjection(Before(w, i), 0 .. w[i].at - 1)
  <2> SUFFICES ASSUME NEW n \in 0 .. w[i].at - 1 PROVE \E k \in Before(w, i) : g[k] = n
    BY <1>4 DEF Injection, IsInjective, Surjection
  <2>1. n \in 0 .. m - 1
    BY <1>2
  <2>2. PICK k \in Present(w) : f[k] = n
    BY <1>1, <2>1 DEF Surjection
  <2>3. w[k].at = n
    BY <2>2
  <2>4. QED
    BY <1>2, <1>3, <2>3
<1>6. IsFiniteSet(0 .. w[i].at - 1) /\ Cardinality(0 .. w[i].at - 1) = w[i].at
  BY <1>2, FirstNumbers
<1>7. Cardinality(Before(w, i)) = w[i].at
  BY <1>4, <1>5, <1>6, FS_Injection
<1>8. QED
  BY <1>7, IndexCounts
-----------------------------------------------------------------------------
(* What an undisturbed request relies on.                                  *)

\* The entries a RemoveEntries finds.
Gone(run, w) == run.request.ids \cap Present(w)

\* The rows a MoveEntry shifts, and what it makes of them.
ShiftedRows(run, w) == {k \in Present(w) : Shifted(w[k], run.at, run.request.to) # w[k]}
ShiftOf(run, w) ==
    [i \in ShiftedRows(run, w) |-> Shifted(w[i], run.at, run.request.to)]

\* What a transaction has read and written fits the table w.
Undisturbed(run, w) ==
    /\ run.request.kind = "AddItems" =>
          /\ run.writes = <<>>
          /\ run.pc \in {"counted", "expanded"} => run.at = Cardinality(Present(w))
    /\ run.request.kind = "Update" =>
          /\ run.pc = "clearing" => run.targets = Present(w)
          /\ run.pc = "cleared" => run.writes = [i \in Present(w) |-> None]
    /\ run.request.kind = "RemoveEntries" =>
          /\ run.pc \in {"removed", "ordered"} => run.writes = [i \in Gone(run, w) |-> None]
          /\ run.pc = "ordered" =>
                LET seen == With(w, run.writes)
                IN  run.plan = [i \in Misplaced(seen) |-> Index(seen, i)]
    /\ run.request.kind = "MoveEntry" =>
          /\ run.pc \in {"counted", "found", "shifting", "shifted"} =>
                run.request.to < Cardinality(Present(w))
          /\ run.pc = "shifting" => run.targets = ShiftedRows(run, w)
          /\ run.pc \in {"found", "shifting", "shifted"} =>
                /\ w[run.request.id] # None
                /\ run.at = w[run.request.id].at /\ run.at # run.request.to
          /\ run.pc = "shifted" => run.writes = ShiftOf(run, w)

\* Where new entries are put is within the table's bounds.
PlaceIsBounded(run) ==
    /\ run.request.kind = "AddItems" => run.at <= Entries
    /\ run.request.kind = "Update" => run.at = 0

Sound(run, w) ==
    run.pc # "idle" =>
        /\ run.request \in Request /\ PlaceIsBounded(run)
        /\ run.alone => Undisturbed(run, w)

\* An undisturbed request's items, expanded, are what they expand to.
TitlesAreCurrent ==
    \A c \in Client : tx[c].alone /\ tx[c].pc \in {"expanded", "clearing", "cleared"} =>
        tx[c].titles = Expanded(tx[c].request.items)

\* The inductive invariant.
PlaylistsInv ==
    /\ TypeOK
    /\ \A c \in Client : Sound(tx[c], rows)
    /\ TitlesAreCurrent

Partial(X) == UNION {[S -> X] : S \in SUBSET Id}

LEMMA NothingYet == ASSUME NEW X PROVE <<>> \in Partial(X)
<1>1. <<>> \in [{} -> X]
  OBVIOUS
<1>2. QED
  BY <1>1 DEF Partial

LEMMA IdleTyped == Idle \in Run
<1>1. <<>> \in Partial(Position) /\ <<>> \in Partial(Row \cup {None})
  BY NothingYet
<1>2. 0 \in Position
  BY PlaylistsAssumption DEF Position
<1>3. QED
  BY <1>1, <1>2 DEF Run, Idle, Partial

\* A table with rows written is a table.
LEMMA WithTyped ==
    ASSUME NEW w \in Table, NEW f \in Partial(Row \cup {None})
    PROVE  With(w, f) \in Table
BY DEF With, Table, Partial

LEMMA RunTyped ==
    ASSUME NEW run \in Run
    PROVE  /\ run.plan \in Partial(Position) /\ run.writes \in Partial(Row \cup {None})
           /\ run.titles \in Seq(Title) /\ run.at \in Position /\ run.alone \in BOOLEAN
BY EmptySeq DEF Run, Partial

\* Interrupting one changes nothing else of it.
LEMMA InterruptedTyped ==
    ASSUME NEW run \in Run
    PROVE  /\ Interrupted(run) \in Run /\ Interrupted(run).pc = run.pc
           /\ run.pc # "idle" => Interrupted(run) = [run EXCEPT !.alone = FALSE]
<1>1. CASE run.pc = "idle"
  <2>1. (run.pc = "idle") = TRUE
    BY <1>1
  <2>2. Interrupted(run) = [run EXCEPT !.alone = TRUE]
    BY <2>1, Zenon DEF Interrupted
  <2>3. QED
    BY <1>1, <2>2 DEF Run
<1>2. CASE run.pc # "idle"
  <2>1. (run.pc = "idle") = FALSE
    BY <1>2
  <2>2. Interrupted(run) = [run EXCEPT !.alone = FALSE]
    BY <2>1, Zenon DEF Interrupted
  <2>3. QED
    BY <1>2, <2>2 DEF Run
<1>3. QED
  BY <1>1, <1>2

\* A step of one transaction that writes no table.
LEMMA RunGoes ==
    ASSUME PlaylistsInv, NEW c \in Client, NEW run \in Run, Sound(run, rows),
           tx' = [tx EXCEPT ![c] = run], UNCHANGED <<there, rows>>, asked' \in 0 .. Requests,
           run.alone /\ run.pc \in {"expanded", "clearing", "cleared"}
               => run.titles = Expanded(run.request.items)
    PROVE  PlaylistsInv'
<1>1. tx' = [tx EXCEPT ![c] = run] /\ UNCHANGED <<there, rows>>
  OBVIOUS
<1>2. tx \in [Client -> Run]
  BY DEF PlaylistsInv, TypeOK
<1>3. \A d \in Client : tx'[d] = IF d = c THEN run ELSE tx[d]
  BY <1>1, <1>2
<1>4. TypeOK'
  BY <1>1, <1>2 DEF PlaylistsInv, TypeOK
<1>5. \A d \in Client : Sound(tx'[d], rows)
  BY <1>3 DEF PlaylistsInv
<1>6. TitlesAreCurrent'
  <2> SUFFICES ASSUME NEW d \in Client, tx'[d].alone, tx'[d].pc \in {"expanded", "clearing", "cleared"}
               PROVE  tx'[d].titles = Expanded(tx[d].request.items)'
    BY DEF TitlesAreCurrent
  <2>1. tx'[d].titles = Expanded(tx'[d].request.items)
    BY <1>3 DEF PlaylistsInv, TitlesAreCurrent
  <2>2. Expanded(tx[d].request.items)' = Expanded(tx'[d].request.items)
    BY <1>1 DEF Expanded
  <2>3. QED
    BY <2>1, <2>2
<1>7. QED
  BY <1>1, <1>4, <1>5, <1>6 DEF PlaylistsInv

\* A commit or a deletion, which the others are no longer alone after.
LEMMA TableMoves ==
    ASSUME PlaylistsInv, rows' \in Table, there' \subseteq there, asked' = asked, NEW S \in SUBSET Client,
           tx' = [d \in Client |-> IF d \in S THEN Idle ELSE Interrupted(tx[d])]
    PROVE  PlaylistsInv'
<1>1. tx \in [Client -> Run]
  BY DEF PlaylistsInv, TypeOK
<1>2. ASSUME NEW d \in Client
      PROVE  /\ tx'[d] \in Run
             /\ tx'[d].pc # "idle" => /\ tx'[d] = [tx[d] EXCEPT !.alone = FALSE]
                                      /\ tx[d].pc # "idle"
  <2>1. CASE d \in S
    BY <2>1, IdleTyped DEF Idle
  <2>2. CASE d \notin S
    <3>1. tx'[d] = Interrupted(tx[d]) /\ tx[d] \in Run
      BY <1>1, <2>2
    <3>2. QED
      BY <3>1, InterruptedTyped
  <2>3. QED
    BY <2>1, <2>2
<1>3. TypeOK'
  BY <1>2 DEF PlaylistsInv, TypeOK, Table
<1>4. ASSUME NEW d \in Client, tx'[d].pc # "idle"
      PROVE  /\ tx'[d].request = tx[d].request /\ tx'[d].at = tx[d].at
             /\ tx[d].pc # "idle" /\ ~tx'[d].alone
  <2>1. tx[d] \in Run /\ tx'[d] = [tx[d] EXCEPT !.alone = FALSE] /\ tx[d].pc # "idle"
    BY <1>1, <1>2, <1>4
  <2>2. QED
    BY <2>1 DEF Run
<1>5. \A d \in Client : Sound(tx'[d], rows')
  BY <1>4 DEF PlaylistsInv, Sound, PlaceIsBounded
<1>6. TitlesAreCurrent'
  BY <1>4 DEF TitlesAreCurrent
<1>7. QED
  BY <1>3, <1>5, <1>6 DEF PlaylistsInv
-----------------------------------------------------------------------------
(* Every statement of a request keeps the invariant.                       *)

LEMMA WhatRuns ==
    ASSUME PlaylistsInv, NEW c \in Client
    PROVE  /\ tx[c] \in Run /\ rows \in Table /\ asked \in 0 .. Requests
           /\ tx[c].pc # "idle" => /\ tx[c].request \in Request /\ PlaceIsBounded(tx[c])
                                   /\ tx[c].alone => Undisturbed(tx[c], rows)
           /\ tx[c].alone /\ tx[c].pc \in {"expanded", "clearing", "cleared"}
                => tx[c].titles = Expanded(tx[c].request.items)
BY DEF PlaylistsInv, TypeOK, Table, Sound, TitlesAreCurrent

LEMMA Running ==
    ASSUME PlaylistsInv, NEW c \in Client, tx[c].pc # "idle"
    PROVE  /\ tx[c] \in Run /\ rows \in Table
           /\ tx[c].request \in Request /\ PlaceIsBounded(tx[c])
           /\ tx[c].alone => Undisturbed(tx[c], rows)
           /\ tx[c].alone /\ tx[c].pc \in {"expanded", "clearing", "cleared"}
                => tx[c].titles = Expanded(tx[c].request.items)
BY DEF PlaylistsInv, TypeOK, Table, Sound, TitlesAreCurrent

LEMMA PartialIs ==
    ASSUME NEW X, NEW S \in SUBSET Id, NEW f \in [S -> X]
    PROVE  f \in Partial(X)
BY DEF Partial

LEMMA PositionsAreNumbers ==
    /\ Position \subseteq Nat /\ 0 .. Entries \subseteq Position /\ 0 \in Position
    /\ Entries \in Nat
BY PlaylistsAssumption DEF Position

LEMMA EndSound ==
    ASSUME PlaylistsInv, NEW c \in Client, Ends(c)
    PROVE  PlaylistsInv'
<1>1. tx' = [tx EXCEPT ![c] = Idle] /\ UNCHANGED <<there, rows, asked>>
  BY DEF Ends, Goes
<1>2. Idle.pc = "idle"
  BY DEF Idle
<1>3. Sound(Idle, rows)
  BY <1>2 DEF Sound
<1>4. QED
  BY <1>1, <1>2, <1>3, IdleTyped, RunGoes, WhatRuns

LEMMA BeginSound ==
    ASSUME PlaylistsInv, NEW c \in Client, Begin(c)
    PROVE  PlaylistsInv'
<1>1. PICK r \in Request : tx' = [tx EXCEPT ![c] = [Idle EXCEPT !.pc = "begun", !.request = r]]
  BY DEF Begin
<1> DEFINE run == [Idle EXCEPT !.pc = "begun", !.request = r]
<1>2. /\ run \in Run /\ run.pc = "begun" /\ run.request = r /\ run.at = 0 /\ run.writes = <<>>
  BY IdleTyped DEF Run, Idle
<1> HIDE DEF run
<1>3. Sound(run, rows)
  BY <1>2, PositionsAreNumbers DEF Sound, PlaceIsBounded, Undisturbed
<1>4. asked' \in 0 .. Requests /\ UNCHANGED <<there, rows>>
  BY PlaylistsAssumption DEF Begin, PlaylistsInv, TypeOK
<1>5. QED
  BY <1>1, <1>2, <1>3, <1>4, RunGoes DEF run

LEMMA CountSound ==
    ASSUME PlaylistsInv, NEW c \in Client, Count(c)
    PROVE  PlaylistsInv'
<1> DEFINE count == Cardinality(Present(rows))
           run == [tx[c] EXCEPT !.pc = "counted", !.at = count]
<1>1. CASE Ends(c)
  BY <1>1, EndSound
<1>2. CASE ~Ends(c)
  <2>1. /\ Goes(c, run) /\ tx[c].pc = "begun" /\ tx[c].pc # "idle"
        /\ tx[c].request.kind \in {"AddItems", "MoveEntry"}
        /\ tx[c].request.kind = "MoveEntry" => tx[c].request.to < count \/ ~(tx[c].request.to >= count)
    BY <1>2 DEF Count, Does
  <2>2. count \in 0 .. Entries /\ count \in Position /\ count \in Nat
    BY EntriesAreFew, PositionsAreNumbers
  <2>3. tx[c] \in Run /\ tx[c].request \in Request /\ (tx[c].alone => Undisturbed(tx[c], rows))
    BY <2>1, Running, Zenon
  <2>4. tx[c].request.kind = "MoveEntry" => tx[c].request.to < count
    <3>1. tx[c].request.kind = "MoveEntry" => tx[c].request.to \in 0 .. Entries
      BY <2>3 DEF Request
    <3>2. QED
      BY <2>1, <2>2, <3>1, PositionsAreNumbers
  <2>5. /\ run \in Run /\ run.pc = "counted" /\ run.request = tx[c].request /\ run.at = count
        /\ run.alone = tx[c].alone /\ run.writes = tx[c].writes
    BY <2>2, <2>3 DEF Run
  <2> HIDE DEF run
  <2>6. Sound(run, rows)
    BY <2>1, <2>2, <2>3, <2>4, <2>5 DEF Sound, PlaceIsBounded, Undisturbed
  <2>7. QED
    BY <2>1, <2>5, <2>6, RunGoes, WhatRuns DEF Goes
<1>3. QED
  BY <1>1, <1>2

LEMMA ExpandSound ==
    ASSUME PlaylistsInv, NEW c \in Client, Expand(c)
    PROVE  PlaylistsInv'
<1> DEFINE run == [tx[c] EXCEPT !.pc = "expanded", !.titles = Expanded(tx[c].request.items)]
<1>1. /\ Goes(c, run) /\ tx[c].pc \in {"begun", "counted"} /\ tx[c].pc # "idle"
      /\ \/ tx[c].request.kind = "AddItems" /\ tx[c].pc = "counted"
         \/ tx[c].request.kind = "Update"
  BY DEF Expand, Does
<1>2. /\ tx[c] \in Run /\ tx[c].request \in Request /\ PlaceIsBounded(tx[c])
      /\ tx[c].alone => Undisturbed(tx[c], rows)
  BY <1>1, Running, Zenon
<1>3. tx[c].request.items \in Lists
  BY <1>1, <1>2 DEF Request
<1>4. Expanded(tx[c].request.items) \in Seq(Title)
  BY <1>3, ExpandedTyped
<1>5. /\ run \in Run /\ run.pc = "expanded" /\ run.request = tx[c].request /\ run.at = tx[c].at
      /\ run.alone = tx[c].alone /\ run.writes = tx[c].writes
      /\ run.titles = Expanded(run.request.items)
  BY <1>2, <1>4 DEF Run
<1> HIDE DEF run
<1>6. Sound(run, rows)
  BY <1>1, <1>2, <1>5 DEF Sound, PlaceIsBounded, Undisturbed
<1>7. QED
  BY <1>1, <1>5, <1>6, RunGoes, WhatRuns DEF Goes

LEMMA FindAllSound ==
    ASSUME PlaylistsInv, NEW c \in Client, FindAll(c)
    PROVE  PlaylistsInv'
<1> DEFINE run == [tx[c] EXCEPT !.pc = "clearing", !.targets = Present(rows)]
<1>1. Goes(c, run) /\ tx[c].pc = "expanded" /\ tx[c].pc # "idle" /\ tx[c].request.kind = "Update"
  BY DEF FindAll, Does
<1>2. /\ tx[c] \in Run /\ tx[c].request \in Request /\ PlaceIsBounded(tx[c])
      /\ tx[c].alone => tx[c].titles = Expanded(tx[c].request.items)
  BY <1>1, Running, Zenon
<1>3. Present(rows) \in SUBSET Id
  BY DEF Present
<1>4. /\ run \in Run /\ run.pc = "clearing" /\ run.request = tx[c].request /\ run.at = tx[c].at
      /\ run.alone = tx[c].alone /\ run.targets = Present(rows) /\ run.titles = tx[c].titles
  BY <1>2, <1>3 DEF Run
<1> HIDE DEF run
<1>5. Sound(run, rows)
  BY <1>1, <1>2, <1>4 DEF Sound, PlaceIsBounded, Undisturbed
<1>6. QED
  BY <1>1, <1>2, <1>4, <1>5, RunGoes, WhatRuns DEF Goes

LEMMA ClearSound ==
    ASSUME PlaylistsInv, NEW c \in Client, Clear(c)
    PROVE  PlaylistsInv'
<1> DEFINE cleared == [i \in tx[c].targets \cap Present(rows) |-> None]
           run == [tx[c] EXCEPT !.pc = "cleared", !.targets = {}, !.writes = cleared]
<1>1. Goes(c, run) /\ tx[c].pc = "clearing" /\ tx[c].pc # "idle" /\ tx[c].request.kind = "Update"
  BY DEF Clear, Does
<1>2. /\ tx[c] \in Run /\ tx[c].request \in Request /\ PlaceIsBounded(tx[c])
      /\ tx[c].alone => Undisturbed(tx[c], rows) /\ tx[c].titles = Expanded(tx[c].request.items)
  BY <1>1, Running, Zenon
<1>3. cleared \in Partial(Row \cup {None})
  <2> DEFINE S == tx[c].targets \cap Present(rows)
  <2>1. S \in SUBSET Id /\ cleared \in [S -> Row \cup {None}]
    BY DEF Present
  <2>2. QED
    BY <2>1, PartialIs
<1>4. /\ run \in Run /\ run.pc = "cleared" /\ run.request = tx[c].request /\ run.at = tx[c].at
      /\ run.alone = tx[c].alone /\ run.writes = cleared /\ run.titles = tx[c].titles
  BY <1>2, <1>3 DEF Run, Partial
<1>5. tx[c].alone => tx[c].targets \cap Present(rows) = Present(rows)
  BY <1>1, <1>2 DEF Undisturbed
<1>6. tx[c].alone => cleared = [i \in Present(rows) |-> None]
  BY <1>5
<1> HIDE DEF run, cleared
<1>7. Sound(run, rows)
  BY <1>1, <1>2, <1>4, <1>6 DEF Sound, PlaceIsBounded, Undisturbed
<1>8. QED
  BY <1>1, <1>2, <1>4, <1>7, RunGoes, WhatRuns DEF Goes

LEMMA DeleteSound ==
    ASSUME PlaylistsInv, NEW c \in Client, Delete(c)
    PROVE  PlaylistsInv'
<1> DEFINE gone == [i \in Gone(tx[c], rows) |-> None]
           run == [tx[c] EXCEPT !.pc = "removed", !.writes = gone]
<1>1. Goes(c, run) /\ tx[c].pc = "begun" /\ tx[c].pc # "idle" /\ tx[c].request.kind = "RemoveEntries"
  BY DEF Delete, Does, Gone
<1>2. tx[c] \in Run /\ tx[c].request \in Request /\ PlaceIsBounded(tx[c])
  BY <1>1, Running
<1>3. gone \in Partial(Row \cup {None})
  <2>1. Gone(tx[c], rows) \in SUBSET Id /\ gone \in [Gone(tx[c], rows) -> Row \cup {None}]
    BY DEF Present, Gone
  <2>2. QED
    BY <2>1, PartialIs
<1>4. /\ run \in Run /\ run.pc = "removed" /\ run.request = tx[c].request /\ run.at = tx[c].at
      /\ run.writes = gone
  BY <1>2, <1>3 DEF Run, Partial
<1> HIDE DEF run
<1>5. Sound(run, rows)
  BY <1>1, <1>2, <1>4 DEF Sound, PlaceIsBounded, Undisturbed, Gone
<1>6. QED
  BY <1>1, <1>4, <1>5, RunGoes, WhatRuns DEF Goes

LEMMA ReadOrderSound ==
    ASSUME PlaylistsInv, NEW c \in Client, ReadOrder(c)
    PROVE  PlaylistsInv'
<1> DEFINE seen == With(rows, tx[c].writes)
           plan == [i \in Misplaced(seen) |-> Index(seen, i)]
           run == [tx[c] EXCEPT !.pc = "ordered", !.plan = plan]
<1>1. Goes(c, run) /\ tx[c].pc = "removed" /\ tx[c].pc # "idle" /\ tx[c].request.kind = "RemoveEntries"
  BY DEF ReadOrder, Does, View
<1>2. /\ tx[c] \in Run /\ tx[c].request \in Request /\ PlaceIsBounded(tx[c])
      /\ tx[c].alone => Undisturbed(tx[c], rows)
  BY <1>1, Running, Zenon
<1>3. seen \in Table
  BY <1>2, RunTyped, WithTyped, WhatRuns
<1>4. plan \in Partial(Position)
  <2> HIDE DEF seen
  <2>1. \A i \in Present(seen) : Index(seen, i) \in Position
    <3>1. Cardinality(Present(seen)) \in 0 .. Entries
      BY EntriesAreFew
    <3>2. QED
      BY <1>3, <3>1, IndexBounded, PositionsAreNumbers
  <2>2. Misplaced(seen) \in SUBSET Id /\ Misplaced(seen) \subseteq Present(seen)
    BY DEF Misplaced, Present
  <2>3. QED
    BY <2>1, <2>2 DEF Partial
<1>5. /\ run \in Run /\ run.pc = "ordered" /\ run.request = tx[c].request /\ run.at = tx[c].at
      /\ run.alone = tx[c].alone /\ run.writes = tx[c].writes /\ run.plan = plan
  BY <1>2, <1>4 DEF Run, Partial
<1> HIDE DEF run
<1>6. Sound(run, rows)
  BY <1>1, <1>2, <1>5 DEF Sound, PlaceIsBounded, Undisturbed, Gone
<1>7. QED
  BY <1>1, <1>5, <1>6, RunGoes, WhatRuns DEF Goes

LEMMA FindSound ==
    ASSUME PlaylistsInv, NEW c \in Client, Find(c)
    PROVE  PlaylistsInv'
<1> DEFINE r == tx[c].request
           run == [tx[c] EXCEPT !.pc = "found", !.at = rows[r.id].at]
<1>1. CASE Ends(c)
  BY <1>1, EndSound
<1>2. CASE ~Ends(c)
  <2>1. /\ Goes(c, run) /\ tx[c].pc = "counted" /\ tx[c].pc # "idle" /\ r.kind = "MoveEntry"
        /\ rows[r.id] # None /\ rows[r.id].at # r.to
    BY <1>2 DEF Find, Does
  <2>2. /\ tx[c] \in Run /\ r \in Request /\ rows \in Table
        /\ tx[c].alone => Undisturbed(tx[c], rows)
    BY <2>1, Running, Zenon
  <2>3. r.id \in Id
    BY <2>1, <2>2 DEF Request
  <2>4. rows[r.id].at \in Position
    BY <2>1, <2>2, <2>3 DEF Table, Row
  <2>5. /\ run \in Run /\ run.pc = "found" /\ run.request = r /\ run.at = rows[r.id].at
        /\ run.alone = tx[c].alone
    BY <2>2, <2>4 DEF Run
  <2> HIDE DEF run
  <2>6. Sound(run, rows)
    BY <2>1, <2>2, <2>5 DEF Sound, PlaceIsBounded, Undisturbed
  <2>7. QED
    BY <2>1, <2>5, <2>6, RunGoes, WhatRuns DEF Goes
<1>3. QED
  BY <1>1, <1>2

LEMMA ShiftedTyped ==
    ASSUME NEW row \in Row, NEW from \in Position, NEW to \in 0 .. Entries
    PROVE  /\ Shifted(row, from, to) \in Row /\ Shifted(row, from, to).title = row.title
           /\ Shifted(row, from, to).at =
                IF row.at >= to /\ row.at < from THEN row.at + 1
                ELSE IF row.at > from /\ row.at <= to THEN row.at - 1 ELSE row.at
<1>1. row.at \in Position /\ row.at \in Nat /\ from \in Nat /\ to \in Nat /\ Entries \in Nat
  BY PositionsAreNumbers DEF Row
<1>2. row.at < from => row.at + 1 \in Position
  BY <1>1 DEF Position
<1>3. row.at > from => row.at - 1 \in Position
  BY <1>1 DEF Position
<1>4. QED
  BY <1>1, <1>2, <1>3 DEF Shifted, Row

LEMMA FindBetweenSound ==
    ASSUME PlaylistsInv, NEW c \in Client, FindBetween(c)
    PROVE  PlaylistsInv'
<1> DEFINE between == ShiftedRows(tx[c], rows)
           run == [tx[c] EXCEPT !.pc = "shifting", !.targets = between]
<1>1. Goes(c, run) /\ tx[c].pc = "found" /\ tx[c].pc # "idle" /\ tx[c].request.kind = "MoveEntry"
  BY DEF FindBetween, Between, Does, ShiftedRows
<1>2. /\ tx[c] \in Run /\ tx[c].request \in Request
      /\ tx[c].alone => Undisturbed(tx[c], rows)
  BY <1>1, Running, Zenon
<1>3. between \in SUBSET Id
  BY DEF ShiftedRows, Present
<1>4. /\ run \in Run /\ run.pc = "shifting" /\ run.request = tx[c].request /\ run.at = tx[c].at
      /\ run.alone = tx[c].alone /\ run.targets = between
  BY <1>2, <1>3 DEF Run
<1> HIDE DEF run
<1>5. Sound(run, rows)
  BY <1>1, <1>2, <1>4 DEF Sound, PlaceIsBounded, Undisturbed, ShiftedRows
<1>6. QED
  BY <1>1, <1>4, <1>5, RunGoes, WhatRuns DEF Goes

LEMMA ShiftSound ==
    ASSUME PlaylistsInv, NEW c \in Client, Shift(c)
    PROVE  PlaylistsInv'
<1> DEFINE r == tx[c].request
           between == tx[c].targets \cap ShiftedRows(tx[c], rows)
           shifts == [i \in between |-> Shifted(rows[i], tx[c].at, r.to)]
           run == [tx[c] EXCEPT !.pc = "shifted", !.targets = {}, !.writes = shifts]
<1>1. Goes(c, run) /\ tx[c].pc = "shifting" /\ tx[c].pc # "idle" /\ r.kind = "MoveEntry"
  BY DEF Shift, Between, Does, ShiftedRows
<1>2. /\ tx[c] \in Run /\ r \in Request /\ rows \in Table
      /\ tx[c].alone => Undisturbed(tx[c], rows)
  BY <1>1, Running, Zenon
<1>3. shifts \in Partial(Row \cup {None})
  <2>1. r.to \in 0 .. Entries /\ tx[c].at \in Position
    BY <1>1, <1>2, RunTyped DEF Request
  <2>2. \A i \in Present(rows) : Shifted(rows[i], tx[c].at, r.to) \in Row
    BY <1>2, <2>1, ShiftedTyped, EntriesTyped
  <2>3. between \in SUBSET Id /\ between \subseteq Present(rows)
    BY DEF ShiftedRows, Present
  <2>4. shifts \in [between -> Row \cup {None}]
    BY <2>2, <2>3
  <2>5. QED
    BY <2>3, <2>4, PartialIs
<1>4. /\ run \in Run /\ run.pc = "shifted" /\ run.request = r /\ run.at = tx[c].at
      /\ run.alone = tx[c].alone /\ run.writes = shifts
  BY <1>2, <1>3 DEF Run, Partial
<1>5. tx[c].alone => between = ShiftedRows(tx[c], rows)
  BY <1>1, <1>2 DEF Undisturbed
<1>6. tx[c].alone => shifts = ShiftOf(tx[c], rows)
  BY <1>5 DEF ShiftOf
<1> HIDE DEF run, shifts, between
<1>7. Sound(run, rows)
  BY <1>1, <1>2, <1>4, <1>6 DEF Sound, PlaceIsBounded, Undisturbed, ShiftOf, ShiftedRows
<1>8. QED
  BY <1>1, <1>4, <1>7, RunGoes, WhatRuns DEF Goes

\* New ids are as many as they are needed for, and the rows are in order.
LEMMA NewIdsCount ==
    ASSUME NEW n \in Nat, NEW S \in SUBSET Id, NEW ids \in NewIds(n, S)
    PROVE  /\ DOMAIN ids = 1 .. n /\ ToSet(ids) \subseteq S /\ IsFiniteSet(ToSet(ids))
           /\ Cardinality(ToSet(ids)) = n /\ n <= Entries
           /\ \A a, b \in 1 .. n : ids[a] = ids[b] => a = b
           /\ \A i \in ToSet(ids) : \E a \in 1 .. n : ids[a] = i
<1>1. /\ ids \in [1 .. n -> S] /\ DOMAIN ids = 1 .. n
      /\ \A a, b \in 1 .. n : ids[a] = ids[b] => a = b
  BY DEF NewIds
<1>2. ToSet(ids) \subseteq S /\ \A i \in ToSet(ids) : \E a \in 1 .. n : ids[a] = i
  BY <1>1 DEF ToSet
<1>3. IsFiniteSet(ToSet(ids)) /\ Cardinality(ToSet(ids)) <= Entries
  BY <1>2, IdsAreNumbers, FS_Subset
<1>4. ids \in Injection(1 .. n, ToSet(ids)) /\ ids \in Surjection(1 .. n, ToSet(ids))
  BY <1>1 DEF Injection, IsInjective, Surjection, ToSet
<1>5. Cardinality(1 .. n) = n
  BY FS_Interval
<1>6. Cardinality(ToSet(ids)) = n
  BY <1>3, <1>4, <1>5, FS_Injection
<1>7. QED
  BY <1>1, <1>2, <1>3, <1>6

LEMMA AppendedIs ==
    ASSUME NEW n \in Nat, NEW S \in SUBSET Id, NEW ids \in NewIds(n, S),
           NEW titles \in Seq(Title), Len(titles) = n, NEW from \in 0 .. Entries
    PROVE  /\ DOMAIN Appended(ids, titles, from) = ToSet(ids)
           /\ \A a \in 1 .. n : ids[a] \in ToSet(ids)
                /\ Appended(ids, titles, from)[ids[a]] = [title |-> titles[a], at |-> from + a - 1]
           /\ Appended(ids, titles, from) \in [ToSet(ids) -> Row]
<1>1. DOMAIN Appended(ids, titles, from) = ToSet(ids)
  BY DEF Appended
<1>2. ASSUME NEW a \in 1 .. n
      PROVE  /\ ids[a] \in ToSet(ids)
             /\ Appended(ids, titles, from)[ids[a]] = [title |-> titles[a], at |-> from + a - 1]
  <2>1. DOMAIN ids = 1 .. n /\ \A b \in 1 .. n : ids[b] = ids[a] => b = a
    BY NewIdsCount
  <2>2. ids[a] \in ToSet(ids)
    BY <2>1 DEF ToSet
  <2>3. (CHOOSE b \in DOMAIN ids : ids[b] = ids[a]) = a
    BY <2>1
  <2>4. QED
    BY <2>2, <2>3 DEF Appended
<1>3. ASSUME NEW i \in ToSet(ids) PROVE Appended(ids, titles, from)[i] \in Row
  <2>1. PICK a \in 1 .. n : ids[a] = i
    BY NewIdsCount
  <2>2. titles[a] \in Title
    BY ElementOfSeq
  <2>3. from + a - 1 \in Position
    BY NewIdsCount, PlaylistsAssumption DEF Position
  <2>4. Appended(ids, titles, from)[i] = [title |-> titles[a], at |-> from + a - 1]
    BY <1>2, <2>1
  <2>5. QED
    BY <2>2, <2>3, <2>4 DEF Row
<1>4. QED
  BY <1>1, <1>2, <1>3 DEF Appended

\* A commit, whatever it writes.
LEMMA CommitSound ==
    ASSUME PlaylistsInv, NEW c \in Client, NEW f \in Partial(Row \cup {None}), Commits(c, f)
    PROVE  PlaylistsInv'
<1>1. /\ rows' = With(View(c), f) /\ there' \subseteq there /\ asked' = asked
      /\ tx' = [d \in Client |-> IF d = c THEN Idle ELSE Interrupted(tx[d])]
  BY DEF Commits
<1>2. View(c) \in Table
  BY WhatRuns, RunTyped, WithTyped DEF View
<1>3. rows' \in Table
  BY <1>1, <1>2, WithTyped
<1>4. {c} \in SUBSET Client /\ tx' = [d \in Client |-> IF d \in {c} THEN Idle ELSE Interrupted(tx[d])]
  BY <1>1
<1> DEFINE S == {c}
<1>5. S \in SUBSET Client /\ tx' = [d \in Client |-> IF d \in S THEN Idle ELSE Interrupted(tx[d])]
  BY <1>4
<1> HIDE DEF S
<1>6. QED
  BY <1>1, <1>3, <1>5, TableMoves

\* What appendEntries inserts, and from where.
LEMMA InsertSteps ==
    ASSUME PlaylistsInv, NEW c \in Client, Insert(c), ~Ends(c)
    PROVE  /\ tx[c].pc # "idle"
           /\ \/ tx[c].pc = "expanded" /\ tx[c].request.kind = "AddItems"
              \/ tx[c].pc = "cleared" /\ tx[c].request.kind = "Update"
           /\ tx[c].titles \in Seq(Title) /\ Len(tx[c].titles) \in Nat /\ tx[c].at \in 0 .. Entries
           /\ \E ids \in NewIds(Len(tx[c].titles), {i \in Id : Unused(i)}) :
                 /\ Commits(c, Appended(ids, tx[c].titles, tx[c].at))
                 /\ Appended(ids, tx[c].titles, tx[c].at) \in Partial(Row \cup {None})
<1>1. /\ tx[c].pc # "idle"
      /\ \/ tx[c].pc = "expanded" /\ tx[c].request.kind = "AddItems"
         \/ tx[c].pc = "cleared" /\ tx[c].request.kind = "Update"
  BY DEF Insert, Does
<1>2. tx[c] \in Run /\ PlaceIsBounded(tx[c])
  BY <1>1, Running
<1>3. tx[c].titles \in Seq(Title) /\ Len(tx[c].titles) \in Nat /\ tx[c].at \in Nat
  BY <1>2, RunTyped, LenProperties, PositionsAreNumbers
<1>4. tx[c].at \in 0 .. Entries
  BY <1>1, <1>2, <1>3, PositionsAreNumbers DEF PlaceIsBounded
<1>5. PICK ids \in NewIds(Len(tx[c].titles), {i \in Id : Unused(i)}) :
          Commits(c, Appended(ids, tx[c].titles, tx[c].at))
  BY DEF Insert
<1> DEFINE S == {i \in Id : Unused(i)}
<1>6. S \in SUBSET Id
  OBVIOUS
<1>7. ToSet(ids) \in SUBSET Id /\ Appended(ids, tx[c].titles, tx[c].at) \in [ToSet(ids) -> Row]
  <2>1. ids \in NewIds(Len(tx[c].titles), S)
    OBVIOUS
  <2> HIDE DEF S
  <2>2. QED
    BY <1>3, <1>4, <1>6, <2>1, NewIdsCount, AppendedIs
<1>8. Appended(ids, tx[c].titles, tx[c].at) \in Partial(Row \cup {None})
  BY <1>7 DEF Partial
<1>9. QED
  BY <1>1, <1>3, <1>4, <1>5, <1>8

LEMMA InsertSound ==
    ASSUME PlaylistsInv, NEW c \in Client, Insert(c)
    PROVE  PlaylistsInv'
<1>1. CASE Ends(c)
  BY <1>1, EndSound
<1>2. CASE ~Ends(c)
  BY <1>2, InsertSteps, CommitSound
<1>3. QED
  BY <1>1, <1>2

\* The rows renumber sets.
LEMMA RenumberSteps ==
    ASSUME PlaylistsInv, NEW c \in Client, Renumber(c), ~Ends(c)
    PROVE  LET f == [i \in DOMAIN tx[c].plan |-> [rows[i] EXCEPT !.at = tx[c].plan[i]]]
           IN  /\ tx[c].pc = "ordered" /\ tx[c].pc # "idle" /\ tx[c].request.kind = "RemoveEntries"
               /\ DOMAIN tx[c].plan \subseteq Present(rows)
               /\ Commits(c, f) /\ f \in Partial(Row \cup {None})
<1> DEFINE plan == tx[c].plan
           f == [i \in DOMAIN plan |-> [rows[i] EXCEPT !.at = plan[i]]]
<1>1. /\ tx[c].pc = "ordered" /\ tx[c].pc # "idle" /\ tx[c].request.kind = "RemoveEntries"
      /\ DOMAIN plan \subseteq Present(rows) /\ Commits(c, f)
  BY DEF Renumber, Does
<1>2. plan \in Partial(Position) /\ rows \in Table
  BY <1>1, Running, RunTyped
<1>3. DOMAIN plan \in SUBSET Id /\ \A i \in DOMAIN plan : plan[i] \in Position
  <2> HIDE DEF plan
  <2>1. QED
    BY <1>2 DEF Partial
<1>4. f \in [DOMAIN plan -> Row]
  <2> HIDE DEF plan
  <2> SUFFICES ASSUME NEW i \in DOMAIN plan PROVE [rows[i] EXCEPT !.at = plan[i]] \in Row
    OBVIOUS
  <2>1. rows[i] \in Row /\ plan[i] \in Position
    BY <1>1, <1>2, <1>3, EntriesTyped
  <2>2. QED
    BY <2>1 DEF Row
<1>5. f \in Partial(Row \cup {None})
  <2> HIDE DEF f, plan
  <2>1. f \in [DOMAIN plan -> Row \cup {None}]
    BY <1>4
  <2>2. QED
    BY <1>3, <2>1, PartialIs
<1>6. QED
  BY <1>1, <1>5

LEMMA RenumberSound ==
    ASSUME PlaylistsInv, NEW c \in Client, Renumber(c)
    PROVE  PlaylistsInv'
<1>1. CASE Ends(c)
  BY <1>1, EndSound
<1>2. CASE ~Ends(c)
  BY <1>2, RenumberSteps, CommitSound
<1>3. QED
  BY <1>1, <1>2

\* The entry a MoveEntry puts in its place.
LEMMA PlaceSteps ==
    ASSUME PlaylistsInv, NEW c \in Client, Place(c), ~Ends(c)
    PROVE  LET r == tx[c].request
               f == [i \in {r.id} |-> [rows[i] EXCEPT !.at = r.to]]
           IN  /\ tx[c].pc = "shifted" /\ tx[c].pc # "idle" /\ r.kind = "MoveEntry"
               /\ r.id \in Present(rows) /\ r.to \in 0 .. Entries
               /\ Commits(c, f) /\ f \in Partial(Row \cup {None})
<1> DEFINE r == tx[c].request
           f == [i \in {r.id} |-> [rows[i] EXCEPT !.at = r.to]]
<1>1. /\ tx[c].pc = "shifted" /\ tx[c].pc # "idle" /\ r.kind = "MoveEntry"
      /\ rows[r.id] # None /\ Commits(c, f)
  BY DEF Place, Does
<1>2. r \in Request /\ rows \in Table
  BY <1>1, Running
<1>3. r.id \in Id /\ r.to \in 0 .. Entries /\ r.id \in Present(rows)
  BY <1>1, <1>2 DEF Request, Present
<1>4. [rows[r.id] EXCEPT !.at = r.to] \in Row
  <2>1. rows[r.id] \in Row /\ r.to \in Position
    BY <1>2, <1>3, EntriesTyped, PositionsAreNumbers
  <2> HIDE DEF r
  <2>2. QED
    BY <2>1 DEF Row
<1>5. f \in Partial(Row \cup {None})
  <2> DEFINE S == {r.id}
  <2>1. S \in SUBSET Id /\ f \in [S -> Row \cup {None}]
    BY <1>3, <1>4
  <2> HIDE DEF S, f
  <2>2. QED
    BY <2>1, PartialIs
<1>6. QED
  BY <1>1, <1>3, <1>5

LEMMA PlaceSound ==
    ASSUME PlaylistsInv, NEW c \in Client, Place(c)
    PROVE  PlaylistsInv'
<1>1. CASE Ends(c)
  BY <1>1, EndSound
<1>2. CASE ~Ends(c)
  BY <1>2, PlaceSteps, CommitSound
<1>3. QED
  BY <1>1, <1>2

LEMMA DeleteItemSound ==
    ASSUME PlaylistsInv, NEW t \in Title, DeleteItem(t)
    PROVE  PlaylistsInv'
<1>1. rows \in Table
  BY DEF PlaylistsInv, TypeOK, Table
<1>2. rows' \in Table
  BY <1>1 DEF DeleteItem, Table
<1> DEFINE S == {}
<1>3. /\ there' \subseteq there /\ asked' = asked /\ S \in SUBSET Client
      /\ tx' = [d \in Client |-> IF d \in S THEN Idle ELSE Interrupted(tx[d])]
  BY DEF DeleteItem
<1> HIDE DEF S
<1>4. QED
  BY <1>2, <1>3, TableMoves

LEMMA InitSound == Init => PlaylistsInv
<1> SUFFICES ASSUME Init PROVE PlaylistsInv
  OBVIOUS
<1>1. PICK items \in Lists : \E ids \in NewIds(Len(Expanded(items)), Id) :
          rows = [i \in Id |-> IF i \in ToSet(ids) THEN Appended(ids, Expanded(items), 0)[i]
                              ELSE None]
  BY DEF Init
<1>2. PICK ids \in NewIds(Len(Expanded(items)), Id) :
          rows = [i \in Id |-> IF i \in ToSet(ids) THEN Appended(ids, Expanded(items), 0)[i]
                              ELSE None]
  BY <1>1
<1>3. Expanded(items) \in Seq(Title) /\ Len(Expanded(items)) \in Nat
  BY ExpandedTyped, LenProperties
<1>4. Appended(ids, Expanded(items), 0) \in [ToSet(ids) -> Row]
  BY <1>3, AppendedIs, PositionsAreNumbers
<1>5. rows \in Table
  BY <1>2, <1>4 DEF Table
<1>6. TypeOK
  BY <1>5, IdleTyped, PlaylistsAssumption DEF Init, TypeOK, Table
<1>7. \A c \in Client : tx[c].pc = "idle"
  BY DEF Init, Idle
<1>8. QED
  BY <1>6, <1>7 DEF PlaylistsInv, Sound, TitlesAreCurrent

LEMMA StepSound == PlaylistsInv /\ [Next]_vars => PlaylistsInv'
<1> SUFFICES ASSUME PlaylistsInv, [Next]_vars PROVE PlaylistsInv'
  OBVIOUS
<1>1. ASSUME NEW c \in Client,
             \/ Begin(c) \/ Count(c) \/ Expand(c) \/ FindAll(c) \/ Clear(c) \/ Insert(c)
             \/ Delete(c) \/ ReadOrder(c) \/ Renumber(c)
             \/ Find(c) \/ FindBetween(c) \/ Shift(c) \/ Place(c) \/ Abort(c)
      PROVE  PlaylistsInv'
  <2>1. CASE Abort(c)
    BY <2>1, EndSound DEF Abort
  <2>2. QED
    BY <1>1, <2>1, BeginSound, CountSound, ExpandSound, FindAllSound, ClearSound, InsertSound, DeleteSound,
       ReadOrderSound, RenumberSound, FindSound, FindBetweenSound, ShiftSound, PlaceSound
<1>2. ASSUME NEW t \in Title, DeleteItem(t) PROVE PlaylistsInv'
  BY <1>2, DeleteItemSound
<1>3. CASE UNCHANGED vars
  <2>1. UNCHANGED <<there, rows, tx, asked>>
    BY <1>3 DEF vars
  <2>2. TypeOK' /\ \A c \in Client : Sound(tx'[c], rows')
    BY <2>1 DEF PlaylistsInv, TypeOK
  <2>3. TitlesAreCurrent'
    BY <2>1 DEF PlaylistsInv, TitlesAreCurrent, Expanded
  <2>4. QED
    BY <2>2, <2>3 DEF PlaylistsInv
<1>4. QED
  BY <1>1, <1>2, <1>3 DEF Next

LEMMA AlwaysSound == Spec => []PlaylistsInv
BY InitSound, StepSound, PTL DEF Spec

(* Entries, transactions and the places they carry have their types: no    *)
(* place goes below zero or beyond twice the number of entries, however    *)
(* requests shift, renumber and insert beside each other.                  *)
THEOREM PlaylistsTypeCorrect == Spec => []TypeOK
<1>1. PlaylistsInv => TypeOK
  BY DEF PlaylistsInv
<1>2. QED
  BY <1>1, AlwaysSound, PTL

-----------------------------------------------------------------------------
(* What the list becomes.                                                  *)

\* Entries whose places are their old indexes are in order.
LEMMA Renumbered ==
    ASSUME NEW w \in Table, NEW v \in Table, Present(v) = Present(w),
           \A i \in Present(v) : v[i].at = Index(w, i)
    PROVE  Orderly(v)
<1> DEFINE m == Cardinality(Present(v))
<1>1. m \in Nat
  BY EntriesAreFew
<1>2. \A i \in Present(v) : v[i].at \in 0 .. m - 1
  BY IndexBounded
<1>3. \A i, k \in Present(v) : v[i].at = v[k].at => i = k
  BY IndexOrdersAll
<1>4. \A i \in Present(v) : Index(v, i) = v[i].at
  <2> HIDE DEF m
  <2>1. m = Cardinality(Present(v))
    BY DEF m
  <2>2. QED
    BY <1>1, <1>2, <1>3, <2>1, PlacesAreIndexes
<1>5. QED
  BY <1>4 DEF Orderly

\* The rows of v are those of w, and the ones appended from a place on.
Adds(v, w, ids, titles, from) ==
    \A i \in Id : v[i] = IF i \in ToSet(ids) THEN Appended(ids, titles, from)[i] ELSE w[i]

\* Rows put behind those of an orderly table are listed behind them.
LEMMA AddedBehind ==
    ASSUME NEW w \in Table, Orderly(w), NEW v \in Table, NEW titles \in Seq(Title),
           NEW ids \in NewIds(Len(titles), Id \ Present(w)),
           Adds(v, w, ids, titles, Cardinality(Present(w)))
    PROVE  LET m == Cardinality(Present(w))
               n == Len(titles)
           IN  /\ Orderly(v) /\ Cardinality(Present(v)) = m + n
               /\ \A j \in 1 .. m : ListOf(v)[j] = ListOf(w)[j]
               /\ \A j \in 1 .. n : TitlesOf(v)[m + j] = titles[j]
<1> DEFINE m == Cardinality(Present(w))
           n == Len(titles)
<1>0. /\ m \in Nat /\ n \in Nat /\ Cardinality(Present(w)) = m /\ Len(titles) = n
      /\ ids \in NewIds(n, Id \ Present(w)) /\ Adds(v, w, ids, titles, m)
  <2>1. Cardinality(Present(w)) \in Nat
    BY EntriesAreFew, PositionsAreNumbers
  <2>2. Len(titles) \in Nat
    BY LenProperties
  <2>3. QED
    BY <2>1, <2>2
<1> USE <1>0
<1> HIDE DEF m, n
<1>1. m \in 0 .. Entries /\ Id \ Present(w) \in SUBSET Id
  BY EntriesAreFew
<1>2. /\ ToSet(ids) \subseteq Id \ Present(w) /\ IsFiniteSet(ToSet(ids))
      /\ Cardinality(ToSet(ids)) = n
      /\ \A a, b \in 1 .. n : ids[a] = ids[b] => a = b
      /\ \A i \in ToSet(ids) : \E a \in 1 .. n : ids[a] = i
  BY <1>1, NewIdsCount
<1>3. \A a \in 1 .. n : /\ ids[a] \in ToSet(ids)
                        /\ v[ids[a]].title = titles[a] /\ v[ids[a]].at = m + a - 1
  <2> SUFFICES ASSUME NEW a \in 1 .. n
               PROVE  /\ ids[a] \in ToSet(ids)
                      /\ v[ids[a]].title = titles[a] /\ v[ids[a]].at = m + a - 1
    OBVIOUS
  <2>1. /\ ids[a] \in ToSet(ids)
        /\ Appended(ids, titles, m)[ids[a]] = [title |-> titles[a], at |-> m + a - 1]
    BY <1>1, AppendedIs
  <2>2. ids[a] \in Id
    BY <1>2, <2>1
  <2>3. QED
    BY <2>1, <2>2 DEF Adds
<1>4. \A i \in Present(w) : i \in Id /\ i \notin ToSet(ids) /\ v[i] = w[i]
  BY <1>2 DEF Present, Adds
<1>5. Present(v) = Present(w) \cup ToSet(ids)
  <2>1. ASSUME NEW i \in ToSet(ids) PROVE v[i] # None
    <3>1. Appended(ids, titles, m)[i] \in Row
      BY <1>1, <2>1, AppendedIs
    <3>2. QED
      BY <1>2, <2>1, <3>1, PlaylistsAssumption DEF Row, Adds
  <2>2. \A i \in Present(v) : i \in Id /\ (i \notin ToSet(ids) => v[i] = w[i])
    BY DEF Present, Adds
  <2>3. \A i \in ToSet(ids) : i \in Id
    BY <1>2
  <2>4. QED
    BY <1>4, <2>1, <2>2, <2>3 DEF Present
<1>6. Cardinality(Present(v)) = m + n
  <2>1. Present(w) \cap ToSet(ids) = {}
    BY <1>2
  <2>2. Cardinality({}) = 0 /\ IsFiniteSet(Present(w))
    BY FS_EmptySet, EntriesAreFew
  <2>3. Cardinality(Present(w) \cup ToSet(ids))
            = Cardinality(Present(w)) + Cardinality(ToSet(ids)) - Cardinality(Present(w) \cap ToSet(ids))
    BY <1>2, <2>2, FS_Union
  <2>4. Cardinality(Present(w) \cap ToSet(ids)) = 0
    BY <2>1, <2>2
  <2>5. QED
    BY <1>2, <1>5, <2>3, <2>4
<1>7. \A i \in Present(w) : v[i].at = Index(w, i) /\ v[i].at \in 0 .. m - 1
  BY <1>4, IndexBounded DEF Orderly
<1>8. \A i \in Present(v) : v[i].at \in 0 .. m + n - 1
  <2>1. ASSUME NEW a \in 1 .. n PROVE v[ids[a]].at \in m .. m + n - 1
    BY <1>3
  <2>2. QED
    BY <1>1, <1>2, <1>5, <1>7, <2>1
<1>9. ASSUME NEW i \in Present(v), NEW k \in Present(v), v[i].at = v[k].at PROVE i = k
  <2>1. CASE i \in Present(w) /\ k \in Present(w)
    BY <1>7, <1>9, <2>1, IndexOrdersAll
  <2>2. ASSUME NEW a \in 1 .. n, NEW l \in Present(w) PROVE v[ids[a]].at # v[l].at
    BY <1>1, <1>3, <1>7
  <2>3. CASE i \in ToSet(ids) /\ k \in ToSet(ids)
    <3>1. PICK a \in 1 .. n : ids[a] = i
      BY <1>2, <2>3
    <3>2. PICK b \in 1 .. n : ids[b] = k
      BY <1>2, <2>3
    <3>3. m + a - 1 = m + b - 1
      BY <1>3, <1>9, <3>1, <3>2
    <3>4. QED
      BY <1>1, <3>1, <3>2, <3>3
  <2>4. QED
    BY <1>2, <1>5, <1>9, <2>1, <2>2, <2>3
<1>10. \A i \in Present(v) : Index(v, i) = v[i].at
  <2>1. m + n \in Nat
    BY <1>1
  <2>2. QED
    BY <1>6, <1>8, <1>9, <2>1, PlacesAreIndexes
<1>11. ASSUME NEW j \in 1 .. m PROVE ListOf(v)[j] = ListOf(w)[j]
  <2> DEFINE i == ListOf(w)[j]
  <2>1. i \in Present(w) /\ Index(w, i) = j - 1
    BY <1>1, ListOfEntries
  <2>2. i \in Present(v) /\ Index(v, i) = j - 1
    BY <1>5, <1>7, <1>10, <2>1
  <2>3. ListOf(v)[(j - 1) + 1] = i
    BY <2>2, ListOfEntries
  <2>4. QED
    BY <1>1, <2>3
<1>12. ASSUME NEW j \in 1 .. n PROVE TitlesOf(v)[m + j] = titles[j]
  <2>1. ids[j] \in Present(v) /\ Index(v, ids[j]) = m + j - 1
    BY <1>3, <1>5, <1>10
  <2>2. ListOf(v)[(m + j - 1) + 1] = ids[j]
    BY <2>1, ListOfEntries
  <2>3. (m + j - 1) + 1 = m + j /\ m + j \in 1 .. m + n
    BY <1>1
  <2>4. m + j \in DOMAIN ListOf(v) /\ ListOf(v)[m + j] = ids[j]
    BY <1>6, <2>2, <2>3, ListOfEntries
  <2>5. QED
    BY <1>3, <2>4 DEF TitlesOf
<1>13. QED
  BY <1>6, <1>10, <1>11, <1>12 DEF Orderly, m, n

\* The titles of a list are as many as its entries.
LEMMA TitlesOfTyped ==
    ASSUME NEW w \in Table
    PROVE  /\ TitlesOf(w) \in Seq(Title) /\ Len(TitlesOf(w)) = Cardinality(Present(w))
           /\ DOMAIN TitlesOf(w) = 1 .. Cardinality(Present(w))
<1> DEFINE m == Cardinality(Present(w))
<1>1. m \in Nat /\ DOMAIN ListOf(w) = 1 .. m
  BY ListOfEntries, PlaylistsAssumption
<1>2. ASSUME NEW n \in 1 .. m PROVE w[ListOf(w)[n]].title \in Title
  <2>1. ListOf(w)[n] \in Present(w)
    BY ListOfEntries
  <2>2. QED
    BY <2>1, EntriesTyped
<1>3. TitlesOf(w) \in [1 .. m -> Title]
  BY <1>1, <1>2 DEF TitlesOf
<1>4. QED
  <2> HIDE DEF m
  <2>1. TitlesOf(w) \in Seq(Title) /\ Len(TitlesOf(w)) = m /\ DOMAIN TitlesOf(w) = 1 .. m
    BY <1>1, <1>3, IsASeq, LenProperties
  <2>2. QED
    BY <2>1 DEF m

\* An addition to an orderly list ...
LEMMA AddsToTheEnd ==
    ASSUME NEW w \in Table, Orderly(w), NEW v \in Table, NEW titles \in Seq(Title),
           NEW ids \in NewIds(Len(titles), Id \ Present(w)),
           Adds(v, w, ids, titles, Cardinality(Present(w)))
    PROVE  /\ Orderly(v) /\ IsPrefix(ListOf(w), ListOf(v))
           /\ SubSeq(TitlesOf(v), Len(ListOf(w)) + 1, Len(ListOf(v))) = titles
<1> DEFINE m == Cardinality(Present(w))
           n == Len(titles)
<1>1. /\ Orderly(v) /\ Cardinality(Present(v)) = m + n
      /\ \A j \in 1 .. m : ListOf(v)[j] = ListOf(w)[j]
      /\ \A j \in 1 .. n : TitlesOf(v)[m + j] = titles[j]
  BY AddedBehind
<1>2. m \in Nat /\ n \in Nat /\ Len(titles) = n /\ Cardinality(Present(w)) = m
  <2>1. Cardinality(Present(w)) \in Nat
    BY EntriesAreFew, PositionsAreNumbers
  <2>2. Len(titles) \in Nat
    BY LenProperties
  <2>3. QED
    BY <2>1, <2>2
<1> HIDE DEF m, n
<1>3. /\ ListOf(w) \in Seq(Id) /\ Len(ListOf(w)) = m
      /\ ListOf(v) \in Seq(Id) /\ Len(ListOf(v)) = m + n
  BY <1>1, <1>2, ListOfEntries
<1>4. IsPrefix(ListOf(w), ListOf(v))
  <2>1. SubSeq(ListOf(w), 1, m) = [j \in 1 .. m |-> ListOf(w)[j]]
    BY <1>2, <1>3
  <2>2. SubSeq(ListOf(v), 1, m) = [j \in 1 .. m |-> ListOf(v)[j]]
    BY <1>2, <1>3
  <2>3. QED
    BY <1>1, <1>2, <1>3, <2>1, <2>2 DEF IsPrefix
<1>5. SubSeq(TitlesOf(v), m + 1, m + n) = titles
  <2>1. TitlesOf(v) \in Seq(Title) /\ Len(TitlesOf(v)) = m + n
    BY <1>1, TitlesOfTyped
  <2> DEFINE s == SubSeq(TitlesOf(v), m + 1, m + n)
  <2>2. s \in Seq(Title) /\ Len(s) = n /\ \A j \in 1 .. n : s[j] = TitlesOf(v)[m + j]
    BY <1>2, <2>1, SubSeqProperties
  <2> HIDE DEF s
  <2>3. s = titles
    BY <1>1, <1>2, <2>2, SeqEqual
  <2>4. QED
    BY <2>3 DEF s
<1>6. QED
  BY <1>1, <1>3, <1>4, <1>5

\* ... and to an empty one.
LEMMA FillsTheList ==
    ASSUME NEW v \in Table, NEW titles \in Seq(Title), NEW ids \in NewIds(Len(titles), Id),
           Adds(v, [i \in Id |-> None], ids, titles, 0)
    PROVE  Orderly(v) /\ TitlesOf(v) = titles
<1> DEFINE w == [i \in Id |-> None]
<1>1. w \in Table /\ Present(w) = {} /\ Cardinality(Present(w)) = 0 /\ Orderly(w)
  BY FS_EmptySet DEF Table, Present, Orderly
<1>2. ids \in NewIds(Len(titles), Id \ Present(w)) /\ Adds(v, w, ids, titles, Cardinality(Present(w)))
  BY <1>1
<1> HIDE DEF w
<1>3. /\ Orderly(v) /\ Cardinality(Present(v)) = 0 + Len(titles)
      /\ \A j \in 1 .. Len(titles) : TitlesOf(v)[0 + j] = titles[j]
  BY <1>1, <1>2, AddedBehind
<1>4. Len(titles) \in Nat
  BY LenProperties
<1>5. TitlesOf(v) \in Seq(Title) /\ Len(TitlesOf(v)) = Len(titles)
  BY <1>3, <1>4, TitlesOfTyped
<1>6. TitlesOf(v) = titles
  BY <1>3, <1>4, <1>5, SeqEqual
<1>7. QED
  BY <1>3, <1>6

\* Entries that keep their order are listed in it.
LEMMA OrderKept ==
    ASSUME NEW w \in Table, NEW v \in Table,
           NEW S, S \subseteq Present(w), S \subseteq Present(v),
           \A i, k \in S : i \in Before(w, k) <=> i \in Before(v, k)
    PROVE  SameOrder(S, ListOf(w), ListOf(v))
BY ListedAndOrdered DEF SameOrder

-----------------------------------------------------------------------------
(* What a request left alone does.                                         *)

\* A request changes the table as it completes by its own commit only.
LEMMA WhatCompletes ==
    ASSUME PlaylistsInv, [Next]_vars, NEW c \in Client, Completes(c)
    PROVE  (Insert(c) \/ Renumber(c) \/ Place(c)) /\ ~Ends(c)
<1>1. tx[c].pc # "idle" /\ tx'[c].pc = "idle" /\ rows' # rows /\ tx[c] \in Run
  BY Running DEF Completes
<1>2. Interrupted(tx[c]).pc # "idle"
  BY <1>1, InterruptedTyped
<1>3. \A d \in Client : ~Ends(d)
  BY <1>1 DEF Ends, Goes
<1>4. ASSUME NEW d \in Client, NEW f, Commits(d, f) PROVE d = c
  BY <1>1, <1>2, <1>4 DEF Commits
<1>5. ASSUME NEW d \in Client,
             \/ Begin(d) \/ Count(d) \/ Expand(d) \/ FindAll(d) \/ Clear(d) \/ Insert(d)
             \/ Delete(d) \/ ReadOrder(d) \/ Renumber(d)
             \/ Find(d) \/ FindBetween(d) \/ Shift(d) \/ Place(d) \/ Abort(d)
      PROVE  (Insert(c) \/ Renumber(c) \/ Place(c)) /\ ~Ends(c)
  <2>1. CASE \/ Begin(d) \/ Count(d) \/ Expand(d) \/ FindAll(d) \/ Clear(d) \/ Delete(d)
             \/ ReadOrder(d) \/ Find(d) \/ FindBetween(d) \/ Shift(d) \/ Abort(d)
    BY <1>1, <2>1 DEF Begin, Count, Expand, FindAll, Clear, Delete, ReadOrder, Find, FindBetween,
                      Shift, Abort, Ends, Goes
  <2>2. CASE Insert(d)
    BY <1>3, <1>4, <2>2, InsertSteps
  <2>3. CASE Renumber(d)
    BY <1>3, <1>4, <2>3, RenumberSteps
  <2>4. CASE Place(d)
    BY <1>3, <1>4, <2>4, PlaceSteps
  <2>5. QED
    BY <1>5, <2>1, <2>2, <2>3, <2>4
<1>6. ASSUME NEW t \in Title, DeleteItem(t) PROVE FALSE
  BY <1>1, <1>2, <1>6 DEF DeleteItem
<1>7. CASE UNCHANGED vars
  BY <1>1, <1>7 DEF vars
<1>8. QED
  BY <1>5, <1>6, <1>7 DEF Next

LEMMA NextTable ==
    ASSUME PlaylistsInv, [Next]_vars
    PROVE  rows' \in Table
BY StepSound DEF PlaylistsInv, TypeOK, Table

\* AddItems and Update: the new entries are all the list's, or its last.
LEMMA InsertActs ==
    ASSUME PlaylistsInv, rows' \in Table, NEW c \in Client, Insert(c), ~Ends(c), tx[c].alone,
           tx[c].request.kind = "AddItems" => Orderly(rows)
    PROVE  Asked(tx[c].request, rows, rows') /\ Orderly(rows')
<1> DEFINE titles == tx[c].titles
           from == tx[c].at
           r == tx[c].request
           S == {i \in Id : Unused(i)}
<1>1. /\ tx[c].pc # "idle"
      /\ \/ tx[c].pc = "expanded" /\ r.kind = "AddItems"
         \/ tx[c].pc = "cleared" /\ r.kind = "Update"
      /\ titles \in Seq(Title) /\ Len(titles) \in Nat /\ from \in 0 .. Entries
  BY InsertSteps
<1>2. /\ tx[c] \in Run /\ rows \in Table /\ r \in Request /\ PlaceIsBounded(tx[c])
      /\ Undisturbed(tx[c], rows) /\ titles = Expanded(r.items)
  BY <1>1, Running, Zenon
<1>3. PICK ids \in NewIds(Len(titles), S) : Commits(c, Appended(ids, titles, from))
  BY InsertSteps
<1>4. rows' = With(View(c), Appended(ids, titles, from))
  BY <1>3 DEF Commits
<1>5. S \in SUBSET Id /\ S \subseteq Id \ Present(rows)
  BY DEF Unused, Present
<1>6. ids \in NewIds(Len(titles), Id \ Present(rows)) /\ ids \in NewIds(Len(titles), Id)
  <2> HIDE DEF S, titles
  <2>1. ids \in NewIds(Len(titles), S)
    OBVIOUS
  <2>2. QED
    BY <1>5, <2>1 DEF NewIds
<1>7. DOMAIN Appended(ids, titles, from) = ToSet(ids)
  BY DEF Appended
<1> HIDE DEF titles, from, S
<1>8. Adds(rows', View(c), ids, titles, from)
  BY <1>4, <1>7 DEF With, Adds
<1>9. CASE r.kind = "AddItems"
  <2>1. tx[c].writes = <<>> /\ from = Cardinality(Present(rows))
    BY <1>1, <1>2, <1>9 DEF Undisturbed, from
  <2>2. View(c) = rows
    <3>1. DOMAIN tx[c].writes = {}
      BY <2>1
    <3>2. QED
      BY <1>2, <3>1 DEF View, With, Table
  <2>3. Adds(rows', rows, ids, titles, Cardinality(Present(rows)))
    BY <1>8, <2>1, <2>2
  <2>4. Orderly(rows)
    BY <1>9
  <2>5. /\ Orderly(rows') /\ IsPrefix(ListOf(rows), ListOf(rows'))
        /\ SubSeq(TitlesOf(rows'), Len(ListOf(rows)) + 1, Len(ListOf(rows'))) = titles
    BY <1>1, <1>2, <1>6, <2>3, <2>4, AddsToTheEnd
  <2>6. QED
    BY <1>2, <1>9, <2>5 DEF Asked
<1>10. CASE r.kind = "Update"
  <2>1. tx[c].writes = [i \in Present(rows) |-> None] /\ from = 0
    BY <1>1, <1>2, <1>10 DEF Undisturbed, PlaceIsBounded, from
  <2>2. View(c) = [i \in Id |-> None]
    <3>1. \A i \in Id : i \notin Present(rows) => rows[i] = None
      BY DEF Present
    <3>2. DOMAIN tx[c].writes = Present(rows) /\ \A i \in Present(rows) : tx[c].writes[i] = None
      BY <2>1
    <3>3. QED
      BY <3>1, <3>2 DEF View, With
  <2>3. Adds(rows', [i \in Id |-> None], ids, titles, 0)
    BY <1>8, <2>1, <2>2
  <2>4. Orderly(rows') /\ TitlesOf(rows') = titles
    BY <1>1, <1>6, <2>3, FillsTheList
  <2>5. QED
    BY <1>2, <1>10, <2>4 DEF Asked
<1>11. QED
  BY <1>1, <1>9, <1>10

\* RemoveEntries: the rest are listed as they were, each at its index.
LEMMA RenumberActs ==
    ASSUME PlaylistsInv, rows' \in Table, NEW c \in Client, Renumber(c), ~Ends(c), tx[c].alone
    PROVE  Asked(tx[c].request, rows, rows') /\ Orderly(rows')
<1> DEFINE r == tx[c].request
           w == View(c)
           plan == tx[c].plan
           f == [i \in DOMAIN plan |-> [rows[i] EXCEPT !.at = plan[i]]]
<1>1. /\ tx[c].pc = "ordered" /\ tx[c].pc # "idle" /\ r.kind = "RemoveEntries"
      /\ DOMAIN plan \subseteq Present(rows) /\ Commits(c, f)
  BY RenumberSteps
<1>2. /\ tx[c] \in Run /\ rows \in Table /\ r \in Request /\ Undisturbed(tx[c], rows)
  BY <1>1, Running, Zenon
<1>3. /\ tx[c].writes = [i \in Gone(tx[c], rows) |-> None]
      /\ plan = [i \in Misplaced(w) |-> Index(w, i)]
  BY <1>1, <1>2 DEF Undisturbed, View
<1>4. w \in Table
  BY <1>2, RunTyped, WithTyped DEF View
<1>5. Present(w) = Present(rows) \ r.ids /\ \A i \in Present(w) : w[i] = rows[i]
  <2>1. DOMAIN tx[c].writes = Gone(tx[c], rows)
    BY <1>3
  <2>2. \A i \in Id : w[i] = IF i \in Gone(tx[c], rows) THEN None ELSE rows[i]
    BY <1>3, <2>1 DEF View, With
  <2> HIDE DEF w
  <2>3. QED
    BY <2>2 DEF Gone, Present
<1>6. DOMAIN plan = Misplaced(w) /\ \A i \in Misplaced(w) : plan[i] = Index(w, i)
  <2> HIDE DEF w
  <2>1. QED
    BY <1>3
<1>7. \A i \in Id : rows'[i] = IF i \in Misplaced(w) THEN [rows[i] EXCEPT !.at = plan[i]] ELSE w[i]
  <2>1. rows' = With(w, f) /\ DOMAIN f = Misplaced(w)
    BY <1>1, <1>6 DEF Commits
  <2> HIDE DEF w
  <2>2. QED
    BY <1>6, <2>1 DEF With
<1> HIDE DEF w, plan, f
<1>8. ASSUME NEW i \in Present(w) PROVE rows'[i].at = Index(w, i) /\ rows'[i] # None
  <2>1. i \in Id /\ w[i] = rows[i] /\ rows[i] \in Row
    BY <1>4, <1>5, EntriesTyped
  <2>2. CASE i \in Misplaced(w)
    <3>1. rows'[i] = [rows[i] EXCEPT !.at = plan[i]] /\ plan[i] = Index(w, i)
      BY <1>6, <1>7, <2>1, <2>2
    <3>2. rows'[i].at = Index(w, i)
      BY <2>1, <3>1 DEF Row
    <3>3. rows'[i] \in Row
      <4>1. Index(w, i) \in Position
        <5>1. Cardinality(Present(w)) \in 0 .. Entries
          BY EntriesAreFew
        <5>2. QED
          BY <1>4, <5>1, IndexBounded, PositionsAreNumbers
      <4>2. QED
        BY <2>1, <3>1, <4>1 DEF Row
    <3>4. QED
      BY <3>2, <3>3, PlaylistsAssumption DEF Row
  <2>3. CASE i \notin Misplaced(w)
    BY <1>7, <2>1, <2>3 DEF Misplaced, Present
  <2>4. QED
    BY <2>2, <2>3
<1>9. Present(rows') = Present(w)
  <2>1. \A i \in Id : i \notin Present(w) => i \notin Misplaced(w) /\ w[i] = None
    BY DEF Misplaced, Present
  <2>2. \A i \in Present(rows') : i \in Id /\ rows'[i] # None
    BY DEF Present
  <2>3. \A i \in Present(w) : i \in Present(rows')
    <3>1. \A i \in Present(w) : i \in Id
      BY DEF Present
    <3>2. QED
      BY <1>8, <3>1 DEF Present
  <2>4. QED
    BY <1>7, <2>1, <2>2, <2>3
<1>10. Orderly(rows')
  BY <1>4, <1>8, <1>9, Renumbered
<1>11. ASSUME NEW i \in Present(w), NEW k \in Present(w)
       PROVE  i \in Before(rows, k) <=> i \in Before(rows', k)
  <2>1. i \in Before(rows, k) <=> i \in Before(w, k)
    BY <1>5 DEF Before
  <2>2. i \in Before(w, k) <=> Index(w, i) < Index(w, k)
    BY <1>4, IndexOrdersAll
  <2>3. i \in Before(rows', k) <=> Index(rows', i) < Index(rows', k)
    BY <1>9, IndexOrdersAll
  <2>4. Index(rows', i) = Index(w, i) /\ Index(rows', k) = Index(w, k)
    BY <1>8, <1>9, <1>10 DEF Orderly
  <2>5. QED
    BY <2>1, <2>2, <2>3, <2>4
<1>12. /\ ToSet(ListOf(rows')) = ToSet(ListOf(rows)) \ r.ids
       /\ SameOrder(ToSet(ListOf(rows')), ListOf(rows), ListOf(rows'))
  <2>1. ToSet(ListOf(rows')) = Present(w) /\ ToSet(ListOf(rows)) = Present(rows)
    BY <1>2, <1>9, ListedAndOrdered
  <2>2. SameOrder(Present(w), ListOf(rows), ListOf(rows'))
    <3> DEFINE v == rows'
    <3>1. v \in Table /\ Present(w) \subseteq Present(v) /\ Present(w) \subseteq Present(rows)
      BY <1>5, <1>9
    <3>2. \A i, k \in Present(w) : i \in Before(rows, k) <=> i \in Before(v, k)
      BY <1>11
    <3> HIDE DEF v
    <3>3. SameOrder(Present(w), ListOf(rows), ListOf(v))
      BY <1>2, <3>1, <3>2, OrderKept
    <3>4. QED
      BY <3>3 DEF v
  <2>3. QED
    BY <1>5, <2>1, <2>2
<1>13. QED
  BY <1>1, <1>10, <1>12 DEF Asked

\* Where a MoveEntry leaves an entry.
Moved(at, from, to) ==
    IF at = from THEN to
    ELSE IF at >= to /\ at < from THEN at + 1
    ELSE IF at > from /\ at <= to THEN at - 1
    ELSE at

LEMMA MovedApart ==
    ASSUME NEW m \in Nat, NEW from \in 0 .. m - 1, NEW to \in 0 .. m - 1,
           NEW a \in 0 .. m - 1, NEW b \in 0 .. m - 1
    PROVE  /\ Moved(a, from, to) \in 0 .. m - 1
           /\ Moved(a, from, to) = Moved(b, from, to) => a = b
           /\ a # from /\ b # from => (Moved(a, from, to) < Moved(b, from, to) <=> a < b)
<1>1. /\ a \in Nat /\ b \in Nat /\ from \in Nat /\ to \in Nat
      /\ a < m /\ b < m /\ from < m /\ to < m
  OBVIOUS
<1>2. Moved(a, from, to) \in 0 .. m - 1
  BY <1>1 DEF Moved
<1>3. Moved(a, from, to) = Moved(b, from, to) => a = b
  BY <1>1 DEF Moved
<1>4. a # from /\ b # from => (Moved(a, from, to) < Moved(b, from, to) <=> a < b)
  BY <1>1 DEF Moved
<1>5. QED
  BY <1>2, <1>3, <1>4

\* MoveEntry: the entry is where it was asked to be, the others as they were.
LEMMA PlaceActs ==
    ASSUME PlaylistsInv, rows' \in Table, NEW c \in Client, Place(c), ~Ends(c), tx[c].alone,
           Orderly(rows)
    PROVE  Asked(tx[c].request, rows, rows') /\ Orderly(rows')
<1> DEFINE r == tx[c].request
           from == tx[c].at
           m == Cardinality(Present(rows))
           f == [i \in {r.id} |-> [rows[i] EXCEPT !.at = r.to]]
<1>1. /\ tx[c].pc = "shifted" /\ tx[c].pc # "idle" /\ r.kind = "MoveEntry"
      /\ r.id \in Present(rows) /\ r.to \in 0 .. Entries /\ Commits(c, f)
  BY PlaceSteps
<1>2. /\ tx[c] \in Run /\ rows \in Table /\ r \in Request /\ Undisturbed(tx[c], rows)
  BY <1>1, Running, Zenon
<1>3. /\ r.to < m /\ from = rows[r.id].at /\ tx[c].writes = ShiftOf(tx[c], rows)
      /\ m \in Nat /\ r.to \in 0 .. m - 1 /\ from \in Position
  <2>1. m \in Nat
    BY EntriesAreFew, PositionsAreNumbers
  <2>2. r.to < m /\ from = rows[r.id].at /\ tx[c].writes = ShiftOf(tx[c], rows)
    BY <1>1, <1>2 DEF Undisturbed
  <2>3. from \in Position
    BY <1>2, RunTyped
  <2> HIDE DEF m, r, from
  <2>4. QED
    BY <1>1, <2>1, <2>2, <2>3, PositionsAreNumbers
<1>4. \A i \in Id : rows'[i] = IF i = r.id THEN [rows[i] EXCEPT !.at = r.to] ELSE View(c)[i]
  BY <1>1 DEF Commits, With
<1>5. ASSUME NEW i \in Present(rows), i # r.id PROVE rows'[i] = Shifted(rows[i], from, r.to)
  <2>1. i \in Id
    BY DEF Present
  <2>2. View(c)[i] = Shifted(rows[i], from, r.to)
    BY <1>3, <2>1 DEF View, With, ShiftOf, ShiftedRows
  <2>3. QED
    BY <1>4, <1>5, <2>1, <2>2
<1>6. \A i \in Id : i \notin Present(rows) => rows'[i] = None
  <2> SUFFICES ASSUME NEW i \in Id, i \notin Present(rows) PROVE rows'[i] = None
    OBVIOUS
  <2>1. i # r.id /\ rows[i] = None
    BY <1>1 DEF Present
  <2>2. i \notin DOMAIN tx[c].writes
    BY <1>3 DEF ShiftOf, ShiftedRows
  <2>3. View(c)[i] = None
    BY <2>1, <2>2 DEF View, With
  <2>4. QED
    BY <1>4, <2>1, <2>3
<1> HIDE DEF r, from, m, f
<1>7. /\ \A i \in Present(rows) : rows[i].at = Index(rows, i) /\ rows[i].at \in 0 .. m - 1
      /\ from \in 0 .. m - 1
      /\ \A i, k \in Present(rows) : rows[i].at = rows[k].at => i = k
  BY <1>1, <1>2, <1>3, IndexBounded, IndexOrdersAll DEF Orderly, m
<1>8. ASSUME NEW i \in Present(rows)
      PROVE  /\ rows'[i] \in Row /\ rows'[i].at = Moved(rows[i].at, from, r.to)
             /\ rows[i].at = from <=> i = r.id
  <2>1. i \in Id /\ rows[i] \in Row /\ rows[i].at \in Nat
    BY <1>2, EntriesTyped
  <2>2. rows[i].at = from <=> i = r.id
    BY <1>1, <1>3, <1>7
  <2>3. CASE i = r.id
    <3>1. rows'[i] = [rows[i] EXCEPT !.at = r.to] /\ r.to \in Position
      BY <1>1, <1>4, <2>1, <2>3, PositionsAreNumbers
    <3>2. rows'[i] \in Row /\ rows'[i].at = r.to
      BY <2>1, <3>1 DEF Row
    <3>3. QED
      BY <2>2, <2>3, <3>2 DEF Moved
  <2>4. CASE i # r.id
    <3>1. rows'[i] = Shifted(rows[i], from, r.to)
      BY <1>5, <2>4
    <3>2. /\ Shifted(rows[i], from, r.to) \in Row
          /\ Shifted(rows[i], from, r.to).at =
                IF rows[i].at >= r.to /\ rows[i].at < from THEN rows[i].at + 1
                ELSE IF rows[i].at > from /\ rows[i].at <= r.to THEN rows[i].at - 1 ELSE rows[i].at
      BY <1>1, <1>3, <2>1, ShiftedTyped
    <3>3. QED
      BY <2>2, <2>4, <3>1, <3>2 DEF Moved
  <2>5. QED
    BY <2>3, <2>4
<1>9. Present(rows') = Present(rows)
  <2>1. \A i \in Present(rows) : i \in Id /\ rows'[i] # None
    <3>1. \A i \in Present(rows) : i \in Id
      BY DEF Present
    <3>2. QED
      BY <1>8, <3>1, PlaylistsAssumption DEF Row
  <2>2. QED
    BY <1>6, <2>1 DEF Present
<1>10. /\ \A i \in Present(rows) : Index(rows', i) = rows'[i].at
       /\ Orderly(rows')
  <2> DEFINE v == rows'
  <2>1. v \in Table /\ Present(v) = Present(rows) /\ m = Cardinality(Present(v)) /\ m \in Nat
    BY <1>3, <1>9 DEF m
  <2>2. \A i \in Present(v) : v[i].at \in 0 .. m - 1
    BY <1>3, <1>7, <1>8, <2>1, MovedApart
  <2>3. ASSUME NEW i \in Present(v), NEW k \in Present(v), v[i].at = v[k].at PROVE i = k
    <3>1. i \in Present(rows) /\ k \in Present(rows)
      BY <2>1
    <3>2. Moved(rows[i].at, from, r.to) = Moved(rows[k].at, from, r.to)
      BY <1>8, <2>3, <3>1
    <3>3. rows[i].at = rows[k].at
      BY <1>3, <1>7, <3>1, <3>2, MovedApart
    <3>4. QED
      BY <1>7, <3>1, <3>3
  <2> HIDE DEF v
  <2>4. \A i \in Present(v) : Index(v, i) = v[i].at
    BY <2>1, <2>2, <2>3, PlacesAreIndexes
  <2>5. QED
    BY <2>1, <2>4 DEF v, Orderly
<1>11. ListOf(rows')[r.to + 1] = r.id
  <2>1. rows'[r.id].at = r.to
    BY <1>1, <1>8 DEF Moved
  <2>2. r.id \in Present(rows') /\ Index(rows', r.id) = r.to
    BY <1>1, <1>9, <1>10, <2>1
  <2>3. QED
    BY <2>2, ListOfEntries
<1>12. ASSUME NEW i \in Present(rows) \ {r.id}, NEW k \in Present(rows) \ {r.id}
       PROVE  i \in Before(rows, k) <=> i \in Before(rows', k)
  <2>1. i \in Before(rows, k) <=> rows[i].at < rows[k].at
    BY <1>2, <1>7, IndexOrdersAll
  <2>2. i \in Before(rows', k) <=> rows'[i].at < rows'[k].at
    BY <1>9, <1>10, IndexOrdersAll
  <2>3. rows[i].at # from /\ rows[k].at # from
    BY <1>8
  <2>4. Moved(rows[i].at, from, r.to) < Moved(rows[k].at, from, r.to) <=> rows[i].at < rows[k].at
    BY <1>3, <1>7, <2>3, MovedApart
  <2>5. QED
    BY <1>8, <2>1, <2>2, <2>4
<1>13. /\ ToSet(ListOf(rows')) = ToSet(ListOf(rows))
       /\ SameOrder(ToSet(ListOf(rows)) \ {r.id}, ListOf(rows), ListOf(rows'))
  <2> DEFINE v == rows'
             S == Present(rows) \ {r.id}
  <2>1. v \in Table /\ S \subseteq Present(v) /\ S \subseteq Present(rows)
    BY <1>9
  <2>2. \A i, k \in S : i \in Before(rows, k) <=> i \in Before(v, k)
    BY <1>12
  <2>3. ToSet(ListOf(v)) = Present(rows) /\ ToSet(ListOf(rows)) = Present(rows)
    BY <1>2, <1>9, ListedAndOrdered
  <2> HIDE DEF v, S
  <2>4. SameOrder(S, ListOf(rows), ListOf(v))
    BY <1>2, <2>1, <2>2, OrderKept
  <2>5. QED
    BY <2>3, <2>4 DEF v, S
<1>14. QED
  BY <1>1, <1>10, <1>11, <1>13 DEF Asked, r

(* A request nothing else commits during does to the list what it was      *)
(* asked: the entries RemoveEntries names are gone and the rest in the     *)
(* order they were in, Update's items are the list, AddItems' come last,   *)
(* MoveEntry's entry has its new index and the others kept their order;    *)
(* and afterwards each entry's sort_order is its index.                    *)
THEOREM AloneActs == Spec => AloneActsOnList
<1>1. ASSUME PlaylistsInv, [Next]_vars, NEW c \in Client, Completes(c), tx[c].alone,
             tx[c].request.kind \in {"AddItems", "MoveEntry"} => Orderly(rows)
      PROVE  Asked(tx[c].request, rows, rows') /\ Orderly(rows')
  <2>1. rows' \in Table /\ ~Ends(c) /\ (Insert(c) \/ Renumber(c) \/ Place(c))
    BY <1>1, NextTable, WhatCompletes
  <2>2. CASE Insert(c)
    BY <1>1, <2>1, <2>2, InsertActs
  <2>3. CASE Renumber(c)
    BY <1>1, <2>1, <2>3, RenumberActs
  <2>4. CASE Place(c)
    BY <1>1, <2>1, <2>4, PlaceSteps, PlaceActs
  <2>5. QED
    BY <2>1, <2>2, <2>3, <2>4
<1>2. PlaylistsInv /\ [Next]_vars =>
          [\A c \in Client :
             Completes(c) /\ tx[c].alone
                /\ (tx[c].request.kind \in {"AddItems", "MoveEntry"} => Orderly(rows))
             => Asked(tx[c].request, rows, rows') /\ Orderly(rows')]_vars
  BY <1>1
<1>3. QED
  BY <1>2, AlwaysSound, PTL DEF Spec, AloneActsOnList
=============================================================================
