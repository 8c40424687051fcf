-------------------------- MODULE ProgressProofs --------------------------
(***************************************************************************)
(* That every slot of the Encoder belongs to one stream that is being      *)
(* started or relayed, that TMDB's limiter keeps its reservations apart,   *)
(* and that what the parts of Progress keep has its types, for any numbers *)
(* of clients, slots, callers and jobs.                                    *)
(***************************************************************************)
EXTENDS Progress, FiniteSetTheorems, TLAPS

Holders == {c \in Client : streams[c].pc \in Holding}

IInv == TypeOK /\ SlotsAccounted

-----------------------------------------------------------------------------
(* The streams that hold a slot are finitely many, and as many as are      *)
(* taken, none while nobody has asked.                                     *)
LEMMA HoldersCounted ==
    ASSUME Parameters, IInv
    PROVE  IsFiniteSet(Holders) /\ taken = Cardinality(Holders) /\ taken \in Nat
<1>1. Holders \in SUBSET Client
  BY DEF Holders
<1>2. IsFiniteSet(Holders)
  BY <1>1, FS_Subset DEF Parameters
<1>3. QED
  BY <1>2, FS_CardinalityType DEF IInv, SlotsAccounted, Holders

LEMMA InitSound == ASSUME Parameters PROVE Init => IInv
<1> SUFFICES ASSUME Init PROVE IInv
  OBVIOUS
<1>1. Idle \in Stream
  BY DEF Idle, Stream
<1>2. TypeOK
  BY <1>1 DEF Init, TypeOK, Parameters
<1>3. Holders = {}
  BY DEF Init, Idle, Holders, Holding
<1>4. QED
  BY <1>2, <1>3, FS_EmptySet DEF IInv, SlotsAccounted, Holders, Init

(* What leaves the slots and the place in the code of every stream alone   *)
(* keeps the invariant.                                                    *)
LEMMA KeepsPlaces ==
    ASSUME IInv, streams' \in [Client -> Stream], UNCHANGED taken,
           \A c \in Client : streams'[c].pc = streams[c].pc
    PROVE  IInv'
<1>1. Holders' = Holders
  BY DEF Holders
<1>2. QED
  BY <1>1 DEF IInv, TypeOK, SlotsAccounted, Holders

(* The processes, the clients and those who cancel.                        *)
LEMMA OutsideSound ==
    ASSUME IInv, NEW c \in Client,
           \/ Watch(c) \/ ClientNoticed(c) \/ Slows(c) \/ Resumes(c) \/ Leaves(c)
           \/ Writes(c) \/ Hangs(c) \/ ClosesOutput(c) \/ Ends(c) \/ Killed(c)
    PROVE  IInv'
<1> USE DEF IInv, TypeOK
<1>1. CASE Watch(c) \/ ClientNoticed(c)
  <2>1. PICK deadline \in BOOLEAN :
           /\ streams' = [streams EXCEPT ![c].cancelled = TRUE, ![c].deadline = deadline]
           /\ UNCHANGED taken
    <3>1. CASE Watch(c)
      BY <3>1 DEF Watch
    <3>2. CASE ClientNoticed(c)
      <4>1. /\ streams' = [streams EXCEPT ![c].cancelled = TRUE,
                                          ![c].deadline = streams[c].deadline]
            /\ streams[c].deadline \in BOOLEAN /\ UNCHANGED taken
        BY <3>2 DEF ClientNoticed, Stream
      <4>2. QED
        BY <4>1
    <3>3. QED
      BY <1>1, <3>1, <3>2
  <2> DEFINE new == [streams[c] EXCEPT !.cancelled = TRUE, !.deadline = deadline]
  <2>2. new \in Stream /\ new.pc = streams[c].pc
    BY DEF Stream
  <2>3. streams' = [streams EXCEPT ![c] = new]
    BY <2>1
  <2> HIDE DEF new
  <2>4. QED
    BY <2>1, <2>2, <2>3, KeepsPlaces
<1>2. CASE Slows(c) \/ Resumes(c) \/ Leaves(c)
  <2>1. PICK to \in {"reading", "slow", "gone"} : ClientMoves(c, to)
    BY <1>2 DEF Slows, Resumes, Leaves
  <2>2. streams' = [streams EXCEPT ![c].client = to] /\ UNCHANGED taken
    BY <2>1 DEF ClientMoves
  <2>3. QED
    BY <2>2, KeepsPlaces DEF Stream
<1>3. CASE Writes(c) \/ Hangs(c) \/ ClosesOutput(c) \/ Ends(c) \/ Killed(c)
  <2>1. PICK to \in {"writing", "hung", "closed", "ended"} : ProcMoves(c, to)
    BY <1>3 DEF Writes, Hangs, ClosesOutput, Ends, Killed
  <2>2. streams' = [streams EXCEPT ![c].proc = to] /\ UNCHANGED taken
    BY <2>1 DEF ProcMoves
  <2>3. QED
    BY <2>2, KeepsPlaces DEF Stream
<1>4. QED
  BY <1>1, <1>2, <1>3

-----------------------------------------------------------------------------
(* What a step does to one stream and to the slots keeps the invariant     *)
(* when the slots change as the place of the stream says.                  *)
LEMMA OneMoves ==
    ASSUME Parameters, IInv, NEW c \in Client, NEW new \in Stream,
           streams' = [streams EXCEPT ![c] = new],
           taken' \in 0..Slots,
           \/ c \notin Holders /\ new.pc \in Holding /\ taken' = taken + 1
           \/ c \in Holders /\ new.pc \in Holding /\ taken' = taken
           \/ c \notin Holders /\ new.pc \notin Holding /\ taken' = taken
           \/ c \in Holders /\ new.pc \notin Holding /\ taken' = taken - 1
    PROVE  IInv'
<1>1. IsFiniteSet(Holders) /\ taken = Cardinality(Holders) /\ taken \in Nat
  BY HoldersCounted
<1>2. streams \in [Client -> Stream]
  BY DEF IInv, TypeOK
<1>3. TypeOK'
  BY <1>2 DEF TypeOK
<1>4. taken' = Cardinality(Holders')
  <2>1. CASE new.pc \in Holding
    <3>1. Holders' = Holders \cup {c}
      BY <1>2, <2>1 DEF Holders
    <3>2. Cardinality(Holders') = IF c \in Holders THEN taken ELSE taken + 1
      BY <1>1, <3>1, FS_AddElement
    <3>3. QED
      BY <2>1, <3>2
  <2>2. CASE new.pc \notin Holding
    <3>1. Holders' = Holders \ {c}
      BY <1>2, <2>2 DEF Holders
    <3>2. Cardinality(Holders') = IF c \in Holders THEN taken - 1 ELSE taken
      BY <1>1, <3>1, FS_RemoveElement
    <3>3. QED
      BY <2>2, <3>2
  <2>3. QED
    BY <2>1, <2>2
<1>5. QED
  BY <1>3, <1>4 DEF IInv, SlotsAccounted, Holders

(* A stream that holds a slot leaves at least that one taken.              *)
LEMMA HolderCounts ==
    ASSUME Parameters, IInv, NEW c \in Holders PROVE taken - 1 \in 0..Slots
<1>1. IsFiniteSet(Holders) /\ taken = Cardinality(Holders) /\ taken \in Nat
  BY HoldersCounted
<1>2. taken # 0
  BY <1>1, FS_EmptySet
<1>3. QED
  BY <1>1, <1>2 DEF IInv, TypeOK, Parameters

LEMMA OpenSound == ASSUME Parameters, IInv, NEW c \in Client, Open(c) PROVE IInv'
<1> DEFINE new == [streams[c] EXCEPT !.pc = "open"]
<1>1. streams[c] \in Stream /\ streams[c].pc = "idle"
  BY DEF Open, At, IInv, TypeOK
<1>2. new \in Stream /\ new.pc \in Holding
  BY <1>1 DEF Stream, Holding
<1>3. streams' = [streams EXCEPT ![c] = new]
  BY DEF Open, IInv, TypeOK
<1>4. c \notin Holders
  BY <1>1 DEF Holders, Holding
<1>5. taken' = taken + 1 /\ taken' \in 0..Slots /\ taken \in Nat
  BY DEF Open, IInv, TypeOK, Parameters
<1> HIDE DEF new
<1>6. QED
  BY <1>2, <1>3, <1>4, <1>5, OneMoves

(* From open to the end of the copy a stream keeps its slot,               *)
LEMMA KeepsSlot ==
    ASSUME Parameters, IInv, NEW c \in Client,
           Start(c) \/ Started(c) \/ PeekFails(c) \/ Reads(c) \/ Written(c)
    PROVE  IInv'
<1>1. streams[c] \in Stream /\ taken \in 0..Slots
  BY DEF IInv, TypeOK
<1>2. c \in Holders
  BY DEF Start, Started, PeekFails, Reads, Written, At, Holders, Holding
<1>3. PICK pc \in Holding, proc \in {streams[c].proc, "silent"} :
         streams' = [streams EXCEPT ![c] = [streams[c] EXCEPT !.pc = pc, !.proc = proc]]
  <2>1. CASE Start(c)
    BY <1>1, <2>1 DEF Start, IInv, TypeOK, Stream, Holding
  <2>2. CASE Started(c) \/ PeekFails(c) \/ Reads(c) \/ Written(c)
    <3>1. PICK pc \in Holding : streams' = [streams EXCEPT ![c].pc = pc]
      BY <2>2 DEF Started, PeekFails, Reads, Written, Holding
    <3>2. [streams[c] EXCEPT !.pc = pc, !.proc = streams[c].proc] = [streams[c] EXCEPT !.pc = pc]
      BY <1>1 DEF Stream
    <3>3. streams' = [streams EXCEPT ![c] = [streams[c] EXCEPT !.pc = pc, !.proc = streams[c].proc]]
      BY <3>1, <3>2
    <3>4. QED
      BY <3>3
  <2>3. QED
    BY <2>1, <2>2
<1>4. taken' = taken
  BY DEF Start, Started, PeekFails, Reads, Written
<1> DEFINE new == [streams[c] EXCEPT !.pc = pc, !.proc = proc]
<1>5. new \in Stream /\ new.pc \in Holding
  BY <1>1 DEF Stream, Holding
<1> HIDE DEF new
<1>6. streams' = [streams EXCEPT ![c] = new]
  BY <1>3 DEF new
<1>7. QED
  BY <1>1, <1>2, <1>4, <1>5, <1>6, OneMoves

(* which it gives back as it fails to start or ends.                       *)
LEMMA GivesBack ==
    ASSUME Parameters, IInv, NEW c \in Client, OpenFails(c) \/ StartFails(c) \/ Close(c)
    PROVE  IInv'
<1>1. streams[c] \in Stream /\ taken' = taken - 1
  BY DEF OpenFails, StartFails, Close, IInv, TypeOK
<1>2. c \in Holders
  BY DEF OpenFails, StartFails, Close, CopyEnds, At, Holders, Holding
<1>3. PICK new \in Stream : new.pc \notin Holding /\ streams' = [streams EXCEPT ![c] = new]
  <2>1. CASE OpenFails(c) \/ StartFails(c)
    <3>1. Idle \in Stream /\ Idle.pc \notin Holding
      BY DEF Idle, Stream, Holding
    <3>2. QED
      BY <2>1, <3>1 DEF OpenFails, StartFails
  <2>2. CASE Close(c)
    <3> DEFINE new == [streams[c] EXCEPT !.pc = "close"]
    <3>1. new \in Stream /\ new.pc \notin Holding
      BY <1>1 DEF Stream, Holding
    <3>2. streams' = [streams EXCEPT ![c] = new]
      BY <2>2 DEF Close
    <3> HIDE DEF new
    <3>3. QED
      BY <3>1, <3>2
  <2>3. QED
    BY <2>1, <2>2
<1>4. QED
  BY <1>1, <1>2, <1>3, HolderCounts, OneMoves

LEMMA WaitedSound == ASSUME Parameters, IInv, NEW c \in Client, Waited(c) PROVE IInv'
<1>1. Idle \in Stream /\ Idle.pc \notin Holding /\ taken \in 0..Slots
  BY DEF Idle, Stream, Holding, IInv, TypeOK
<1>2. c \notin Holders
  BY DEF Waited, At, Holders, Holding
<1>3. taken' = taken /\ streams' = [streams EXCEPT ![c] = Idle]
  BY DEF Waited
<1>4. QED
  BY <1>1, <1>2, <1>3, OneMoves

-----------------------------------------------------------------------------
LEMMA StepSound == ASSUME Parameters PROVE IInv /\ [Next]_vars => IInv'
<1>1. IInv /\ UNCHANGED vars => IInv'
  BY DEF vars, IInv, TypeOK, SlotsAccounted
<1>2. QED
  BY <1>1, OpenSound, KeepsSlot, GivesBack, WaitedSound, OutsideSound DEF Next

LEMMA EncoderInvariant == ASSUME Parameters PROVE Init /\ [][Next]_vars => []IInv
<1>1. Init => IInv
  BY InitSound
<1>2. IInv /\ [Next]_vars => IInv'
  BY StepSound
<1>3. QED
  BY <1>1, <1>2, PTL

-----------------------------------------------------------------------------
(* TMDB's limiter.                                                         *)

Reserved(c) == tmCalls[c].due \notin {None, T!Past}

\* Those who may have artwork looked up yet, which takes a reservation more.
Asking == {"wait", "request", "lock"}
Askers == {c \in Caller : tmCalls[c].pc \in Asking}

Cost(S) == Spacing * Cardinality(S)

\* What is reserved ends before the next reservation begins; and the next is never
\* further ahead than it would be if all who may still reserve had done so.
DuesBefore == \A c \in Caller : Reserved(c) => tmCalls[c].due + Spacing <= tmNext
AheadBounded == tmNext + Cost(Askers) <= Ahead + Spacing + Cost(Caller)

TmdbInv == T!TypeOK /\ DuesBefore /\ AheadBounded /\ Spaced

\* Tmdb counts as this module does.
LEMMA SameCount ==
    /\ \A S : T!Cardinality(S) = Cardinality(S)
    /\ \A S : T!IsFiniteSet(S) = IsFiniteSet(S)
BY DEF T!Cardinality, Cardinality, T!IsFiniteSet, IsFiniteSet

(* The moments there are.                                                  *)
LEMMA Moments ==
    ASSUME T!Parameters
    PROVE  /\ Cost(Caller) \in Nat /\ Spacing \in Nat \ {0} /\ Ahead \in Nat
           /\ T!Past \in Int /\ T!Past = 0 - Spacing
           /\ T!Moment = T!Past..(Ahead + Spacing + Cost(Caller))
           /\ T!Moment \subseteq Int
<1>1. IsFiniteSet(Caller) /\ Spacing \in Nat \ {0} /\ Ahead \in Nat
  BY SameCount DEF T!Parameters
<1>2. PICK n \in Nat : n = Cardinality(Caller)
  BY <1>1, FS_CardinalityType
<1>3. Spacing * n \in Nat /\ Spacing * (1 + n) = Spacing + Spacing * n
  BY <1>1
<1>4. T!Moment = T!Past..(Ahead + Spacing * (1 + n))
  BY <1>2, SameCount DEF T!Moment
<1>5. T!Past \in Int /\ T!Past = 0 - Spacing
  BY <1>1 DEF T!Past
<1>6. Ahead + Spacing * (1 + n) = Ahead + Spacing + Spacing * n
  BY <1>1, <1>3
<1>7. QED
  BY <1>1, <1>2, <1>3, <1>4, <1>5, <1>6 DEF Cost

(* What the reservations of a set of callers take.                         *)
LEMMA Costs ==
    ASSUME T!Parameters, NEW S \in SUBSET Caller, NEW R \in SUBSET S
    PROVE  /\ Cost(R) \in Nat /\ Cost(S) \in Nat /\ Cost(R) <= Cost(S)
           /\ \A c \in S : Cost(S \ {c}) = Cost(S) - Spacing
<1>1. IsFiniteSet(S) /\ Spacing \in Nat
  BY FS_Subset, SameCount DEF T!Parameters
<1>2. IsFiniteSet(R) /\ Cardinality(R) <= Cardinality(S)
  BY <1>1, FS_Subset
<1>3. PICK s \in Nat, r \in Nat : s = Cardinality(S) /\ r = Cardinality(R)
  BY <1>1, <1>2, FS_CardinalityType
<1>4. PICK k \in Nat : s = r + k
  <2>1. s - r \in Nat /\ s = r + (s - r)
    BY <1>2, <1>3
  <2>2. QED
    BY <2>1
<1>5. /\ Spacing * s \in Nat /\ Spacing * r \in Nat /\ Spacing * k \in Nat
      /\ Spacing * (r + k) = Spacing * r + Spacing * k
      /\ Spacing * (s - 1) = Spacing * s - Spacing
  <2>1. \A x \in Nat : Spacing * x \in Nat /\ Spacing * (x - 1) = Spacing * x - Spacing
    BY <1>1
  <2>2. \A x, y \in Nat : Spacing * (x + y) = Spacing * x + Spacing * y
    BY <1>1
  <2>3. QED
    BY <2>1, <2>2
<1>6. \A c \in S : Cardinality(S \ {c}) = s - 1
  BY <1>1, <1>3, FS_RemoveElement
<1>7. Cost(R) = Spacing * r /\ Cost(S) = Spacing * s
  BY <1>3 DEF Cost
<1>8. \A c \in S : Cost(S \ {c}) = Spacing * (s - 1)
  BY <1>6 DEF Cost
<1>9. QED
  BY <1>4, <1>5, <1>7, <1>8

(* A step of one caller that reserves nothing.                             *)
LEMMA CallMoves ==
    ASSUME T!Parameters, TmdbInv, NEW c \in Caller, NEW call \in T!Call,
           tmCalls' = [tmCalls EXCEPT ![c] = call], call.due = tmCalls[c].due,
           call.pc \in Asking => tmCalls[c].pc \in Asking,
           UNCHANGED tmNext, tmMutex' \in Caller \cup {None}, tmDescribed' \in BOOLEAN
    PROVE  TmdbInv'
<1>1. tmCalls \in [Caller -> T!Call] /\ tmNext \in T!Moment
  BY DEF TmdbInv, T!TypeOK
<1>2. tmCalls' \in [Caller -> T!Call]
      /\ \A d \in Caller : tmCalls'[d].due = tmCalls[d].due
  BY <1>1
<1>3. T!TypeOK'
  BY <1>1, <1>2 DEF T!TypeOK
<1>4. DuesBefore' /\ Spaced'
  BY <1>2 DEF TmdbInv, DuesBefore, Reserved, Spaced, T!Spaced
<1>5. Askers' \in SUBSET Askers /\ Askers \in SUBSET Caller
  BY <1>1 DEF Askers
<1>6. AheadBounded'
  <2>1. Cost(Askers') <= Cost(Askers) /\ Cost(Askers') \in Nat /\ Cost(Askers) \in Nat
    BY <1>5, Costs
  <2>2. tmNext \in Int /\ Cost(Caller) \in Nat
    BY <1>1, Moments
  <2>3. Cost(Askers)' = Cost(Askers')
    BY DEF Cost
  <2>4. QED
    BY <2>1, <2>2, <2>3 DEF TmdbInv, AheadBounded, T!Parameters
<1>7. QED
  BY <1>3, <1>4, <1>6 DEF TmdbInv

(* One that does: what is reserved is at or after the limiter's moment,    *)
(* so that it is apart from all that others have.                          *)
LEMMA CallReserves ==
    ASSUME T!Parameters, T!NoneApart, TmdbInv, NEW c \in Caller,
           NEW pc \in {"wait", "imageWait"}, T!Reserve(c, pc),
           UNCHANGED tmDescribed, tmMutex' \in Caller \cup {None}, AheadBounded'
    PROVE  TmdbInv'
<1> DEFINE due == T!Later(tmNext, 0)
           call == [pc |-> pc, due |-> due, tries |-> 0]
<1>1. tmCalls \in [Caller -> T!Call] /\ tmNext \in T!Moment
  BY DEF TmdbInv, T!TypeOK
<1>2. /\ Cost(Caller) \in Nat /\ T!Past = 0 - Spacing /\ Spacing \in Nat \ {0}
      /\ T!Moment = T!Past..(Ahead + Spacing + Cost(Caller)) /\ Ahead \in Nat
  BY Moments
<1>3. due \in T!Moment /\ tmNext <= due /\ 0 <= due /\ due \in Int /\ tmNext \in Int
  BY <1>1, <1>2 DEF T!Later
<1>4. tmCalls' = [tmCalls EXCEPT ![c] = call] /\ tmNext' = due + Spacing
  BY DEF T!Reserve
<1> HIDE DEF due
<1>5. call \in T!Call /\ call.due = due
  BY <1>3 DEF T!Call, T!Parameters
<1> HIDE DEF call
<1>6. /\ tmCalls' \in [Caller -> T!Call] /\ tmCalls'[c].due = due
      /\ \A d \in Caller : d # c => tmCalls'[d].due = tmCalls[d].due
  BY <1>1, <1>4, <1>5
<1>7. tmNext' \in T!Moment
  <2>1. Askers' \in SUBSET Caller
    BY DEF Askers
  <2>2. Cost(Askers') \in Nat /\ Cost(Askers)' = Cost(Askers')
    BY <2>1, Costs DEF Cost
  <2>3. QED
    BY <1>2, <1>3, <1>4, <2>2 DEF AheadBounded
<1>8. T!TypeOK'
  BY <1>6, <1>7 DEF T!TypeOK, TmdbInv
<1>9. \A d \in Caller : d # c /\ Reserved(d) => tmCalls[d].due + Spacing <= due
  <2> SUFFICES ASSUME NEW d \in Caller, d # c, Reserved(d)
               PROVE  tmCalls[d].due + Spacing <= due
    OBVIOUS
  <2>1. tmCalls[d].due \in Int
    BY <1>1, <1>2 DEF Reserved, T!Call
  <2>2. tmCalls[d].due + Spacing <= tmNext
    BY DEF TmdbInv, DuesBefore
  <2>3. QED
    BY <1>2, <1>3, <2>1, <2>2
<1>10. \A d \in Caller : Reserved(d) => tmCalls[d].due \in Int
  BY <1>1, <1>2 DEF Reserved, T!Call
<1>11. DuesBefore'
  BY <1>2, <1>3, <1>4, <1>6, <1>9, <1>10 DEF DuesBefore, Reserved
<1>12. Spaced'
  BY <1>2, <1>3, <1>6, <1>9, <1>10 DEF TmdbInv, Spaced, T!Spaced, Reserved
<1>13. QED
  BY <1>8, <1>11, <1>12 DEF TmdbInv

(* Time passes for all alike; what is as far back as is told apart stays.  *)
LEMMA TickSound ==
    ASSUME T!Parameters, T!NoneApart, TmdbInv, T!Tick PROVE TmdbInv'
<1>1. tmCalls \in [Caller -> T!Call] /\ tmNext \in T!Moment
  BY DEF TmdbInv, T!TypeOK
<1>2. /\ Cost(Caller) \in Nat /\ T!Past = 0 - Spacing /\ Spacing \in Nat \ {0}
      /\ T!Moment = T!Past..(Ahead + Spacing + Cost(Caller)) /\ Ahead \in Nat
  BY Moments
<1>3. \A m \in T!Moment : /\ m \in Int /\ m # None /\ T!Sooner(m) \in T!Moment
                          /\ T!Sooner(m) # T!Past => T!Sooner(m) = m - 1 /\ m # T!Past
                          /\ T!Sooner(m) <= m /\ m - 1 <= T!Sooner(m)
  BY <1>2 DEF T!Sooner, T!Later, T!NoneApart
<1>4. T!Sooner(None) = None
  BY DEF T!Sooner
<1>5. tmNext' = T!Sooner(tmNext)
      /\ tmCalls' = [c \in Caller |-> [tmCalls[c] EXCEPT !.due = T!Sooner(@)]]
      /\ UNCHANGED <<tmMutex, tmDescribed>>
  BY DEF T!Tick
<1>6. \A c \in Caller : T!Sooner(tmCalls[c].due) \in T!Moment \cup {None}
  BY <1>1, <1>3, <1>4 DEF T!Call
<1>7. \A c \in Caller : /\ tmCalls'[c] \in T!Call /\ tmCalls'[c].pc = tmCalls[c].pc
                        /\ tmCalls'[c].due = T!Sooner(tmCalls[c].due)
  BY <1>1, <1>5, <1>6 DEF T!Call
<1>8. tmCalls' \in [Caller -> T!Call]
  <2>1. tmCalls' = [c \in Caller |-> tmCalls'[c]]
    BY <1>5
  <2>2. QED
    BY <1>7, <2>1
<1>9. T!TypeOK'
  BY <1>1, <1>3, <1>5, <1>8 DEF T!TypeOK, TmdbInv
<1>10. \A c \in Caller : Reserved(c)' =>
         /\ Reserved(c) /\ tmCalls[c].due \in Int /\ tmCalls'[c].due = tmCalls[c].due - 1
  <2> SUFFICES ASSUME NEW c \in Caller, Reserved(c)'
               PROVE  /\ Reserved(c) /\ tmCalls[c].due \in Int
                      /\ tmCalls'[c].due = tmCalls[c].due - 1
    OBVIOUS
  <2>1. tmCalls[c].due # None
    BY <1>4, <1>7 DEF Reserved
  <2>2. tmCalls[c].due \in T!Moment
    BY <1>1, <2>1 DEF T!Call
  <2>3. QED
    BY <1>3, <1>7, <2>1, <2>2 DEF Reserved
<1>11. tmNext \in Int /\ tmNext' \in Int /\ tmNext - 1 <= tmNext' /\ tmNext' <= tmNext
  BY <1>1, <1>2, <1>3, <1>5
<1>12. DuesBefore'
  <2> SUFFICES ASSUME NEW c \in Caller, Reserved(c)'
               PROVE  tmCalls'[c].due + Spacing <= tmNext'
    BY DEF DuesBefore
  <2>1. tmCalls[c].due + Spacing <= tmNext
    BY <1>10 DEF TmdbInv, DuesBefore
  <2>2. QED
    BY <1>2, <1>10, <1>11, <2>1
<1>13. Spaced'
  <2> SUFFICES ASSUME NEW c \in Caller, NEW d \in Caller, c # d, Reserved(c)', Reserved(d)'
               PROVE  \/ tmCalls'[c].due - tmCalls'[d].due >= Spacing
                      \/ tmCalls'[d].due - tmCalls'[c].due >= Spacing
    BY DEF Spaced, T!Spaced, Reserved
  <2>1. \/ tmCalls[c].due - tmCalls[d].due >= Spacing
        \/ tmCalls[d].due - tmCalls[c].due >= Spacing
    BY <1>10 DEF TmdbInv, Spaced, T!Spaced, Reserved
  <2>2. /\ tmCalls[c].due \in Int /\ tmCalls'[c].due = tmCalls[c].due - 1
        /\ tmCalls[d].due \in Int /\ tmCalls'[d].due = tmCalls[d].due - 1
    BY <1>10
  <2>3. \A x, y \in Int : (x - 1) - (y - 1) = x - y
    OBVIOUS
  <2>4. QED
    BY <2>1, <2>2, <2>3
<1>14. AheadBounded'
  <2>1. Askers' = Askers /\ Askers \in SUBSET Caller
    BY <1>7 DEF Askers
  <2>2. Cost(Askers) \in Nat /\ Cost(Askers)' = Cost(Askers)
    BY <2>1, Costs DEF Cost
  <2>3. QED
    BY <1>2, <1>11, <2>2 DEF TmdbInv, AheadBounded
<1>15. QED
  BY <1>9, <1>12, <1>13, <1>14 DEF TmdbInv

(* A call starts while what is reserved is no further ahead than Ahead, and *)
(* then all of the callers may reserve once more.                          *)
LEMMA StartSound ==
    ASSUME T!Parameters, T!NoneApart, TmdbInv, NEW c \in Caller, T!Start(c) PROVE TmdbInv'
<1>1. /\ tmNext \in Int /\ tmNext <= Ahead /\ tmNext' = T!Later(tmNext, 0) + Spacing
      /\ T!Reserve(c, "wait") /\ UNCHANGED <<tmMutex, tmDescribed>>
  BY Moments DEF T!Start, T!Reserve, TmdbInv, T!TypeOK
<1>2. tmNext' <= Ahead + Spacing /\ tmNext' \in Int
  BY <1>1, Moments DEF T!Later
<1>3. Askers' \in SUBSET Caller
  BY DEF Askers
<1>4. Cost(Askers') <= Cost(Caller) /\ Cost(Askers') \in Nat /\ Cost(Askers)' = Cost(Askers')
  BY <1>3, Costs DEF Cost
<1>5. AheadBounded'
  BY <1>2, <1>4, Moments DEF AheadBounded
<1>6. QED
  BY <1>1, <1>5, CallReserves DEF TmdbInv, T!TypeOK

(* Under the mutex a caller reserves once more, and is then no longer one  *)
(* that may.                                                               *)
LEMMA LockSound ==
    ASSUME T!Parameters, T!NoneApart, TmdbInv, NEW c \in Caller, T!Lock(c) PROVE TmdbInv'
<1>1. tmCalls \in [Caller -> T!Call] /\ tmNext \in Int /\ tmCalls[c].pc = "lock"
      /\ tmMutex \in Caller \cup {None} /\ tmDescribed \in BOOLEAN
  BY Moments DEF T!Lock, T!At, TmdbInv, T!TypeOK
<1>2. CASE tmDescribed
  <2> DEFINE call == [tmCalls[c] EXCEPT !.pc = "idle"]
  <2>1. tmCalls' = [tmCalls EXCEPT ![c] = call] /\ UNCHANGED <<tmNext, tmMutex, tmDescribed>>
    BY <1>1, <1>2 DEF T!Lock, T!Moves
  <2>2. call \in T!Call /\ call.due = tmCalls[c].due /\ call.pc \notin Asking
    BY <1>1 DEF T!Call, Asking
  <2> HIDE DEF call
  <2>3. QED
    BY <1>1, <2>1, <2>2, CallMoves
<1>3. CASE ~tmDescribed
  <2>1. /\ T!Reserve(c, "imageWait") /\ tmMutex' = c /\ UNCHANGED tmDescribed
        /\ tmNext' = T!Later(tmNext, 0) + Spacing
    BY <1>3 DEF T!Lock, T!Reserve
  <2>2. Askers' = Askers \ {c} /\ c \in Askers /\ Askers \in SUBSET Caller
    BY <1>1, <2>1 DEF Askers, Asking, T!Reserve
  <2>3. /\ Cost(Askers') = Cost(Askers) - Spacing /\ Cost(Askers)' = Cost(Askers')
        /\ Cost(Askers) \in Nat
    BY <2>2, Costs DEF Cost
  <2>4. Cost(Askers) <= Cost(Caller)
    BY <2>2, Costs
  <2>5. tmNext + Cost(Askers) <= Ahead + Spacing + Cost(Caller)
    BY DEF TmdbInv, AheadBounded
  <2>6. AheadBounded'
    BY <1>1, <2>1, <2>3, <2>4, <2>5, Moments DEF AheadBounded, T!Later
  <2>7. QED
    BY <2>1, <2>6, CallReserves
<1>4. QED
  BY <1>1, <1>2, <1>3

(* All that a caller does besides: it moves on, or asks once more.         *)
LEMMA OthersSound ==
    ASSUME T!Parameters, TmdbInv, NEW c \in Caller,
           \/ T!Due(c) \/ T!GivesUp(c) \/ T!AskedAgain(c) \/ T!Found(c) \/ T!Missed(c)
           \/ T!ImageDue(c) \/ T!ImageFails(c) \/ T!Described(c)
    PROVE  TmdbInv'
<1>1. tmCalls \in [Caller -> T!Call] /\ tmMutex \in Caller \cup {None}
      /\ tmDescribed \in BOOLEAN /\ tmCalls[c] \in T!Call
  BY DEF TmdbInv, T!TypeOK
<1>2. CASE T!AskedAgain(c)
  <2>1. PICK n \in Nat : n = tmCalls[c].tries + 1
    BY <1>1 DEF T!Call
  <2> DEFINE call == [tmCalls[c] EXCEPT !.tries = n]
  <2>2. n \in 0..Attempts
    BY <1>1, <1>2, <2>1 DEF T!AskedAgain, T!Call, T!Parameters
  <2>3. tmCalls' = [tmCalls EXCEPT ![c] = call] /\ UNCHANGED <<tmNext, tmMutex, tmDescribed>>
    BY <1>1, <1>2, <2>1 DEF T!AskedAgain
  <2>4. call \in T!Call /\ call.due = tmCalls[c].due /\ call.pc = tmCalls[c].pc
    BY <1>1, <2>2 DEF T!Call
  <2> HIDE DEF call
  <2>5. QED
    BY <1>1, <2>3, <2>4, CallMoves
<1>3. CASE ~T!AskedAgain(c)
  <2>1. PICK pc \in {"idle", "request", "lock", "imageRequest"} :
          /\ T!Moves(c, pc) /\ UNCHANGED tmNext
          /\ tmMutex' \in {tmMutex, None} /\ tmDescribed' \in {tmDescribed, TRUE}
          /\ pc \in Asking => tmCalls[c].pc \in Asking
    BY <1>3 DEF T!Due, T!GivesUp, T!Found, T!Missed, T!ImageDue, T!ImageFails, T!Described,
       T!At, Asking
  <2> DEFINE call == [tmCalls[c] EXCEPT !.pc = pc]
  <2>2. tmCalls' = [tmCalls EXCEPT ![c] = call]
    BY <1>1, <2>1 DEF T!Moves
  <2>3. call \in T!Call /\ call.due = tmCalls[c].due /\ call.pc = pc
    BY <1>1 DEF T!Call
  <2> HIDE DEF call
  <2>4. QED
    BY <1>1, <2>1, <2>2, <2>3, CallMoves
<1>4. QED
  BY <1>2, <1>3

LEMMA TmdbInvariant ==
    ASSUME T!Parameters, T!NoneApart
    PROVE  T!Init /\ [][T!Next]_(T!vars) => []TmdbInv
<1>1. T!Init => TmdbInv
  <2> SUFFICES ASSUME T!Init PROVE TmdbInv
    OBVIOUS
  <2>1. /\ tmNext = T!Past /\ tmMutex = None /\ tmDescribed = FALSE
        /\ tmCalls = [c \in Caller |-> [pc |-> "idle", due |-> None, tries |-> 0]]
    BY DEF T!Init
  <2>2. T!Past \in T!Moment
    BY Moments
  <2>3. T!TypeOK
    <3>1. 0 \in 0..Attempts
      BY DEF T!Parameters
    <3>2. [pc |-> "idle", due |-> None, tries |-> 0] \in T!Call
      BY <3>1 DEF T!Call
    <3>3. QED
      BY <2>1, <2>2, <3>2 DEF T!TypeOK
  <2>4. \A c \in Caller : ~Reserved(c)
    BY <2>1 DEF Reserved
  <2>5. Askers = {} /\ {} \in SUBSET Caller
    BY <2>1 DEF Askers, Asking
  <2>6. Cost(Askers) <= Cost(Caller) /\ Cost(Askers) \in Nat
    BY <2>5, Costs
  <2>7. AheadBounded
    BY <2>1, <2>6, Moments DEF AheadBounded
  <2>8. DuesBefore /\ Spaced
    BY <2>4 DEF DuesBefore, Spaced, T!Spaced, Reserved
  <2>9. QED
    BY <2>3, <2>7, <2>8 DEF TmdbInv
<1>2. TmdbInv /\ UNCHANGED T!vars => TmdbInv'
  BY DEF T!vars, TmdbInv, T!TypeOK, DuesBefore, Reserved, AheadBounded, Askers, Cost,
     Spaced, T!Spaced
<1>3. TmdbInv /\ [T!Next]_(T!vars) => TmdbInv'
  BY <1>2, TickSound, StartSound, LockSound, OthersSound DEF T!Next
<1>4. QED
  BY <1>1, <1>3, PTL

-----------------------------------------------------------------------------
(* The web socket: what the channel holds stays within its room.           *)
LEMMA SocketStep ==
    ASSUME K!Parameters, K!TypeOK, [K!Next]_(K!vars) PROVE K!TypeOK'
<1> USE DEF K!TypeOK
<1>1. CASE UNCHANGED K!vars
  BY <1>1 DEF K!vars
<1>2. CASE K!Handle \/ K!ReadKeepAlive \/ K!ReadFails
  BY <1>2 DEF K!Handle, K!ReadKeepAlive, K!ReadFails
<1>3. CASE K!Enqueue
  <2>1. skReplies' \in 0..Room
    BY <1>3 DEF K!Enqueue, K!Parameters
  <2>2. QED
    BY <1>3, <2>1 DEF K!Enqueue
<1>4. CASE K!TakeReply
  <2>1. skReplies' \in 0..Room
    BY <1>4 DEF K!TakeReply, K!Parameters
  <2>2. QED
    BY <1>4, <2>1 DEF K!TakeReply
<1>5. CASE K!Wrote \/ K!WriteFails \/ K!Tick \/ K!Done
  BY <1>5 DEF K!Wrote, K!WriteFails, K!Tick, K!Done, K!Returns
<1>6. CASE \E state \in {"reading", "idle", "gone"} : K!PeerMoves(state)
  BY <1>6 DEF K!PeerMoves
<1>7. QED
  BY <1>1, <1>2, <1>3, <1>4, <1>5, <1>6 DEF K!Next

LEMMA SocketInvariant ==
    ASSUME K!Parameters PROVE K!Init /\ [][K!Next]_(K!vars) => []K!TypeOK
<1>1. K!Init => K!TypeOK
  <2>1. 0 \in 0..Room
    BY DEF K!Parameters
  <2>2. QED
    BY <2>1 DEF K!Init, K!TypeOK
<1>2. K!TypeOK /\ [K!Next]_(K!vars) => K!TypeOK'
  BY SocketStep
<1>3. QED
  BY <1>1, <1>2, PTL

-----------------------------------------------------------------------------
(* The jobs: JobsProofs is about this instance of theirs as about any.     *)
P == INSTANCE JobsProofs WITH
       Library <- Shelf, Limit <- JobLimit,
       runs <- joRuns, slots <- joSlots, stop <- joStop, owed <- joOwed, spent <- joSpent

LEMMA SameJobs ==
    /\ J!Parameters = P!Parameters /\ J!NoneApart = P!NoneApart /\ J!TypeOK = P!TypeOK
    /\ J!Init = P!Init /\ J!Next = P!Next /\ J!vars = P!vars
BY DEF J!Next, J!Init, J!TypeOK, J!Parameters, J!NoneApart, J!Ask, J!Id, J!Take,
       J!AttemptStep, J!Told, J!AttemptFails, J!TimesOut, J!EnqueueFails,
       J!WorkerCrash, J!ListRunning, J!CancelNext, J!CancelAnswers, J!CancelEnds,
       J!EndCancelled, J!Run, J!Attempt, J!Stop, J!Leaf, J!Spends, J!Start,
       J!AtRest, J!Renewed, J!Busy, J!Begin, J!EnqueueChild, J!Finish, J!Excuses,
       J!Frees, J!Retried, J!Open, J!Scans, J!Started, J!Children, P!Next, P!Init,
       P!TypeOK, P!Parameters, P!NoneApart, P!Ask, P!Id, P!Take, P!AttemptStep,
       P!Told, P!AttemptFails, P!TimesOut, P!EnqueueFails, P!WorkerCrash,
       P!ListRunning, P!CancelNext, P!CancelAnswers, P!CancelEnds, P!EndCancelled,
       P!Run, P!Attempt, P!Stop, P!Leaf, P!Spends, P!Start, P!AtRest, P!Renewed,
       P!Busy, P!Begin, P!EnqueueChild, P!Finish, P!Excuses, P!Frees, P!Retried,
       P!Open, P!Scans, P!Started, P!Children, J!vars, P!vars

LEMMA JobsTyped ==
    ASSUME J!Parameters, J!NoneApart
    PROVE  J!Init /\ [][J!Next]_(J!vars) => []J!TypeOK
<1>1. P!Parameters /\ P!NoneApart
  BY SameJobs
<1>2. P!Init /\ [][P!Next]_(P!vars) => []P!JobsInv
  BY <1>1, P!JobsInvariant
<1>3. P!JobsInv => J!TypeOK
  BY SameJobs DEF P!JobsInv
<1>4. J!Init => P!Init
  BY SameJobs
<1>5. [J!Next]_(J!vars) => [P!Next]_(P!vars)
  BY SameJobs DEF J!vars, P!vars
<1>6. QED
  BY <1>2, <1>3, <1>4, <1>5, PTL

-----------------------------------------------------------------------------
(* Each part goes its own way.                                             *)
LEMMA PartsMove ==
    PartsSpec => /\ J!Init /\ [][J!Next]_(J!vars)
                 /\ Init /\ [][Next]_vars
                 /\ K!Init /\ [][K!Next]_(K!vars)
                 /\ T!Init /\ [][T!Next]_(T!vars)
<1> USE DEF PartsNext, RunsJobs, Encodes, Talks, AsksTmdb, partsVars, jobsVars, vars,
            socketVars, tmdbVars
<1>1. PartsInit => J!Init /\ Init /\ K!Init /\ T!Init
  BY DEF PartsInit
<1>2. [PartsNext]_partsVars => [J!Next]_(J!vars)
  BY DEF J!vars
<1>3. [PartsNext]_partsVars => [Next]_vars
  OBVIOUS
<1>4. [PartsNext]_partsVars => [K!Next]_(K!vars)
  BY DEF K!vars
<1>5. [PartsNext]_partsVars => [T!Next]_(T!vars)
  BY DEF T!vars
<1>6. QED
  BY <1>1, <1>2, <1>3, <1>4, <1>5, PTL DEF PartsSpec

(* What each part keeps has its types: never more slots are taken than     *)
(* there are, no run is tried more often than it may be, no more replies   *)
(* wait than there is room for, and the limiter runs ahead by no more than *)
(* its callers have reserved.                                              *)
THEOREM PartsTyped == PartsSpec => []PartsTypeOK
<1>1. /\ Parameters /\ J!Parameters /\ J!NoneApart /\ K!Parameters
      /\ T!Parameters /\ T!NoneApart
  BY PartsAssumption DEF PartsAssumption
<1>2. J!Init /\ [][J!Next]_(J!vars) => []J!TypeOK
  BY <1>1, JobsTyped
<1>3. Init /\ [][Next]_vars => []IInv
  BY <1>1, EncoderInvariant
<1>4. K!Init /\ [][K!Next]_(K!vars) => []K!TypeOK
  BY <1>1, SocketInvariant
<1>5. T!Init /\ [][T!Next]_(T!vars) => []TmdbInv
  BY <1>1, TmdbInvariant
<1>6. J!TypeOK /\ IInv /\ K!TypeOK /\ TmdbInv => PartsTypeOK
  BY DEF PartsTypeOK, IInv, TmdbInv
<1>7. QED
  BY <1>2, <1>3, <1>4, <1>5, <1>6, PartsMove, PTL

(* Each slot that is taken is that of one stream being started or relayed, *)
(* whatever ffmpeg and the clients do: none leaks, none is freed twice.    *)
THEOREM SlotsAreAccounted == PartsSpec => []SlotsAccounted
<1>1. Init /\ [][Next]_vars => []IInv
  BY PartsAssumption, EncoderInvariant DEF PartsAssumption
<1>2. IInv => SlotsAccounted
  BY DEF IInv
<1>3. QED
  BY <1>1, <1>2, PartsMove, PTL

(* No two reservations of TMDB's limiter are closer than its spacing, for  *)
(* any number of callers, after any pause, and with artwork looked up in   *)
(* between under the client's mutex (limiter.wait).                        *)
THEOREM ReservationsSpaced == PartsSpec => []Spaced
<1>1. T!Init /\ [][T!Next]_(T!vars) => []TmdbInv
  BY PartsAssumption, TmdbInvariant DEF PartsAssumption
<1>2. TmdbInv => Spaced
  BY DEF TmdbInv
<1>3. QED
  BY <1>1, <1>2, PartsMove, PTL
=============================================================================
