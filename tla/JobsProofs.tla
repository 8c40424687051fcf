----------------------------- MODULE JobsProofs -----------------------------
(***************************************************************************)
(* That attempts of one job do not overlap, that a refresh that is asked   *)
(* for scans every binding and that a Cancel reaches every run it finds,   *)
(* for any libraries, bindings, slots and numbers of attempts.             *)
(***************************************************************************)
EXTENDS Jobs, TLAPS

\* The run of id waits for the attempt in w.
WaitsFor(id, w) == Busy(w) /\ slots[w].id = id /\ slots[w].lost = "no"

\* A run is taken while it waits for an attempt, and only one; an attempt it waits for
\* has not been told that it does not. What is queued has an attempt left.
AttemptsHeld ==
  /\ \A id \in Id : runs[id].state = "taken" <=> \E w \in Slot : WaitsFor(id, w)
  /\ \A id \in Id : runs[id].state = "queued" => runs[id].tries < Attempts
  /\ \A w \in Slot : Busy(w) /\ slots[w].told => slots[w].lost # "no"

\* Of what Cancel has listed it has reached what it has not to do still.
ListedReached ==
  stop # None =>
    /\ stop.todo \subseteq stop.listed
    /\ stop.answer = "done" => stop.todo = {}
    /\ \A id \in stop.listed \ stop.todo :
         ~Open(id) \/ runs[id].asked \/ id \in stop.renewed

\* The run of parent will enqueue child yet.
WillEnqueue(parent, child) ==
  \/ runs[parent].state = "queued"
  \/ \E w \in Slot : /\ WaitsFor(parent, w)
                     /\ slots[w].pc = "begin" \/ child \in slots[w].todo

\* A scan that is owed is open, or the run of its library is and will enqueue it, or
\* that is not, and the one of all libraries will enqueue it.
OnItsWay(scan) ==
  LET refresh == <<scan[1]>> IN
    \/ Open(scan)
    \/ Open(refresh) /\ WillEnqueue(refresh, scan)
    \/ ~Open(refresh) /\ Open(<<>>) /\ WillEnqueue(<<>>, refresh)

\* While scans are owed nothing has been given up or is to be cancelled.
OwedHeld ==
  owed # {} =>
    /\ \A w \in Slot : Busy(w) => slots[w].lost = "no"
    /\ \A id \in Id : Open(id) => ~runs[id].asked
    /\ \A scan \in owed : OnItsWay(scan)

JobsInv == TypeOK /\ AttemptsHeld /\ OneAtATime /\ ListedReached /\ OwedHeld

-----------------------------------------------------------------------------
(* What ids there are, and who enqueues which.                             *)
LEMMA Ids ==
    ASSUME NEW scan \in Leaf
    PROVE  /\ <<>> \in Id /\ scan \in Id /\ <<scan[1]>> \in Id
           /\ <<scan[1]>> # <<>> /\ scan # <<>> /\ scan # <<scan[1]>>
           /\ scan \in Children(<<scan[1]>>)
           /\ <<scan[1]>> \in Children(<<>>)
<1>1. PICK l \in Library, s \in UNION {Bound[k] : k \in Library} : scan = <<l, s>>
  BY DEF Leaf, Scans
<1>2. <<>> \in Id /\ <<l>> \in Id /\ scan \in Id
  BY DEF Id
<1>3. <<l>> # <<>> /\ scan # <<>> /\ scan # <<l>> /\ scan[1] = l
  BY <1>1
<1>4. scan \in Children(<<l>>)
  BY <1>1, <1>2 DEF Children
<1>5. <<l>> \in Children(<<>>)
  BY <1>2 DEF Children
<1>6. QED
  BY <1>2, <1>3, <1>4, <1>5

LEMMA OwedIds == ASSUME TypeOK, NEW scan \in owed PROVE scan \in Leaf
BY DEF TypeOK

\* The run and the attempts are as they were, for all that is asked of them.
SameRun(id) ==
  runs'[id].state = runs[id].state /\ runs'[id].asked = runs[id].asked

(* A run that starts, if it does, starts queued; no other changes.         *)
LEMMA Starts ==
    ASSUME Parameters, TypeOK, NEW id \in Id, runs' = Start(id)
    PROVE  /\ runs' \in [Id -> Run]
           /\ Open(id)'
           /\ \A j \in Id : j # id \/ Open(id) => runs'[j] = runs[j]
           /\ ~Open(id) => /\ runs'[id].state = "queued" /\ ~runs'[id].asked
                             /\ runs'[id].tries = 0
<1>1. Started \in Run
  BY DEF Started, Run, Parameters
<1>2. QED
  BY <1>1 DEF Start, Open, Started, TypeOK

LEMMA RetriedTyped ==
    ASSUME NEW run \in Run
    PROVE  /\ Retried(run) \in Run
           /\ Retried(run).state \in {"queued", "failed"}
           /\ Retried(run).state = "queued" => run.tries < Attempts
           /\ Retried(run).tries = run.tries /\ Retried(run).asked = run.asked
BY DEF Retried, Run

(* What starts is known to Cancel as a later run.                          *)
LEMMA StartRenews ==
    ASSUME Parameters, TypeOK, ListedReached, NEW id \in Id,
           runs' = Start(id), stop' = Renewed(id)
    PROVE  ListedReached' /\ stop' \in Stop \cup {None}
<1>1. CASE stop # None /\ id \in stop.listed /\ ~Open(id)
  <2>1. stop \in Stop
    BY <1>1 DEF TypeOK
  <2>2. PICK renewed \in SUBSET Id : renewed = stop.renewed \cup {id}
    BY <2>1 DEF Stop
  <2>3. stop' = [stop EXCEPT !.renewed = renewed]
    BY <1>1, <2>2 DEF Renewed
  <2>4. /\ stop' \in Stop /\ stop'.listed = stop.listed
        /\ stop'.todo = stop.todo /\ stop'.answer = stop.answer
        /\ stop'.renewed = stop.renewed \cup {id}
    BY <2>1, <2>2, <2>3 DEF Stop
  <2>5. \A j \in stop.listed : j # id => runs'[j] = runs[j]
    BY <2>1, Starts DEF Stop
  <2>6. QED
    BY <1>1, <2>4, <2>5 DEF ListedReached, Open
<1>2. CASE ~(stop # None /\ id \in stop.listed /\ ~Open(id))
  <2>1. stop' = stop
    BY <1>2 DEF Renewed
  <2>2. stop # None => \A j \in stop.listed : runs'[j] = runs[j]
    BY <1>2, Starts DEF Stop, TypeOK
  <2>3. QED
    BY <2>1, <2>2 DEF ListedReached, Open, TypeOK
<1>3. QED
  BY <1>1, <1>2

(* What starts waits for no attempt yet.                                   *)
LEMMA StartHoldsNone ==
    ASSUME Parameters, TypeOK, AttemptsHeld, NEW id \in Id, runs' = Start(id),
           \A j \in Id, w \in Slot : WaitsFor(j, w)' <=> WaitsFor(j, w),
           \A w \in Slot : (Busy(w) /\ slots[w].told)' => slots'[w].lost # "no"
    PROVE  AttemptsHeld'
<1>1. ASSUME NEW j \in Id
      PROVE  /\ runs'[j].state = "taken" <=> runs[j].state = "taken"
             /\ runs'[j].state = "queued" => runs'[j].tries < Attempts
  BY Starts DEF AttemptsHeld, Open, Parameters
<1>2. QED
  BY <1>1 DEF AttemptsHeld

LEMMA AskSound == ASSUME Parameters, JobsInv, Ask PROVE JobsInv'
<1>1. <<>> \in Id /\ runs' = Start(<<>>) /\ stop' = Renewed(<<>>)
      /\ UNCHANGED slots /\ TypeOK
  BY DEF Id, Ask, JobsInv
<1>2. owed' \in SUBSET Leaf /\ spent' \in 0..Limit
  BY DEF Ask, Spends, JobsInv, TypeOK, Parameters
<1>3. ListedReached' /\ TypeOK'
  BY <1>1, <1>2, Starts, StartRenews DEF JobsInv, TypeOK
<1>4. AttemptsHeld'
  BY <1>1, StartHoldsNone DEF JobsInv, WaitsFor, Busy, AttemptsHeld
<1>5. OneAtATime'
  BY <1>1 DEF JobsInv, OneAtATime, Busy
<1>6. \A j \in Id : Open(j)' => Open(j) \/ (j = <<>> /\ ~runs'[j].asked)
  BY <1>1, Starts DEF Open
<1>7. OwedHeld'
  <2>1. CASE AtRest
    <3>1. \A w \in Slot : ~Busy(w)'
      BY <1>1, <2>1 DEF AtRest, Busy
    <3>2. \A j \in Id : Open(j)' => ~runs'[j].asked
      BY <1>6, <2>1 DEF AtRest
    <3>3. runs'[<<>>].state = "queued"
      BY <1>1, <2>1, Starts DEF AtRest
    <3>4. ASSUME NEW scan \in Leaf PROVE OnItsWay(scan)'
      <4>1. ~Open(<<scan[1]>>)'
        BY <1>6, <2>1, Ids DEF AtRest
      <4>2. Open(<<>>)' /\ WillEnqueue(<<>>, <<scan[1]>>)'
        BY <3>3 DEF Open, WillEnqueue
      <4>3. QED
        BY <4>1, <4>2 DEF OnItsWay
    <3>5. QED
      BY <1>2, <3>1, <3>2, <3>4 DEF OwedHeld
  <2>2. CASE ~AtRest /\ owed # {}
    <3>1. owed' = owed /\ OwedHeld
      BY <2>2 DEF Ask, JobsInv
    <3>2. \A j \in Id : Open(j)' => ~runs'[j].asked
      BY <1>1, <1>6, <2>2, <3>1, Starts DEF OwedHeld
    <3>3. ASSUME NEW scan \in owed PROVE OnItsWay(scan)'
      <4>1. scan \in Leaf
        BY <1>1, OwedIds
      <4>2. \A j \in Id : j # <<>> \/ Open(j) => runs'[j] = runs[j]
        BY <1>1, Starts
      <4>3. runs'[scan] = runs[scan] /\ runs'[<<scan[1]>>] = runs[<<scan[1]>>]
            /\ (Open(<<>>) => runs'[<<>>] = runs[<<>>])
        BY <4>1, <4>2, Ids
      <4>4. OnItsWay(scan)
        BY <2>2, <3>1 DEF OwedHeld
      <4>5. QED
        BY <1>1, <4>3, <4>4 DEF OnItsWay, WillEnqueue, Open, WaitsFor, Busy
    <3>4. QED
      BY <1>1, <2>2, <3>1, <3>2, <3>3 DEF OwedHeld, Busy
  <2>3. QED
    BY <2>1, <2>2 DEF Ask, OwedHeld
<1>8. QED
  BY <1>3, <1>4, <1>5, <1>7 DEF JobsInv

(* What a slot does leaves the others as they are.                         *)
LEMMA SlotTurns ==
    ASSUME NoneApart, TypeOK, NEW w \in Slot, NEW new \in Attempt,
           slots' = [slots EXCEPT ![w] = new]
    PROVE  /\ slots' \in [Slot -> Attempt \cup {None}]
           /\ slots'[w] = new /\ Busy(w)'
           /\ \A v \in Slot : v # w => slots'[v] = slots[v]
BY DEF NoneApart, TypeOK, Busy

LEMMA SlotFreed ==
    ASSUME TypeOK, NEW w \in Slot, Frees(w)
    PROVE  /\ slots' \in [Slot -> Attempt \cup {None}]
           /\ ~Busy(w)'
           /\ \A v \in Slot : v # w => slots'[v] = slots[v]
BY DEF Frees, TypeOK, Busy

(* A run that a slot takes is queued, so no attempt of it is waited for.   *)
LEMMA TakeSound ==
    ASSUME Parameters, NoneApart, JobsInv, NEW w \in Slot, NEW id \in Id, Take(w, id)
    PROVE  JobsInv'
<1> DEFINE new == [id |-> id, pc |-> "begin", todo |-> {}, lost |-> "no", told |-> FALSE]
<1>1. TypeOK /\ UNCHANGED <<stop, owed, spent>> /\ runs[id].state = "queued"
  BY DEF Take, JobsInv
<1>2. new \in Attempt
  BY DEF Attempt
<1>3. /\ slots' \in [Slot -> Attempt \cup {None}]
      /\ slots'[w] = new /\ Busy(w)' /\ ~Busy(w)
      /\ \A v \in Slot : v # w => slots'[v] = slots[v]
  BY <1>1, <1>2, SlotTurns DEF Take
<1>4. runs[id] \in Run /\ runs[id].tries < Attempts
  BY <1>1 DEF JobsInv, AttemptsHeld, TypeOK
<1>5. PICK tries \in 0..Attempts : tries = runs[id].tries + 1
  BY <1>4 DEF Run, Parameters
<1> DEFINE after == [runs[id] EXCEPT !.state = "taken", !.tries = tries]
<1>6. after \in Run /\ after.state = "taken" /\ after.asked = runs[id].asked
  BY <1>4 DEF Run
<1>7. runs' = [runs EXCEPT ![id] = after]
  BY <1>5 DEF Take, TypeOK, Run
<1> HIDE DEF after
<1>8. /\ runs' \in [Id -> Run]
      /\ runs'[id].state = "taken" /\ runs'[id].asked = runs[id].asked
      /\ \A j \in Id : j # id => runs'[j] = runs[j]
  BY <1>1, <1>6, <1>7 DEF TypeOK
<1>9. TypeOK'
  BY <1>1, <1>3, <1>8 DEF TypeOK
<1>10. \A j \in Id : (Open(j)' <=> Open(j)) /\ runs'[j].asked = runs[j].asked
  BY <1>1, <1>8 DEF Open
<1>11. \A j \in Id, v \in Slot :
         WaitsFor(j, v)' <=> WaitsFor(j, v) \/ (v = w /\ j = id)
  BY <1>3 DEF WaitsFor, Busy
<1>12. \A v \in Slot : ~WaitsFor(id, v)
  BY <1>1 DEF JobsInv, AttemptsHeld
<1>13. AttemptsHeld'
  BY <1>3, <1>8, <1>11 DEF JobsInv, AttemptsHeld, Busy
<1>14. OneAtATime'
  BY <1>3, <1>12 DEF JobsInv, OneAtATime, Busy, WaitsFor
<1>15. ListedReached'
  BY <1>1, <1>10 DEF JobsInv, ListedReached, TypeOK, Stop
<1>16. OwedHeld'
  <2> SUFFICES ASSUME owed # {} PROVE OwedHeld'
    BY <1>1 DEF OwedHeld
  <2>1. OwedHeld
    BY DEF JobsInv
  <2>2. \A v \in Slot : Busy(v)' => slots'[v].lost = "no"
    BY <1>3, <2>1 DEF OwedHeld, Busy
  <2>3. ASSUME NEW p \in Id, NEW c, WillEnqueue(p, c) PROVE WillEnqueue(p, c)'
    <3>1. CASE p = id
      BY <1>3, <1>11, <3>1 DEF WillEnqueue
    <3>2. CASE p # id
      BY <1>3, <1>8, <1>11, <2>3, <3>2 DEF WillEnqueue, WaitsFor, Busy
    <3>3. QED
      BY <3>1, <3>2
  <2>4. \A scan \in owed : OnItsWay(scan)'
    BY <1>1, <1>10, <2>1, <2>3, Ids, OwedIds DEF OwedHeld, OnItsWay
  <2>5. QED
    BY <1>1, <1>10, <2>1, <2>2, <2>4 DEF OwedHeld
<1>17. QED
  BY <1>9, <1>13, <1>14, <1>15, <1>16 DEF JobsInv

(* As long as the runs stay and Cancel does, what has been reached stays.  *)
LEMMA ReachedStays ==
    ASSUME TypeOK, ListedReached, UNCHANGED stop,
           \A j \in Id : Open(j)' => Open(j) /\ (runs[j].asked => runs'[j].asked)
    PROVE  ListedReached'
BY DEF ListedReached, TypeOK, Stop

(* An attempt begins with all of its children to enqueue; one that has     *)
(* been told to stop ends, and nobody waits for it.                        *)
LEMMA BeginSound ==
    ASSUME NoneApart, JobsInv, NEW w \in Slot, Begin(w)
    PROVE  JobsInv'
<1>1. /\ TypeOK /\ slots[w] \in Attempt /\ Busy(w) /\ slots[w].pc = "begin"
      /\ UNCHANGED <<runs, stop, owed, spent>>
  BY DEF Begin, Busy, JobsInv, TypeOK
<1>2. ListedReached'
  BY <1>1, ReachedStays DEF JobsInv, Open
<1>3. CASE slots[w].told
  <2>1. /\ slots' \in [Slot -> Attempt \cup {None}] /\ ~Busy(w)'
        /\ \A v \in Slot : v # w => slots'[v] = slots[v]
    BY <1>1, <1>3, SlotFreed DEF Begin
  <2>2. slots[w].lost # "no" /\ owed = {}
    BY <1>1, <1>3 DEF JobsInv, AttemptsHeld, OwedHeld
  <2>3. \A j \in Id, v \in Slot : WaitsFor(j, v)' <=> WaitsFor(j, v)
    BY <2>1, <2>2 DEF WaitsFor, Busy
  <2>4. AttemptsHeld' /\ OneAtATime' /\ OwedHeld' /\ TypeOK'
    BY <1>1, <2>1, <2>2, <2>3 DEF JobsInv, TypeOK, AttemptsHeld, OneAtATime,
       OneAtATime, OwedHeld, Busy
  <2>5. QED
    BY <1>2, <2>4 DEF JobsInv
<1>4. CASE ~slots[w].told
  <2> DEFINE id == slots[w].id
             after == [slots[w] EXCEPT !.pc = "work", !.todo = Children(id)]
  <2>1. id \in Id /\ Children(id) \in SUBSET Id
    BY <1>1 DEF Attempt, Children
  <2>2. /\ after \in Attempt /\ after.id = id /\ after.todo = Children(id)
        /\ after.lost = slots[w].lost /\ after.told = slots[w].told
    BY <1>1, <2>1 DEF Attempt
  <2>3. slots' = [slots EXCEPT ![w] = after]
    BY <1>4 DEF Begin
  <2> HIDE DEF after
  <2>4. /\ slots' \in [Slot -> Attempt \cup {None}] /\ Busy(w)'
        /\ slots'[w] = after /\ \A v \in Slot : v # w => slots'[v] = slots[v]
    BY <1>1, <2>2, <2>3 DEF NoneApart, TypeOK, Busy
  <2>5. \A j \in Id, v \in Slot : WaitsFor(j, v)' <=> WaitsFor(j, v)
    BY <1>1, <2>2, <2>4 DEF WaitsFor, Busy
  <2>6. AttemptsHeld' /\ OneAtATime' /\ TypeOK'
    BY <1>1, <2>2, <2>4, <2>5 DEF JobsInv, TypeOK, AttemptsHeld, OneAtATime,
       OneAtATime, Busy
  <2>7. ASSUME NEW p \in Id, NEW c \in Children(p), WillEnqueue(p, c)
        PROVE  WillEnqueue(p, c)'
    <3>1. ASSUME WaitsFor(p, w) PROVE WillEnqueue(p, c)'
      BY <2>2, <2>4, <2>5, <2>7, <3>1 DEF WillEnqueue, WaitsFor
    <3>2. QED
      BY <1>1, <2>4, <2>5, <2>7, <3>1 DEF WillEnqueue, WaitsFor
  <2>8. OwedHeld'
    <3> SUFFICES ASSUME owed # {} PROVE OwedHeld'
      BY <1>1 DEF OwedHeld
    <3>1. \A v \in Slot : Busy(v)' => slots'[v].lost = "no"
      BY <1>1, <2>2, <2>4 DEF JobsInv, OwedHeld, Busy
    <3>2. \A scan \in owed : OnItsWay(scan)'
      BY <1>1, <2>7, Ids, OwedIds DEF JobsInv, OwedHeld, OnItsWay, Open
    <3>3. QED
      BY <1>1, <3>1, <3>2 DEF JobsInv, OwedHeld, Open
  <2>9. QED
    BY <1>2, <2>6, <2>8 DEF JobsInv
<1>5. QED
  BY <1>3, <1>4

(* What an attempt is still to enqueue is one less.                        *)
LEMMA OneLess ==
    ASSUME NoneApart, TypeOK, NEW w \in Slot, NEW c, Busy(w),
           slots' = [slots EXCEPT ![w].todo = @ \ {c}]
    PROVE  /\ slots' \in [Slot -> Attempt \cup {None}]
           /\ \A v \in Slot : Busy(v)' <=> Busy(v)
           /\ \A v \in Slot : Busy(v) =>
                /\ slots'[v].id = slots[v].id /\ slots'[v].lost = slots[v].lost
                /\ slots'[v].told = slots[v].told /\ slots'[v].pc = slots[v].pc
                /\ slots[v].todo \ {c} \subseteq slots'[v].todo
<1>1. slots[w] \in Attempt
  BY DEF TypeOK, Busy
<1> DEFINE after == [slots[w] EXCEPT !.todo = @ \ {c}]
<1>2. /\ after \in Attempt /\ after.id = slots[w].id /\ after.lost = slots[w].lost
      /\ after.told = slots[w].told /\ after.pc = slots[w].pc
      /\ after.todo = slots[w].todo \ {c}
  BY <1>1 DEF Attempt
<1>3. slots' = [slots EXCEPT ![w] = after]
  OBVIOUS
<1> HIDE DEF after
<1>4. QED
  BY <1>2, <1>3 DEF NoneApart, TypeOK, Busy

(* What an attempt enqueues is open then: what is owed under it is on its  *)
(* way one step further.                                                   *)
LEMMA EnqueueSound ==
    ASSUME Parameters, NoneApart, JobsInv, NEW w \in Slot, EnqueueChild(w)
    PROVE  JobsInv'
<1>1. PICK c \in slots[w].todo :
        /\ slots' = [slots EXCEPT ![w].todo = @ \ {c}]
        /\ IF slots[w].told THEN UNCHANGED <<runs, stop>>
           ELSE runs' = Start(c) /\ stop' = Renewed(c)
  BY DEF EnqueueChild
<1>2. TypeOK /\ Busy(w) /\ c \in Id /\ UNCHANGED <<owed, spent>>
  BY DEF EnqueueChild, Busy, JobsInv, TypeOK, Attempt
<1>3. /\ slots' \in [Slot -> Attempt \cup {None}]
      /\ \A v \in Slot : Busy(v)' <=> Busy(v)
      /\ \A v \in Slot : Busy(v) =>
           /\ slots'[v].id = slots[v].id /\ slots'[v].lost = slots[v].lost
           /\ slots'[v].told = slots[v].told /\ slots'[v].pc = slots[v].pc
           /\ slots[v].todo \ {c} \subseteq slots'[v].todo
  BY <1>1, <1>2, OneLess
<1>4. \A j \in Id, v \in Slot : WaitsFor(j, v)' <=> WaitsFor(j, v)
  BY <1>3 DEF WaitsFor
<1>5. \A v \in Slot : (Busy(v) /\ slots[v].told)' => slots'[v].lost # "no"
  BY <1>3 DEF JobsInv, AttemptsHeld
<1>6. OneAtATime'
  BY <1>3 DEF JobsInv, OneAtATime
<1>7. CASE slots[w].told
  <2>1. UNCHANGED <<runs, stop>> /\ owed = {}
    BY <1>1, <1>2, <1>7 DEF JobsInv, AttemptsHeld, OwedHeld
  <2>2. ListedReached'
    BY <1>2, <2>1, ReachedStays DEF JobsInv, Open
  <2>3. AttemptsHeld' /\ OwedHeld' /\ TypeOK'
    BY <1>2, <1>3, <1>4, <1>5, <2>1 DEF JobsInv, TypeOK, AttemptsHeld, OwedHeld
  <2>4. QED
    BY <1>6, <2>2, <2>3 DEF JobsInv
<1>8. CASE ~slots[w].told
  <2>1. runs' = Start(c) /\ stop' = Renewed(c)
    BY <1>1, <1>8
  <2>2. ListedReached' /\ AttemptsHeld' /\ TypeOK'
    BY <1>2, <1>3, <1>4, <1>5, <2>1, Starts, StartRenews, StartHoldsNone
       DEF JobsInv, TypeOK
  <2>3. OwedHeld'
    <3> SUFFICES ASSUME owed # {} PROVE OwedHeld'
      BY <1>2 DEF OwedHeld
    <3>1. OwedHeld /\ \A v \in Slot : Busy(v)' => slots'[v].lost = "no"
      BY <1>3 DEF JobsInv, OwedHeld
    <3>2. \A j \in Id : Open(j)' => ~runs'[j].asked
      BY <1>2, <2>1, <3>1, Starts DEF OwedHeld, Open
    <3>3. ASSUME NEW p \in Id, NEW d, d # c, Open(p), WillEnqueue(p, d)
          PROVE  WillEnqueue(p, d)'
      <4>1. runs'[p] = runs[p]
        BY <1>2, <2>1, <3>3, Starts
      <4>2. QED
        BY <1>3, <1>4, <3>3, <4>1 DEF WillEnqueue, WaitsFor
    <3>4. ASSUME NEW scan \in owed PROVE OnItsWay(scan)'
      <4> DEFINE refresh == <<scan[1]>>
      <4>1. scan \in Id /\ refresh \in Id /\ <<>> \in Id /\ scan # refresh
        BY <1>2, Ids, OwedIds
      <4>2. Open(c)' /\ \A j \in Id : Open(j) => Open(j)'
        BY <1>2, <2>1, Starts DEF Open
      <4>3. OnItsWay(scan)
        BY <3>1 DEF OwedHeld
      <4> HIDE DEF refresh
      <4>4. CASE Open(scan)
        BY <4>1, <4>2, <4>4 DEF OnItsWay
      <4>5. CASE Open(refresh) /\ WillEnqueue(refresh, scan)
        BY <3>3, <4>1, <4>2, <4>5 DEF OnItsWay, refresh
      <4>6. CASE ~Open(refresh) /\ Open(<<>>) /\ WillEnqueue(<<>>, refresh)
        <5>1. CASE c = refresh
          <6>1. runs'[refresh].state = "queued"
            BY <2>1, <4>1, <4>6, <5>1, <1>2, Starts
          <6>2. QED
            BY <6>1 DEF OnItsWay, WillEnqueue, Open, refresh
        <5>2. CASE c # refresh
          <6>1. ~Open(refresh)'
            BY <1>2, <2>1, <4>1, <4>6, <5>2, Starts DEF Open
          <6>2. QED
            BY <3>3, <4>1, <4>2, <4>6, <5>2, <6>1 DEF OnItsWay, refresh
        <5>3. QED
          BY <5>1, <5>2
      <4>7. QED
        BY <4>3, <4>4, <4>5, <4>6 DEF OnItsWay, refresh
    <3>5. QED
      BY <1>2, <3>1, <3>2, <3>4 DEF OwedHeld
  <2>4. QED
    BY <1>6, <2>2, <2>3 DEF JobsInv
<1>9. QED
  BY <1>7, <1>8

(* A run that no longer waits for the attempt in w, which is gone or given *)
(* up, and is not taken any more; one that did not wait stays.             *)
LEMMA GivenUp ==
    ASSUME TypeOK, AttemptsHeld, OneAtATime, NEW w \in Slot, Busy(w),
           NEW run \in Run, run.state # "taken",
           run.state = "queued" => run.tries < Attempts,
           runs' = IF slots[w].lost = "no"
                     THEN [runs EXCEPT ![slots[w].id] = run] ELSE runs,
           \A j \in Id, v \in Slot : WaitsFor(j, v)' <=> WaitsFor(j, v) /\ v # w,
           \A v \in Slot : (Busy(v) /\ slots[v].told)' => slots'[v].lost # "no"
    PROVE  AttemptsHeld' /\ runs' \in [Id -> Run]
<1>1. slots[w].id \in Id
  BY DEF TypeOK, Busy, Attempt
<1>2. runs' \in [Id -> Run]
  BY <1>1 DEF TypeOK
<1>3. ASSUME NEW j \in Id
      PROVE  /\ runs'[j].state = "taken" <=> \E v \in Slot : WaitsFor(j, v)'
             /\ runs'[j].state = "queued" => runs'[j].tries < Attempts
  <2>1. CASE WaitsFor(j, w)
    <3>1. runs'[j] = run
      BY <1>1, <2>1 DEF WaitsFor, TypeOK
    <3>2. \A v \in Slot : v # w => ~WaitsFor(j, v)
      BY <2>1 DEF OneAtATime, WaitsFor
    <3>3. QED
      BY <3>1, <3>2
  <2>2. CASE ~WaitsFor(j, w)
    <3>1. runs'[j] = runs[j]
      BY <1>1, <2>2 DEF WaitsFor, TypeOK
    <3>2. QED
      BY <2>2, <3>1 DEF AttemptsHeld
  <2>3. QED
    BY <2>1, <2>2
<1>4. QED
  BY <1>2, <1>3 DEF AttemptsHeld

(* A run that completes has enqueued its children, and a scan that is owed *)
(* and completes is owed no more.                                          *)
LEMMA FinishSound ==
    ASSUME NoneApart, JobsInv, NEW w \in Slot, Finish(w)
    PROVE  JobsInv'
<1> DEFINE id == slots[w].id
           done == [runs[id] EXCEPT !.state = "completed"]
<1>1. /\ TypeOK /\ slots[w] \in Attempt /\ Busy(w) /\ slots[w].pc = "work"
      /\ slots[w].todo = {} /\ UNCHANGED <<stop, spent>> /\ Frees(w)
  BY DEF Finish, Busy, JobsInv, TypeOK
<1>2. /\ slots' \in [Slot -> Attempt \cup {None}] /\ ~Busy(w)'
      /\ \A v \in Slot : v # w => slots'[v] = slots[v]
  BY <1>1, SlotFreed
<1>3. id \in Id /\ done \in Run /\ done.state = "completed"
  BY <1>1 DEF Attempt, TypeOK, Run
<1>4. /\ runs' = IF slots[w].lost = "no" THEN [runs EXCEPT ![id] = done] ELSE runs
      /\ owed' = IF slots[w].lost = "no" THEN owed \ {id} ELSE owed
  BY DEF Finish
<1>5. \A j \in Id, v \in Slot : WaitsFor(j, v)' <=> WaitsFor(j, v) /\ v # w
  BY <1>2 DEF WaitsFor, Busy
<1>6. \A v \in Slot : (Busy(v) /\ slots[v].told)' => slots'[v].lost # "no"
  BY <1>2 DEF JobsInv, AttemptsHeld, Busy
<1>7. OneAtATime'
  BY <1>2 DEF JobsInv, OneAtATime, Busy
<1>8. AttemptsHeld' /\ runs' \in [Id -> Run]
  <2> HIDE DEF done
  <2>1. QED
    BY <1>1, <1>3, <1>4, <1>5, <1>6, GivenUp DEF JobsInv
<1>9. \A j \in Id : runs'[j] = runs[j] \/ (j = id /\ WaitsFor(id, w) /\ ~Open(j)')
  BY <1>1, <1>3, <1>4 DEF WaitsFor, TypeOK, Open
<1>10. ListedReached'
  BY <1>1, <1>9, ReachedStays DEF JobsInv, Open
<1>11. TypeOK'
  BY <1>1, <1>2, <1>4, <1>8 DEF TypeOK
<1>12. OwedHeld'
  <2> SUFFICES ASSUME owed' # {} PROVE OwedHeld'
    BY DEF OwedHeld
  <2> HIDE DEF done
  <2>1. OwedHeld /\ owed # {} /\ owed' \subseteq owed
    BY <1>4 DEF JobsInv
  <2>2. slots[w].lost = "no" /\ WaitsFor(id, w) /\ owed' = owed \ {id}
    BY <1>1, <1>4, <2>1 DEF OwedHeld, WaitsFor
  <2>3. ASSUME NEW p \in Id, NEW c, WillEnqueue(p, c)
        PROVE  p # id /\ WillEnqueue(p, c)'
    <3>1. p # id
      <4> SUFFICES ASSUME p = id PROVE FALSE
        OBVIOUS
      <4>1. runs[id].state = "taken"
        BY <1>3, <2>2 DEF JobsInv, AttemptsHeld
      <4>2. PICK v \in Slot : WaitsFor(id, v) /\ (slots[v].pc = "begin" \/ c \in slots[v].todo)
        BY <2>3, <4>1 DEF WillEnqueue
      <4>3. v = w
        BY <2>2, <4>2 DEF JobsInv, OneAtATime, WaitsFor
      <4>4. QED
        BY <1>1, <4>2, <4>3
    <3>2. runs'[p] = runs[p] /\ \A v \in Slot : WaitsFor(p, v) => v # w
      BY <1>9, <3>1 DEF WaitsFor
    <3>3. QED
      BY <1>2, <1>5, <2>3, <3>1, <3>2 DEF WillEnqueue
  <2>4. ASSUME NEW scan \in owed' PROVE OnItsWay(scan)'
    <3> DEFINE refresh == <<scan[1]>>
    <3>1. scan \in Id /\ refresh \in Id /\ <<>> \in Id /\ scan # id /\ scan \in owed
      BY <1>1, <2>1, <2>2, Ids, OwedIds
    <3>2. OnItsWay(scan)
      BY <2>1, <3>1 DEF OwedHeld
    <3>3. Open(id)
      BY <1>3, <2>2 DEF JobsInv, AttemptsHeld, Open
    <3> HIDE DEF refresh
    <3>4. CASE Open(scan)
      BY <1>9, <3>1, <3>4 DEF OnItsWay, Open
    <3>5. CASE Open(refresh) /\ WillEnqueue(refresh, scan)
      BY <1>9, <2>3, <3>1, <3>5 DEF OnItsWay, Open, refresh
    <3>6. CASE ~Open(refresh) /\ Open(<<>>) /\ WillEnqueue(<<>>, refresh)
      BY <1>9, <2>3, <3>1, <3>3, <3>6 DEF OnItsWay, Open, refresh
    <3>7. QED
      BY <3>2, <3>4, <3>5, <3>6 DEF OnItsWay, refresh
  <2>5. \A j \in Id : Open(j)' => ~runs'[j].asked
    BY <1>9, <2>1 DEF OwedHeld, Open
  <2>6. \A v \in Slot : Busy(v)' => slots'[v].lost = "no"
    BY <1>2, <2>1 DEF OwedHeld, Busy
  <2>7. QED
    BY <2>4, <2>5, <2>6 DEF OwedHeld
<1>13. QED
  BY <1>7, <1>8, <1>10, <1>11, <1>12 DEF JobsInv

LEMMA ToldSound ==
    ASSUME NoneApart, JobsInv, NEW w \in Slot, Told(w)
    PROVE  JobsInv'
<1> DEFINE after == [slots[w] EXCEPT !.told = TRUE]
<1>1. /\ TypeOK /\ slots[w] \in Attempt /\ Busy(w) /\ slots[w].lost # "no"
      /\ UNCHANGED <<runs, stop, owed, spent>>
  BY DEF Told, Busy, JobsInv, TypeOK
<1>2. after \in Attempt /\ after.id = slots[w].id /\ after.lost = slots[w].lost
  BY <1>1 DEF Attempt
<1>3. slots' = [slots EXCEPT ![w] = after]
  BY DEF Told
<1> HIDE DEF after
<1>4. /\ slots' \in [Slot -> Attempt \cup {None}] /\ Busy(w)'
      /\ slots'[w] = after /\ \A v \in Slot : v # w => slots'[v] = slots[v]
  BY <1>1, <1>2, <1>3 DEF NoneApart, TypeOK, Busy
<1>5. \A j \in Id, v \in Slot : WaitsFor(j, v)' <=> WaitsFor(j, v)
  BY <1>1, <1>2, <1>4 DEF WaitsFor, Busy
<1>6. owed' = {}
  BY <1>1 DEF JobsInv, OwedHeld
<1>7. AttemptsHeld' /\ OneAtATime' /\ OwedHeld' /\ TypeOK'
  BY <1>1, <1>2, <1>4, <1>5, <1>6 DEF JobsInv, TypeOK, AttemptsHeld, OneAtATime,
     OneAtATime, OwedHeld, Busy
<1>8. ListedReached'
  BY <1>1, ReachedStays DEF JobsInv, Open
<1>9. QED
  BY <1>7, <1>8 DEF JobsInv

(* A fault excuses what is owed, and a run that it strikes is queued again *)
(* or has failed.                                                          *)
LEMMA FaultsTyped ==
    ASSUME Parameters, TypeOK, Spends, Excuses, UNCHANGED stop,
           runs' \in [Id -> Run], slots' \in [Slot -> Attempt \cup {None}]
    PROVE  TypeOK' /\ OwedHeld'
BY DEF TypeOK, Spends, Excuses, Parameters, OwedHeld

LEMMA AttemptFailsSound ==
    ASSUME Parameters, JobsInv, NEW w \in Slot, AttemptFails(w)
    PROVE  JobsInv'
<1> DEFINE id == slots[w].id
           run == Retried(runs[id])
<1>1. TypeOK /\ slots[w] \in Attempt /\ Busy(w) /\ Frees(w) /\ UNCHANGED stop
      /\ Spends /\ Excuses
  BY DEF AttemptFails, Busy, JobsInv, TypeOK
<1>2. /\ slots' \in [Slot -> Attempt \cup {None}] /\ ~Busy(w)'
      /\ \A v \in Slot : v # w => slots'[v] = slots[v]
  BY <1>1, SlotFreed
<1>3. id \in Id /\ runs[id] \in Run
  BY <1>1 DEF Attempt, TypeOK
<1>4. /\ run \in Run /\ run.state \in {"queued", "failed"} /\ run.asked = runs[id].asked
      /\ run.state = "queued" => run.tries < Attempts
  BY <1>3, RetriedTyped
<1>5. runs' = IF slots[w].lost = "no" THEN [runs EXCEPT ![id] = run] ELSE runs
  BY DEF AttemptFails
<1> HIDE DEF run
<1>6. \A j \in Id, v \in Slot : WaitsFor(j, v)' <=> WaitsFor(j, v) /\ v # w
  BY <1>2 DEF WaitsFor, Busy
<1>7. \A v \in Slot : (Busy(v) /\ slots[v].told)' => slots'[v].lost # "no"
  BY <1>2 DEF JobsInv, AttemptsHeld, Busy
<1>8. AttemptsHeld' /\ runs' \in [Id -> Run]
  BY <1>1, <1>4, <1>5, <1>6, <1>7, GivenUp DEF JobsInv
<1>9. WaitsFor(id, w) => Open(id)
  BY <1>3 DEF JobsInv, AttemptsHeld, Open
<1>10. \A j \in Id : Open(j)' => Open(j) /\ (runs[j].asked => runs'[j].asked)
  BY <1>1, <1>3, <1>4, <1>5, <1>9 DEF TypeOK, Open, WaitsFor
<1>11. ListedReached'
  BY <1>1, <1>10, ReachedStays DEF JobsInv
<1>12. OneAtATime'
  BY <1>2 DEF JobsInv, OneAtATime, Busy
<1>13. QED
  BY <1>1, <1>2, <1>8, <1>11, <1>12, FaultsTyped DEF JobsInv

(* An attempt that has timed out goes on, and is waited for no more.       *)
LEMMA TimesOutSound ==
    ASSUME Parameters, NoneApart, JobsInv, NEW w \in Slot, TimesOut(w)
    PROVE  JobsInv'
<1> DEFINE id == slots[w].id
           run == Retried(runs[id])
           after == [slots[w] EXCEPT !.lost = "timeout"]
<1>1. TypeOK /\ slots[w] \in Attempt /\ Busy(w) /\ slots[w].lost = "no"
      /\ UNCHANGED stop /\ Spends /\ Excuses
  BY DEF TimesOut, Busy, JobsInv, TypeOK
<1>2. after \in Attempt /\ after.id = id /\ after.lost = "timeout"
  BY <1>1 DEF Attempt
<1>3. slots' = [slots EXCEPT ![w] = after]
  BY DEF TimesOut
<1> HIDE DEF after
<1>4. /\ slots' \in [Slot -> Attempt \cup {None}] /\ Busy(w)'
      /\ slots'[w] = after /\ \A v \in Slot : v # w => slots'[v] = slots[v]
  BY <1>1, <1>2, <1>3 DEF NoneApart, TypeOK, Busy
<1>5. id \in Id /\ runs[id] \in Run
  BY <1>1 DEF Attempt, TypeOK
<1>6. /\ run \in Run /\ run.state \in {"queued", "failed"} /\ run.asked = runs[id].asked
      /\ run.state = "queued" => run.tries < Attempts
  BY <1>5, RetriedTyped
<1>7. runs' = [runs EXCEPT ![id] = run]
  BY DEF TimesOut
<1> HIDE DEF run
<1>8. \A j \in Id, v \in Slot : WaitsFor(j, v)' <=> WaitsFor(j, v) /\ v # w
  BY <1>2, <1>4 DEF WaitsFor, Busy
<1>9. \A v \in Slot : (Busy(v) /\ slots[v].told)' => slots'[v].lost # "no"
  BY <1>2, <1>4 DEF JobsInv, AttemptsHeld, Busy
<1>10. AttemptsHeld' /\ runs' \in [Id -> Run]
  BY <1>1, <1>6, <1>7, <1>8, <1>9, GivenUp DEF JobsInv
<1>11. Open(id)
  BY <1>1, <1>5 DEF JobsInv, AttemptsHeld, Open, WaitsFor
<1>12. \A j \in Id : Open(j)' => Open(j) /\ (runs[j].asked => runs'[j].asked)
  BY <1>1, <1>5, <1>6, <1>7, <1>11 DEF TypeOK, Open
<1>13. ListedReached'
  BY <1>1, <1>12, ReachedStays DEF JobsInv
<1>14. OneAtATime'
  BY <1>2, <1>4 DEF JobsInv, OneAtATime, Busy
<1>15. QED
  BY <1>1, <1>4, <1>10, <1>13, <1>14, FaultsTyped DEF JobsInv

LEMMA EnqueueFailsSound ==
    ASSUME Parameters, NoneApart, JobsInv, NEW w \in Slot, EnqueueFails(w)
    PROVE  JobsInv'
<1>1. TypeOK /\ Busy(w) /\ UNCHANGED <<runs, stop>> /\ Spends /\ Excuses
  BY DEF EnqueueFails, JobsInv
<1>2. PICK c \in slots[w].todo : slots' = [slots EXCEPT ![w].todo = @ \ {c}]
  BY DEF EnqueueFails
<1>3. /\ slots' \in [Slot -> Attempt \cup {None}]
      /\ \A v \in Slot : Busy(v)' <=> Busy(v)
      /\ \A v \in Slot : Busy(v) =>
           /\ slots'[v].id = slots[v].id /\ slots'[v].lost = slots[v].lost
           /\ slots'[v].told = slots[v].told
  BY <1>1, <1>2, OneLess
<1>4. \A j \in Id, v \in Slot : WaitsFor(j, v)' <=> WaitsFor(j, v)
  BY <1>3 DEF WaitsFor
<1>5. AttemptsHeld' /\ OneAtATime'
  BY <1>1, <1>3, <1>4 DEF JobsInv, AttemptsHeld, OneAtATime
<1>6. ListedReached'
  BY <1>1, ReachedStays DEF JobsInv, Open
<1>7. QED
  BY <1>1, <1>3, <1>5, <1>6, FaultsTyped DEF JobsInv, TypeOK

LEMMA CrashSound ==
    ASSUME Parameters, JobsInv, WorkerCrash
    PROVE  JobsInv'
<1>1. TypeOK /\ UNCHANGED stop /\ Spends /\ Excuses
      /\ slots' = [w \in Slot |-> None]
  BY DEF WorkerCrash, JobsInv
<1>2. ASSUME NEW id \in Id
      PROVE  /\ runs'[id] \in Run /\ runs'[id].state # "taken"
             /\ runs'[id].state = "queued" => runs'[id].tries < Attempts
             /\ Open(id)' => Open(id) /\ (runs[id].asked => runs'[id].asked)
  <2>1. runs[id] \in Run
    BY <1>1 DEF TypeOK
  <2>2. CASE runs[id].state = "taken"
    <3>1. runs'[id] = Retried(runs[id])
      BY <2>2 DEF WorkerCrash
    <3>2. QED
      BY <2>1, <2>2, <3>1, RetriedTyped DEF Open
  <2>3. CASE runs[id].state # "taken"
    <3>1. runs'[id] = runs[id]
      BY <2>3 DEF WorkerCrash
    <3>2. QED
      BY <2>1, <2>3, <3>1 DEF JobsInv, AttemptsHeld, Open
  <2>4. QED
    BY <2>2, <2>3
<1>3. runs' \in [Id -> Run]
  BY <1>2 DEF WorkerCrash
<1>4. \A w \in Slot : ~Busy(w)'
  BY <1>1 DEF Busy
<1>5. AttemptsHeld' /\ OneAtATime'
  BY <1>2, <1>4 DEF AttemptsHeld, WaitsFor, OneAtATime
<1>6. ListedReached'
  BY <1>1, <1>2, ReachedStays DEF JobsInv
<1>7. QED
  BY <1>1, <1>3, <1>5, <1>6, FaultsTyped DEF JobsInv, TypeOK

(* What Cancel does to itself leaves runs and attempts alone.              *)
LEMMA OnlyStop ==
    ASSUME JobsInv, UNCHANGED <<runs, slots, owed>>, spent' \in 0..Limit,
           stop' \in Stop \cup {None}, ListedReached'
    PROVE  JobsInv'
<1>1. \A w \in Slot : Busy(w)' <=> Busy(w)
  BY DEF Busy
<1>2. \A id \in Id, w \in Slot : WaitsFor(id, w)' <=> WaitsFor(id, w)
  BY <1>1 DEF WaitsFor
<1>3. TypeOK'
  BY DEF JobsInv, TypeOK
<1>4. AttemptsHeld'
  BY <1>1, <1>2 DEF JobsInv, AttemptsHeld
<1>5. OneAtATime'
  BY <1>1 DEF JobsInv, OneAtATime
<1>6. OwedHeld'
  BY <1>1 DEF JobsInv, OwedHeld, OnItsWay, WillEnqueue, WaitsFor, Open
<1>7. QED
  BY <1>3, <1>4, <1>5, <1>6 DEF JobsInv

LEMMA ListRunningSound ==
    ASSUME Parameters, JobsInv, NEW n \in 0..2, ListRunning(n)
    PROVE  JobsInv'
<1> DEFINE running == {id \in Id : Len(id) = n /\ Open(id)}
           new == [listed |-> running, todo |-> running, renewed |-> {}, answer |-> "none"]
<1>1. stop' = new /\ UNCHANGED <<runs, slots, owed>> /\ spent' \in 0..Limit
  BY DEF ListRunning, Spends, JobsInv, TypeOK, Parameters
<1>2. running \in SUBSET Id
  OBVIOUS
<1> HIDE DEF running
<1>3. stop' \in Stop
  BY <1>1, <1>2 DEF Stop
<1>4. ListedReached'
  BY <1>1 DEF ListedReached
<1>5. QED
  BY <1>1, <1>3, <1>4, OnlyStop

(* Cancel asks the run that is open under an id, be it the one it listed   *)
(* or a later one, and is done only when it has asked them all.            *)
LEMMA CancelNextSound ==
    ASSUME Parameters, JobsInv, CancelNext
    PROVE  JobsInv'
<1>1. PICK id \in stop.todo :
        IF Open(id)
        THEN /\ runs' = [runs EXCEPT ![id].asked = TRUE]
             /\ stop' = [stop EXCEPT !.todo = @ \ {id}]
        ELSE stop' = [stop EXCEPT !.answer = "error"] /\ UNCHANGED runs
  BY DEF CancelNext
<1>2. stop \in Stop /\ TypeOK /\ owed' = {} /\ UNCHANGED <<slots, spent>>
      /\ stop.answer = "none" /\ stop # None
  BY DEF CancelNext, Excuses, JobsInv, TypeOK
<1>3. id \in Id /\ id \in stop.listed
  BY <1>2 DEF JobsInv, ListedReached, Stop
<1>4. runs[id] \in Run
  BY <1>2, <1>3 DEF TypeOK
<1>5. CASE Open(id)
  <2> DEFINE run == [runs[id] EXCEPT !.asked = TRUE]
             left == stop.todo \ {id}
             call == [stop EXCEPT !.todo = left]
  <2>1. run \in Run /\ run.asked /\ run.state = runs[id].state
        /\ run.tries = runs[id].tries
    BY <1>4 DEF Run
  <2>2. runs' = [runs EXCEPT ![id] = run] /\ stop' = call
    BY <1>1, <1>5
  <2> HIDE DEF run
  <2>3. left \in SUBSET Id
    BY <1>2 DEF Stop
  <2>4. /\ call \in Stop /\ call.todo = left /\ call.listed = stop.listed
        /\ call.renewed = stop.renewed /\ call.answer = "none"
    BY <1>2, <2>3 DEF Stop
  <2> HIDE DEF call
  <2>5. /\ runs' \in [Id -> Run] /\ runs'[id] = run
        /\ \A j \in Id : j # id => runs'[j] = runs[j]
    BY <1>2, <1>3, <2>1, <2>2 DEF TypeOK
  <2>6. TypeOK' /\ OwedHeld'
    BY <1>2, <2>2, <2>4, <2>5 DEF TypeOK, OwedHeld
  <2>7. AttemptsHeld' /\ OneAtATime'
    BY <1>2, <1>3, <2>1, <2>5 DEF JobsInv, AttemptsHeld, WaitsFor, Busy, OneAtATime
  <2>8. ASSUME NEW j \in stop.listed, j \notin left
        PROVE  ~Open(j)' \/ runs'[j].asked \/ j \in stop.renewed
    <3>1. j \in Id
      BY <1>2 DEF Stop
    <3>2. CASE j = id
      BY <2>1, <2>5, <3>2
    <3>3. CASE j # id
      <4>1. ~Open(j) \/ runs[j].asked \/ j \in stop.renewed
        BY <1>2, <2>8, <3>3 DEF JobsInv, ListedReached
      <4>2. QED
        BY <2>5, <3>1, <3>3, <4>1 DEF Open
    <3>4. QED
      BY <3>2, <3>3
  <2>9. ListedReached'
    BY <1>2, <2>2, <2>4, <2>8 DEF JobsInv, ListedReached
  <2>10. QED
    BY <2>6, <2>7, <2>9 DEF JobsInv
<1>6. CASE ~Open(id)
  <2> DEFINE call == [stop EXCEPT !.answer = "error"]
  <2>1. stop' = call /\ UNCHANGED runs
    BY <1>1, <1>6
  <2>2. /\ call \in Stop /\ call.todo = stop.todo /\ call.listed = stop.listed
        /\ call.renewed = stop.renewed /\ call.answer = "error"
    BY <1>2 DEF Stop
  <2> HIDE DEF call
  <2>3. ListedReached'
    BY <1>2, <2>1, <2>2 DEF JobsInv, ListedReached, Open
  <2>4. TypeOK' /\ OwedHeld'
    BY <1>2, <2>1, <2>2 DEF TypeOK, OwedHeld
  <2>5. AttemptsHeld' /\ OneAtATime'
    BY <1>2, <2>1 DEF JobsInv, AttemptsHeld, WaitsFor, Busy, OneAtATime
  <2>6. QED
    BY <2>3, <2>4, <2>5 DEF JobsInv
<1>7. QED
  BY <1>5, <1>6

LEMMA CancelAnswersSound ==
    ASSUME JobsInv, CancelAnswers \/ CancelEnds
    PROVE  JobsInv'
<1>1. UNCHANGED <<runs, slots, owed>> /\ spent' \in 0..Limit
      /\ stop \in Stop
  BY DEF CancelAnswers, CancelEnds, JobsInv, TypeOK
<1>2. CASE CancelAnswers
  <2>1. stop' = [stop EXCEPT !.answer = "done"] /\ stop.todo = {} /\ stop # None
    BY <1>2 DEF CancelAnswers
  <2>2. /\ stop' \in Stop /\ stop'.todo = {} /\ stop'.listed = stop.listed
        /\ stop'.renewed = stop.renewed
    BY <1>1, <2>1 DEF Stop
  <2>3. ListedReached'
    BY <1>1, <2>1, <2>2 DEF JobsInv, ListedReached, Open
  <2>4. QED
    BY <1>1, <2>2, <2>3, OnlyStop
<1>3. CASE CancelEnds
  BY <1>1, <1>3, OnlyStop DEF CancelEnds, ListedReached
<1>4. QED
  BY <1>2, <1>3

(* A workflow that ends cancelled gives its attempt up. Nothing is owed    *)
(* then, since what is to be cancelled has been excused.                   *)
LEMMA EndCancelledSound ==
    ASSUME NoneApart, JobsInv, NEW id \in Id, EndCancelled(id)
    PROVE  JobsInv'
<1> DEFINE run == [runs[id] EXCEPT !.state = "cancelled"]
<1>1. TypeOK /\ UNCHANGED <<stop, owed, spent>> /\ owed = {}
  BY DEF EndCancelled, JobsInv, OwedHeld
<1>2. run \in Run /\ run.state = "cancelled"
  BY <1>1 DEF TypeOK, Run
<1>3. runs' = [runs EXCEPT ![id] = run]
  BY DEF EndCancelled
<1> HIDE DEF run
<1>4. /\ runs' \in [Id -> Run] /\ runs'[id].state = "cancelled"
      /\ \A j \in Id : j # id => runs'[j] = runs[j]
  BY <1>1, <1>2, <1>3 DEF TypeOK
<1>5. ASSUME NEW w \in Slot
      PROVE  /\ slots'[w] \in Attempt \cup {None}
             /\ Busy(w)' <=> Busy(w)
             /\ Busy(w) => /\ slots'[w].id = slots[w].id
                             /\ slots'[w].told = slots[w].told
             /\ WaitsFor(id, w) => slots'[w].lost = "cancel"
             /\ ~WaitsFor(id, w) => slots'[w] = slots[w]
  <2>1. CASE WaitsFor(id, w)
    <3> DEFINE after == [slots[w] EXCEPT !.lost = "cancel"]
    <3>1. after \in Attempt /\ after.id = slots[w].id /\ after.told = slots[w].told
          /\ after.lost = "cancel"
      BY <1>1, <2>1 DEF WaitsFor, Busy, TypeOK, Attempt
    <3>2. slots'[w] = after
      BY <2>1 DEF EndCancelled, WaitsFor
    <3> HIDE DEF after
    <3>3. QED
      BY <2>1, <3>1, <3>2 DEF NoneApart, Busy, WaitsFor
  <2>2. CASE ~WaitsFor(id, w)
    <3>1. slots'[w] = slots[w]
      BY <2>2 DEF EndCancelled, WaitsFor
    <3>2. QED
      BY <1>1, <2>2, <3>1 DEF Busy, TypeOK
  <2>3. QED
    BY <2>1, <2>2
<1>6. slots' \in [Slot -> Attempt \cup {None}]
  BY <1>5 DEF EndCancelled
<1>7. TypeOK' /\ OwedHeld'
  BY <1>1, <1>4, <1>6 DEF TypeOK, OwedHeld
<1>8. \A j \in Id, w \in Slot : WaitsFor(j, w)' <=> WaitsFor(j, w) /\ j # id
  BY <1>5 DEF WaitsFor
<1>9. AttemptsHeld'
  BY <1>4, <1>5, <1>8 DEF JobsInv, AttemptsHeld, WaitsFor, Busy
<1>10. OneAtATime'
  BY <1>5 DEF JobsInv, OneAtATime, Busy, WaitsFor
<1>11. ListedReached'
  BY <1>1, <1>4, ReachedStays DEF JobsInv, Open
<1>12. QED
  BY <1>7, <1>9, <1>10, <1>11 DEF JobsInv

LEMMA JobsStep ==
    ASSUME Parameters, NoneApart, JobsInv, [Next]_vars
    PROVE  JobsInv'
<1>1. CASE UNCHANGED vars
  <2>1. UNCHANGED <<runs, slots, owed, stop, spent>>
    BY <1>1 DEF vars
  <2>2. ListedReached'
    BY <2>1 DEF JobsInv, ListedReached, Open
  <2>3. QED
    BY <2>1, <2>2, OnlyStop DEF JobsInv, TypeOK
<1>2. QED
  BY <1>1, AskSound, TakeSound, BeginSound, EnqueueSound, FinishSound, ToldSound,
     AttemptFailsSound, TimesOutSound, EnqueueFailsSound, CrashSound, ListRunningSound,
     CancelNextSound, CancelAnswersSound, EndCancelledSound DEF Next, AttemptStep

(* Nothing runs at the beginning.                                          *)
LEMMA JobsBegins == ASSUME Parameters, Init PROVE JobsInv
<1>1. \A id \in Id : runs[id] \in Run /\ runs[id].state = "none"
  BY DEF Init, Run, Parameters
<1>2. runs \in [Id -> Run] /\ \A w \in Slot : ~Busy(w)
  BY <1>1 DEF Init, Busy
<1>3. TypeOK
  BY <1>2 DEF Init, TypeOK, Parameters
<1>4. QED
  BY <1>1, <1>2, <1>3 DEF Init, JobsInv, AttemptsHeld, WaitsFor, OneAtATime,
     ListedReached, OwedHeld

LEMMA JobsInvariant ==
    ASSUME Parameters, NoneApart PROVE Init /\ [][Next]_vars => []JobsInv
<1>1. Init => JobsInv
  BY JobsBegins
<1>2. JobsInv /\ [Next]_vars => JobsInv'
  BY JobsStep
<1>3. QED
  BY <1>1, <1>2, PTL

-----------------------------------------------------------------------------
(* Nothing of what is asked for is left over once all is at rest: what is  *)
(* owed is on its way, and on its way something is open.                   *)
LEMMA OwedScanned == JobsInv => AskedIsScanned
<1> SUFFICES ASSUME JobsInv, AtRest, NEW scan \in owed PROVE FALSE
  BY DEF AskedIsScanned
<1>1. scan \in Id /\ <<scan[1]>> \in Id /\ <<>> \in Id
  BY Ids, OwedIds DEF JobsInv
<1>2. OnItsWay(scan)
  BY DEF JobsInv, OwedHeld
<1>3. QED
  BY <1>1, <1>2 DEF OnItsWay, AtRest

(* Runs, attempts and the call of Cancel have their types; two attempts of *)
(* one run do not overlap unless it gave one up; what is asked for is      *)
(* scanned; Cancel reaches every run that it lists (internal/jobs).        *)
THEOREM JobsSafe ==
    ASSUME Parameters, NoneApart
    PROVE  Spec => [](TypeOK /\ OneAtATime /\ AskedIsScanned /\ CancelReachesAll)
<1>1. Init /\ [][Next]_vars => []JobsInv
  BY JobsInvariant
<1>2. JobsInv => TypeOK /\ OneAtATime /\ AskedIsScanned /\ CancelReachesAll
  BY OwedScanned DEF JobsInv, ListedReached, CancelReachesAll
<1>3. QED
  BY <1>1, <1>2, PTL DEF Spec
=============================================================================
