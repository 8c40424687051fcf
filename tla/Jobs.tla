-------------------------------- MODULE Jobs --------------------------------
(***************************************************************************)
(* Background jobs: how internal/jobs uses Temporal, with the jobs that    *)
(* fan out, RefreshLibraries to RefreshLibrary to RefreshLibrarySource, as *)
(* what runs. Ingest has what RefreshLibrarySource does.                   *)
(***************************************************************************)
EXTENDS Naturals, Sequences

CONSTANTS
  Library,    \* libraries
  Bound,      \* Bound[l]: the sources bound to library l
  Slot,       \* what the worker executes at a time
  None,       \* no attempt, no cancelling
  Attempts,   \* attempts of a run, 8 in the code
  Limit       \* at most so many requests, cancellings and faults

\* What the constants are to be: the instances assume it.
Parameters == Attempts \in Nat \ {0} /\ Limit \in Nat

VARIABLES
  runs,     \* the latest run of each workflow id
  slots,    \* the attempt each slot executes
  stop,     \* the call of Cancel there is
  owed,     \* history: scans asked for with nothing running, and not ended since
  spent     \* how much of the limit is used up

vars == <<runs, slots, stop, owed, spent>>

\* <<>> is RefreshLibraries, <<l>> RefreshLibrary of l, and <<l, s>>
\* RefreshLibrarySource of l and s.
Scans == {<<l, s>> : l \in Library, s \in UNION {Bound[k] : k \in Library}}
Leaf == {id \in Scans : id[2] \in Bound[id[1]]}
Id == {<<>>} \cup {<<l>> : l \in Library} \cup Leaf

Children(id) == {c \in Id : Len(c) = Len(id) + 1 /\ \A n \in 1..Len(id) : c[n] = id[n]}

Run == [state: {"none", "queued", "taken", "completed", "failed", "cancelled"},
        tries: 0..Attempts, asked: BOOLEAN]

\* `lost' says why the run no longer waits for the attempt; `told' that its
\* context has been cancelled.
Attempt == [id: Id, pc: {"begin", "work"}, todo: SUBSET Id,
            lost: {"no", "timeout", "cancel"}, told: BOOLEAN]

\* `renewed': history, the listed ids that a later run has taken since.
Stop == [listed: SUBSET Id, todo: SUBSET Id, renewed: SUBSET Id,
         answer: {"none", "done", "error"}]

\* No attempt is None: assumed where it is used.
NoneApart == None \notin Attempt

TypeOK ==
  /\ runs \in [Id -> Run]
  /\ slots \in [Slot -> Attempt \cup {None}]
  /\ stop \in Stop \cup {None}
  /\ owed \subseteq Leaf
  /\ spent \in 0..Limit

Init ==
  /\ runs = [id \in Id |-> [state |-> "none", tries |-> 0, asked |-> FALSE]]
  /\ slots = [w \in Slot |-> None]
  /\ stop = None
  /\ owed = {}
  /\ spent = 0

Busy(w) == slots[w] # None
Open(id) == runs[id].state \in {"queued", "taken"}
AtRest == (\A id \in Id : ~Open(id)) /\ (\A w \in Slot : ~Busy(w))

Spends == spent < Limit /\ spent' = spent + 1
Excuses == owed' = {}

-----------------------------------------------------------------------------
(* Runs.                                                                   *)

Started == [state |-> "queued", tries |-> 0, asked |-> FALSE]

\* slip: every enqueue has an id of its own.
StartEach(id) == [runs EXCEPT ![id] = Started]

\* slip: an id is used once.
StartOnce(id) == IF runs[id].state = "none" THEN [runs EXCEPT ![id] = Started] ELSE runs

\* ExecuteWorkflow: swallowed while a run with the id is open.
Start(id) == IF Open(id) THEN runs ELSE [runs EXCEPT ![id] = Started]

Renewed(id) ==
  IF stop # None /\ id \in stop.listed /\ ~Open(id)
  THEN [stop EXCEPT !.renewed = @ \cup {id}] ELSE stop

\* The retry policy, for the run of an attempt that failed or timed out.
Retried(run) ==
  IF run.tries < Attempts THEN [run EXCEPT !.state = "queued"]
  ELSE [run EXCEPT !.state = "failed"]

\* Service.Start: the handlers answer alike whether a run started or not.
Ask ==
  /\ Spends
  /\ runs' = Start(<<>>)
  /\ owed' = IF AtRest THEN Leaf ELSE owed
  /\ stop' = Renewed(<<>>)
  /\ UNCHANGED slots

\* A free slot takes a queued activity.
Take(w, id) ==
  /\ ~Busy(w)
  /\ runs[id].state = "queued"
  /\ runs' = [runs EXCEPT ![id].state = "taken", ![id].tries = @ + 1]
  /\ slots' = [slots EXCEPT ![w] = [id |-> id, pc |-> "begin", todo |-> {},
                                    lost |-> "no", told |-> FALSE]]
  /\ UNCHANGED <<stop, owed, spent>>

-----------------------------------------------------------------------------
(* What an attempt does.                                                   *)

Frees(w) == slots' = [slots EXCEPT ![w] = None]

\* refreshAll lists the libraries, refreshOne the bindings, a scan what the
\* source reports; a query under a cancelled context fails the attempt.
Begin(w) ==
  /\ Busy(w) /\ slots[w].pc = "begin"
  /\ IF slots[w].told
     THEN Frees(w)
     ELSE slots' = [slots EXCEPT ![w].pc = "work", ![w].todo = Children(slots[w].id)]
  /\ UNCHANGED <<runs, stop, owed, spent>>

\* One turn of the loop. Under a cancelled context Enqueue fails, and that is
\* logged.
EnqueueChild(w) ==
  /\ Busy(w) /\ slots[w].pc = "work"
  /\ \E c \in slots[w].todo :
       /\ slots' = [slots EXCEPT ![w].todo = @ \ {c}]
       /\ IF slots[w].told
          THEN UNCHANGED <<runs, stop>>
          ELSE runs' = Start(c) /\ stop' = Renewed(c)
  /\ UNCHANGED <<owed, spent>>

\* slip: an attempt stays until what it has enqueued is done.
FinishesLast(w) ==
  /\ Busy(w) /\ slots[w].pc = "work" /\ slots[w].todo = {}
  /\ \A c \in Children(slots[w].id) : ~Open(c)
  /\ LET id == slots[w].id IN
       IF slots[w].lost = "no"
       THEN /\ runs' = [runs EXCEPT ![id].state = "completed"]
            /\ owed' = owed \ {id}
       ELSE UNCHANGED <<runs, owed>>
  /\ Frees(w)
  /\ UNCHANGED <<stop, spent>>

Finish(w) ==
  /\ Busy(w) /\ slots[w].pc = "work" /\ slots[w].todo = {}
  /\ LET id == slots[w].id IN
       IF slots[w].lost = "no"
       THEN /\ runs' = [runs EXCEPT ![id].state = "completed"]
            /\ owed' = owed \ {id}
       ELSE UNCHANGED <<runs, owed>>
  /\ Frees(w)
  /\ UNCHANGED <<stop, spent>>

\* A heartbeat answers that the attempt is no longer waited for.
Told(w) ==
  /\ Busy(w) /\ slots[w].lost # "no" /\ ~slots[w].told
  /\ slots' = [slots EXCEPT ![w].told = TRUE]
  /\ UNCHANGED <<runs, stop, owed, spent>>

-----------------------------------------------------------------------------
(* Faults.                                                                 *)

AttemptFails(w) ==
  /\ Busy(w)
  /\ Spends /\ Excuses
  /\ Frees(w)
  /\ runs' = IF slots[w].lost = "no"
             THEN [runs EXCEPT ![slots[w].id] = Retried(@)] ELSE runs
  /\ UNCHANGED stop

\* Two minutes without a heartbeat: the attempt goes on, and keeps its slot.
TimesOut(w) ==
  /\ Busy(w) /\ slots[w].lost = "no"
  /\ Spends /\ Excuses
  /\ slots' = [slots EXCEPT ![w].lost = "timeout"]
  /\ runs' = [runs EXCEPT ![slots[w].id] = Retried(@)]
  /\ UNCHANGED stop

\* An enqueue that fails is logged, and the loop goes on.
EnqueueFails(w) ==
  /\ Busy(w) /\ slots[w].pc = "work"
  /\ Spends /\ Excuses
  /\ \E c \in slots[w].todo : slots' = [slots EXCEPT ![w].todo = @ \ {c}]
  /\ UNCHANGED <<runs, stop>>

\* The worker dies and comes back; its attempts time out meanwhile.
WorkerCrash ==
  /\ \E w \in Slot : Busy(w)
  /\ Spends /\ Excuses
  /\ slots' = [w \in Slot |-> None]
  /\ runs' = [id \in Id |-> IF runs[id].state = "taken" THEN Retried(runs[id]) ELSE runs[id]]
  /\ UNCHANGED stop

-----------------------------------------------------------------------------
(* Cancelling.                                                             *)

\* Cancel lists the open runs of the ids the job's name begins.
ListRunning(n) ==
  /\ stop = None
  /\ Spends
  /\ LET running == {id \in Id : Len(id) = n /\ Open(id)} IN
       stop' = [listed |-> running, todo |-> running, renewed |-> {}, answer |-> "none"]
  /\ UNCHANGED <<runs, slots, owed>>

\* slip: a run that has ended meanwhile ends the loop without an error.
CancelUntilEnded ==
  /\ stop # None /\ stop.answer = "none"
  /\ \E id \in stop.todo :
       IF Open(id)
       THEN /\ runs' = [runs EXCEPT ![id].asked = TRUE]
            /\ stop' = [stop EXCEPT !.todo = @ \ {id}]
       ELSE stop' = [stop EXCEPT !.answer = "done"] /\ UNCHANGED runs
  /\ Excuses
  /\ UNCHANGED <<slots, spent>>

\* CancelWorkflow, by id: whatever run is open under it is asked to end; with
\* none open it fails, and so does Cancel.
CancelNext ==
  /\ stop # None /\ stop.answer = "none"
  /\ \E id \in stop.todo :
       IF Open(id)
       THEN /\ runs' = [runs EXCEPT ![id].asked = TRUE]
            /\ stop' = [stop EXCEPT !.todo = @ \ {id}]
       ELSE stop' = [stop EXCEPT !.answer = "error"] /\ UNCHANGED runs
  /\ Excuses
  /\ UNCHANGED <<slots, spent>>

CancelAnswers ==
  /\ stop # None /\ stop.answer = "none" /\ stop.todo = {}
  /\ stop' = [stop EXCEPT !.answer = "done"]
  /\ UNCHANGED <<runs, slots, owed, spent>>

CancelEnds ==
  /\ stop # None /\ stop.answer # "none"
  /\ stop' = None
  /\ UNCHANGED <<runs, slots, owed, spent>>

\* The workflow stops waiting for its activity, which goes on until it is told.
EndCancelled(id) ==
  /\ Open(id) /\ runs[id].asked
  /\ runs' = [runs EXCEPT ![id].state = "cancelled"]
  /\ slots' = [w \in Slot |->
                 IF Busy(w) /\ slots[w].id = id /\ slots[w].lost = "no"
                 THEN [slots[w] EXCEPT !.lost = "cancel"] ELSE slots[w]]
  /\ UNCHANGED <<stop, owed, spent>>

-----------------------------------------------------------------------------
AttemptStep(w) == Begin(w) \/ EnqueueChild(w) \/ Finish(w)

Next ==
  \/ Ask
  \/ \E w \in Slot, id \in Id : Take(w, id)
  \/ \E w \in Slot : AttemptStep(w) \/ Told(w)
  \/ \E w \in Slot : AttemptFails(w) \/ TimesOut(w) \/ EnqueueFails(w)
  \/ WorkerCrash
  \/ \E n \in 0..2 : ListRunning(n)
  \/ CancelNext \/ CancelAnswers \/ CancelEnds
  \/ \E id \in Id : EndCancelled(id)

\* Temporal hands what is queued to a free slot and ends what is cancelled;
\* every call an attempt makes returns.
Fairness ==
  /\ \A id \in Id : WF_vars(\E w \in Slot : Take(w, id)) /\ WF_vars(EndCancelled(id))
  /\ \A w \in Slot : WF_vars(AttemptStep(w))

Spec == Init /\ [][Next]_vars /\ Fairness

-----------------------------------------------------------------------------
(* What must hold.                                                         *)

\* Two attempts of one id run side by side only if the run gave the earlier
\* one up, by a heartbeat time-out or a cancelling, never for two requests
\* (Params.id and the id reuse policy of Enqueue).
OneAtATime ==
  \A v, w \in Slot :
    (v # w /\ Busy(v) /\ Busy(w) /\ slots[v].id = slots[w].id)
      => slots[v].lost # "no" \/ slots[w].lost # "no"

\* A refresh asked for with nothing running scans every binding, whatever is
\* asked for meanwhile, unless something fails or is cancelled
\* (refreshAll and refreshOne, whose enqueues find runs open or ended).
AskedIsScanned == AtRest => owed = {}

\* A Cancel that succeeds has reached every run that it found: each has ended or
\* has been asked to, and an id that is open otherwise has a later run, started
\* while Cancel was at the others (the loop over the executions).
CancelReachesAll ==
  (stop # None /\ stop.answer = "done")
    => \A id \in stop.listed : ~Open(id) \/ runs[id].asked \/ id \in stop.renewed

\* Every run ends, with as few slots as there are, since no attempt waits for
\* what it enqueues.
RunsEnd == \A id \in Id : Open(id) ~> ~Open(id)
=============================================================================
