------------------------------- MODULE Parts -------------------------------
(***************************************************************************)
(* Sign-in, jobs, metadata, user data, sources and libraries, which share  *)
(* no state, side by side: `part' says whose behaviour it is, and the      *)
(* others stay where they begin.  What there is to explore is the sum of   *)
(* their state spaces and not the product.                                 *)
(*                                                                         *)
(* SignIn is extended, and its constants are this module's; the constants  *)
(* of the others are told apart by what they are here.                     *)
(***************************************************************************)
EXTENDS SignIn, Sequences

CONSTANTS
  Attempts,       \* attempts of a run, of whichever part
  Shelf,          \* libraries that jobs refresh
  Bound,          \* Bound[l]: the sources bound to library l
  Slot,           \* what the worker executes at a time
  JobLimit,       \* requests, cancellings and faults of jobs
  Film,           \* titles that are identified and edited
  Known,          \* those whose key has a TMDB id
  Editor,         \* who edits them
  Edits,          \* what they may ask for
  EditLimit,      \* edits and faults of metadata
  Device,         \* the devices of one user
  RunTimes,       \* the run times the title may have
  Positions,      \* the positions that are reported
  Reports,        \* what the devices may send
  Counts,         \* the plays that are counted
  Source,         \* sources, by their URL
  Target,         \* libraries they may be bound to
  Saver,          \* who saves a configuration
  Clash,          \* pairs of sources whose root paths overlap
  Configurations, \* what may be saved
  Library,        \* libraries that are scanned and deleted
  Title,          \* the titles in them
  Parent,         \* Parent[i]: the series or season that i is in, or None
  ScanLimit       \* scans and faults of libraries

VARIABLES
  part,
  joRuns, joSlots, joStop, joOwed, joSpent,
  meRows, meMarked, meScans, meBatch, meRuns, meEdits, meSpent,
  udDatum, udRequests,
  soTable, soLock, soTx,
  liLibraries, liItems, liMembers, liScans, liRuns, liDeletions, liLoose, liSpent

jobsVars == <<joRuns, joSlots, joStop, joOwed, joSpent>>
metadataVars == <<meRows, meMarked, meScans, meBatch, meRuns, meEdits, meSpent>>
userDataVars == <<udDatum, udRequests>>
sourcesVars == <<soTable, soLock, soTx>>
librariesVars == <<liLibraries, liItems, liMembers, liScans, liRuns, liDeletions, liLoose,
                   liSpent>>

partsVars == <<part, vars, jobsVars, metadataVars, userDataVars, sourcesVars,
               librariesVars>>

-----------------------------------------------------------------------------
J == INSTANCE Jobs WITH
       Library <- Shelf, Limit <- JobLimit,
       runs <- joRuns, slots <- joSlots, stop <- joStop, owed <- joOwed, spent <- joSpent

M == INSTANCE Metadata WITH
       Item <- Film, Client <- Editor, Requests <- Edits, Limit <- EditLimit,
       rows <- meRows, marked <- meMarked, scans <- meScans, batch <- meBatch, runs <- meRuns,
       edits <- meEdits, spent <- meSpent

U == INSTANCE UserData WITH
       Requests <- Reports,
       datum <- udDatum, requests <- udRequests

C == INSTANCE Sources WITH
       Library <- Target, Client <- Saver, Requests <- Configurations,
       table <- soTable, lock <- soLock, tx <- soTx

L == INSTANCE Libraries WITH
       Item <- Title, Limit <- ScanLimit,
       libraries <- liLibraries, items <- liItems, members <- liMembers, scans <- liScans,
       runs <- liRuns, deletions <- liDeletions, loose <- liLoose, spent <- liSpent

ASSUME PartsAssumption ==
  /\ Parameters /\ NoneApart
  /\ C!Parameters /\ C!NoneApart
  /\ J!Parameters /\ J!NoneApart
  /\ M!Parameters /\ U!Parameters
  /\ L!Parameters /\ L!NoneApart

-----------------------------------------------------------------------------
PartsInit ==
  /\ part \in {"signIn", "jobs", "metadata", "userData", "sources", "libraries"}
  /\ Init /\ J!Init /\ M!Init /\ U!Init /\ C!Init /\ L!Init

Is(name) == part = name /\ UNCHANGED part

SignsIn ==
  /\ Is("signIn") /\ Next
  /\ UNCHANGED <<jobsVars, metadataVars, userDataVars, sourcesVars, librariesVars>>

RunsJobs ==
  /\ Is("jobs") /\ J!Next
  /\ UNCHANGED <<vars, metadataVars, userDataVars, sourcesVars, librariesVars>>

Identifies ==
  /\ Is("metadata") /\ M!Next
  /\ UNCHANGED <<vars, jobsVars, userDataVars, sourcesVars, librariesVars>>

Plays ==
  /\ Is("userData") /\ U!Next
  /\ UNCHANGED <<vars, jobsVars, metadataVars, sourcesVars, librariesVars>>

Configures ==
  /\ Is("sources") /\ C!Next
  /\ UNCHANGED <<vars, jobsVars, metadataVars, userDataVars, librariesVars>>

Rearranges ==
  /\ Is("libraries") /\ L!Next
  /\ UNCHANGED <<vars, jobsVars, metadataVars, userDataVars, sourcesVars>>

PartsNext == SignsIn \/ RunsJobs \/ Identifies \/ Plays \/ Configures \/ Rearranges

PartsSpec == PartsInit /\ [][PartsNext]_partsVars

-----------------------------------------------------------------------------
(* The variables of the part that moves have their types.                  *)
PartsTypeOK ==
  /\ part = "signIn" => TypeOK
  /\ part = "jobs" => J!TypeOK
  /\ part = "metadata" => M!TypeOK
  /\ part = "userData" => U!TypeOK
  /\ part = "sources" => C!TypeOK
  /\ part = "libraries" => L!TypeOK

(* What the modules say of them, each with its reasons there.              *)

\* Attempts of one id overlap only where the run has given the earlier one up.
OneAtATime == J!OneAtATime

\* A refresh asked for with nothing running scans every binding.
AskedIsScanned == J!AskedIsScanned

\* A Cancel that succeeds has reached every run it found.
CancelReachesAll == J!CancelReachesAll

\* Scans and identifications leave locked fields as they are.
LocksHold == M!LocksHold

\* A title with the provider's ids has its genres and people, or its run says why not.
WholeOrPending == M!WholeOrPending

\* Played titles, favourites and counts outlast the reports of other devices.
MarksKept == U!MarksKept

\* The bindings of a source are those of one request.
BoundAsAsked == C!BoundAsAsked

\* What is saved alone is what is stored.
SavedAlone == C!SavedAlone

\* No title is left in no library by a deletion alone.
EveryTitleHeld == L!EveryTitleHeld

\* Deleting a library takes no title that another library holds.
SharedTitlesSurvive == L!SharedTitlesSurvive
=============================================================================
