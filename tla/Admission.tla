----------------------------- MODULE Admission -----------------------------
(***************************************************************************)
(* What quick connect promises, without saying how.  A device asks for a   *)
(* request, a user allows it, and the device gets in as that user: once at *)
(* most, and only if it was allowed.  SignIn implements it.                *)
(***************************************************************************)
EXTENDS Naturals

CONSTANTS
  User,     \* accounts
  Secret,   \* the secrets requests are known by
  None      \* no user

VARIABLES
  stage,    \* stage[s]: how far the request with secret s has come
  made      \* made[s]: how many sessions it has led to, by user

vars == <<stage, made>>

At(stages, user) == [at: stages, user: user]

Stage == At({"unused", "pending", "admitted", "gone"}, {None})
           \cup At({"allowed", "taken"}, User)

In(name, user) == [at |-> name, user |-> user]

TypeOK ==
  /\ stage \in [Secret -> Stage]
  /\ made \in [Secret -> [User -> Nat]]

Init ==
  /\ stage = [s \in Secret |-> In("unused", None)]
  /\ made = [s \in Secret |-> [u \in User |-> 0]]

Move(s, from, to, user) ==
  /\ stage[s].at = from
  /\ stage' = [stage EXCEPT ![s] = In(to, user)]

Ask(s) == Move(s, "unused", "pending", None) /\ UNCHANGED made

Allow(s, u) == Move(s, "pending", "allowed", u) /\ UNCHANGED made

Take(s) == Move(s, "allowed", "taken", stage[s].user) /\ UNCHANGED made

\* The only step that makes a session, for the user who allowed it.
Admit(s) ==
  /\ Move(s, "taken", "admitted", None)
  /\ made' = [made EXCEPT ![s][stage[s].user] = @ + 1]

\* Requests expire, go with the user who allowed them, or fail when taken.
Drop(S) ==
  /\ \A s \in S : stage[s].at \in {"pending", "allowed", "taken"}
  /\ stage' = [s \in Secret |-> IF s \in S THEN In("gone", None) ELSE stage[s]]
  /\ UNCHANGED made

\* Every step takes some request further.
Next ==
  /\ stage' # stage
  /\ \/ \E s \in Secret : Ask(s) \/ Take(s) \/ Admit(s)
     \/ \E s \in Secret, u \in User : Allow(s, u)
     \/ \E S \in SUBSET Secret : Drop(S)

Spec == Init /\ [][Next]_vars
=============================================================================
