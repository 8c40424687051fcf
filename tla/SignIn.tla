------------------------------- MODULE SignIn -------------------------------
(***************************************************************************)
(* Accounts, sessions and quick connect: what the handlers of              *)
(* internal/server/user and internal/server/quickconnect do to the rows    *)
(* of users, their policies, sessions and quick_connect_requests, one      *)
(* action per statement.                                                   *)
(***************************************************************************)
EXTENDS Naturals

CONSTANTS
  User,       \* accounts
  Founders,   \* those that exist from the start
  Admins,     \* those that start as administrators
  Client,     \* devices, each with one call under way at most
  Secret,     \* secrets of quick connect requests
  Code,       \* the codes shown to a user
  Token,      \* access tokens
  None,       \* no row, no user
  Limit       \* at most so many changes to accounts and faults

\* What the constants are to be: the instances assume it.
Parameters ==
  /\ Admins \subseteq Founders /\ Founders \subseteq User
  /\ None \notin User \cup Secret \cup Code \cup Token
  /\ Limit \in Nat

VARIABLES
  accounts,   \* users and user_policies
  requests,   \* quick_connect_requests by secret
  sessions,   \* sessions by token
  calls,      \* the call each device has under way, None for none
  asked,      \* history: the secrets handed out
  made,       \* history: how many sessions each secret led to, by user
  botched,    \* history: users whose sessions a failed change left
  spent       \* how much of the limit is used up

vars == <<accounts, requests, sessions, calls, asked, made, botched, spent>>

Account == [life: {"none", "there", "gone"}, admin: BOOLEAN, disabled: BOOLEAN, password: Nat]
Request == [code: Code, live: BOOLEAN, by: User \cup {None}]

\* A session knows its user and device. `password' is the one it was opened
\* with, None by quick connect; `spanned' tells that its sign-in was under way
\* while sessions of its user were revoked. No statement reads these two.
Session == [user: User, device: Client, revoked: BOOLEAN, held: BOOLEAN,
            password: Nat \cup {None}, spanned: BOOLEAN]

Call == [pc: {"sweep", "create", "allow", "redeem", "user", "session",
              "answer", "set", "revoke", "policy"},
         user: User \cup {None}, secret: Secret \cup {None},
         code: Code \cup {None}, token: Token \cup {None},
         password: Nat \cup {None}, spanned: BOOLEAN,
         disable: BOOLEAN, admin: BOOLEAN]

\* No row and no call is None: assumed where it is used.
NoneApart == None \notin Request \cup Call

TypeOK ==
  /\ accounts \in [User -> Account]
  /\ requests \in [Secret -> Request \cup {None}]
  /\ sessions \in [Token -> Session \cup {None}]
  /\ calls \in [Client -> Call \cup {None}]
  /\ asked \subseteq Secret
  /\ made \in [Secret -> [User -> Nat]]
  /\ botched \subseteq User
  /\ spent \in 0..Limit

Init ==
  /\ accounts = [u \in User |-> [life |-> IF u \in Founders THEN "there" ELSE "none",
                                 admin |-> u \in Admins, disabled |-> FALSE,
                                 password |-> 0]]
  /\ requests = [s \in Secret |-> None]
  /\ sessions = [t \in Token |-> None]
  /\ calls = [c \in Client |-> None]
  /\ asked = {}
  /\ made = [s \in Secret |-> [u \in User |-> 0]]
  /\ botched = {}
  /\ spent = 0

-----------------------------------------------------------------------------
(* Calls.                                                                  *)

NewCall(pc) ==
  [pc |-> pc, user |-> None, secret |-> None, code |-> None, token |-> None,
   password |-> None, spanned |-> FALSE, disable |-> FALSE, admin |-> FALSE]

Idle(c) == calls[c] = None
At(c, pc) == ~Idle(c) /\ calls[c].pc = pc
Set(c, call) == calls' = [calls EXCEPT ![c] = call]
Ends(c) == Set(c, None)

Spends == spent < Limit /\ spent' = spent + 1

There(u) == accounts[u].life = "there"

\* ByToken, as Authenticate asks it before every handler.
Accepted(t) ==
  /\ sessions[t] # None
  /\ ~sessions[t].revoked
  /\ ~accounts[sessions[t].user].disabled

Caller(u) == \E t \in Token : Accepted(t) /\ sessions[t].held /\ sessions[t].user = u
Elevated == \E u \in User : Caller(u) /\ accounts[u].admin

Busy == {c \in Client : ~Idle(c)}
Unused(t) == sessions[t] = None /\ t \notin {calls[c].token : c \in Busy}

-----------------------------------------------------------------------------
(* Quick connect.                                                          *)

\* Initiate.
Initiate(c) ==
  /\ Idle(c)
  /\ Set(c, NewCall("sweep"))
  /\ UNCHANGED <<accounts, requests, sessions, asked, made, botched, spent>>

SweepExpired(c) ==
  /\ At(c, "sweep")
  /\ requests' = [s \in Secret |->
                    IF requests[s] # None /\ ~requests[s].live THEN None ELSE requests[s]]
  /\ Set(c, [calls[c] EXCEPT !.pc = "create"])
  /\ UNCHANGED <<accounts, sessions, asked, made, botched, spent>>

CodeTaken(k) == \E s \in Secret : requests[s] # None /\ requests[s].code = k

\* A code some row still has makes the insert fail.
CreateRequest(c) ==
  /\ At(c, "create")
  /\ \E k \in Code :
       IF CodeTaken(k)
       THEN UNCHANGED <<requests, asked>>
       ELSE \E s \in Secret \ asked :
              /\ requests' = [requests EXCEPT ![s] = [code |-> k, live |-> TRUE, by |-> None]]
              /\ asked' = asked \cup {s}
  /\ Ends(c)
  /\ UNCHANGED <<accounts, sessions, made, botched, spent>>

\* AuthorizeQuickConnect: for another user by an administrator only.
Authorizes(c) ==
  /\ Idle(c)
  /\ \E by, u \in User, k \in Code :
       /\ Caller(by)
       /\ by = u \/ (accounts[by].admin /\ There(u))
       /\ Set(c, [NewCall("allow") EXCEPT !.user = u, !.code = k])
  /\ UNCHANGED <<accounts, requests, sessions, asked, made, botched, spent>>

\* slip: the request may have been allowed already.
MatchesAny(s, k) == requests[s] # None /\ requests[s].code = k /\ requests[s].live

Matches(s, k) ==
  /\ requests[s] # None
  /\ requests[s].code = k /\ requests[s].live /\ requests[s].by = None

\* Authorize. The row refers to the user, who must still be there.
Authorize(c) ==
  /\ At(c, "allow")
  /\ requests' = [s \in Secret |->
                    IF Matches(s, calls[c].code) /\ There(calls[c].user)
                    THEN [requests[s] EXCEPT !.by = calls[c].user] ELSE requests[s]]
  /\ Ends(c)
  /\ UNCHANGED <<accounts, sessions, asked, made, botched, spent>>

Expire(s) ==
  /\ requests[s] # None /\ requests[s].live
  /\ requests' = [requests EXCEPT ![s].live = FALSE]
  /\ UNCHANGED <<accounts, sessions, calls, asked, made, botched, spent>>

\* AuthenticateWithQuickConnect, with a secret that was handed out.
SignsInWithSecret(c) ==
  /\ Idle(c)
  /\ \E s \in asked : Set(c, [NewCall("redeem") EXCEPT !.secret = s])
  /\ UNCHANGED <<accounts, requests, sessions, asked, made, botched, spent>>

Redeemable(s) == requests[s] # None /\ requests[s].live /\ requests[s].by # None

\* Redeem: one statement deletes the row and returns who allowed it.
Redeem(c) ==
  /\ At(c, "redeem")
  /\ LET s == calls[c].secret IN
       IF Redeemable(s)
       THEN /\ requests' = [requests EXCEPT ![s] = None]
            /\ Set(c, [calls[c] EXCEPT !.pc = "user", !.user = requests[s].by])
       ELSE Ends(c) /\ UNCHANGED requests
  /\ UNCHANGED <<accounts, sessions, asked, made, botched, spent>>

\* The user and its policy are read; authenticate looks at what was read.
ReadUser(c) ==
  /\ At(c, "user")
  /\ LET u == calls[c].user IN
       IF There(u) /\ ~accounts[u].disabled
       THEN Set(c, [calls[c] EXCEPT !.pc = "session"])
       ELSE Ends(c)
  /\ UNCHANGED <<accounts, requests, sessions, asked, made, botched, spent>>

-----------------------------------------------------------------------------
(* Sessions.                                                               *)

\* AuthenticateUserByName up to the check of the policy: user, hash and policy
\* are read, and the rest goes by what was read. Others end without a trace.
SignsInByName(c) ==
  /\ Idle(c)
  /\ \E u \in User :
       /\ There(u) /\ ~accounts[u].disabled
       /\ Set(c, [NewCall("session") EXCEPT !.user = u, !.password = accounts[u].password])
  /\ UNCHANGED <<accounts, requests, sessions, asked, made, botched, spent>>

\* Create's transaction: the row refers to the user, who must still be there.
CreateSession(c) ==
  /\ At(c, "session")
  /\ LET call == calls[c] IN
       IF There(call.user)
       THEN \E t \in Token :
              /\ Unused(t)
              /\ sessions' = [sessions EXCEPT ![t] =
                   [user |-> call.user, device |-> c, revoked |-> FALSE, held |-> FALSE,
                    password |-> call.password, spanned |-> call.spanned]]
              /\ Set(c, [call EXCEPT !.pc = "answer", !.token = t])
              /\ made' = IF call.secret = None THEN made
                         ELSE [made EXCEPT ![call.secret][call.user] = @ + 1]
       ELSE Ends(c) /\ UNCHANGED <<sessions, made>>
  /\ UNCHANGED <<accounts, requests, asked, botched, spent>>

\* Create's ByToken refuses what is revoked, removed or disabled by now, and the
\* row, if it is there, stays; else TouchLogin, which writes dates only, and the
\* answer. Until then nobody has the token.
Answer(c) ==
  /\ At(c, "answer")
  /\ LET t == calls[c].token IN
       sessions' = IF Accepted(t) THEN [sessions EXCEPT ![t].held = TRUE] ELSE sessions
  /\ Ends(c)
  /\ UNCHANGED <<accounts, requests, asked, made, botched, spent>>

\* ReportSessionEnded; RemoveDevice, with the sessions of the device.
SignOut(t) ==
  /\ sessions[t] # None /\ sessions[t].held
  /\ sessions' = [sessions EXCEPT ![t] = None]
  /\ UNCHANGED <<accounts, requests, calls, asked, made, botched, spent>>

RemoveDevice(d) ==
  /\ Elevated
  /\ \E t \in Token : sessions[t] # None /\ sessions[t].device = d
  /\ sessions' = [t \in Token |->
                    IF sessions[t] # None /\ sessions[t].device = d THEN None ELSE sessions[t]]
  /\ UNCHANGED <<accounts, requests, calls, asked, made, botched, spent>>

-----------------------------------------------------------------------------
(* Accounts.                                                               *)

\* UpdateUserPassword up to the last check: by the user with the password that
\* was read, or by an administrator. The command resetpassword checks nothing.
ChangesPassword(c) ==
  /\ Idle(c)
  /\ Spends
  /\ \E u \in User : There(u) /\ Set(c, [NewCall("set") EXCEPT !.user = u])
  /\ UNCHANGED <<accounts, requests, sessions, asked, made, botched>>

\* SetPassword; every password set is a new one.
SetPassword(c) ==
  /\ At(c, "set")
  /\ LET u == calls[c].user IN
       IF There(u)
       THEN /\ accounts' = [accounts EXCEPT ![u].password = @ + 1]
            /\ Set(c, [calls[c] EXCEPT !.pc = "revoke"])
       ELSE Ends(c) /\ UNCHANGED accounts
  /\ UNCHANGED <<requests, sessions, asked, made, botched, spent>>

\* slip: the device the password was changed from stays signed in.
RevokedElsewhere(t, c) ==
  sessions[t] # None /\ sessions[t].user = calls[c].user /\ sessions[t].device # c

RevokedBy(t, c) == sessions[t] # None /\ sessions[t].user = calls[c].user

\* History: the sign-ins of the user under way pass it on to their sessions.
Spanned(d, u) ==
  IF ~Idle(d) /\ calls[d].user = u THEN [calls[d] EXCEPT !.spanned = TRUE] ELSE calls[d]

RevokeForUser(c) ==
  /\ At(c, "revoke")
  /\ sessions' = [t \in Token |->
                    IF RevokedBy(t, c) THEN [sessions[t] EXCEPT !.revoked = TRUE]
                    ELSE sessions[t]]
  /\ calls' = [d \in Client |-> IF d = c THEN None ELSE Spanned(d, calls[c].user)]
  /\ UNCHANGED <<accounts, requests, asked, made, botched, spent>>

CreateUser ==
  /\ Elevated
  /\ Spends
  /\ \E u \in User :
       /\ accounts[u].life = "none"
       /\ accounts' = [accounts EXCEPT ![u].life = "there"]
  /\ UNCHANGED <<requests, sessions, calls, asked, made, botched>>

\* UpdateUserPolicy up to its check, by the policy read then. Clients send a policy
\* whole.
UpdatesPolicy(c) ==
  /\ Idle(c)
  /\ Elevated
  /\ Spends
  /\ \E u \in User, disable, admin \in BOOLEAN :
       /\ There(u)
       /\ ~(disable /\ accounts[u].admin)
       /\ Set(c, [NewCall("policy") EXCEPT !.user = u, !.disable = disable, !.admin = admin])
  /\ UNCHANGED <<accounts, requests, sessions, asked, made, botched>>

\* savePolicy. The policy goes with its user; updating none is no error.
SavePolicy(c) ==
  /\ At(c, "policy")
  /\ LET call == calls[c] IN
       accounts' = [accounts EXCEPT ![call.user] =
                      IF There(call.user)
                      THEN [@ EXCEPT !.disabled = call.disable, !.admin = call.admin] ELSE @]
  /\ Ends(c)
  /\ UNCHANGED <<requests, sessions, asked, made, botched, spent>>

\* DeleteUser, with the policy, the sessions and the requests of the user.
DeleteUser(u) ==
  /\ Elevated
  /\ There(u)
  /\ Spends
  /\ accounts' = [accounts EXCEPT ![u].life = "gone"]
  /\ sessions' = [t \in Token |->
                    IF sessions[t] # None /\ sessions[t].user = u THEN None ELSE sessions[t]]
  /\ requests' = [s \in Secret |->
                    IF requests[s] # None /\ requests[s].by = u THEN None ELSE requests[s]]
  /\ UNCHANGED <<calls, asked, made, botched>>

\* A statement that fails ends its call; what the call did before stays done.
CallFails(c) ==
  /\ ~Idle(c)
  /\ Spends
  /\ botched' = IF At(c, "revoke") THEN botched \cup {calls[c].user} ELSE botched
  /\ Ends(c)
  /\ UNCHANGED <<accounts, requests, sessions, asked, made>>

-----------------------------------------------------------------------------
CallStep(c) ==
  \/ SweepExpired(c) \/ CreateRequest(c) \/ Authorize(c) \/ Redeem(c) \/ ReadUser(c)
  \/ CreateSession(c) \/ Answer(c)
  \/ SetPassword(c) \/ RevokeForUser(c) \/ SavePolicy(c)

CallBegins(c) ==
  \/ Initiate(c) \/ Authorizes(c) \/ SignsInWithSecret(c) \/ SignsInByName(c)
  \/ ChangesPassword(c) \/ UpdatesPolicy(c)

Next ==
  \/ \E c \in Client : CallBegins(c) \/ CallStep(c) \/ CallFails(c) \/ RemoveDevice(c)
  \/ \E s \in Secret : Expire(s)
  \/ \E t \in Token : SignOut(t)
  \/ \E u \in User : DeleteUser(u)
  \/ CreateUser

Spec == Init /\ [][Next]_vars

-----------------------------------------------------------------------------
(* What must hold.                                                         *)

\* How far a request has come, as Admission has it. A row that has expired
\* counts for nothing, and so does one that was taken and led to no session.
Takers(s) ==
  {c \in Client : ~Idle(c) /\ calls[c].secret = s /\ calls[c].pc \in {"user", "session"}}

In(name, user) == [at |-> name, user |-> user]

StageOf(s) ==
  IF \E u \in User : made[s][u] > 0 THEN In("admitted", None)
  ELSE IF Takers(s) # {} THEN In("taken", calls[CHOOSE c \in Takers(s) : TRUE].user)
  ELSE IF requests[s] # None /\ requests[s].live
       THEN In(IF requests[s].by = None THEN "pending" ELSE "allowed", requests[s].by)
  ELSE In(IF s \in asked THEN "gone" ELSE "unused", None)

Promise == INSTANCE Admission WITH stage <- [s \in Secret |-> StageOf(s)]

\* A request leads to one session at most, only once a user has allowed it, and
\* to a session of that user, whoever redeems it at once, lets it expire,
\* deletes the user or fails in between (Redeem's one DELETE ... RETURNING).
KeepsPromise == Promise!Spec

\* A password change that has answered has ended every session opened with an
\* older password, but for a sign-in that was under way when the sessions were
\* revoked (UpdateUserPassword: SetPassword, then RevokeForUser).
OldPasswordsEnd ==
  \A t \in Token :
    LET session == sessions[t] IN
    (session # None /\ ~session.revoked /\ session.password # None)
      => \/ session.password = accounts[session.user].password
         \/ session.spanned
         \/ session.user \in botched
         \/ \E c \in Client : At(c, "revoke") /\ calls[c].user = session.user
=============================================================================
