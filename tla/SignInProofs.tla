---------------------------- MODULE SignInProofs ----------------------------
(***************************************************************************)
(* For any number of accounts, devices, secrets and tokens: the types of   *)
(* SignIn, the end of sessions with old passwords, and that quick connect  *)
(* keeps what Admission promises.                                          *)
(***************************************************************************)
EXTENDS SignIn, TLAPS

-----------------------------------------------------------------------------
(* Types.                                                                  *)

\* What a call knows at each of its statements.
Named(call, handed) ==
  /\ call.secret \in handed \cup {None}
  /\ call.pc \in {"redeem", "user"} => call.secret # None
  /\ call.pc \in {"allow", "user", "session", "set", "revoke", "policy"} => call.user \in User
  /\ call.pc = "answer" => call.token \in Token

Typed == TypeOK /\ \A c \in Client : ~Idle(c) => Named(calls[c], asked)

LEMMA InitTyped == ASSUME Parameters PROVE Init => Typed
<1> SUFFICES ASSUME Init PROVE Typed
  OBVIOUS
<1>1. accounts \in [User -> Account]
  BY DEF Init, Account
<1>2. made \in [Secret -> [User -> Nat]]
  BY DEF Init
<1>3. \A c \in Client : Idle(c)
  BY DEF Init, Idle
<1>4. QED
  BY <1>1, <1>2, <1>3 DEF Init, TypeOK, Typed, Parameters

(* A call under way is one, and names what it needs.                       *)
LEMMA Underway ==
    ASSUME Typed, NEW c \in Client, ~Idle(c)
    PROVE  calls[c] \in Call /\ Named(calls[c], asked)
BY DEF Typed, TypeOK, Idle

(* When only the call of c goes on, to one that names what it needs, the   *)
(* calls keep their types.                                                 *)
LEMMA OneGoesOn ==
    ASSUME Typed, NEW c \in Client, NEW call \in Call \cup {None}, Set(c, call),
           asked \subseteq asked', call # None => Named(call, asked')
    PROVE  /\ calls' \in [Client -> Call \cup {None}]
           /\ \A d \in Client : ~Idle(d)' => Named(calls'[d], asked')
<1>1. calls' = [calls EXCEPT ![c] = call] /\ calls \in [Client -> Call \cup {None}]
  BY DEF Set, Typed, TypeOK
<1>2. ASSUME NEW d \in Client, ~Idle(d)' PROVE Named(calls'[d], asked')
  <2>1. CASE d = c
    BY <1>1, <1>2, <2>1 DEF Idle
  <2>2. CASE d # c
    BY <1>1, <1>2, <2>2 DEF Typed, Idle, Named
  <2>3. QED
    BY <2>1, <2>2
<1>3. QED
  BY <1>1, <1>2

\* A call that begins: one that signs in by name does so with the password that
\* was read, and no other is past its redeeming.
Fresh(call) ==
  /\ call \in Call
  /\ Named(call, asked)
  /\ call.pc \notin {"user", "revoke"}
  /\ call.pc = "redeem" => call.password = None
  /\ call.pc = "session" => /\ call.secret = None
                            /\ call.password = accounts[call.user].password

(* A call begins with what it is given.                                    *)
LEMMA Begun ==
    ASSUME Parameters, Typed, NEW c \in Client, CallBegins(c)
    PROVE  /\ Idle(c)
           /\ \E call : Fresh(call) /\ Set(c, call)
           /\ UNCHANGED <<accounts, requests, sessions, asked, made, botched>>
           /\ spent' \in 0..Limit
<1>1. CASE Initiate(c)
  <2>1. Fresh(NewCall("sweep"))
    BY DEF NewCall, Call, Named, Fresh
  <2>2. QED
    BY <1>1, <2>1 DEF Initiate, Typed, TypeOK
<1>2. CASE Authorizes(c)
  <2>1. ASSUME NEW u \in User, NEW k \in Code
        PROVE  Fresh([NewCall("allow") EXCEPT !.user = u, !.code = k])
    BY DEF NewCall, Call, Named, Fresh
  <2>2. QED
    BY <1>2, <2>1 DEF Authorizes, Typed, TypeOK
<1>3. CASE SignsInWithSecret(c)
  <2>1. ASSUME NEW s \in asked PROVE Fresh([NewCall("redeem") EXCEPT !.secret = s])
    <3>1. s \in Secret /\ s # None
      BY DEF Typed, TypeOK, Parameters
    <3>2. QED
      BY <3>1 DEF NewCall, Call, Named, Fresh
  <2>2. QED
    BY <1>3, <2>1 DEF SignsInWithSecret, Typed, TypeOK
<1>4. CASE SignsInByName(c)
  <2>1. ASSUME NEW u \in User
        PROVE  Fresh([NewCall("session") EXCEPT !.user = u, !.password = accounts[u].password])
    <3>1. accounts[u].password \in Nat
      BY DEF Typed, TypeOK, Account
    <3>2. QED
      BY <3>1 DEF NewCall, Call, Named, Fresh
  <2>2. QED
    BY <1>4, <2>1 DEF SignsInByName, Typed, TypeOK
<1>5. CASE ChangesPassword(c)
  <2>1. ASSUME NEW u \in User PROVE Fresh([NewCall("set") EXCEPT !.user = u])
    BY DEF NewCall, Call, Named, Fresh
  <2>2. spent' \in 0..Limit
    BY <1>5 DEF ChangesPassword, Spends, Typed, TypeOK, Parameters
  <2>3. QED
    BY <1>5, <2>1, <2>2 DEF ChangesPassword
<1>6. CASE UpdatesPolicy(c)
  <2>1. ASSUME NEW u \in User, NEW disable \in BOOLEAN, NEW admin \in BOOLEAN
        PROVE  Fresh([NewCall("policy") EXCEPT !.user = u, !.disable = disable,
                                               !.admin = admin])
    BY DEF NewCall, Call, Named, Fresh
  <2>2. spent' \in 0..Limit
    BY <1>6 DEF UpdatesPolicy, Spends, Typed, TypeOK, Parameters
  <2>3. QED
    BY <1>6, <2>1, <2>2 DEF UpdatesPolicy
<1>7. QED
  BY <1>1, <1>2, <1>3, <1>4, <1>5, <1>6 DEF CallBegins

LEMMA BeginsTyped ==
    ASSUME Parameters, Typed, NEW c \in Client, CallBegins(c) PROVE Typed'
<1>1. PICK call : Fresh(call) /\ Set(c, call)
  BY Begun
<1>2. UNCHANGED <<accounts, requests, sessions, asked, made, botched>> /\ spent' \in 0..Limit
  BY Begun
<1>3. /\ calls' \in [Client -> Call \cup {None}]
      /\ \A d \in Client : ~Idle(d)' => Named(calls'[d], asked')
  BY <1>1, <1>2, OneGoesOn DEF Fresh
<1>4. QED
  BY <1>2, <1>3 DEF Typed, TypeOK

(* What a call that goes on becomes, statement by statement.               *)
LEMMA RequestStepsTyped ==
    ASSUME Parameters, Typed, NEW c \in Client,
           SweepExpired(c) \/ CreateRequest(c) \/ Authorize(c)
    PROVE  Typed'
<1>1. calls[c] \in Call /\ Named(calls[c], asked)
  BY Underway DEF SweepExpired, CreateRequest, Authorize, At
<1>2. /\ asked \subseteq asked' /\ asked' \subseteq Secret
      /\ requests' \in [Secret -> Request \cup {None}]
  <2>1. CASE SweepExpired(c)
    BY <2>1 DEF SweepExpired, Typed, TypeOK
  <2>2. CASE CreateRequest(c)
    <3>1. CASE UNCHANGED <<requests, asked>>
      BY <3>1 DEF Typed, TypeOK
    <3>2. ASSUME NEW k \in Code, NEW s \in Secret \ asked,
                 requests' = [requests EXCEPT ![s] = [code |-> k, live |-> TRUE, by |-> None]],
                 asked' = asked \cup {s}
          PROVE  /\ asked \subseteq asked' /\ asked' \subseteq Secret
                 /\ requests' \in [Secret -> Request \cup {None}]
      <4>1. [code |-> k, live |-> TRUE, by |-> None] \in Request
        BY DEF Request
      <4>2. QED
        BY <3>2, <4>1 DEF Typed, TypeOK
    <3>3. QED
      BY <2>2, <3>1, <3>2 DEF CreateRequest
  <2>3. CASE Authorize(c)
    <3>1. ASSUME NEW s \in Secret, requests[s] # None
          PROVE  [requests[s] EXCEPT !.by = calls[c].user] \in Request
      <4>1. requests[s] \in Request
        BY <3>1 DEF Typed, TypeOK
      <4>2. calls[c].user \in User
        BY <1>1, <2>3 DEF Authorize, At, Named
      <4>3. QED
        BY <4>1, <4>2 DEF Request
    <3>2. \A s \in Secret : requests[s] \in Request \cup {None}
      BY DEF Typed, TypeOK
    <3>3. \A s \in Secret : Matches(s, calls[c].code) => requests[s] # None
      BY DEF Matches
    <3>4. QED
      BY <2>3, <3>1, <3>2, <3>3 DEF Authorize, Typed, TypeOK
  <2>4. QED
    BY <2>1, <2>2, <2>3
<1>3. /\ calls' \in [Client -> Call \cup {None}]
      /\ \A d \in Client : ~Idle(d)' => Named(calls'[d], asked')
  <2>1. CASE SweepExpired(c)
    <3>1. [calls[c] EXCEPT !.pc = "create"] \in Call
      BY <1>1 DEF Call
    <3>2. Named([calls[c] EXCEPT !.pc = "create"], asked')
      BY <1>1, <2>1 DEF Named, Call, SweepExpired
    <3>3. QED
      BY <1>2, <2>1, <3>1, <3>2, OneGoesOn DEF SweepExpired
  <2>2. CASE CreateRequest(c) \/ Authorize(c)
    BY <1>2, <2>2, OneGoesOn DEF CreateRequest, Authorize, Ends
  <2>3. QED
    BY <2>1, <2>2
<1>4. UNCHANGED <<accounts, sessions, made, botched, spent>>
  BY DEF SweepExpired, CreateRequest, Authorize
<1>5. QED
  BY <1>2, <1>3, <1>4 DEF Typed, TypeOK

LEMMA SessionStepsTyped ==
    ASSUME Parameters, Typed, NEW c \in Client,
           Redeem(c) \/ ReadUser(c) \/ CreateSession(c) \/ Answer(c)
    PROVE  Typed'
<1>1. calls[c] \in Call /\ Named(calls[c], asked)
  BY Underway DEF Redeem, ReadUser, CreateSession, Answer, At
<1>2. CASE Redeem(c)
  <2> DEFINE s == calls[c].secret
             call == [calls[c] EXCEPT !.pc = "user", !.user = requests[s].by]
  <2>1. s \in asked /\ s \in Secret /\ s # None
    BY <1>1, <1>2 DEF Redeem, At, Named, Typed, TypeOK
  <2>2. CASE Redeemable(s)
    <3>1. requests[s].by \in User
      BY <2>1, <2>2 DEF Redeemable, Typed, TypeOK, Request
    <3>2. call \in Call /\ Named(call, asked)
      BY <1>1, <2>1, <3>1 DEF Call, Named
    <3>3. Set(c, call) /\ requests' = [requests EXCEPT ![s] = None] /\ asked' = asked
      BY <1>2, <2>2 DEF Redeem
    <3> HIDE DEF call
    <3>4. QED
      BY <1>2, <3>2, <3>3, OneGoesOn DEF Redeem, Typed, TypeOK
  <2>3. CASE ~Redeemable(s)
    BY <1>2, <2>3, OneGoesOn DEF Redeem, Ends, Typed, TypeOK
  <2>4. QED
    BY <2>2, <2>3
<1>3. CASE ReadUser(c)
  <2>1. [calls[c] EXCEPT !.pc = "session"] \in Call
    BY <1>1 DEF Call
  <2>2. Named([calls[c] EXCEPT !.pc = "session"], asked)
    BY <1>1, <1>3 DEF Named, Call, ReadUser, At
  <2>3. asked' = asked /\ (Set(c, [calls[c] EXCEPT !.pc = "session"]) \/ Set(c, None))
    BY <1>3 DEF ReadUser, Ends
  <2>4. /\ calls' \in [Client -> Call \cup {None}]
        /\ \A d \in Client : ~Idle(d)' => Named(calls'[d], asked')
    BY <2>1, <2>2, <2>3, OneGoesOn
  <2>5. QED
    BY <1>3, <2>4 DEF ReadUser, Typed, TypeOK
<1>4. CASE CreateSession(c)
  <2>1. calls[c].user \in User
    BY <1>1, <1>4 DEF CreateSession, At, Named
  <2>2. CASE ~There(calls[c].user)
    BY <1>4, <2>2, OneGoesOn DEF CreateSession, Ends, Typed, TypeOK
  <2>3. CASE There(calls[c].user)
    <3>1. PICK t \in Token :
             /\ sessions' = [sessions EXCEPT ![t] =
                  [user |-> calls[c].user, device |-> c, revoked |-> FALSE, held |-> FALSE,
                   password |-> calls[c].password, spanned |-> calls[c].spanned]]
             /\ Set(c, [calls[c] EXCEPT !.pc = "answer", !.token = t])
             /\ made' = IF calls[c].secret = None THEN made
                        ELSE [made EXCEPT ![calls[c].secret][calls[c].user] = @ + 1]
      BY <1>4, <2>3 DEF CreateSession
    <3> DEFINE call == [calls[c] EXCEPT !.pc = "answer", !.token = t]
    <3>2. call \in Call /\ Named(call, asked)
      BY <1>1 DEF Call, Named
    <3>3. [user |-> calls[c].user, device |-> c, revoked |-> FALSE, held |-> FALSE,
           password |-> calls[c].password, spanned |-> calls[c].spanned] \in Session
      BY <1>1, <2>1 DEF Call, Session
    <3>4. sessions' \in [Token -> Session \cup {None}]
      BY <3>1, <3>3 DEF Typed, TypeOK
    <3>5. made' \in [Secret -> [User -> Nat]]
      <4>1. CASE calls[c].secret = None
        BY <3>1, <4>1 DEF Typed, TypeOK
      <4>2. CASE calls[c].secret # None
        <5>1. calls[c].secret \in Secret
          BY <1>1, <4>2 DEF Call
        <5>2. made[calls[c].secret] \in [User -> Nat]
          BY <5>1 DEF Typed, TypeOK
        <5>3. [made[calls[c].secret] EXCEPT ![calls[c].user] = @ + 1] \in [User -> Nat]
          BY <2>1, <5>2
        <5>4. made' = [made EXCEPT ![calls[c].secret] =
                         [made[calls[c].secret] EXCEPT ![calls[c].user] = @ + 1]]
          BY <3>1, <4>2, <5>1 DEF Typed, TypeOK
        <5>5. QED
          BY <5>3, <5>4 DEF Typed, TypeOK
      <4>3. QED
        BY <4>1, <4>2
    <3>6. UNCHANGED <<accounts, requests, asked, botched, spent>>
      BY <1>4 DEF CreateSession
    <3> HIDE DEF call
    <3>7. /\ calls' \in [Client -> Call \cup {None}]
          /\ \A d \in Client : ~Idle(d)' => Named(calls'[d], asked')
      BY <3>1, <3>2, <3>6, OneGoesOn DEF call
    <3>8. QED
      BY <3>4, <3>5, <3>6, <3>7 DEF Typed, TypeOK
  <2>4. QED
    BY <2>2, <2>3
<1>5. CASE Answer(c)
  <2>1. calls[c].token \in Token
    BY <1>1, <1>5 DEF Answer, At, Named
  <2>2. ASSUME sessions[calls[c].token] # None
        PROVE  [sessions[calls[c].token] EXCEPT !.held = TRUE] \in Session
    <3>1. sessions[calls[c].token] \in Session
      BY <2>1, <2>2 DEF Typed, TypeOK
    <3>2. QED
      BY <3>1 DEF Session
  <2>3. sessions' \in [Token -> Session \cup {None}]
    BY <1>5, <2>1, <2>2 DEF Answer, Accepted, Typed, TypeOK
  <2>4. asked' = asked /\ Set(c, None)
    BY <1>5 DEF Answer, Ends
  <2>5. /\ calls' \in [Client -> Call \cup {None}]
        /\ \A d \in Client : ~Idle(d)' => Named(calls'[d], asked')
    BY <2>4, OneGoesOn
  <2>6. QED
    BY <1>5, <2>3, <2>5 DEF Answer, Typed, TypeOK
<1>6. QED
  BY <1>2, <1>3, <1>4, <1>5

LEMMA AccountStepsTyped ==
    ASSUME Parameters, Typed, NEW c \in Client,
           SetPassword(c) \/ RevokeForUser(c) \/ SavePolicy(c)
    PROVE  Typed'
<1>1. calls[c] \in Call /\ Named(calls[c], asked)
  BY Underway DEF SetPassword, RevokeForUser, SavePolicy, At
<1>2. calls[c].user \in User
  BY <1>1 DEF SetPassword, RevokeForUser, SavePolicy, At, Named
<1>3. accounts[calls[c].user] \in Account
  BY <1>2 DEF Typed, TypeOK
<1>4. CASE SetPassword(c)
  <2>1. [accounts[calls[c].user] EXCEPT !.password = @ + 1] \in Account
    BY <1>3 DEF Account
  <2>2. accounts' \in [User -> Account]
    BY <1>2, <1>4, <2>1 DEF SetPassword, Typed, TypeOK
  <2>3. /\ [calls[c] EXCEPT !.pc = "revoke"] \in Call
        /\ Named([calls[c] EXCEPT !.pc = "revoke"], asked)
    BY <1>1, <1>2 DEF Call, Named
  <2>4. asked' = asked /\ (Set(c, [calls[c] EXCEPT !.pc = "revoke"]) \/ Set(c, None))
    BY <1>4 DEF SetPassword, Ends
  <2>5. /\ calls' \in [Client -> Call \cup {None}]
        /\ \A d \in Client : ~Idle(d)' => Named(calls'[d], asked')
    BY <2>3, <2>4, OneGoesOn
  <2>6. QED
    BY <1>4, <2>2, <2>5 DEF SetPassword, Typed, TypeOK
<1>5. CASE RevokeForUser(c)
  <2>1. ASSUME NEW t \in Token, sessions[t] # None
        PROVE  [sessions[t] EXCEPT !.revoked = TRUE] \in Session
    <3>1. sessions[t] \in Session
      BY <2>1 DEF Typed, TypeOK
    <3>2. QED
      BY <3>1 DEF Session
  <2>2. sessions' \in [Token -> Session \cup {None}]
    BY <1>5, <2>1 DEF RevokeForUser, RevokedBy, Typed, TypeOK
  <2>3. ASSUME NEW d \in Client, ~Idle(d)
        PROVE  /\ [calls[d] EXCEPT !.spanned = TRUE] \in Call
               /\ Named([calls[d] EXCEPT !.spanned = TRUE], asked)
    <3>1. calls[d] \in Call /\ Named(calls[d], asked)
      BY <2>3, Underway
    <3>2. QED
      BY <3>1 DEF Call, Named
  <2>4. ASSUME NEW d \in Client
        PROVE  /\ calls'[d] \in Call \cup {None}
               /\ calls'[d] # None => Named(calls'[d], asked)
    <3>1. calls'[d] = IF d = c THEN None
                      ELSE IF ~Idle(d) /\ calls[d].user = calls[c].user
                      THEN [calls[d] EXCEPT !.spanned = TRUE] ELSE calls[d]
      BY <1>5 DEF RevokeForUser, Spanned
    <3>2. calls[d] \in Call \cup {None} /\ (calls[d] # None => Named(calls[d], asked))
      BY DEF Typed, TypeOK, Idle
    <3>3. QED
      BY <2>3, <3>1, <3>2
  <2>5. DOMAIN calls' = Client /\ calls' = [d \in Client |-> calls'[d]]
    BY <1>5 DEF RevokeForUser
  <2>6. QED
    BY <1>5, <2>2, <2>4, <2>5 DEF RevokeForUser, Typed, TypeOK, Idle
<1>6. CASE SavePolicy(c)
  <2>1. [accounts[calls[c].user] EXCEPT !.disabled = calls[c].disable,
                                        !.admin = calls[c].admin] \in Account
    BY <1>1, <1>3 DEF Account, Call
  <2>2. accounts' \in [User -> Account]
    BY <1>2, <1>3, <1>6, <2>1 DEF SavePolicy, Typed, TypeOK
  <2>3. asked' = asked /\ Set(c, None)
    BY <1>6 DEF SavePolicy, Ends
  <2>4. /\ calls' \in [Client -> Call \cup {None}]
        /\ \A d \in Client : ~Idle(d)' => Named(calls'[d], asked')
    BY <2>3, OneGoesOn
  <2>5. QED
    BY <1>6, <2>2, <2>4 DEF SavePolicy, Typed, TypeOK
<1>7. QED
  BY <1>4, <1>5, <1>6

(* Rows that go or expire, users that come, calls that fail.               *)
LEMMA OthersTyped ==
    ASSUME Parameters, Typed,
           \/ \E c \in Client : CallFails(c) \/ RemoveDevice(c)
           \/ \E s \in Secret : Expire(s)
           \/ \E t \in Token : SignOut(t)
           \/ \E u \in User : DeleteUser(u)
           \/ CreateUser
    PROVE  Typed'
<1>1. ASSUME NEW c \in Client, CallFails(c) PROVE Typed'
  <2>1. calls[c] \in Call /\ Named(calls[c], asked)
    BY <1>1, Underway DEF CallFails
  <2>2. botched' \subseteq User
    BY <1>1, <2>1 DEF CallFails, At, Named, Typed, TypeOK
  <2>3. spent' \in 0..Limit
    BY <1>1 DEF CallFails, Spends, Typed, TypeOK, Parameters
  <2>4. asked' = asked /\ Set(c, None)
    BY <1>1 DEF CallFails, Ends
  <2>5. /\ calls' \in [Client -> Call \cup {None}]
        /\ \A d \in Client : ~Idle(d)' => Named(calls'[d], asked')
    BY <2>4, OneGoesOn
  <2>6. QED
    BY <1>1, <2>2, <2>3, <2>5 DEF CallFails, Typed, TypeOK
<1>2. ASSUME NEW c \in Client, RemoveDevice(c) PROVE Typed'
  BY <1>2 DEF RemoveDevice, Typed, TypeOK, Idle
<1>3. ASSUME NEW s \in Secret, Expire(s) PROVE Typed'
  <2>1. [requests[s] EXCEPT !.live = FALSE] \in Request
    <3>1. requests[s] \in Request
      BY <1>3 DEF Expire, Typed, TypeOK
    <3>2. QED
      BY <3>1 DEF Request
  <2>2. requests' \in [Secret -> Request \cup {None}]
    BY <1>3, <2>1 DEF Expire, Typed, TypeOK
  <2>3. QED
    BY <1>3, <2>2 DEF Expire, Typed, TypeOK, Idle
<1>4. ASSUME NEW t \in Token, SignOut(t) PROVE Typed'
  BY <1>4 DEF SignOut, Typed, TypeOK, Idle
<1>5. ASSUME NEW u \in User, DeleteUser(u) PROVE Typed'
  <2>1. [accounts[u] EXCEPT !.life = "gone"] \in Account
    BY DEF Account, Typed, TypeOK
  <2>2. accounts' \in [User -> Account]
    BY <1>5, <2>1 DEF DeleteUser, Typed, TypeOK
  <2>3. spent' \in 0..Limit
    BY <1>5 DEF DeleteUser, Spends, Typed, TypeOK, Parameters
  <2>4. /\ sessions' \in [Token -> Session \cup {None}]
        /\ requests' \in [Secret -> Request \cup {None}]
    BY <1>5 DEF DeleteUser, Typed, TypeOK
  <2>5. QED
    BY <1>5, <2>2, <2>3, <2>4 DEF DeleteUser, Typed, TypeOK, Idle
<1>6. ASSUME CreateUser PROVE Typed'
  <2>1. PICK u \in User : accounts' = [accounts EXCEPT ![u].life = "there"]
    BY <1>6 DEF CreateUser
  <2>2. [accounts[u] EXCEPT !.life = "there"] \in Account
    BY DEF Account, Typed, TypeOK
  <2>3. accounts' \in [User -> Account]
    BY <2>1, <2>2 DEF Typed, TypeOK
  <2>4. spent' \in 0..Limit
    BY <1>6 DEF CreateUser, Spends, Typed, TypeOK, Parameters
  <2>5. QED
    BY <1>6, <2>3, <2>4 DEF CreateUser, Typed, TypeOK, Idle
<1>7. QED
  BY <1>1, <1>2, <1>3, <1>4, <1>5, <1>6

LEMMA NextTyped == ASSUME Parameters PROVE Typed /\ [Next]_vars => Typed'
<1>1. Typed /\ UNCHANGED vars => Typed'
  BY DEF vars, Typed, TypeOK, Idle
<1>2. QED
  BY <1>1, BeginsTyped, RequestStepsTyped, SessionStepsTyped, AccountStepsTyped, OthersTyped
     DEF Next, CallStep

(* Accounts, requests, sessions and calls keep their types; no statement   *)
(* is reached without the user, secret or token it is about.               *)
THEOREM SignInTypeCorrect == ASSUME Parameters PROVE Spec => []TypeOK
<1>1. Init => Typed
  BY InitTyped
<1>2. Typed /\ [Next]_vars => Typed'
  BY NextTyped
<1>3. Typed => TypeOK
  BY DEF Typed
<1>4. QED
  BY <1>1, <1>2, <1>3, PTL DEF Spec

-----------------------------------------------------------------------------
(* Old passwords.                                                          *)

Excused(u) == u \in botched \/ \E c \in Client : At(c, "revoke") /\ calls[c].user = u

\* A password that was good enough for a session, and still is or is excused.
Current(holder) ==
  \/ holder.password = None
  \/ holder.password = accounts[holder.user].password
  \/ holder.spanned
  \/ Excused(holder.user)

\* Sign-ins under way hold passwords as sessions do: what a call has read is as old
\* as that, and the session it makes is no better.
SignInsCurrent ==
  \A c \in Client :
    ~Idle(c) => /\ calls[c].pc \in {"redeem", "user"} => calls[c].password = None
                /\ calls[c].pc = "session" => Current(calls[c])

SessionsCurrent ==
  \A t \in Token : (sessions[t] # None /\ ~sessions[t].revoked) => Current(sessions[t])

PasswordInv == Typed /\ SignInsCurrent /\ SessionsCurrent

LEMMA SessionsCurrentSuffice == SessionsCurrent => OldPasswordsEnd
BY DEF SessionsCurrent, OldPasswordsEnd, Current, Excused

(* Where no password changes and no excuse goes, what was current is.      *)
LEMMA StaysCurrent ==
    ASSUME NEW holder, holder.user \in User, Current(holder),
           accounts'[holder.user].password = accounts[holder.user].password,
           Excused(holder.user) => Excused(holder.user)'
    PROVE  Current(holder)'
BY DEF Current

(* The excuse of a change under way lasts while its call does.             *)
LEMMA ExcusesLast ==
    ASSUME NEW c \in Client, NEW call, Set(c, call), Typed, ~At(c, "revoke"),
           UNCHANGED botched
    PROVE  \A u \in User : Excused(u) => Excused(u)'
<1>1. calls' = [calls EXCEPT ![c] = call] /\ calls \in [Client -> Call \cup {None}]
  BY DEF Set, Typed, TypeOK
<1>2. QED
  BY <1>1 DEF Excused, At, Idle

(* One call goes on, and it neither revokes nor has set a password.        *)
LEMMA CallKeepsCurrent ==
    ASSUME PasswordInv, Typed', NEW c \in Client, NEW call, Set(c, call),
           ~At(c, "revoke"), UNCHANGED <<accounts, botched>>,
           call # None =>
             /\ call.pc \in {"redeem", "user"} => call.password = None
             /\ call.pc = "session" => call.user \in User /\ Current(call),
           \A t \in Token :
             (sessions'[t] # None /\ ~sessions'[t].revoked) =>
                /\ sessions'[t].user \in User
                /\ Current(sessions'[t])
    PROVE  PasswordInv'
<1>1. \A u \in User : Excused(u) => Excused(u)'
  BY ExcusesLast DEF PasswordInv
<1>2. calls' = [calls EXCEPT ![c] = call] /\ calls \in [Client -> Call \cup {None}]
  BY DEF Set, PasswordInv, Typed, TypeOK
<1>3. ASSUME NEW d \in Client, ~Idle(d)'
      PROVE  /\ calls'[d].pc \in {"redeem", "user"} => calls'[d].password = None
             /\ calls'[d].pc = "session" => Current(calls[d])'
  <2>1. CASE d = c
    BY <1>1, <1>2, <1>3, <2>1 DEF Current, Idle
  <2>2. CASE d # c
    <3>1. calls'[d] = calls[d] /\ ~Idle(d)
      BY <1>2, <1>3, <2>2 DEF Idle
    <3>2. calls[d].pc = "session" => calls[d].user \in User
      BY <3>1 DEF PasswordInv, Typed, Named
    <3>3. calls[d].pc = "session" => Current(calls[d])
      BY <3>1 DEF PasswordInv, SignInsCurrent
    <3>4. QED
      BY <1>1, <3>1, <3>2, <3>3 DEF Current, PasswordInv, SignInsCurrent
  <2>3. QED
    BY <2>1, <2>2
<1>4. SignInsCurrent'
  BY <1>3 DEF SignInsCurrent
<1>5. SessionsCurrent'
  BY <1>1 DEF SessionsCurrent, Current
<1>6. QED
  BY <1>4, <1>5 DEF PasswordInv

(* A session that was there is of some user, and current.                  *)
LEMMA SessionKnown ==
    ASSUME PasswordInv, NEW t \in Token, sessions[t] # None
    PROVE  /\ sessions[t] \in Session /\ sessions[t].user \in User
           /\ ~sessions[t].revoked => Current(sessions[t])
<1>1. sessions[t] \in Session
  BY DEF PasswordInv, Typed, TypeOK
<1>2. QED
  BY <1>1 DEF Session, PasswordInv, SessionsCurrent

LEMMA BeginsCurrent ==
    ASSUME Parameters, PasswordInv, NEW c \in Client, CallBegins(c) PROVE PasswordInv'
<1> Typed /\ Typed'
  BY BeginsTyped DEF PasswordInv
<1>1. PICK call : Fresh(call) /\ Set(c, call)
  BY Begun
<1>2. Idle(c) /\ UNCHANGED <<accounts, sessions, botched>>
  BY Begun
<1>3. /\ call.pc \in {"redeem", "user"} => call.password = None
      /\ call.pc = "session" => call.user \in User /\ Current(call)
  BY <1>1 DEF Fresh, Named, Current
<1>4. QED
  BY <1>1, <1>2, <1>3, SessionKnown, CallKeepsCurrent DEF At

LEMMA StepsCurrent ==
    ASSUME Parameters, PasswordInv, NEW c \in Client,
           \/ SweepExpired(c) \/ CreateRequest(c) \/ Authorize(c) \/ Redeem(c) \/ ReadUser(c)
           \/ CreateSession(c) \/ Answer(c)
    PROVE  PasswordInv'
<1> Typed /\ Typed'
  BY RequestStepsTyped, SessionStepsTyped DEF PasswordInv
<1>1. /\ ~Idle(c) /\ ~At(c, "revoke") /\ UNCHANGED <<accounts, botched>>
      /\ calls[c] \in Call /\ Named(calls[c], asked)
  BY Underway
     DEF SweepExpired, CreateRequest, Authorize, Redeem, ReadUser, CreateSession, Answer, At
<1>2. CASE SweepExpired(c)
  <2> DEFINE call == [calls[c] EXCEPT !.pc = "create"]
  <2>1. call.pc = "create"
    BY <1>1 DEF Call
  <2>2. Set(c, call) /\ sessions' = sessions
    BY <1>2 DEF SweepExpired
  <2> HIDE DEF call
  <2>3. QED
    BY <1>1, <2>1, <2>2, SessionKnown, CallKeepsCurrent
<1>3. CASE CreateRequest(c) \/ Authorize(c)
  <2>1. Set(c, None) /\ sessions' = sessions
    BY <1>3 DEF CreateRequest, Authorize, Ends
  <2>2. QED
    BY <1>1, <2>1, SessionKnown, CallKeepsCurrent
<1>4. CASE Redeem(c)
  <2> DEFINE call == [calls[c] EXCEPT !.pc = "user", !.user = requests[calls[c].secret].by]
  <2>1. call.pc = "user" /\ call.password = None
    BY <1>1, <1>4 DEF Call, Redeem, At, PasswordInv, SignInsCurrent
  <2>2. (Set(c, call) \/ Set(c, None)) /\ sessions' = sessions
    BY <1>4 DEF Redeem, Ends
  <2> HIDE DEF call
  <2>3. QED
    BY <1>1, <2>1, <2>2, SessionKnown, CallKeepsCurrent
<1>5. CASE ReadUser(c)
  <2> DEFINE call == [calls[c] EXCEPT !.pc = "session"]
  <2>1. call.pc = "session" /\ call.password = None /\ call.user \in User
    BY <1>1, <1>5 DEF Call, Named, ReadUser, At, PasswordInv, SignInsCurrent
  <2>2. (Set(c, call) \/ Set(c, None)) /\ sessions' = sessions
    BY <1>5 DEF ReadUser, Ends
  <2> HIDE DEF call
  <2>3. Current(call)
    BY <2>1 DEF Current
  <2>4. QED
    BY <1>1, <2>1, <2>2, <2>3, SessionKnown, CallKeepsCurrent
<1>6. CASE CreateSession(c)
  <2>1. Current(calls[c]) /\ calls[c].user \in User
    BY <1>1, <1>6 DEF CreateSession, At, Named, PasswordInv, SignInsCurrent
  <2>2. CASE ~There(calls[c].user)
    <3>1. Set(c, None) /\ sessions' = sessions
      BY <1>6, <2>2 DEF CreateSession, Ends
    <3>2. QED
      BY <1>1, <3>1, SessionKnown, CallKeepsCurrent
  <2>3. CASE There(calls[c].user)
    <3> DEFINE Made == [user |-> calls[c].user, device |-> c, revoked |-> FALSE,
                        held |-> FALSE, password |-> calls[c].password,
                        spanned |-> calls[c].spanned]
    <3>1. PICK t \in Token : /\ sessions' = [sessions EXCEPT ![t] = Made]
                             /\ Set(c, [calls[c] EXCEPT !.pc = "answer", !.token = t])
      BY <1>6, <2>3 DEF CreateSession
    <3>2. Current(Made) /\ Made.user \in User
      BY <2>1 DEF Current
    <3> HIDE DEF Made
    <3>3. ASSUME NEW u \in Token, sessions'[u] # None, ~sessions'[u].revoked
          PROVE  sessions'[u].user \in User /\ Current(sessions'[u])
      <4>1. sessions \in [Token -> Session \cup {None}]
        BY DEF Typed, TypeOK
      <4>2. CASE u = t
        BY <3>1, <3>2, <4>1, <4>2
      <4>3. CASE u # t
        BY <3>1, <3>3, <4>1, <4>3, SessionKnown
      <4>4. QED
        BY <4>2, <4>3
    <3> DEFINE call == [calls[c] EXCEPT !.pc = "answer", !.token = t]
    <3>4. call.pc = "answer" /\ Set(c, call)
      BY <1>1, <3>1 DEF Call
    <3> HIDE DEF call
    <3>5. QED
      BY <1>1, <3>3, <3>4, CallKeepsCurrent
  <2>4. QED
    BY <2>2, <2>3
<1>7. CASE Answer(c)
  <2>1. Set(c, None)
    BY <1>7 DEF Answer, Ends
  <2>2. ASSUME NEW t \in Token, sessions'[t] # None, ~sessions'[t].revoked
        PROVE  sessions'[t].user \in User /\ Current(sessions'[t])
    <3>1. CASE sessions'[t] = sessions[t]
      BY <2>2, <3>1, SessionKnown
    <3>2. CASE /\ sessions[t] # None /\ ~sessions[t].revoked
               /\ sessions'[t] = [sessions[t] EXCEPT !.held = TRUE]
      BY <3>2, SessionKnown DEF Current, Session
    <3>3. QED
      BY <1>7, <3>1, <3>2 DEF Answer, Accepted, Typed, TypeOK
  <2>3. QED
    BY <1>1, <2>1, <2>2, CallKeepsCurrent
<1>8. QED
  BY <1>2, <1>3, <1>4, <1>5, <1>6, <1>7

(* The user whose password is set is excused until the revoking is done.   *)
LEMMA SetCurrent ==
    ASSUME Parameters, NoneApart, PasswordInv, NEW c \in Client, SetPassword(c)
    PROVE  PasswordInv'
<1> Typed /\ Typed'
  BY AccountStepsTyped DEF PasswordInv
<1>1. calls[c] \in Call /\ calls[c].user \in User /\ ~At(c, "revoke") /\ ~Idle(c)
  BY Underway DEF SetPassword, At, Named
<1>2. CASE ~There(calls[c].user)
  <2>1. Set(c, None) /\ UNCHANGED <<accounts, sessions, botched>>
    BY <1>2 DEF SetPassword, Ends
  <2>2. QED
    BY <1>1, <2>1, SessionKnown, CallKeepsCurrent
<1>3. CASE There(calls[c].user)
  <2> DEFINE call == [calls[c] EXCEPT !.pc = "revoke"]
  <2>1. /\ calls' = [calls EXCEPT ![c] = call]
        /\ UNCHANGED <<sessions, botched>>
        /\ \A u \in User : u # calls[c].user => accounts'[u].password = accounts[u].password
    BY <1>3 DEF SetPassword, Set, Typed, TypeOK
  <2>2. call \in Call /\ call.pc = "revoke" /\ call.user = calls[c].user
    BY <1>1 DEF Call
  <2> HIDE DEF call
  <2>3. \A d \in Client : d # c => calls'[d] = calls[d]
    BY <2>1 DEF Typed, TypeOK
  <2>4. \E d \in Client : ~Idle(d)' /\ calls'[d].pc = "revoke" /\ calls'[d].user = calls[c].user
    <3>1. calls'[c] = call
      BY <2>1 DEF Typed, TypeOK
    <3>2. QED
      BY <2>2, <3>1 DEF Idle, NoneApart
  <2>5. \A u \in User : Excused(u) => Excused(u)'
    BY <1>1, <2>1, <2>3 DEF Excused, At, Idle
  <2>6. ASSUME NEW holder, holder.user \in User, Current(holder) PROVE Current(holder)'
    <3>1. CASE holder.user = calls[c].user
      BY <2>4, <3>1 DEF Current, Excused, At
    <3>2. CASE holder.user # calls[c].user
      BY <2>1, <2>5, <2>6, <3>2, StaysCurrent
    <3>3. QED
      BY <3>1, <3>2
  <2>7. SessionsCurrent'
    BY <2>1, <2>6, SessionKnown DEF SessionsCurrent
  <2>8. ASSUME NEW d \in Client, ~Idle(d)'
        PROVE  /\ calls'[d].pc \in {"redeem", "user"} => calls'[d].password = None
               /\ calls'[d].pc = "session" => Current(calls[d])'
    <3>1. CASE d = c
      BY <2>1, <2>2, <3>1 DEF Typed, TypeOK
    <3>2. CASE d # c
      <4>1. calls'[d] = calls[d] /\ ~Idle(d)
        BY <2>3, <2>8, <3>2 DEF Idle
      <4>2. calls[d].pc = "session" => calls[d].user \in User /\ Current(calls[d])
        BY <4>1, Underway DEF PasswordInv, SignInsCurrent, Named
      <4>3. calls[d].pc = "session" => Current(calls[d])'
        <5>1. SUFFICES ASSUME calls[d].pc = "session" PROVE Current(calls[d])'
          OBVIOUS
        <5>2. calls[d].user \in User /\ Current(calls[d])
          BY <4>2, <5>1
        <5>3. Excused(calls[d].user) => Excused(calls[d].user)'
          BY <2>5, <4>1, <5>2 DEF Excused, At
        <5>4. CASE calls[d].user = calls[c].user
          BY <2>4, <4>1, <5>4 DEF Current, Excused, At
        <5>5. CASE calls[d].user # calls[c].user
          BY <2>1, <4>1, <5>2, <5>3, <5>5 DEF Current
        <5>6. QED
          BY <5>4, <5>5
      <4>4. QED
        BY <4>1, <4>3 DEF PasswordInv, SignInsCurrent
    <3>3. QED
      BY <3>1, <3>2
  <2>9. QED
    BY <2>7, <2>8 DEF PasswordInv, SignInsCurrent
<1>4. QED
  BY <1>2, <1>3

(* Revoking leaves the user no session that counts, and marks the sign-ins *)
(* that may still lead to one. Other users keep their sessions and excuses.*)
LEMMA RevokeCurrent ==
    ASSUME Parameters, PasswordInv, NEW c \in Client, RevokeForUser(c) PROVE PasswordInv'
<1> Typed /\ Typed'
  BY AccountStepsTyped DEF PasswordInv
<1> DEFINE user == calls[c].user
<1>1. /\ UNCHANGED <<accounts, botched>>
      /\ \A d \in Client : calls'[d] = IF d = c THEN None ELSE Spanned(d, user)
      /\ \A t \in Token : sessions'[t] = IF RevokedBy(t, c)
                                         THEN [sessions[t] EXCEPT !.revoked = TRUE]
                                         ELSE sessions[t]
  BY DEF RevokeForUser
<1>2. ASSUME NEW d \in Client, d # c, ~Idle(d)
      PROVE  /\ calls'[d].pc = calls[d].pc /\ calls'[d].user = calls[d].user
             /\ calls'[d].password = calls[d].password
             /\ calls[d].spanned \/ calls[d].user = user => calls'[d].spanned
  <2>1. calls[d] \in Call
    BY <1>2, Underway
  <2>2. QED
    BY <1>1, <1>2, <2>1 DEF Spanned, Call, Idle
<1>3. \A u \in User : u # user /\ Excused(u) => Excused(u)'
  <2>1. ASSUME NEW u \in User, u # user, NEW d \in Client, At(d, "revoke"), calls[d].user = u
        PROVE  At(d, "revoke")' /\ calls'[d].user = u
    <3>1. calls'[d] = calls[d]
      BY <1>1, <2>1 DEF Spanned
    <3>2. QED
      BY <2>1, <3>1 DEF At, Idle
  <2>2. QED
    BY <1>1, <2>1 DEF Excused
<1>4. ASSUME NEW t \in Token, sessions'[t] # None, ~sessions'[t].revoked
      PROVE  Current(sessions[t])'
  <2>1. sessions[t] # None => sessions[t] \in Session /\ sessions[t].user \in User
    BY SessionKnown
  <2>2. ~RevokedBy(t, c)
    BY <1>1, <1>4, <2>1 DEF RevokedBy, Session
  <2>3. sessions'[t] = sessions[t] /\ sessions[t].user # user
    BY <1>1, <1>4, <2>2 DEF RevokedBy
  <2>4. sessions[t].user \in User /\ Current(sessions[t])
    BY <1>4, <2>1, <2>3, SessionKnown
  <2>5. Excused(sessions[t].user) => Excused(sessions[t].user)'
    BY <1>3, <2>3, <2>4 DEF Excused, At
  <2>6. QED
    BY <1>1, <2>3, <2>4, <2>5 DEF Current
<1>5. ASSUME NEW d \in Client, ~Idle(d)'
      PROVE  /\ calls'[d].pc \in {"redeem", "user"} => calls'[d].password = None
             /\ calls'[d].pc = "session" => Current(calls[d])'
  <2>1. d # c /\ ~Idle(d)
    BY <1>1, <1>5 DEF Idle, Spanned
  <2>2. calls'[d].pc = calls[d].pc /\ calls'[d].password = calls[d].password
    BY <1>2, <2>1
  <2>3. ASSUME calls[d].pc = "session" PROVE Current(calls[d])'
    <3>1. calls[d].user \in User /\ Current(calls[d])
      BY <2>1, <2>3, Underway DEF Named, PasswordInv, SignInsCurrent
    <3>2. CASE calls[d].user = user
      BY <1>2, <2>1, <3>2 DEF Current
    <3>3. CASE calls[d].user # user
      <4>1. Excused(calls[d].user) => Excused(calls[d].user)'
        BY <1>2, <1>3, <2>1, <3>1, <3>3 DEF Excused, At
      <4>2. QED
        BY <1>1, <1>2, <2>1, <3>1, <4>1 DEF Current
    <3>4. QED
      BY <3>2, <3>3
  <2>4. QED
    BY <2>1, <2>2, <2>3 DEF PasswordInv, SignInsCurrent
<1>6. QED
  BY <1>4, <1>5 DEF PasswordInv, SignInsCurrent, SessionsCurrent

(* What else is done to accounts, rows and calls leaves the passwords.     *)
LEMMA SaveCurrent ==
    ASSUME Parameters, PasswordInv, NEW c \in Client, SavePolicy(c) PROVE PasswordInv'
<1> Typed /\ Typed'
  BY AccountStepsTyped DEF PasswordInv
<1>1. Set(c, None) /\ UNCHANGED <<sessions, botched>> /\ ~At(c, "revoke")
  BY DEF SavePolicy, Ends, At
<1>2. \A u \in User : Excused(u) => Excused(u)'
  BY <1>1, ExcusesLast
<1>3. \A u \in User : accounts'[u].password = accounts[u].password
  BY DEF SavePolicy, Typed, TypeOK, Account
<1>4. \A d \in Client : ~Idle(d)' => ~Idle(d) /\ calls'[d] = calls[d]
  BY <1>1 DEF Set, Idle, Typed, TypeOK
<1>5. SignInsCurrent'
  <2>1. ASSUME NEW d \in Client, ~Idle(d), calls[d].pc = "session", calls'[d] = calls[d]
        PROVE  Current(calls[d])'
    <3>1. calls[d].user \in User /\ Current(calls[d])
      BY <2>1, Underway DEF Named, PasswordInv, SignInsCurrent
    <3>2. QED
      BY <1>2, <1>3, <2>1, <3>1 DEF Current
  <2>2. QED
    BY <1>4, <2>1 DEF SignInsCurrent, PasswordInv
<1>6. SessionsCurrent'
  BY <1>1, <1>2, <1>3, SessionKnown DEF SessionsCurrent, Current
<1>7. QED
  BY <1>5, <1>6 DEF PasswordInv

LEMMA OthersCurrent ==
    ASSUME Parameters, PasswordInv,
           \/ \E c \in Client : CallFails(c) \/ RemoveDevice(c)
           \/ \E s \in Secret : Expire(s)
           \/ \E t \in Token : SignOut(t)
           \/ \E u \in User : DeleteUser(u)
           \/ CreateUser
    PROVE  PasswordInv'
<1> Typed /\ Typed'
  BY OthersTyped DEF PasswordInv
<1>1. \A u \in User : accounts'[u].password = accounts[u].password
  BY DEF CallFails, RemoveDevice, Expire, SignOut, DeleteUser, CreateUser, Typed, TypeOK, Account
<1>2. \A d \in Client : ~Idle(d)' => ~Idle(d) /\ calls'[d] = calls[d]
  BY DEF CallFails, RemoveDevice, Expire, SignOut, DeleteUser, CreateUser, Ends, Set,
         Typed, TypeOK, Idle
<1>3. \A t \in Token : sessions'[t] # None => sessions'[t] = sessions[t]
  BY DEF CallFails, RemoveDevice, Expire, SignOut, DeleteUser, CreateUser, Typed, TypeOK
<1>4. \A u \in User : Excused(u) => Excused(u)'
  <2>1. ASSUME NEW c \in Client, CallFails(c), NEW u \in User, Excused(u) PROVE Excused(u)'
    <3>1. calls' = [calls EXCEPT ![c] = None]
      BY <2>1 DEF CallFails, Ends, Set
    <3>2. QED
      BY <2>1, <3>1 DEF CallFails, Excused, At, Idle, Typed, TypeOK
  <2>2. ASSUME UNCHANGED <<calls, botched>> PROVE \A u \in User : Excused(u) => Excused(u)'
    BY <2>2 DEF Excused, At, Idle
  <2>3. QED
    BY <2>1, <2>2 DEF RemoveDevice, Expire, SignOut, DeleteUser, CreateUser
<1>5. SignInsCurrent'
  <2>1. ASSUME NEW d \in Client, ~Idle(d), calls[d].pc = "session", calls'[d] = calls[d]
        PROVE  Current(calls[d])'
    <3>1. calls[d].user \in User /\ Current(calls[d])
      BY <2>1, Underway DEF Named, PasswordInv, SignInsCurrent
    <3>2. QED
      BY <1>1, <1>4, <2>1, <3>1 DEF Current
  <2>2. QED
    BY <1>2, <2>1 DEF SignInsCurrent, PasswordInv
<1>6. SessionsCurrent'
  BY <1>1, <1>3, <1>4, SessionKnown DEF SessionsCurrent, Current
<1>7. QED
  BY <1>5, <1>6 DEF PasswordInv

LEMMA NextCurrent ==
    ASSUME Parameters, NoneApart PROVE PasswordInv /\ [Next]_vars => PasswordInv'
<1>1. PasswordInv /\ UNCHANGED vars => PasswordInv'
  BY DEF vars, PasswordInv, Typed, TypeOK, Idle, SignInsCurrent, SessionsCurrent, Current,
         Excused, At
<1>2. QED
  BY <1>1, BeginsCurrent, StepsCurrent, SetCurrent, RevokeCurrent, SaveCurrent, OthersCurrent
     DEF Next, CallStep

(* A password change that has answered has ended every session opened with *)
(* an older password, but for sign-ins under way while it revoked, for any *)
(* number of changes, sign-ins and failures (UpdateUserPassword).          *)
THEOREM OldPasswordsAreEnded ==
    ASSUME Parameters, NoneApart PROVE Spec => []OldPasswordsEnd
<1>1. Init => PasswordInv
  <2>1. Init => SignInsCurrent /\ SessionsCurrent
    BY DEF Init, SignInsCurrent, SessionsCurrent, Idle
  <2>2. QED
    BY <2>1, InitTyped DEF PasswordInv
<1>2. PasswordInv /\ [Next]_vars => PasswordInv'
  BY NextCurrent
<1>3. PasswordInv => OldPasswordsEnd
  BY SessionsCurrentSuffice DEF PasswordInv
<1>4. QED
  BY <1>1, <1>2, <1>3, PTL DEF Spec

-----------------------------------------------------------------------------
(* Quick connect.                                                          *)

Led(s) == \E u \in User : made[s][u] > 0
Waiting(s) == requests[s] # None /\ requests[s].live

\* One stage at a time: a secret has its row, or one call that has taken it, or led
\* to a session, and none of these before it was handed out.
OneStage(s) ==
  /\ requests[s] # None => Takers(s) = {} /\ ~Led(s) /\ s \in asked
  /\ \A c, d \in Takers(s) : c = d /\ ~Led(s)
  /\ Led(s) => s \in asked

\* No two rows show the same code.
CodesApart ==
  \A r, s \in Secret :
    (requests[r] # None /\ requests[s] # None /\ requests[r].code = requests[s].code) => r = s

RequestInv == Typed /\ CodesApart /\ \A s \in Secret : OneStage(s)

\* StageOf, case by case.
StageTold(s) ==
  /\ Led(s) => StageOf(s) = In("admitted", None)
  /\ \A c \in Takers(s) : StageOf(s) = In("taken", calls[c].user)
  /\ Waiting(s) => StageOf(s) = In(IF requests[s].by = None THEN "pending" ELSE "allowed",
                                   requests[s].by)
  /\ (~Led(s) /\ Takers(s) = {} /\ ~Waiting(s)) =>
       StageOf(s) = In(IF s \in asked THEN "gone" ELSE "unused", None)

LEMMA StagesTold == ASSUME NEW s \in Secret PROVE OneStage(s) => StageTold(s)
<1> SUFFICES ASSUME OneStage(s) PROVE StageTold(s)
  OBVIOUS
<1>1. Led(s) => StageOf(s) = In("admitted", None)
  BY DEF StageOf, Led
<1>2. ASSUME NEW c \in Takers(s) PROVE StageOf(s) = In("taken", calls[c].user)
  <2>1. ~Led(s) /\ Takers(s) # {} /\ (CHOOSE d \in Takers(s) : TRUE) = c
    BY DEF OneStage
  <2>2. QED
    BY <2>1 DEF StageOf, Led
<1>3. ASSUME Waiting(s)
      PROVE  StageOf(s) = In(IF requests[s].by = None THEN "pending" ELSE "allowed",
                             requests[s].by)
  BY <1>3 DEF OneStage, Waiting, StageOf, Led
<1>4. ASSUME ~Led(s), Takers(s) = {}, ~Waiting(s)
      PROVE  StageOf(s) = In(IF s \in asked THEN "gone" ELSE "unused", None)
  BY <1>4 DEF StageOf, Led, Waiting
<1>5. QED
  BY <1>1, <1>2, <1>3, <1>4 DEF StageTold

LEMMA StagesToldNext == ASSUME NEW s \in Secret PROVE OneStage(s)' => StageTold(s)'
<1>1. OneStage(s) => StageTold(s)
  BY StagesTold
<1>2. QED
  BY <1>1, PTL

Stages == [s \in Secret |-> StageOf(s)]


(* A step that leaves the stage of s, its row and its code alone.          *)
Quiet(s) ==
  /\ Takers(s)' = Takers(s)
  /\ \A c \in Takers(s) : calls'[c].user = calls[c].user
  /\ made'[s] = made[s]
  /\ (s \in asked') <=> (s \in asked)
  /\ requests'[s] = requests[s] \/ (~Waiting(s) /\ requests'[s] = None)

LEMMA QuietKeeps ==
    ASSUME NEW s \in Secret, OneStage(s), Quiet(s)
    PROVE  OneStage(s)' /\ StageOf(s)' = StageOf(s)
<1>1. Led(s)' <=> Led(s)
  BY DEF Led, Quiet
<1>2. Waiting(s)' <=> Waiting(s)
  BY DEF Waiting, Quiet
<1>3. OneStage(s)'
  BY <1>1 DEF OneStage, Quiet
<1>4. StageTold(s) /\ StageTold(s)'
  BY <1>3, StagesTold, StagesToldNext
<1>5. CASE Led(s)
  <2>1. StageOf(s) = In("admitted", None)
    BY <1>4, <1>5 DEF StageTold
  <2>2. StageOf(s)' = In("admitted", None)
    BY <1>1, <1>4, <1>5 DEF StageTold, In
  <2>3. QED
    BY <1>3, <2>1, <2>2
<1>6. CASE Takers(s) # {}
  <2>1. PICK c \in Takers(s) : TRUE
    BY <1>6
  <2>2. StageOf(s) = In("taken", calls[c].user)
    BY <1>4, <2>1 DEF StageTold
  <2>3. StageOf(s)' = In("taken", calls'[c].user)
    BY <1>4, <2>1 DEF StageTold, Quiet, In
  <2>4. QED
    BY <1>3, <2>1, <2>2, <2>3 DEF Quiet, In
<1>7. CASE Waiting(s)
  <2>1. requests'[s] = requests[s]
    BY <1>7 DEF Quiet
  <2>2. StageOf(s) = In(IF requests[s].by = None THEN "pending" ELSE "allowed",
                        requests[s].by)
    BY <1>4, <1>7 DEF StageTold
  <2>3. StageOf(s)' = In(IF requests'[s].by = None THEN "pending" ELSE "allowed",
                         requests'[s].by)
    BY <1>2, <1>4, <1>7 DEF StageTold, In
  <2>4. QED
    BY <1>3, <2>1, <2>2, <2>3 DEF In
<1>8. CASE ~Led(s) /\ Takers(s) = {} /\ ~Waiting(s)
  <2>1. StageOf(s) = In(IF s \in asked THEN "gone" ELSE "unused", None)
    BY <1>4, <1>8 DEF StageTold
  <2>2. StageOf(s)' = In(IF s \in asked' THEN "gone" ELSE "unused", None)
    <3>1. ~Led(s)' /\ Takers(s)' = {} /\ ~Waiting(s)'
      BY <1>1, <1>2, <1>8 DEF Quiet
    <3>2. QED
      BY <1>4, <3>1 DEF StageTold, In
  <2>3. QED
    BY <1>3, <2>1, <2>2 DEF Quiet, In
<1>9. QED
  BY <1>3, <1>5, <1>6, <1>7, <1>8

LEMMA NoneChanges ==
    ASSUME RequestInv, Typed', \A s \in Secret : Quiet(s)
    PROVE  RequestInv' /\ Stages' = Stages
<1>1. \A s \in Secret : OneStage(s)' /\ StageOf(s)' = StageOf(s)
  BY QuietKeeps DEF RequestInv
<1>2. CodesApart'
  BY DEF CodesApart, Quiet, RequestInv
<1>3. QED
  BY <1>1, <1>2 DEF RequestInv, Stages

(* One secret goes from stage to stage; if it keeps its row, with its code.*)
LEMMA OneChanges ==
    ASSUME RequestInv, Typed', NEW s \in Secret, OneStage(s)',
           \A r \in Secret : r # s => Quiet(r),
           \/ requests'[s] = None
           \/ requests[s] # None /\ requests'[s].code = requests[s].code
    PROVE  RequestInv' /\ Stages' = [Stages EXCEPT ![s] = StageOf(s)']
<1>1. \A r \in Secret : r # s => OneStage(r)' /\ StageOf(r)' = StageOf(r)
  BY QuietKeeps DEF RequestInv
<1>2. CodesApart'
  BY DEF CodesApart, Quiet, RequestInv
<1>3. QED
  BY <1>1, <1>2 DEF RequestInv, Stages

(* Who has taken s when one call goes on.                                  *)
Takes(call, s) == call # None /\ call.secret = s /\ call.pc \in {"user", "session"}

LEMMA TakersMove ==
    ASSUME Typed, NEW c \in Client, NEW call, Set(c, call), NEW s
    PROVE  /\ calls'[c] = call
           /\ \A d \in Client : d # c => calls'[d] = calls[d]
           /\ Takers(s)' = IF Takes(call, s) THEN Takers(s) \cup {c} ELSE Takers(s) \ {c}
<1>1. /\ calls'[c] = call
      /\ \A d \in Client : d # c => calls'[d] = calls[d]
  BY DEF Set, Typed, TypeOK
<1>2. QED
  BY <1>1 DEF Takers, Takes, Idle

(* A call that neither had taken s nor takes it leaves s quiet.            *)
LEMMA CallApart ==
    ASSUME Typed, NEW c \in Client, NEW call, Set(c, call), NEW s \in Secret,
           c \notin Takers(s), ~Takes(call, s), made'[s] = made[s],
           (s \in asked') <=> (s \in asked),
           requests'[s] = requests[s] \/ (~Waiting(s) /\ requests'[s] = None)
    PROVE  Quiet(s)
BY TakersMove DEF Quiet, Takers

(* What a step that changes no stage is to Admission: none.                *)
Kept == RequestInv' /\ [Promise!Next]_Promise!vars

LEMMA QuietSteps ==
    ASSUME Parameters, RequestInv, Typed', NEW c \in Client,
           CallBegins(c) \/ SweepExpired(c) \/ Answer(c) \/ SetPassword(c) \/ SavePolicy(c)
    PROVE  Kept
<1> Typed
  BY DEF RequestInv
<1>1. CASE CallBegins(c)
  <2>1. Idle(c) /\ UNCHANGED <<requests, asked, made>>
    BY <1>1, Begun
  <2>2. PICK call : Fresh(call) /\ Set(c, call)
    BY <1>1, Begun
  <2>3. ASSUME NEW s \in Secret PROVE c \notin Takers(s) /\ ~Takes(call, s)
    BY <2>1, <2>2 DEF Takers, Fresh, Takes, Parameters
  <2>4. \A s \in Secret : Quiet(s)
    BY <2>1, <2>2, <2>3, CallApart
  <2>5. QED
    BY <2>1, <2>4, NoneChanges DEF Kept, Promise!vars, Stages
<1>2. CASE SweepExpired(c) \/ Answer(c) \/ SetPassword(c) \/ SavePolicy(c)
  <2>1. /\ made' = made /\ asked' = asked
        /\ \A s \in Secret : requests'[s] = requests[s] \/ (~Waiting(s) /\ requests'[s] = None)
        /\ \A s : c \notin Takers(s)
    BY <1>2 DEF SweepExpired, Answer, SetPassword, SavePolicy, Waiting, Takers, At, Typed, TypeOK
  <2>2. calls[c] \in Call
    BY <1>2, Underway DEF SweepExpired, Answer, SetPassword, SavePolicy, At
  <2>3. PICK call : Set(c, call) /\ (call = None \/ call.pc \in {"create", "revoke"})
    <3>1. [calls[c] EXCEPT !.pc = "create"].pc = "create"
      BY <2>2 DEF Call
    <3>2. [calls[c] EXCEPT !.pc = "revoke"].pc = "revoke"
      BY <2>2 DEF Call
    <3>3. \/ Set(c, [calls[c] EXCEPT !.pc = "create"])
          \/ Set(c, [calls[c] EXCEPT !.pc = "revoke"])
          \/ Set(c, None)
      BY <1>2 DEF SweepExpired, Answer, SetPassword, SavePolicy, Ends
    <3>4. QED
      BY <3>1, <3>2, <3>3
  <2>4. \A s : ~Takes(call, s)
    BY <2>3 DEF Takes
  <2>5. \A s \in Secret : Quiet(s)
    BY <2>1, <2>3, <2>4, CallApart
  <2>6. QED
    BY <2>1, <2>5, NoneChanges DEF Kept, Promise!vars, Stages
<1>3. QED
  BY <1>1, <1>2

LEMMA RevokeQuiet ==
    ASSUME Parameters, NoneApart, RequestInv, Typed', NEW c \in Client, RevokeForUser(c)
    PROVE  Kept
<1> Typed
  BY DEF RequestInv
<1>1. /\ UNCHANGED <<requests, asked, made>>
      /\ \A d \in Client : calls'[d] = IF d = c THEN None ELSE Spanned(d, calls[c].user)
      /\ ~Idle(c) /\ calls[c].pc = "revoke"
  BY DEF RevokeForUser, At
<1>2. ASSUME NEW d \in Client, ~Idle(d), d # c
      PROVE  /\ ~Idle(d)' /\ calls'[d].pc = calls[d].pc
             /\ calls'[d].secret = calls[d].secret /\ calls'[d].user = calls[d].user
  <2>1. calls[d] \in Call
    BY <1>2, Underway
  <2>2. [calls[d] EXCEPT !.spanned = TRUE] \in Call
    BY <2>1 DEF Call
  <2>3. QED
    BY <1>1, <1>2, <2>1, <2>2 DEF Spanned, Call, Idle, NoneApart
<1>3. \A d \in Client : Idle(d) => Idle(d)'
  BY <1>1 DEF Idle, Spanned
<1>4. ASSUME NEW s \in Secret PROVE Quiet(s)
  <2>1. Takers(s)' = Takers(s)
    BY <1>1, <1>2, <1>3 DEF Takers, Idle
  <2>2. \A d \in Takers(s) : calls'[d].user = calls[d].user
    BY <1>1, <1>2 DEF Takers
  <2>3. QED
    BY <1>1, <2>1, <2>2 DEF Quiet
<1>5. QED
  BY <1>1, <1>4, NoneChanges DEF Kept, Promise!vars, Stages

LEMMA OthersQuiet ==
    ASSUME RequestInv, Typed', UNCHANGED <<requests, calls, asked, made>> PROVE Kept
<1>1. \A s \in Secret : Quiet(s)
  BY DEF Quiet, Takers, Idle
<1>2. QED
  BY <1>1, NoneChanges DEF Kept, Promise!vars, Stages

-----------------------------------------------------------------------------
(* The steps that change a stage.                                          *)

LEMMA StageMoves ==
    ASSUME RequestInv, Typed', NEW s \in Secret, OneStage(s)',
           \A r \in Secret : r # s => Quiet(r),
           \/ requests'[s] = None
           \/ requests[s] # None /\ requests'[s].code = requests[s].code,
           NEW from, NEW to, NEW user,
           StageOf(s).at = from, StageOf(s)' = In(to, user), from # to
    PROVE  /\ RequestInv'
           /\ Promise!Move(s, from, to, user)
           /\ Stages' # Stages
<1>1. RequestInv' /\ Stages' = [Stages EXCEPT ![s] = StageOf(s)']
  BY OneChanges
<1>2. Stages[s] = StageOf(s)
  BY DEF Stages
<1>3. Stages' = [Stages EXCEPT ![s] = [at |-> to, user |-> user]]
  BY <1>1 DEF In
<1>4. Stages'[s].at = to
  BY <1>3 DEF Stages
<1>5. Stages' # Stages
  BY <1>2, <1>4
<1>6. Promise!Move(s, from, to, user)
  BY <1>2, <1>3 DEF Promise!Move, Promise!In, Stages
<1>7. QED
  BY <1>1, <1>5, <1>6

LEMMA StageDrops ==
    ASSUME RequestInv, Typed', NEW s \in Secret, OneStage(s)', made' = made,
           \A r \in Secret : r # s => Quiet(r),
           \/ requests'[s] = None
           \/ requests[s] # None /\ requests'[s].code = requests[s].code,
           StageOf(s).at \in {"pending", "allowed", "taken"}, StageOf(s)' = In("gone", None)
    PROVE  Kept
<1>1. RequestInv' /\ Stages' = [Stages EXCEPT ![s] = [at |-> "gone", user |-> None]]
  BY OneChanges DEF In
<1>2. Stages' = [r \in Secret |-> IF r \in {s} THEN [at |-> "gone", user |-> None] ELSE Stages[r]]
  BY <1>1 DEF Stages
<1>3. Stages[s].at # "gone" /\ \A r \in {s} : Stages[r].at \in {"pending", "allowed", "taken"}
  BY DEF Stages
<1>4. Stages' # Stages
  BY <1>2, <1>3
<1>5. Promise!Drop({s})
  BY <1>2, <1>3 DEF Promise!Drop, Promise!In, Stages
<1>6. Promise!Next
  BY <1>4, <1>5 DEF Promise!Next, Stages
<1>7. QED
  BY <1>1, <1>6 DEF Kept

(* Ask.                                                                    *)
LEMMA CreateKeeps ==
    ASSUME Parameters, NoneApart, RequestInv, Typed', NEW c \in Client, CreateRequest(c)
    PROVE  Kept
<1> Typed
  BY DEF RequestInv
<1>1. Set(c, None) /\ made' = made /\ \A r : c \notin Takers(r) /\ ~Takes(None, r)
  BY DEF CreateRequest, Ends, Takers, At, Takes
<1>2. CASE UNCHANGED <<requests, asked>>
  <2>1. \A s \in Secret : Quiet(s)
    BY <1>1, <1>2, CallApart
  <2>2. QED
    BY <1>1, <2>1, NoneChanges DEF Kept, Promise!vars, Stages
<1>3. ASSUME NEW k \in Code, ~CodeTaken(k), NEW s \in Secret \ asked,
             requests' = [requests EXCEPT ![s] = [code |-> k, live |-> TRUE, by |-> None]],
             asked' = asked \cup {s}
      PROVE  Kept
  <2>1. OneStage(s) /\ OneStage(s)' /\ Takers(s) = {} /\ Takers(s)' = {} /\ ~Led(s) /\ ~Led(s)'
    <3>1. Takers(s) = {}
      BY <1>3 DEF Takers, Typed, Named, Parameters
    <3>2. Takers(s)' = {}
      BY <1>1, <3>1, TakersMove
    <3>3. OneStage(s) /\ ~Led(s) /\ ~Led(s)'
      BY <1>1, <1>3 DEF RequestInv, OneStage, Led
    <3>4. QED
      BY <1>3, <3>1, <3>2, <3>3 DEF OneStage
  <2>2. requests[s] = None /\ requests'[s] = [code |-> k, live |-> TRUE, by |-> None]
    BY <1>3, <2>1 DEF OneStage, Typed, TypeOK
  <2>3. requests'[s] # None
    <3>1. [code |-> k, live |-> TRUE, by |-> None] \in Request
      BY DEF Request
    <3>2. QED
      BY <2>2, <3>1 DEF NoneApart
  <2>4. ASSUME NEW r \in Secret, r # s PROVE Quiet(r)
    <3>1. requests'[r] = requests[r] /\ ((r \in asked') <=> (r \in asked))
      BY <1>3, <2>4 DEF Typed, TypeOK
    <3>2. QED
      BY <1>1, <3>1, CallApart
  <2>5. StageOf(s) = In("unused", None)
    BY <1>3, <2>1, <2>2, StagesTold DEF StageTold, Waiting
  <2>6. StageOf(s)' = In("pending", None)
    <3>1. Waiting(s)' /\ requests'[s].by = None
      BY <2>2, <2>3 DEF Waiting
    <3>2. QED
      BY <2>1, <3>1, StagesToldNext DEF StageTold, In
  <2>7. Stages' = [Stages EXCEPT ![s] = [at |-> "pending", user |-> None]]
    <3>1. \A r \in Secret : r # s => StageOf(r)' = StageOf(r)
      BY <2>4, QuietKeeps DEF RequestInv
    <3>2. QED
      BY <2>6, <3>1 DEF Stages, In
  <2>8. Promise!Next
    <3>1. Stages[s] = [at |-> "unused", user |-> None]
      BY <2>5 DEF Stages, In
    <3>2. Stages'[s].at = "pending"
      BY <2>7 DEF Stages
    <3>3. Promise!Ask(s)
      BY <1>1, <2>7, <3>1 DEF Promise!Ask, Promise!Move, Promise!In, Stages
    <3>4. QED
      BY <3>1, <3>2, <3>3 DEF Promise!Next, Stages
  <2>9. RequestInv'
    <3>1. \A r \in Secret : r # s => OneStage(r)'
      BY <2>4, QuietKeeps DEF RequestInv
    <3>2. \A r \in Secret : r # s /\ requests'[r] # None => requests'[r] = requests[r]
      BY <2>4 DEF Quiet
    <3>3. \A r \in Secret : requests[r] # None => requests[r].code # k
      BY <1>3 DEF CodeTaken
    <3>4. CodesApart'
      BY <2>2, <3>2, <3>3 DEF CodesApart, RequestInv
    <3>5. QED
      BY <2>1, <3>1, <3>4 DEF RequestInv
  <2>10. QED
    BY <2>8, <2>9 DEF Kept
<1>4. QED
  BY <1>2, <1>3 DEF CreateRequest

(* Allow: at most one row has the code, and it is told from others by it.  *)
LEMMA AuthorizeKeeps ==
    ASSUME Parameters, NoneApart, RequestInv, Typed', NEW c \in Client, Authorize(c)
    PROVE  Kept
<1> Typed
  BY DEF RequestInv
<1>0. PICK user \in User : user = calls[c].user
  BY Underway DEF Authorize, At, Named
<1>1. /\ Set(c, None) /\ UNCHANGED <<asked, made>>
      /\ \A r : c \notin Takers(r) /\ ~Takes(None, r)
  BY DEF Authorize, Ends, Takers, At, Takes
<1> DEFINE Allowed(r) == Matches(r, calls[c].code) /\ There(user)
<1>2. \A r \in Secret : requests'[r] = IF Allowed(r) THEN [requests[r] EXCEPT !.by = user]
                                       ELSE requests[r]
  BY <1>0 DEF Authorize
<1>3. \A r \in Secret : ~Allowed(r) => Quiet(r)
  BY <1>1, <1>2, CallApart
<1>4. CASE \A r \in Secret : ~Allowed(r)
  BY <1>1, <1>3, <1>4, NoneChanges DEF Kept, Promise!vars, Stages
<1>5. ASSUME NEW s \in Secret, Allowed(s) PROVE Kept
  <2>1. /\ requests[s] # None /\ requests[s] \in Request
        /\ requests[s].live /\ requests[s].by = None
    BY <1>5 DEF Matches, Typed, TypeOK
  <2>2. \A r \in Secret : r # s => Quiet(r)
    BY <1>3, <1>5 DEF Matches, RequestInv, CodesApart
  <2>3. /\ requests'[s] = [requests[s] EXCEPT !.by = user] /\ requests'[s] \in Request
        /\ requests'[s] # None /\ requests'[s].code = requests[s].code
        /\ requests'[s].live /\ requests'[s].by = user
    BY <1>1, <1>2, <1>5, <2>1 DEF Request, NoneApart
  <2>4. Takers(s)' = Takers(s) /\ (Led(s)' <=> Led(s))
    BY <1>1, TakersMove DEF Led
  <2>5. OneStage(s) /\ OneStage(s)'
    BY <1>1, <2>1, <2>4 DEF RequestInv, OneStage
  <2>6. StageOf(s) = In("pending", None)
    BY <2>1, <2>5, StagesTold DEF StageTold, Waiting
  <2>7. StageOf(s)' = In("allowed", user)
    <3>1. Waiting(s)' /\ requests'[s].by = user /\ user # None
      BY <1>1, <2>3 DEF Waiting, Parameters
    <3>2. QED
      BY <2>5, <3>1, StagesToldNext DEF StageTold, In
  <2>8. RequestInv' /\ Promise!Move(s, "pending", "allowed", user) /\ Stages' # Stages
    <3>1. StageOf(s).at = "pending"
      BY <2>6 DEF In
    <3>2. requests[s] # None /\ requests'[s].code = requests[s].code
      BY <2>1, <2>3
    <3> HIDE DEF Allowed
    <3>3. QED
      BY <2>2, <2>5, <2>7, <3>1, <3>2, StageMoves
  <2>9. Promise!Allow(s, user)
    BY <1>1, <2>8 DEF Promise!Allow
  <2>10. QED
    BY <1>1, <2>8, <2>9 DEF Kept, Promise!Next, Stages
<1>6. QED
  BY <1>4, <1>5

LEMMA ExpireKeeps ==
    ASSUME Parameters, NoneApart, RequestInv, Typed', NEW s \in Secret, Expire(s) PROVE Kept
<1> Typed
  BY DEF RequestInv
<1>1. /\ requests[s] # None /\ requests[s] \in Request /\ requests[s].live
      /\ requests' = [requests EXCEPT ![s].live = FALSE]
      /\ UNCHANGED <<calls, asked, made>>
  BY DEF Expire, Typed, TypeOK
<1>2. requests'[s].code = requests[s].code /\ ~requests'[s].live
  BY <1>1 DEF Request, Typed, TypeOK
<1>3. \A r \in Secret : r # s => Quiet(r)
  BY <1>1 DEF Quiet, Takers, Idle, Typed, TypeOK
<1>4. OneStage(s) /\ Takers(s) = {} /\ ~Led(s) /\ s \in asked
  BY <1>1 DEF RequestInv, OneStage
<1>5. Takers(s)' = {} /\ ~Led(s)'
  BY <1>1, <1>4 DEF Takers, Idle, Led
<1>6. OneStage(s)'
  BY <1>1, <1>4, <1>5 DEF OneStage
<1>7. StageOf(s).at \in {"pending", "allowed"}
  BY <1>1, <1>4, StagesTold DEF StageTold, Waiting, In
<1>8. StageOf(s)' = In("gone", None)
  BY <1>1, <1>2, <1>4, <1>5, <1>6, StagesToldNext DEF StageTold, Waiting, In
<1>9. QED
  BY <1>1, <1>2, <1>3, <1>6, <1>7, <1>8, StageDrops

(* Take: the row goes, and with it the request is this call's alone.       *)
LEMMA RedeemKeeps ==
    ASSUME Parameters, NoneApart, RequestInv, Typed', NEW c \in Client, Redeem(c) PROVE Kept
<1> Typed
  BY DEF RequestInv
<1>1. /\ calls[c] \in Call /\ calls[c].secret \in Secret /\ ~Idle(c)
      /\ UNCHANGED <<asked, made>> /\ \A r : c \notin Takers(r)
  BY Underway DEF Redeem, At, Named, Typed, TypeOK, Takers
<1> PICK s \in Secret : s = calls[c].secret
  BY <1>1
<1>2. CASE ~Redeemable(s)
  <2>1. Set(c, None) /\ requests' = requests
    BY <1>2 DEF Redeem, Ends
  <2>2. \A r \in Secret : Quiet(r)
    BY <1>1, <2>1, CallApart DEF Takes
  <2>3. QED
    BY <1>1, <2>2, NoneChanges DEF Kept, Promise!vars, Stages
<1>3. CASE Redeemable(s)
  <2> PICK user \in User : user = requests[s].by
    BY <1>3 DEF Redeemable, Typed, TypeOK, Request
  <2> DEFINE call == [calls[c] EXCEPT !.pc = "user", !.user = user]
  <2>1. Waiting(s) /\ user # None
    BY <1>3 DEF Redeemable, Waiting, Parameters
  <2>2. Set(c, call) /\ requests' = [requests EXCEPT ![s] = None]
    BY <1>3 DEF Redeem
  <2>3. call \in Call /\ call.pc = "user" /\ call.secret = s /\ call.user = user
    BY <1>1, <2>1 DEF Call
  <2> HIDE DEF call
  <2>4. Takes(call, s) /\ \A r \in Secret : r # s => ~Takes(call, r)
    BY <2>3 DEF Takes, NoneApart
  <2>5. \A r \in Secret : r # s => Quiet(r)
    BY <1>1, <2>2, <2>4, CallApart DEF Typed, TypeOK
  <2>6. OneStage(s) /\ Takers(s) = {} /\ ~Led(s) /\ s \in asked
    BY <1>1, <2>1 DEF RequestInv, OneStage, Waiting
  <2>7. Takers(s)' = {c} /\ calls'[c].user = user /\ ~Led(s)' /\ requests'[s] = None
    BY <1>1, <2>2, <2>3, <2>4, <2>6, TakersMove DEF Led, Typed, TypeOK
  <2>8. OneStage(s)'
    BY <2>7 DEF OneStage
  <2>9. StageOf(s) = In("allowed", user)
    BY <1>1, <2>1, <2>6, StagesTold DEF StageTold
  <2>10. StageOf(s)' = In("taken", user)
    BY <1>1, <2>7, <2>8, StagesToldNext DEF StageTold, In
  <2>11. RequestInv' /\ Promise!Move(s, "allowed", "taken", user) /\ Stages' # Stages
    BY <1>1, <2>5, <2>7, <2>8, <2>9, <2>10, StageMoves DEF In
  <2>12. Promise!Take(s)
    <3>1. Stages[s].user = user
      BY <1>1, <2>9 DEF Stages, In
    <3>2. QED
      BY <1>1, <2>11, <3>1 DEF Promise!Take, Stages
  <2>13. QED
    BY <1>1, <2>11, <2>12 DEF Kept, Promise!Next, Stages
<1>4. QED
  BY <1>2, <1>3

(* What is known of a secret that a call has taken.                        *)
LEMMA TakenKnown ==
    ASSUME Parameters, RequestInv, NEW s \in Secret, NEW c \in Takers(s)
    PROVE  /\ OneStage(s) /\ Takers(s) = {c} /\ ~Led(s) /\ requests[s] = None /\ s \in asked
           /\ StageOf(s) = In("taken", calls[c].user)
           /\ \A r \in Secret : r # s => c \notin Takers(r)
           /\ c \in Client /\ calls[c] \in Call /\ calls[c].user \in User
<1>1. OneStage(s)
  BY DEF RequestInv
<1>2. StageOf(s) = In("taken", calls[c].user)
  BY <1>1, StagesTold DEF StageTold
<1>3. /\ c \in Client /\ ~Idle(c) /\ calls[c].secret = s
      /\ calls[c] \in Call /\ Named(calls[c], asked) /\ calls[c].pc \in {"user", "session"}
  BY Underway DEF Takers, RequestInv
<1>4. s \in asked /\ calls[c].user \in User
  BY <1>3 DEF Named, Parameters
<1>5. Takers(s) = {c} /\ ~Led(s) /\ requests[s] = None
  BY <1>1 DEF OneStage
<1>6. \A r \in Secret : r # s => c \notin Takers(r)
  BY <1>3 DEF Takers
<1>7. QED
  BY <1>1, <1>2, <1>3, <1>4, <1>5, <1>6

(* A call that ends after redeeming takes the request with it.             *)
LEMMA EndsKeeps ==
    ASSUME Parameters, RequestInv, Typed', NEW c \in Client, Set(c, None),
           UNCHANGED <<requests, asked, made>>
    PROVE  Kept
<1> Typed /\ \A r : ~Takes(None, r)
  BY DEF RequestInv, Takes
<1>1. CASE \A s \in Secret : c \notin Takers(s)
  <2>1. \A s \in Secret : Quiet(s)
    BY <1>1, CallApart
  <2>2. QED
    BY <2>1, NoneChanges DEF Kept, Promise!vars, Stages
<1>2. ASSUME NEW s \in Secret, c \in Takers(s) PROVE Kept
  <2>1. /\ OneStage(s) /\ Takers(s) = {c} /\ ~Led(s) /\ requests[s] = None /\ s \in asked
        /\ StageOf(s) = In("taken", calls[c].user)
        /\ \A r \in Secret : r # s => c \notin Takers(r)
    BY <1>2, TakenKnown
  <2>2. \A r \in Secret : r # s => Quiet(r)
    BY <2>1, CallApart
  <2>3. Takers(s)' = {} /\ ~Led(s)' /\ requests'[s] = None /\ s \in asked'
    BY <2>1, TakersMove DEF Led
  <2>4. OneStage(s)'
    BY <2>3 DEF OneStage
  <2>5. StageOf(s)' = In("gone", None)
    BY <2>3, <2>4, StagesToldNext DEF StageTold, Waiting, In
  <2>6. StageOf(s).at = "taken"
    BY <2>1 DEF In
  <2>7. QED
    BY <2>2, <2>3, <2>4, <2>5, <2>6, StageDrops
<1>3. QED
  BY <1>1, <1>2

LEMMA ReadKeeps ==
    ASSUME Parameters, NoneApart, RequestInv, Typed', NEW c \in Client, ReadUser(c) PROVE Kept
<1> Typed
  BY DEF RequestInv
<1> DEFINE call == [calls[c] EXCEPT !.pc = "session"]
<1>1. UNCHANGED <<requests, asked, made>> /\ (Set(c, call) \/ Set(c, None))
  BY DEF ReadUser, Ends
<1>2. CASE Set(c, None)
  BY <1>1, <1>2, EndsKeeps
<1>3. CASE Set(c, call)
  <2>1. calls[c] \in Call /\ ~Idle(c) /\ calls[c].pc = "user"
    BY Underway DEF ReadUser, At
  <2>2. /\ call \in Call /\ call.pc = "session" /\ call.secret = calls[c].secret
        /\ call.user = calls[c].user /\ call # None
    BY <2>1 DEF Call, NoneApart
  <2> HIDE DEF call
  <2>3. ASSUME NEW s \in Secret PROVE Quiet(s)
    <3>1. Takes(call, s) <=> c \in Takers(s)
      BY <2>1, <2>2 DEF Takes, Takers
    <3>2. Takers(s)' = Takers(s) /\ calls'[c] = call
          /\ \A d \in Client : d # c => calls'[d] = calls[d]
      BY <1>3, <3>1, TakersMove
    <3>3. QED
      BY <1>1, <2>2, <3>2 DEF Quiet, Takers
  <2>4. QED
    BY <1>1, <2>3, NoneChanges DEF Kept, Promise!vars, Stages
<1>4. QED
  BY <1>1, <1>2, <1>3

(* Admit: the session is that of the user who allowed the request.         *)
LEMMA SessionKeeps ==
    ASSUME Parameters, NoneApart, RequestInv, Typed', NEW c \in Client, CreateSession(c)
    PROVE  Kept
<1> Typed
  BY DEF RequestInv
<1>1. calls[c] \in Call /\ ~Idle(c) /\ calls[c].pc = "session" /\ calls[c].user \in User
  BY Underway DEF CreateSession, At, Named
<1>2. UNCHANGED <<requests, asked>>
  BY DEF CreateSession
<1>3. CASE ~There(calls[c].user)
  <2>1. Set(c, None) /\ made' = made
    BY <1>3 DEF CreateSession, Ends
  <2>2. QED
    BY <1>2, <2>1, EndsKeeps
<1>4. CASE There(calls[c].user)
  <2>1. PICK t \in Token : Set(c, [calls[c] EXCEPT !.pc = "answer", !.token = t])
    BY <1>4 DEF CreateSession
  <2> DEFINE call == [calls[c] EXCEPT !.pc = "answer", !.token = t]
  <2>2. call.pc = "answer" /\ Set(c, call)
    BY <1>1, <2>1 DEF Call
  <2> HIDE DEF call
  <2>3. \A s : ~Takes(call, s)
    BY <2>2 DEF Takes
  <2>4. CASE calls[c].secret = None
    <3>1. made' = made
      BY <1>4, <2>4 DEF CreateSession
    <3>2. \A s \in Secret : c \notin Takers(s)
      BY <2>4 DEF Takers, Parameters
    <3>3. \A s \in Secret : Quiet(s)
      BY <1>2, <2>2, <2>3, <3>1, <3>2, CallApart
    <3>4. QED
      BY <3>1, <3>3, NoneChanges DEF Kept, Promise!vars, Stages
  <2>5. ASSUME NEW s \in Secret, calls[c].secret = s PROVE Kept
    <3>1. PICK user \in User : user = calls[c].user
      BY <1>1
    <3>2. c \in Takers(s)
      BY <1>1, <2>5 DEF Takers
    <3>3. /\ OneStage(s) /\ Takers(s) = {c} /\ ~Led(s) /\ requests[s] = None /\ s \in asked
          /\ StageOf(s) = In("taken", user)
          /\ \A r \in Secret : r # s => c \notin Takers(r)
      BY <3>1, <3>2, TakenKnown
    <3>4. made' = [made EXCEPT ![s][user] = @ + 1]
      BY <1>4, <2>5, <3>1 DEF CreateSession, Parameters
    <3>5. made'[s][user] > 0 /\ \A r \in Secret : r # s => made'[r] = made[r]
      BY <3>4 DEF Typed, TypeOK
    <3>6. \A r \in Secret : r # s => Quiet(r)
      BY <1>2, <2>2, <2>3, <3>3, <3>5, CallApart
    <3>7. Takers(s)' = {} /\ Led(s)' /\ requests'[s] = None /\ s \in asked'
      BY <1>2, <2>2, <2>3, <3>3, <3>5, TakersMove DEF Led
    <3>8. OneStage(s)'
      BY <3>7 DEF OneStage
    <3>9. StageOf(s)' = In("admitted", None)
      BY <3>7, <3>8, StagesToldNext DEF StageTold, In
    <3>10. StageOf(s).at = "taken"
      BY <3>3 DEF In
    <3>11. RequestInv' /\ Promise!Move(s, "taken", "admitted", None) /\ Stages' # Stages
      BY <3>6, <3>7, <3>8, <3>9, <3>10, StageMoves
    <3>12. Promise!Admit(s)
      <4>1. Stages[s].user = user
        BY <3>3 DEF Stages, In
      <4>2. QED
        BY <3>4, <3>11, <4>1 DEF Promise!Admit, Stages
    <3>13. QED
      BY <3>11, <3>12 DEF Kept, Promise!Next, Stages
  <2>6. QED
    BY <1>1, <2>4, <2>5 DEF Call
<1>5. QED
  BY <1>3, <1>4

(* Drop: with a user go the requests the user has allowed.                 *)
LEMMA DeleteKeeps ==
    ASSUME Parameters, NoneApart, RequestInv, Typed', NEW u \in User, DeleteUser(u) PROVE Kept
<1> Typed
  BY DEF RequestInv
<1> DEFINE Of(s) == requests[s] # None /\ requests[s].by = u
           Gone == {s \in Secret : Of(s) /\ requests[s].live}
<1>1. /\ UNCHANGED <<calls, asked, made>>
      /\ \A s \in Secret : requests'[s] = IF Of(s) THEN None ELSE requests[s]
  BY DEF DeleteUser
<1>2. \A s \in Secret \ Gone : Quiet(s)
  BY <1>1 DEF Quiet, Takers, Idle, Waiting
<1>3. ASSUME NEW s \in Gone
      PROVE  OneStage(s)' /\ StageOf(s).at = "allowed" /\ StageOf(s)' = In("gone", None)
  <2>1. s \in Secret /\ Waiting(s) /\ requests[s].by = u /\ u # None /\ requests'[s] = None
    BY <1>1 DEF Waiting, Parameters
  <2>2. OneStage(s) /\ Takers(s) = {} /\ ~Led(s) /\ s \in asked
    BY <2>1 DEF RequestInv, OneStage, Waiting
  <2>3. Takers(s)' = {} /\ ~Led(s)'
    BY <1>1, <2>2 DEF Takers, Idle, Led
  <2>4. OneStage(s)'
    BY <1>1, <2>1, <2>2, <2>3 DEF OneStage
  <2>5. StageOf(s).at = "allowed"
    BY <2>1, <2>2, StagesTold DEF StageTold, In
  <2>6. StageOf(s)' = In("gone", None)
    BY <1>1, <2>1, <2>2, <2>3, <2>4, StagesToldNext DEF StageTold, Waiting, In
  <2>7. QED
    BY <2>4, <2>5, <2>6
<1>4. RequestInv'
  <2>1. \A s \in Secret : OneStage(s)'
    BY <1>2, <1>3, QuietKeeps DEF RequestInv
  <2>2. CodesApart'
    BY <1>1 DEF CodesApart, RequestInv
  <2>3. QED
    BY <2>1, <2>2 DEF RequestInv
<1>5. PICK G \in SUBSET Secret : G = Gone
  OBVIOUS
<1> HIDE DEF Gone
<1>6. Stages' = [s \in Secret |-> IF s \in G THEN [at |-> "gone", user |-> None] ELSE Stages[s]]
  BY <1>2, <1>3, <1>5, QuietKeeps DEF Stages, RequestInv, In
<1>7. \A s \in G : Stages[s].at = "allowed"
  BY <1>3, <1>5 DEF Stages
<1>8. Promise!Drop(G)
  BY <1>1, <1>6, <1>7 DEF Promise!Drop, Promise!In, Stages
<1>9. CASE Stages' = Stages
  BY <1>1, <1>4, <1>9 DEF Kept, Promise!vars, Stages
<1>10. CASE Stages' # Stages
  BY <1>4, <1>8, <1>10 DEF Kept, Promise!Next, Stages
<1>11. QED
  BY <1>9, <1>10

-----------------------------------------------------------------------------
LEMMA NextKeeps ==
    ASSUME Parameters, NoneApart PROVE RequestInv /\ [Next]_vars => Kept
<1> SUFFICES ASSUME RequestInv, [Next]_vars PROVE Kept
  OBVIOUS
<1>1. Typed'
  BY NextTyped DEF RequestInv
<1>2. CASE UNCHANGED vars
  BY <1>1, <1>2, OthersQuiet DEF vars
<1>3. ASSUME NEW c \in Client, CallBegins(c) \/ CallStep(c) PROVE Kept
  BY <1>1, <1>3, QuietSteps, RevokeQuiet, CreateKeeps, AuthorizeKeeps, RedeemKeeps, ReadKeeps,
     SessionKeeps
     DEF CallStep
<1>4. ASSUME NEW c \in Client, CallFails(c) PROVE Kept
  BY <1>1, <1>4, EndsKeeps DEF CallFails, Ends
<1>5. ASSUME NEW c \in Client, RemoveDevice(c) PROVE Kept
  BY <1>1, <1>5, OthersQuiet DEF RemoveDevice
<1>6. ASSUME NEW t \in Token, SignOut(t) PROVE Kept
  BY <1>1, <1>6, OthersQuiet DEF SignOut
<1>7. CASE CreateUser
  BY <1>1, <1>7, OthersQuiet DEF CreateUser
<1>8. QED
  BY <1>1, <1>2, <1>3, <1>4, <1>5, <1>6, <1>7, ExpireKeeps, DeleteKeeps DEF Next

(* Quick connect keeps what Admission promises, for any number of devices, *)
(* secrets and users and whatever fails: a request leads to one session at *)
(* most, once allowed, and of the user who allowed it.                     *)
THEOREM KeepsThePromise == ASSUME Parameters, NoneApart PROVE Spec => KeepsPromise
<1>1. Init => RequestInv /\ Promise!Init
  <2> SUFFICES ASSUME Init PROVE RequestInv /\ Promise!Init
    OBVIOUS
  <2>1. \A s \in Secret : /\ requests[s] = None /\ Takers(s) = {} /\ ~Led(s) /\ s \notin asked
    BY DEF Init, Takers, Idle, Led
  <2>2. CodesApart /\ \A s \in Secret : OneStage(s)
    BY <2>1 DEF CodesApart, OneStage
  <2>3. \A s \in Secret : StageOf(s) = In("unused", None)
    BY <2>1, <2>2, StagesTold DEF StageTold, Waiting
  <2>4. Promise!Init
    BY <2>3 DEF Promise!Init, Promise!In, In, Init
  <2>5. QED
    BY <2>2, <2>4, InitTyped DEF RequestInv
<1>2. RequestInv /\ [Next]_vars => RequestInv' /\ [Promise!Next]_Promise!vars
  BY NextKeeps DEF Kept
<1>3. QED
  BY <1>1, <1>2, PTL DEF Spec, KeepsPromise, Promise!Spec
=============================================================================
