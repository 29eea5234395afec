----------------------------- MODULE Challenges -----------------------------
(***************************************************************************)
(* The challenges between a password and the tokens: sessions, the method  *)
(* of MFA they ask for, codes by SMS and the setup of a software token.    *)
(*                                                                         *)
(* Passwords and answers are good ones unless an action says otherwise; a  *)
(* call that a check refuses before it touches a session changes nothing.  *)
(* What a sign-in issues, triggers and `enabled' are in RefreshTokens.     *)
(* Time passes in ticks, also while the server is down; sessions.json is   *)
(* read back by a start, which changes nothing else here.                  *)
(***************************************************************************)
EXTENDS DataStore, Sequences, Integers

CONSTANTS
  Pools,
  Names,            \* usernames, which several pools may have
  Sessions,
  Codes,            \* codes by SMS: two draws never give the same one
  Checks,           \* one for each password that is checked (history)
  TTL               \* the life of a session, in ticks

None == "none"

Users == Pools \X Names

ASSUME ChallengesAssumption ==
  /\ TTL \in Nat
  /\ None \notin Codes \cup Checks

Methods == {"SMS_MFA", "SOFTWARE_TOKEN_MFA"}

\* `secret': softwareTokenMfa.secret is there.  Its flag `enabled' is written
\* and never read.
Account ==
  [status : {"CONFIRMED", "FORCE_CHANGE_PASSWORD"}, methods : SUBSET Methods,
   secret : BOOLEAN, mfaCode : Codes \cup {None}]

\* The challenges whose answer signs in, or leads to one that does.
SignInChallenges == Methods \cup {"NEW_PASSWORD_REQUIRED", "SELECT_MFA_TYPE"}

\* `check' is the password check the session goes back to (history).
Session ==
  [challenge : SignInChallenges \cup {"MFA_SETUP"}, user : Users, age : 0 .. TTL,
   check : Checks \cup {None}]

\* A password check, and who signed in on the strength of it.  It ages until
\* then, up to a bound.
MaxAge == 2 * TTL + 1

Check == [user : Users, age : 0 .. MaxAge, signIns : Seq(Users)]

VARIABLES
  users,            \* users.json, for what the challenges look at
  sessions,         \* sessions.json
  checks,           \* password checks that opened a session (history)
  unchecked,        \* sign-ins that go back to no password check (history)
  spent             \* SMS codes that completed a sign-in (history)

vars == <<users, sessions, checks, unchecked, spent>>

TypeOK ==
  /\ DOMAIN users \subseteq Users
  /\ users \in [DOMAIN users -> Account]
  /\ DOMAIN sessions \subseteq Sessions
  /\ sessions \in [DOMAIN sessions -> Session]
  /\ DOMAIN checks \subseteq Checks
  /\ checks \in [DOMAIN checks -> Check]
  /\ unchecked \subseteq Users
  /\ spent \subseteq Codes

NewAccount(status) == [status |-> status, methods |-> {}, secret |-> FALSE, mfaCode |-> None]

Init ==
  /\ users = Empty
  /\ sessions = Empty
  /\ checks = Empty
  /\ unchecked = {}
  /\ spent = {}

-----------------------------------------------------------------------------
(* Opening a session.                                                       *)

NewSession(challenge, u, c) == [challenge |-> challenge, user |-> u, age |-> 0, check |-> c]

\* 64 random bytes.
FreshSessions == Sessions \ DOMAIN sessions

FreshChecks == Checks \ DOMAIN checks

FreshCodes == Codes \ (spent \cup {users[u].mfaCode : u \in DOMAIN users})

\* A password is checked and a session opened instead of a sign-in.
Challenge(u, challenge, s, c) ==
  /\ s \in FreshSessions
  /\ c \in FreshChecks
  /\ sessions' = Set(sessions, s, NewSession(challenge, u, c))
  /\ checks' = Set(checks, c, [user |-> u, age |-> 0, signIns |-> <<>>])
  /\ UNCHANGED <<unchecked, spent>>

\* InitiateAuth in a pool that has MFA on or optional just now
\* (SetUserPoolMfaConfig); a user without a method is not asked.
InitiateAuth(u, s, c) ==
  /\ u \in DOMAIN users
  /\ \/ /\ users[u].methods = Methods
        /\ Challenge(u, "SELECT_MFA_TYPE", s, c)
        /\ UNCHANGED users
     \/ /\ users[u].methods = {"SOFTWARE_TOKEN_MFA"}
        /\ Challenge(u, "SOFTWARE_TOKEN_MFA", s, c)
        /\ UNCHANGED users
     \/ /\ users[u].methods = {"SMS_MFA"}
        /\ Challenge(u, "SMS_MFA", s, c)
        /\ \E code \in FreshCodes : users' = Set(users, u, [users[u] EXCEPT !.mfaCode = code])

\* AdminInitiateAuth does not ask for MFA.
AdminInitiateAuth(u, s, c) ==
  /\ u \in DOMAIN users
  /\ users[u].status = "FORCE_CHANGE_PASSWORD"
  /\ Challenge(u, "NEW_PASSWORD_REQUIRED", s, c)
  /\ UNCHANGED users

-----------------------------------------------------------------------------
(* RespondToAuthChallenge.  The session is consumed first.  The account is *)
(* looked up by the session's username in the pool of the request's client:*)
(* the pool and client of the session are not compared with it.            *)

\* Mutant: the session is looked at and stays.
LookAtSession(s, challenge) ==
  /\ s \in DOMAIN sessions
  /\ sessions[s].challenge = challenge
  /\ UNCHANGED sessions

\* Mutant: the ChallengeName of the request is not compared.
ConsumeAnySession(s, challenge) ==
  /\ s \in DOMAIN sessions
  /\ sessions' = Delete(sessions, s)

ConsumeSession(s, challenge) ==
  /\ s \in DOMAIN sessions
  /\ sessions[s].challenge = challenge
  /\ sessions' = Delete(sessions, s)

\* getUser.  A name stands for its spellings where letter case does not matter:
\* the code falls back to an account whose name differs in that alone.
AccountIn(p, s) == <<p, sessions[s].user[2]>>

\* The session's check is paid with a sign-in as u (history).
SignsIn(u, s) ==
  IF sessions[s].check \in DOMAIN checks
    THEN /\ checks' = [checks EXCEPT ![sessions[s].check].signIns = Append(@, u)]
         /\ UNCHANGED unchecked
    ELSE /\ unchecked' = unchecked \cup {u}
         /\ UNCHANGED checks

AnswerNewPassword(s, u) ==
  /\ ConsumeSession(s, "NEW_PASSWORD_REQUIRED")
  /\ u \in DOMAIN users
  /\ users' = Set(users, u, [users[u] EXCEPT !.status = "CONFIRMED"])
  /\ SignsIn(u, s)
  /\ UNCHANGED spent

\* Mutant: the code stays with the account.
AnswerSmsKeepingCode(s, u) ==
  /\ ConsumeSession(s, "SMS_MFA")
  /\ u \in DOMAIN users
  /\ users[u].mfaCode # None
  /\ spent' = spent \cup {users[u].mfaCode}
  /\ SignsIn(u, s)
  /\ UNCHANGED users

AnswerSms(s, u) ==
  /\ ConsumeSession(s, "SMS_MFA")
  /\ u \in DOMAIN users
  /\ users[u].mfaCode # None
  /\ spent' = spent \cup {users[u].mfaCode}
  /\ users' = Set(users, u, [users[u] EXCEPT !.mfaCode = None])
  /\ SignsIn(u, s)

\* The secret need not be verified, nor the method be one of the user's.
AnswerSoftwareToken(s, u) ==
  /\ ConsumeSession(s, "SOFTWARE_TOKEN_MFA")
  /\ u \in DOMAIN users
  /\ users[u].secret
  /\ SignsIn(u, s)
  /\ UNCHANGED <<users, spent>>

\* A session of another kind takes the place of the one that is answered.
ReplaceSession(s, next, challenge, u, c) ==
  /\ next \in FreshSessions
  /\ sessions' = Set(Delete(sessions, s), next, NewSession(challenge, u, c))

\* No code is drawn for SMS_MFA.
SelectMfaType(s, next, u, method) ==
  /\ s \in DOMAIN sessions
  /\ sessions[s].challenge = "SELECT_MFA_TYPE"
  /\ u \in DOMAIN users
  /\ ReplaceSession(s, next, method, u, sessions[s].check)
  /\ UNCHANGED <<users, checks, unchecked, spent>>

AnswerMfaSetup(s, next, u) ==
  /\ s \in DOMAIN sessions
  /\ sessions[s].challenge = "MFA_SETUP"
  /\ u \in DOMAIN users
  /\ ReplaceSession(s, next, "MFA_SETUP", u, None)
  /\ UNCHANGED <<users, checks, unchecked, spent>>

\* Another ChallengeName, an answer that is missing or wrong, no such user.
AnswerRefused(s) ==
  /\ s \in DOMAIN sessions
  /\ sessions' = Delete(sessions, s)
  /\ UNCHANGED <<users, checks, unchecked, spent>>

-----------------------------------------------------------------------------
(* The software token.  Both calls take the user from an access token or   *)
(* from any session, which is not consumed; so any user there is.          *)

\* A new secret takes the place of the old one before it is verified.
AssociateSoftwareToken(u, s) ==
  /\ u \in DOMAIN users
  /\ s \in FreshSessions
  /\ users' = Set(users, u, [users[u] EXCEPT !.secret = TRUE])
  /\ sessions' = Set(sessions, s, NewSession("MFA_SETUP", u, None))
  /\ UNCHANGED <<checks, unchecked, spent>>

\* With a Session the answer carries another one.
VerifySoftwareToken(u) ==
  /\ u \in DOMAIN users
  /\ users[u].secret
  /\ users' = Set(users, u, [users[u] EXCEPT !.methods = @ \cup {"SOFTWARE_TOKEN_MFA"}])
  /\ \/ UNCHANGED sessions
     \/ \E s \in FreshSessions : sessions' = Set(sessions, s, NewSession("MFA_SETUP", u, None))
  /\ UNCHANGED <<checks, unchecked, spent>>

\* (Admin)SetUserMFAPreference: each method is added, removed or left, with a
\* secret or without.
SetUserMfaPreference(u, methods) ==
  /\ u \in DOMAIN users
  /\ users' = Set(users, u, [users[u] EXCEPT !.methods = methods])
  /\ UNCHANGED <<sessions, checks, unchecked, spent>>

-----------------------------------------------------------------------------
(* Accounts come and go under the sessions.                                 *)

\* AdminCreateUser, or SignUp and its confirmation, or a start that finds a
\* seed user missing.
CreateUser(u, status) ==
  /\ u \notin DOMAIN users
  /\ users' = Set(users, u, NewAccount(status))
  /\ UNCHANGED <<sessions, checks, unchecked, spent>>

\* AdminSetUserPassword, permanent or not.
SetStatus(u, status) ==
  /\ u \in DOMAIN users
  /\ users' = Set(users, u, [users[u] EXCEPT !.status = status])
  /\ UNCHANGED <<sessions, checks, unchecked, spent>>

\* (Admin)DeleteUser leaves the sessions.
DeleteUser(u) ==
  /\ u \in DOMAIN users
  /\ users' = Delete(users, u)
  /\ UNCHANGED <<sessions, checks, unchecked, spent>>

\* Mutant: what is found past its time is answered all the same.
NeverOver(s) == FALSE

Over(s) == sessions[s].age = TTL

Older(check) ==
  IF check.signIns = <<>> /\ check.age < MaxAge THEN [check EXCEPT !.age = @ + 1] ELSE check

\* A session that is over is found by nobody, before the sweep or after.
Tick ==
  /\ sessions' =
       [s \in {x \in DOMAIN sessions : ~Over(x)} |-> [sessions[s] EXCEPT !.age = @ + 1]]
  /\ checks' = [c \in DOMAIN checks |-> Older(checks[c])]
  /\ UNCHANGED <<users, unchecked, spent>>

Answer(s) ==
  \/ AnswerRefused(s)
  \/ \E p \in Pools :
       \/ AnswerNewPassword(s, AccountIn(p, s))
       \/ AnswerSms(s, AccountIn(p, s))
       \/ AnswerSoftwareToken(s, AccountIn(p, s))
       \/ \E next \in Sessions :
            \/ \E method \in Methods : SelectMfaType(s, next, AccountIn(p, s), method)
            \/ AnswerMfaSetup(s, next, AccountIn(p, s))

ForUser(u) ==
  \/ \E s \in Sessions, c \in Checks : InitiateAuth(u, s, c) \/ AdminInitiateAuth(u, s, c)
  \/ \E s \in Sessions : AssociateSoftwareToken(u, s)
  \/ VerifySoftwareToken(u)
  \/ \E methods \in SUBSET Methods : SetUserMfaPreference(u, methods)
  \/ \E status \in {"CONFIRMED", "FORCE_CHANGE_PASSWORD"} : CreateUser(u, status) \/ SetStatus(u, status)
  \/ DeleteUser(u)

Next ==
  \/ \E s \in DOMAIN sessions : Answer(s)
  \/ \E u \in Users : ForUser(u)
  \/ Tick

Spec == Init /\ [][Next]_vars

-----------------------------------------------------------------------------
(* Properties.                                                              *)

\* A password check is good for one sign-in at most, of the username it was
\* made for (in any spelling, where case does not matter), within two lives of a
\* session: no chain of answers, software token calls and deletions multiplies,
\* renews or diverts it.
OneSignInPerCheck ==
  \A c \in DOMAIN checks :
    LET check == checks[c]
    IN  /\ Len(check.signIns) <= 1
        /\ check.signIns # <<>> => check.age <= 2 * TTL /\ check.signIns[1][2] = check.user[2]

\* A session of the setup of a software token, which may be had for an access
\* token, leads to no sign-in.
NoUncheckedSignIn == unchecked = {}

\* A code by SMS that completed a sign-in completes no other, although the
\* sessions of an account share it.
SpentCodesGone == \A u \in DOMAIN users : users[u].mfaCode \notin spent
=============================================================================
