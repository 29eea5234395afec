-------------------------- MODULE ChallengesProofs --------------------------
(***************************************************************************)
(* Challenges, for any pools, usernames, codes and life of a session.      *)
(***************************************************************************)
EXTENDS Challenges, SequenceTheorems, TLAPS

USE ChallengesAssumption

\* How old the check behind a session may be, beyond the session itself: the
\* session of a method may have come out of a choice between two.
Slack(challenge) == IF challenge \in Methods THEN TTL ELSE 0

\* A session that may sign in goes back to a check that nobody signed in on
\* yet, of its own username, and not older than its chain allows.
SessionsUnpaid ==
  \A s \in DOMAIN sessions :
    sessions[s].challenge \in SignInChallenges =>
      LET c == sessions[s].check
      IN  /\ c \in DOMAIN checks
          /\ checks[c].signIns = <<>>
          /\ checks[c].user[2] = sessions[s].user[2]
          /\ checks[c].age <= sessions[s].age + Slack(sessions[s].challenge)

\* No two such sessions go back to one check.
ChecksNotShared ==
  \A s, t \in DOMAIN sessions :
    /\ sessions[s].challenge \in SignInChallenges
    /\ sessions[t].challenge \in SignInChallenges
    /\ sessions[s].check = sessions[t].check
    => s = t

\* The accounts and the codes on one side, the sessions and the checks on the
\* other: most actions change one of them only.
AccountsOK ==
  /\ DOMAIN users \subseteq Users
  /\ users \in [DOMAIN users -> Account]
  /\ spent \subseteq Codes

SessionsOK ==
  /\ DOMAIN sessions \subseteq Sessions
  /\ sessions \in [DOMAIN sessions -> Session]

ChecksOK ==
  /\ DOMAIN checks \subseteq Checks
  /\ checks \in [DOMAIN checks -> Check]

\* A code is with one account.
CodesNotShared ==
  \A u, v \in DOMAIN users :
    users[u].mfaCode = users[v].mfaCode => u = v \/ users[u].mfaCode = None

AccountsInv == AccountsOK /\ SpentCodesGone /\ CodesNotShared

SessionsInv ==
  /\ SessionsOK
  /\ ChecksOK
  /\ SessionsUnpaid
  /\ ChecksNotShared
  /\ OneSignInPerCheck
  /\ NoUncheckedSignIn

Inv == AccountsInv /\ SessionsInv

-----------------------------------------------------------------------------
(* The shape of the values.                                                 *)

LEMMA Bounds == TTL \in Nat /\ MaxAge \in Nat /\ MaxAge = 2 * TTL + 1
BY DEF MaxAge

LEMMA ChallengeNames ==
  /\ "MFA_SETUP" \notin SignInChallenges
  /\ Methods \subseteq SignInChallenges
  /\ {"NEW_PASSWORD_REQUIRED", "SELECT_MFA_TYPE"} \subseteq SignInChallenges
  /\ "SELECT_MFA_TYPE" \notin Methods
BY DEF SignInChallenges, Methods

\* Access to the fields of what is stored.
LEMMA SessionFields ==
  ASSUME SessionsOK, NEW s \in DOMAIN sessions
  PROVE  /\ sessions[s].user \in Users
         /\ sessions[s].age \in 0 .. TTL
         /\ sessions[s].check \in Checks \cup {None}
BY DEF SessionsOK, Session

LEMMA CheckFields ==
  ASSUME ChecksOK, NEW c \in DOMAIN checks
  PROVE  /\ checks[c].user \in Users
         /\ checks[c].age \in 0 .. MaxAge
         /\ checks[c].signIns \in Seq(Users)
BY DEF ChecksOK, Check

LEMMA SlackBound == \A challenge : Slack(challenge) \in 0 .. TTL
BY DEF Slack

-----------------------------------------------------------------------------
(* The sessions and the checks change in one of seven ways.                 *)

Opens(u, challenge, s, c) ==
  /\ u \in Users
  /\ challenge \in SignInChallenges
  /\ Challenge(u, challenge, s, c)

OpensSetup(u, s) ==
  /\ u \in Users
  /\ s \in FreshSessions
  /\ sessions' = Set(sessions, s, NewSession("MFA_SETUP", u, None))
  /\ UNCHANGED <<checks, unchecked>>

Pays(s, u) ==
  /\ s \in DOMAIN sessions
  /\ sessions[s].challenge \in SignInChallenges
  /\ sessions' = Delete(sessions, s)
  /\ \E p \in Pools : u = AccountIn(p, s)
  /\ SignsIn(u, s)

Selects(s, next, u, method) ==
  /\ s \in DOMAIN sessions
  /\ sessions[s].challenge = "SELECT_MFA_TYPE"
  /\ method \in Methods
  /\ \E p \in Pools : u = AccountIn(p, s)
  /\ ReplaceSession(s, next, method, u, sessions[s].check)
  /\ UNCHANGED <<checks, unchecked>>

SetsUp(s, next, u) ==
  /\ s \in DOMAIN sessions
  /\ \E p \in Pools : u = AccountIn(p, s)
  /\ ReplaceSession(s, next, "MFA_SETUP", u, None)
  /\ UNCHANGED <<checks, unchecked>>

Drops(s) ==
  /\ s \in DOMAIN sessions
  /\ sessions' = Delete(sessions, s)
  /\ UNCHANGED <<checks, unchecked>>

SessionStep ==
  \/ \E s \in Sessions, u \in Users : OpensSetup(u, s)
  \/ \E s \in Sessions, u \in Users, c \in Checks, challenge \in SignInChallenges :
       Opens(u, challenge, s, c)
  \/ \E s \in Sessions : \E u : Pays(s, u)
  \/ \E s, next \in Sessions, method \in Methods : \E u : Selects(s, next, u, method)
  \/ \E s, next \in Sessions : \E u : SetsUp(s, next, u)
  \/ \E s \in Sessions : Drops(s)
  \/ Tick
  \/ UNCHANGED <<sessions, checks, unchecked>>

\* Whoever answers, the username is the session's.
LEMMA AccountInType ==
  ASSUME SessionsOK, NEW s \in DOMAIN sessions, NEW p \in Pools
  PROVE  AccountIn(p, s) \in Users /\ AccountIn(p, s)[2] = sessions[s].user[2]
BY SessionFields DEF AccountIn, Users

\* With a session gone the others are as they were.
LEMMA Deleted ==
  ASSUME SessionsInv, NEW s, UNCHANGED <<checks, unchecked>>, sessions' = Delete(sessions, s)
  PROVE  SessionsInv'
BY DEF SessionsInv, SessionsOK, ChecksOK, SessionsUnpaid, ChecksNotShared, OneSignInPerCheck,
       NoUncheckedSignIn, Delete, Restrict

LEMMA OpensSetupKeeps ==
  ASSUME SessionsInv, NEW s \in Sessions, NEW u \in Users, OpensSetup(u, s)
  PROVE  SessionsInv'
<1> DEFINE new == NewSession("MFA_SETUP", u, None)
<1>1. new \in Session /\ new.challenge \notin SignInChallenges
  BY ChallengeNames, Bounds DEF NewSession, Session
<1>2. /\ DOMAIN sessions' = DOMAIN sessions \cup {s}
      /\ sessions' = [x \in DOMAIN sessions' |-> IF x = s THEN new ELSE sessions[x]]
      /\ UNCHANGED <<checks, unchecked>>
  BY DEF OpensSetup, Set
<1> HIDE DEF new
<1>3. SessionsOK' /\ ChecksOK' /\ OneSignInPerCheck' /\ NoUncheckedSignIn'
  BY <1>1, <1>2 DEF SessionsInv, SessionsOK, ChecksOK, OneSignInPerCheck, NoUncheckedSignIn
<1>4. SessionsUnpaid'
  BY <1>1, <1>2 DEF SessionsInv, SessionsUnpaid
<1>5. ChecksNotShared'
  BY <1>1, <1>2 DEF SessionsInv, ChecksNotShared
<1> QED
  BY <1>3, <1>4, <1>5 DEF SessionsInv

LEMMA OpensKeeps ==
  ASSUME SessionsInv, NEW s \in Sessions, NEW u \in Users, NEW c \in Checks,
         NEW challenge \in SignInChallenges, Opens(u, challenge, s, c)
  PROVE  SessionsInv'
<1> DEFINE new == NewSession(challenge, u, c)
           check == [user |-> u, age |-> 0, signIns |-> <<>>]
<1>1. /\ new \in Session
      /\ new.challenge = challenge /\ new.check = c /\ new.user = u /\ new.age = 0
  BY Bounds DEF NewSession, Session
<1>2. /\ check \in Check
      /\ check.user = u /\ check.age = 0 /\ check.signIns = <<>>
  BY Bounds DEF Check
<1>3. /\ s \notin DOMAIN sessions
      /\ DOMAIN sessions' = DOMAIN sessions \cup {s}
      /\ sessions' = [x \in DOMAIN sessions' |-> IF x = s THEN new ELSE sessions[x]]
      /\ c \notin DOMAIN checks
      /\ DOMAIN checks' = DOMAIN checks \cup {c}
      /\ checks' = [x \in DOMAIN checks' |-> IF x = c THEN check ELSE checks[x]]
      /\ UNCHANGED unchecked
  BY DEF Opens, Challenge, Set, FreshSessions, FreshChecks
<1> HIDE DEF new, check
<1>4. SessionsOK' /\ ChecksOK' /\ NoUncheckedSignIn'
  BY <1>1, <1>2, <1>3 DEF SessionsInv, SessionsOK, ChecksOK, NoUncheckedSignIn
<1>5. OneSignInPerCheck'
  BY <1>2, <1>3, EmptySeq DEF SessionsInv, OneSignInPerCheck
<1>6. SessionsUnpaid'
  BY <1>1, <1>2, <1>3, SlackBound DEF SessionsInv, SessionsUnpaid
<1>7. ChecksNotShared'
  BY <1>1, <1>3 DEF SessionsInv, ChecksNotShared, SessionsUnpaid
<1> QED
  BY <1>4, <1>5, <1>6, <1>7 DEF SessionsInv

LEMMA PaysKeeps ==
  ASSUME SessionsInv, NEW s, NEW u, Pays(s, u)
  PROVE  SessionsInv'
<1> DEFINE c == sessions[s].check
<1>1. /\ s \in DOMAIN sessions
      /\ DOMAIN sessions' = DOMAIN sessions \ {s}
      /\ sessions' = [x \in DOMAIN sessions \ {s} |-> sessions[x]]
      /\ sessions[s].challenge \in SignInChallenges
  BY DEF Pays, Delete, Restrict
<1>2. /\ c \in DOMAIN checks
      /\ checks[c].signIns = <<>>
      /\ checks[c].user[2] = sessions[s].user[2]
      /\ checks[c].age <= sessions[s].age + Slack(sessions[s].challenge)
  BY <1>1 DEF SessionsInv, SessionsUnpaid
<1>3. u \in Users /\ u[2] = checks[c].user[2]
  BY <1>1, <1>2, AccountInType DEF SessionsInv, Pays
<1>4. checks[c].age \in 0 .. MaxAge /\ checks[c].age <= 2 * TTL
  BY <1>1, <1>2, SessionFields, CheckFields, SlackBound, Bounds DEF SessionsInv
<1>5. /\ checks' = [checks EXCEPT ![c].signIns = <<u>>]
      /\ UNCHANGED unchecked
  <2>1. Append(<<>>, u) = <<u>>
    OBVIOUS
  <2> QED
    BY <2>1, <1>2 DEF Pays, SignsIn
<1> HIDE DEF c
<1>6. /\ DOMAIN checks' = DOMAIN checks
      /\ \A x \in DOMAIN checks : x # c => checks'[x] = checks[x]
      /\ checks[c] \in Check
      /\ checks'[c] = [checks[c] EXCEPT !.signIns = <<u>>]
  BY <1>2, <1>5 DEF SessionsInv, ChecksOK
<1>7. /\ checks'[c] \in Check /\ checks'[c].signIns = <<u>> /\ checks'[c].age = checks[c].age
      /\ checks'[c].user = checks[c].user
  <2>1. <<u>> \in Seq(Users)
    BY <1>3
  <2> QED
    BY <2>1, <1>6 DEF Check
<1>8. SessionsOK' /\ ChecksOK' /\ NoUncheckedSignIn'
  BY <1>1, <1>5, <1>6, <1>7 DEF SessionsInv, SessionsOK, ChecksOK, NoUncheckedSignIn
<1>9. OneSignInPerCheck'
  <2> SUFFICES ASSUME NEW x \in DOMAIN checks'
               PROVE  /\ Len(checks'[x].signIns) <= 1
                      /\ checks'[x].signIns # <<>> =>
                           checks'[x].age <= 2 * TTL /\ checks'[x].signIns[1][2] = checks'[x].user[2]
    BY DEF OneSignInPerCheck
  <2>1. CASE x = c
    BY <2>1, <1>3, <1>4, <1>7
  <2>2. CASE x # c
    BY <2>2, <1>6 DEF SessionsInv, OneSignInPerCheck
  <2> QED
    BY <2>1, <2>2
<1>10. SessionsUnpaid'
  <2> SUFFICES ASSUME NEW x \in DOMAIN sessions', sessions'[x].challenge \in SignInChallenges
               PROVE  /\ sessions'[x].check \in DOMAIN checks'
                      /\ checks'[sessions'[x].check] = checks[sessions[x].check]
                      /\ sessions'[x] = sessions[x]
    BY <1>1 DEF SessionsUnpaid, SessionsInv
  <2>1. x \in DOMAIN sessions /\ x # s /\ sessions'[x] = sessions[x]
    BY <1>1
  <2>2. sessions[x].check # c
    BY <1>1, <2>1 DEF SessionsInv, ChecksNotShared, c
  <2> QED
    BY <1>6, <2>1, <2>2 DEF SessionsInv, SessionsUnpaid
<1>11. ChecksNotShared'
  BY <1>1 DEF SessionsInv, ChecksNotShared
<1> QED
  BY <1>8, <1>9, <1>10, <1>11 DEF SessionsInv

LEMMA SelectsKeeps ==
  ASSUME SessionsInv, NEW s \in Sessions, NEW next \in Sessions, NEW u, NEW method \in Methods,
         Selects(s, next, u, method)
  PROVE  SessionsInv'
<1> DEFINE c == sessions[s].check
           new == NewSession(method, u, c)
<1>1. /\ s \in DOMAIN sessions
      /\ sessions[s].challenge \in SignInChallenges
      /\ Slack(sessions[s].challenge) = 0
  BY ChallengeNames DEF Selects, Slack
<1>2. u \in Users /\ u[2] = sessions[s].user[2]
  BY <1>1, AccountInType DEF SessionsInv, Selects
<1>3. /\ new \in Session
      /\ new.challenge = method /\ new.check = c /\ new.user = u /\ new.age = 0
  BY <1>1, <1>2, SessionFields, ChallengeNames, Bounds DEF SessionsInv, NewSession, Session
<1>4. Slack(method) = TTL /\ method \in SignInChallenges
  BY ChallengeNames DEF Slack
<1>5. /\ next \notin DOMAIN sessions
      /\ DOMAIN sessions' = (DOMAIN sessions \ {s}) \cup {next}
      /\ sessions' = [x \in DOMAIN sessions' |-> IF x = next THEN new ELSE sessions[x]]
      /\ UNCHANGED <<checks, unchecked>>
  BY DEF Selects, ReplaceSession, FreshSessions, Set, Delete, Restrict
<1>6. /\ c \in DOMAIN checks
      /\ checks[c].signIns = <<>>
      /\ checks[c].user[2] = u[2]
      /\ checks[c].age <= TTL
  <2>1. checks[c].age <= sessions[s].age + 0 /\ c \in DOMAIN checks
    BY <1>1 DEF SessionsInv, SessionsUnpaid
  <2>2. checks[c].age <= TTL
    BY <2>1, <1>1, SessionFields, CheckFields, Bounds DEF SessionsInv
  <2> QED
    BY <1>1, <1>2, <2>2 DEF SessionsInv, SessionsUnpaid
<1> HIDE DEF new, c
<1>7. SessionsOK' /\ ChecksOK' /\ OneSignInPerCheck' /\ NoUncheckedSignIn'
  BY <1>3, <1>5 DEF SessionsInv, SessionsOK, ChecksOK, OneSignInPerCheck, NoUncheckedSignIn
<1>8. SessionsUnpaid'
  <2> SUFFICES ASSUME NEW x \in DOMAIN sessions', sessions'[x].challenge \in SignInChallenges
               PROVE  /\ sessions'[x].check \in DOMAIN checks
                      /\ checks[sessions'[x].check].signIns = <<>>
                      /\ checks[sessions'[x].check].user[2] = sessions'[x].user[2]
                      /\ checks[sessions'[x].check].age
                           <= sessions'[x].age + Slack(sessions'[x].challenge)
    BY <1>5 DEF SessionsUnpaid
  <2>1. CASE x = next
    <3>1. sessions'[x] = new
      BY <2>1, <1>5
    <3> QED
      BY <3>1, <1>3, <1>4, <1>6, Bounds
  <2>2. CASE x # next
    BY <2>2, <1>5 DEF SessionsInv, SessionsUnpaid
  <2> QED
    BY <2>1, <2>2
<1>9. ChecksNotShared'
  BY <1>1, <1>3, <1>5 DEF SessionsInv, ChecksNotShared, c
<1> QED
  BY <1>7, <1>8, <1>9 DEF SessionsInv

LEMMA SetsUpKeeps ==
  ASSUME SessionsInv, NEW s \in Sessions, NEW next \in Sessions, NEW u, SetsUp(s, next, u)
  PROVE  SessionsInv'
<1> DEFINE new == NewSession("MFA_SETUP", u, None)
<1>1. u \in Users
  BY AccountInType DEF SessionsInv, SetsUp
<1>2. new \in Session /\ new.challenge \notin SignInChallenges
  BY <1>1, ChallengeNames, Bounds DEF NewSession, Session
<1>3. /\ DOMAIN sessions' = (DOMAIN sessions \ {s}) \cup {next}
      /\ next \notin DOMAIN sessions
      /\ sessions' = [x \in DOMAIN sessions' |-> IF x = next THEN new ELSE sessions[x]]
      /\ UNCHANGED <<checks, unchecked>>
  BY DEF SetsUp, ReplaceSession, FreshSessions, Set, Delete, Restrict
<1> HIDE DEF new
<1>4. SessionsOK' /\ ChecksOK' /\ OneSignInPerCheck' /\ NoUncheckedSignIn'
  BY <1>2, <1>3 DEF SessionsInv, SessionsOK, ChecksOK, OneSignInPerCheck, NoUncheckedSignIn
<1>5. SessionsUnpaid'
  BY <1>2, <1>3 DEF SessionsInv, SessionsUnpaid
<1>6. ChecksNotShared'
  BY <1>2, <1>3 DEF SessionsInv, ChecksNotShared
<1> QED
  BY <1>4, <1>5, <1>6 DEF SessionsInv

LEMMA TickKeeps ==
  ASSUME SessionsInv, Tick
  PROVE  SessionsInv'
<1>1. /\ DOMAIN sessions' = {s \in DOMAIN sessions : ~Over(s)}
      /\ sessions' = [s \in DOMAIN sessions' |-> [sessions[s] EXCEPT !.age = @ + 1]]
      /\ DOMAIN checks' = DOMAIN checks
      /\ checks' = [c \in DOMAIN checks |-> Older(checks[c])]
      /\ UNCHANGED unchecked
  BY DEF Tick
<1>2. ASSUME NEW s \in DOMAIN sessions'
      PROVE  /\ s \in DOMAIN sessions
             /\ sessions'[s] \in Session
             /\ sessions'[s].age = sessions[s].age + 1
             /\ sessions'[s].challenge = sessions[s].challenge
             /\ sessions'[s].user = sessions[s].user
             /\ sessions'[s].check = sessions[s].check
  <2>1. s \in DOMAIN sessions /\ sessions[s] \in Session /\ sessions[s].age # TTL
    BY <1>1 DEF Over, SessionsInv, SessionsOK
  <2>2. sessions'[s] = [sessions[s] EXCEPT !.age = @ + 1]
    BY <1>1
  <2> QED
    BY <2>1, <2>2, Bounds DEF Session
<1>3. ASSUME NEW c \in DOMAIN checks
      PROVE  /\ checks'[c] \in Check
             /\ checks'[c].signIns = checks[c].signIns
             /\ checks'[c].user = checks[c].user
             /\ checks'[c].age <= checks[c].age + 1
             /\ checks[c].signIns # <<>> => checks'[c].age = checks[c].age
  <2>1. checks[c] \in Check /\ checks[c].age \in 0 .. MaxAge
    BY CheckFields DEF SessionsInv, ChecksOK
  <2>2. checks'[c] = Older(checks[c])
    BY <1>1
  <2> QED
    BY <2>1, <2>2, Bounds DEF Older, Check
<1>4. SessionsOK'
  BY <1>1, <1>2 DEF SessionsInv, SessionsOK
<1>5. ChecksOK'
  BY <1>1, <1>3 DEF SessionsInv, ChecksOK
<1>6. SessionsUnpaid'
  <2> SUFFICES ASSUME NEW s \in DOMAIN sessions', sessions'[s].challenge \in SignInChallenges
               PROVE  /\ sessions'[s].check \in DOMAIN checks'
                      /\ checks'[sessions'[s].check].signIns = <<>>
                      /\ checks'[sessions'[s].check].user[2] = sessions'[s].user[2]
                      /\ checks'[sessions'[s].check].age
                           <= sessions'[s].age + Slack(sessions'[s].challenge)
    BY DEF SessionsUnpaid
  <2> DEFINE c == sessions[s].check
  <2>1. /\ c \in DOMAIN checks
        /\ checks[c].signIns = <<>>
        /\ checks[c].user[2] = sessions[s].user[2]
        /\ checks[c].age <= sessions[s].age + Slack(sessions[s].challenge)
    BY <1>2 DEF SessionsInv, SessionsUnpaid
  <2>2. /\ checks[c].age \in 0 .. MaxAge /\ checks'[c].age \in 0 .. MaxAge
        /\ sessions[s].age \in 0 .. TTL
    BY <1>2, <1>3, <2>1, CheckFields, SessionFields DEF SessionsInv, Check
  <2>3. checks'[c].age <= checks[c].age + 1
    BY <1>3, <2>1
  <2>4. Slack(sessions[s].challenge) \in Int
    BY SlackBound, Bounds
  <2>5. checks'[c].age <= sessions[s].age + 1 + Slack(sessions[s].challenge)
    BY <2>1, <2>2, <2>3, <2>4, Bounds
  <2> QED
    BY <1>1, <1>2, <1>3, <2>1, <2>5
<1>7. ChecksNotShared'
  BY <1>1, <1>2 DEF SessionsInv, ChecksNotShared
<1>8. OneSignInPerCheck' /\ NoUncheckedSignIn'
  BY <1>1, <1>3 DEF SessionsInv, OneSignInPerCheck, NoUncheckedSignIn
<1> QED
  BY <1>4, <1>5, <1>6, <1>7, <1>8 DEF SessionsInv

LEMMA SessionStepKeeps ==
  ASSUME SessionsInv, SessionStep
  PROVE  SessionsInv'
<1>1. CASE \E s \in Sessions, u \in Users : OpensSetup(u, s)
  BY <1>1, OpensSetupKeeps
<1>2. CASE \E s \in Sessions, u \in Users, c \in Checks, challenge \in SignInChallenges :
             Opens(u, challenge, s, c)
  BY <1>2, OpensKeeps
<1>3. CASE \E s \in Sessions : \E u : Pays(s, u)
  BY <1>3, PaysKeeps
<1>4. CASE \E s, next \in Sessions, method \in Methods : \E u : Selects(s, next, u, method)
  BY <1>4, SelectsKeeps
<1>5. CASE \E s, next \in Sessions : \E u : SetsUp(s, next, u)
  BY <1>5, SetsUpKeeps
<1>6. CASE \E s \in Sessions : Drops(s)
  BY <1>6, Deleted DEF Drops
<1>7. CASE Tick
  BY <1>7, TickKeeps
<1>8. CASE UNCHANGED <<sessions, checks, unchecked>>
  BY <1>8 DEF SessionsInv, SessionsOK, ChecksOK, SessionsUnpaid, ChecksNotShared,
              OneSignInPerCheck, NoUncheckedSignIn
<1> QED
  BY <1>1, <1>2, <1>3, <1>4, <1>5, <1>6, <1>7, <1>8 DEF SessionStep

\* Every action is such a step.
LEMMA NextSessionStep ==
  ASSUME SessionsOK, AccountsOK, Next
  PROVE  SessionStep
<1>1. ASSUME NEW s \in DOMAIN sessions, Answer(s) PROVE SessionStep
  <2>1. s \in Sessions
    BY DEF SessionsOK
  <2>2. CASE AnswerRefused(s)
    BY <2>1, <2>2 DEF AnswerRefused, Drops, SessionStep
  <2>3. ASSUME NEW p \in Pools,
               \/ AnswerNewPassword(s, AccountIn(p, s))
               \/ AnswerSms(s, AccountIn(p, s))
               \/ AnswerSoftwareToken(s, AccountIn(p, s))
        PROVE  SessionStep
    <3>1. Pays(s, AccountIn(p, s))
      BY <2>3, ChallengeNames DEF AnswerNewPassword, AnswerSms, AnswerSoftwareToken, ConsumeSession,
                                  Pays, Methods
    <3> QED
      BY <2>1, <3>1 DEF SessionStep
  <2>4. ASSUME NEW p \in Pools, NEW next \in Sessions, NEW method \in Methods,
               SelectMfaType(s, next, AccountIn(p, s), method)
        PROVE  SessionStep
    <3>1. Selects(s, next, AccountIn(p, s), method)
      BY <2>4 DEF SelectMfaType, Selects
    <3> QED
      BY <2>1, <3>1 DEF SessionStep
  <2>5. ASSUME NEW p \in Pools, NEW next \in Sessions, AnswerMfaSetup(s, next, AccountIn(p, s))
        PROVE  SessionStep
    <3>1. SetsUp(s, next, AccountIn(p, s))
      BY <2>5 DEF AnswerMfaSetup, SetsUp
    <3> QED
      BY <2>1, <3>1 DEF SessionStep
  <2> QED
    BY <1>1, <2>2, <2>3, <2>4, <2>5 DEF Answer
<1>2. ASSUME NEW u \in Users, ForUser(u) PROVE SessionStep
  <2>1. ASSUME NEW s \in Sessions, NEW c \in Checks, InitiateAuth(u, s, c) \/ AdminInitiateAuth(u, s, c)
        PROVE  SessionStep
    <3>1. \E challenge \in SignInChallenges : Opens(u, challenge, s, c)
      BY <2>1, ChallengeNames DEF InitiateAuth, AdminInitiateAuth, Opens, Methods
    <3> QED
      BY <3>1 DEF SessionStep
  <2>2. ASSUME NEW s \in Sessions, AssociateSoftwareToken(u, s) PROVE SessionStep
    <3>1. OpensSetup(u, s)
      BY <2>2 DEF AssociateSoftwareToken, OpensSetup
    <3> QED
      BY <3>1 DEF SessionStep
  <2>3. CASE VerifySoftwareToken(u)
    <3>1. UNCHANGED sessions \/ \E s \in Sessions : OpensSetup(u, s)
      BY <2>3 DEF VerifySoftwareToken, OpensSetup, FreshSessions
    <3> QED
      BY <2>3, <3>1 DEF SessionStep, VerifySoftwareToken
  <2>4. CASE \/ \E methods \in SUBSET Methods : SetUserMfaPreference(u, methods)
             \/ \E status \in {"CONFIRMED", "FORCE_CHANGE_PASSWORD"} :
                  CreateUser(u, status) \/ SetStatus(u, status)
             \/ DeleteUser(u)
    BY <2>4 DEF SetUserMfaPreference, CreateUser, SetStatus, DeleteUser, SessionStep
  <2> QED
    BY <1>2, <2>1, <2>2, <2>3, <2>4 DEF ForUser
<1>3. CASE Tick
  BY <1>3 DEF SessionStep
<1> QED
  BY <1>1, <1>2, <1>3 DEF Next

-----------------------------------------------------------------------------
(* The accounts and the codes.                                              *)

\* An account takes the place of another, with no code or one that is neither
\* spent nor with another account.
LEMMA UserSet ==
  ASSUME AccountsInv, NEW u \in Users, NEW account \in Account, users' = Set(users, u, account),
         spent' \subseteq Codes, account.mfaCode \notin spent',
         \A x \in DOMAIN users :
           x # u => /\ users[x].mfaCode \notin spent'
                    /\ users[x].mfaCode # account.mfaCode \/ account.mfaCode = None
  PROVE  AccountsInv'
<1>1. /\ DOMAIN users' = DOMAIN users \cup {u}
      /\ users' = [x \in DOMAIN users' |-> IF x = u THEN account ELSE users[x]]
  BY DEF Set
<1>2. AccountsOK'
  BY <1>1 DEF AccountsInv, AccountsOK
<1>3. SpentCodesGone'
  BY <1>1 DEF SpentCodesGone
<1>4. CodesNotShared'
  BY <1>1 DEF CodesNotShared, AccountsInv
<1> QED
  BY <1>2, <1>3, <1>4 DEF AccountsInv

\* An account keeps its code.
LEMMA UserKeepsCode ==
  ASSUME AccountsInv, NEW u \in DOMAIN users, NEW account \in Account,
         users' = Set(users, u, account), account.mfaCode = users[u].mfaCode, UNCHANGED spent
  PROVE  AccountsInv'
<1>1. u \in Users /\ spent \subseteq Codes /\ \A x \in DOMAIN users : users[x].mfaCode \notin spent
  BY DEF AccountsInv, AccountsOK, SpentCodesGone
<1>2. \A x \in DOMAIN users :
        x # u => users[x].mfaCode # account.mfaCode \/ account.mfaCode = None
  BY DEF AccountsInv, CodesNotShared
<1> QED
  BY <1>1, <1>2, UserSet

LEMMA AccountFields ==
  ASSUME AccountsOK, NEW u \in DOMAIN users
  PROVE  /\ users[u] \in Account
         /\ users[u].mfaCode \in Codes \cup {None}
         /\ users[u].methods \in SUBSET Methods
         /\ \A status \in {"CONFIRMED", "FORCE_CHANGE_PASSWORD"} :
              LET account == [users[u] EXCEPT !.status = status]
              IN  account \in Account /\ account.mfaCode = users[u].mfaCode
         /\ \A methods \in SUBSET Methods :
              LET account == [users[u] EXCEPT !.methods = methods]
              IN  account \in Account /\ account.mfaCode = users[u].mfaCode
         /\ LET account == [users[u] EXCEPT !.secret = TRUE]
            IN  account \in Account /\ account.mfaCode = users[u].mfaCode
         /\ \A code \in Codes \cup {None} :
              LET account == [users[u] EXCEPT !.mfaCode = code]
              IN  account \in Account /\ account.mfaCode = code
BY DEF AccountsOK, Account

LEMMA AccountsKeep ==
  ASSUME AccountsInv, SessionsOK, Next
  PROVE  AccountsInv'
<1>0. AccountsOK
  BY DEF AccountsInv
<1>u. ASSUME UNCHANGED <<users, spent>> PROVE AccountsInv'
  BY <1>u DEF AccountsInv, AccountsOK, SpentCodesGone, CodesNotShared
<1>1. ASSUME NEW s \in DOMAIN sessions, Answer(s) PROVE AccountsInv'
  <2>1. CASE AnswerRefused(s)
    BY <1>u, <2>1 DEF AnswerRefused
  <2>2. ASSUME NEW u, AnswerNewPassword(s, u) PROVE AccountsInv'
    BY <1>0, <2>2, AccountFields, UserKeepsCode DEF AnswerNewPassword
  <2>3. ASSUME NEW u, AnswerSms(s, u) PROVE AccountsInv'
    <3> DEFINE account == [users[u] EXCEPT !.mfaCode = None]
    <3>1. u \in DOMAIN users /\ u \in Users /\ account \in Account /\ account.mfaCode = None
      BY <1>0, <2>3, AccountFields DEF AnswerSms, AccountsOK
    <3> HIDE DEF account
    <3>2. spent' \subseteq Codes /\ None \notin spent'
      BY <1>0, <2>3, AccountFields DEF AnswerSms, AccountsOK, ChallengesAssumption
    <3>3. ASSUME NEW x \in DOMAIN users, x # u PROVE users[x].mfaCode \notin spent'
      BY <2>3, <3>1, <3>3 DEF AnswerSms, AccountsInv, SpentCodesGone, CodesNotShared
    <3>4. users' = Set(users, u, account)
      BY <2>3 DEF AnswerSms, account
    <3> QED
      BY <3>1, <3>2, <3>3, <3>4, UserSet
  <2>4. ASSUME NEW u, AnswerSoftwareToken(s, u) PROVE AccountsInv'
    BY <1>u, <2>4 DEF AnswerSoftwareToken
  <2>5. ASSUME NEW next, NEW u, NEW method, SelectMfaType(s, next, u, method) PROVE AccountsInv'
    BY <1>u, <2>5 DEF SelectMfaType
  <2>6. ASSUME NEW next, NEW u, AnswerMfaSetup(s, next, u) PROVE AccountsInv'
    BY <1>u, <2>6 DEF AnswerMfaSetup
  <2> QED
    BY <1>1, <2>1, <2>2, <2>3, <2>4, <2>5, <2>6 DEF Answer
<1>2. ASSUME NEW u \in Users, ForUser(u) PROVE AccountsInv'
  <2>1. ASSUME NEW s, NEW c, InitiateAuth(u, s, c) PROVE AccountsInv'
    <3>1. CASE UNCHANGED users
      BY <1>u, <2>1, <3>1 DEF InitiateAuth, Challenge
    <3>2. ASSUME NEW code \in FreshCodes, users' = Set(users, u, [users[u] EXCEPT !.mfaCode = code])
          PROVE  AccountsInv'
      <4> DEFINE account == [users[u] EXCEPT !.mfaCode = code]
      <4>1. code \in Codes /\ code \notin spent /\ \A x \in DOMAIN users : users[x].mfaCode # code
        BY DEF FreshCodes
      <4>2. account \in Account /\ account.mfaCode = code
        BY <1>0, <2>1, <4>1, AccountFields DEF InitiateAuth
      <4>3. UNCHANGED spent
        BY <2>1 DEF InitiateAuth, Challenge
      <4> HIDE DEF account
      <4>4. spent \subseteq Codes /\ \A x \in DOMAIN users : users[x].mfaCode \notin spent
        BY DEF AccountsInv, AccountsOK, SpentCodesGone
      <4>5. users' = Set(users, u, account)
        BY <3>2 DEF account
      <4> QED
        BY <4>1, <4>2, <4>3, <4>4, <4>5, UserSet
    <3> QED
      BY <2>1, <3>1, <3>2 DEF InitiateAuth
  <2>2. ASSUME NEW s, NEW c, AdminInitiateAuth(u, s, c) PROVE AccountsInv'
    BY <1>u, <2>2 DEF AdminInitiateAuth, Challenge
  <2>3. ASSUME NEW s, AssociateSoftwareToken(u, s) PROVE AccountsInv'
    BY <1>0, <2>3, AccountFields, UserKeepsCode DEF AssociateSoftwareToken
  <2>4. CASE VerifySoftwareToken(u)
    <3> DEFINE methods == users[u].methods \cup {"SOFTWARE_TOKEN_MFA"}
               account == [users[u] EXCEPT !.methods = methods]
    <3>1. u \in DOMAIN users /\ methods \in SUBSET Methods
      BY <1>0, <2>4, AccountFields DEF VerifySoftwareToken, Methods
    <3>2. account \in Account /\ account.mfaCode = users[u].mfaCode
      BY <1>0, <3>1, AccountFields
    <3>3. users' = Set(users, u, account) /\ UNCHANGED spent
      BY <2>4 DEF VerifySoftwareToken
    <3> QED
      BY <3>1, <3>2, <3>3, UserKeepsCode
  <2>5. ASSUME NEW methods \in SUBSET Methods, SetUserMfaPreference(u, methods) PROVE AccountsInv'
    BY <1>0, <2>5, AccountFields, UserKeepsCode DEF SetUserMfaPreference
  <2>6. ASSUME NEW status \in {"CONFIRMED", "FORCE_CHANGE_PASSWORD"}, CreateUser(u, status)
        PROVE  AccountsInv'
    <3>1. NewAccount(status) \in Account /\ NewAccount(status).mfaCode = None
      BY DEF NewAccount, Account
    <3>2. None \notin spent /\ spent \subseteq Codes /\ \A x \in DOMAIN users : users[x].mfaCode \notin spent
      BY DEF AccountsInv, AccountsOK, SpentCodesGone, ChallengesAssumption
    <3> QED
      BY <2>6, <3>1, <3>2, UserSet DEF CreateUser
  <2>7. ASSUME NEW status \in {"CONFIRMED", "FORCE_CHANGE_PASSWORD"}, SetStatus(u, status)
        PROVE  AccountsInv'
    BY <1>0, <2>7, AccountFields, UserKeepsCode DEF SetStatus
  <2>8. CASE DeleteUser(u)
    BY <2>8 DEF DeleteUser, Delete, Restrict, AccountsInv, AccountsOK, SpentCodesGone, CodesNotShared
  <2> QED
    BY <1>2, <2>1, <2>2, <2>3, <2>4, <2>5, <2>6, <2>7, <2>8 DEF ForUser
<1>3. CASE Tick
  BY <1>u, <1>3 DEF Tick
<1> QED
  BY <1>1, <1>2, <1>3 DEF Next

-----------------------------------------------------------------------------
(* The theorems.                                                            *)

LEMMA InitInv == Init => Inv
<1> SUFFICES ASSUME Init PROVE Inv
  OBVIOUS
<1>1. DOMAIN Empty = {}
  BY DEF Empty
<1>2. AccountsInv
  BY <1>1 DEF Init, AccountsInv, AccountsOK, SpentCodesGone, CodesNotShared
<1>3. SessionsInv
  BY <1>1 DEF Init, SessionsInv, SessionsOK, ChecksOK, SessionsUnpaid, ChecksNotShared,
              OneSignInPerCheck, NoUncheckedSignIn
<1> QED
  BY <1>2, <1>3 DEF Inv

LEMMA NextInv == Inv /\ [Next]_vars => Inv'
<1> SUFFICES ASSUME Inv, [Next]_vars PROVE Inv'
  OBVIOUS
<1>1. AccountsInv /\ SessionsInv /\ SessionsOK /\ AccountsOK
  BY DEF Inv, AccountsInv, SessionsInv
<1>2. CASE Next
  BY <1>1, <1>2, AccountsKeep, NextSessionStep, SessionStepKeeps DEF Inv
<1>3. CASE UNCHANGED vars
  <2>1. AccountsInv'
    BY <1>1, <1>3 DEF vars, AccountsInv, AccountsOK, SpentCodesGone, CodesNotShared
  <2>2. SessionsInv'
    BY <1>1, <1>3, SessionStepKeeps DEF vars, SessionStep
  <2> QED
    BY <2>1, <2>2 DEF Inv
<1> QED
  BY <1>2, <1>3

LEMMA InvHolds == Spec => []Inv
BY InitInv, NextInv, PTL DEF Spec

\* The state keeps its type: no session is found past its life.
THEOREM TypeCorrect == Spec => []TypeOK
<1>1. Inv => TypeOK
  BY DEF Inv, AccountsInv, SessionsInv, AccountsOK, SessionsOK, ChecksOK, NoUncheckedSignIn, TypeOK
<1> QED
  BY <1>1, InvHolds, PTL

\* Whatever chain of challenges, answers and software-token calls two pools and
\* their clients go through, a password check leads to one sign-in at most, of
\* its username, within two lives of a session.
THEOREM ChecksPayOnce == Spec => []OneSignInPerCheck
<1>1. Inv => OneSignInPerCheck
  BY DEF Inv, SessionsInv
<1> QED
  BY <1>1, InvHolds, PTL

\* The sessions that AssociateSoftwareToken and VerifySoftwareToken hand out
\* never lead to a sign-in.
THEOREM SignInsAreChecked == Spec => []NoUncheckedSignIn
<1>1. Inv => NoUncheckedSignIn
  BY DEF Inv, SessionsInv
<1> QED
  BY <1>1, InvHolds, PTL

\* A code by SMS completes one sign-in.
THEOREM CodesSpentOnce == Spec => []SpentCodesGone
<1>1. Inv => SpentCodesGone
  BY DEF Inv, AccountsInv
<1> QED
  BY <1>1, InvHolds, PTL
=============================================================================
