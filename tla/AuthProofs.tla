----------------------------- MODULE AuthProofs -----------------------------
(***************************************************************************)
(* Theorems about logging in, for any number of clients, challenges and    *)
(* Telegram users, with faults.                                            *)
(***************************************************************************)
EXTENDS Auth, TLAPS

\* The initial state satisfies the invariant.
LEMMA AuthInitInv == AuthInit => AuthInv
  BY AuthAssumption
     DEF AuthInit, AuthInv, AuthTypeOK, SessionsHaveUser, SessionOfResolver, HandlersCurrent,
         NoHandler

\* A session has a challenge that was resolved.
LEMMA SessionTyped ==
    ASSUME AuthInv, NEW s \in sessions
    PROVE  s.ch \in Challenge /\ s.tg \in Telegram /\ s.sub \in UserId
           /\ challenges[s.ch].tg = s.tg /\ challenges[s.ch] # None
  BY AuthAssumption DEF AuthInv, AuthTypeOK, SessionOfResolver, Session

\* A handler that has not ended has a record of its type.
LEMMA HandlerTyped ==
    ASSUME AuthInv, NEW c \in Client, verify[c].pc # "none"
    PROVE  verify[c] \in Handlers
  BY DEF AuthInv, AuthTypeOK, NoHandler

LEMMA CreateChallengeInv ==
    ASSUME AuthInv, NEW ch \in Challenge, CreateChallenge(ch) PROVE AuthInv'
  <1> USE DEF CreateChallenge
  <1>1. [tg |-> None, exp |-> now + ChallengeTtl] \in Challenges
    BY AuthAssumption DEF AuthInv, AuthTypeOK, Challenges
  <1>2. AuthTypeOK'
    BY <1>1 DEF AuthInv, AuthTypeOK
  <1>3. \A d \in Challenge : challenges[d] # None => challenges'[d] = challenges[d]
    BY DEF AuthInv, AuthTypeOK
  <1>4. SessionsHaveUser' /\ SessionOfResolver'
    BY <1>3, SessionTyped DEF AuthInv, SessionsHaveUser, SessionOfResolver
  <1>5. HandlersCurrent'
    <2> SUFFICES ASSUME NEW c \in Client PROVE
            /\ verify[c].pc # "none" => challenges'[verify[c].ch] = challenges[verify[c].ch]
                                        /\ challenges[verify[c].ch] # None
      BY DEF AuthInv, HandlersCurrent
    <2> QED BY <1>3, HandlerTyped DEF AuthInv, HandlersCurrent, Handlers
  <1> QED BY <1>2, <1>4, <1>5 DEF AuthInv

LEMMA ResolveChallengeInv ==
    ASSUME AuthInv, NEW ch \in Challenge, NEW t \in Telegram, resolveChallenge(ch, t)
    PROVE  AuthInv'
  <1> USE DEF resolveChallenge
  <1>1. AuthTypeOK'
    BY DEF AuthInv, AuthTypeOK, Challenges
  <1>2. \A d \in Challenge :
           /\ challenges[d] # None => challenges'[d] # None
           /\ challenges[d] # None /\ challenges[d].tg # None => challenges'[d] = challenges[d]
    BY AuthAssumption DEF AuthInv, AuthTypeOK, Challenges
  <1>3. SessionsHaveUser' /\ SessionOfResolver'
    BY <1>2, SessionTyped, AuthAssumption DEF AuthInv, SessionsHaveUser, SessionOfResolver
  <1>4. HandlersCurrent'
    BY <1>2, HandlerTyped, AuthAssumption DEF AuthInv, AuthTypeOK, HandlersCurrent, Handlers
  <1> QED BY <1>1, <1>3, <1>4 DEF AuthInv

\* A step of the handler of c that writes no table.
LEMMA HandlerStep ==
    ASSUME AuthInv, NEW c \in Client, NEW h \in Handlers \cup {NoHandler},
           verify' = [verify EXCEPT ![c] = h],
           UNCHANGED <<now, challenges, users, sessions>>,
           h.pc # "none" => challenges[h.ch] # None,
           h.pc \in {"select", "insert", "auditUser", "auditSession"} =>
               h.tg \in Telegram /\ challenges[h.ch].tg = h.tg,
           h.pc \in {"auditUser", "auditSession"} => h.id \in UserId /\ users[h.tg] = h.id
    PROVE  AuthInv'
  <1>1. verify'[c] = h /\ \A d \in Client \ {c} : verify'[d] = verify[d]
    BY DEF AuthInv, AuthTypeOK
  <1>2. AuthTypeOK'
    BY <1>1 DEF AuthInv, AuthTypeOK
  <1>3. HandlersCurrent'
    BY <1>1 DEF AuthInv, HandlersCurrent
  <1> QED BY <1>2, <1>3 DEF AuthInv, SessionsHaveUser, SessionOfResolver

LEMMA SendVerifyInv ==
    ASSUME AuthInv, NEW c \in Client, NEW ch \in Challenge, challenges[ch] # None,
           SendVerify(c, ch)
    PROVE  AuthInv'
  <1> DEFINE h == [NoHandler EXCEPT !.pc = "get", !.ch = ch]
  <1>1. /\ h \in Handlers
        /\ h.pc = "get" /\ h.ch = ch
    BY DEF Handlers, NoHandler, Statuses
  <1>2. verify' = [verify EXCEPT ![c] = h]
    BY DEF SendVerify
  <1> HIDE DEF h
  <1> QED BY <1>1, <1>2, HandlerStep DEF SendVerify

LEMMA RespondInv ==
    ASSUME AuthInv, NEW c \in Client, NEW k \in Statuses, Respond(c, k),
           verify[c].pc # "none", UNCHANGED <<now, challenges, users, sessions>>
    PROVE  AuthInv'
  <1> DEFINE h == [verify[c] EXCEPT !.pc = "reply", !.code = k]
  <1>0. verify[c] \in Handlers /\ verify \in [Client -> Handlers \cup {NoHandler}]
    BY HandlerTyped DEF AuthInv, AuthTypeOK
  <1>1. h \in Handlers /\ h.pc = "reply" /\ h.ch = verify[c].ch
    BY <1>0 DEF Handlers
  <1>2. verify' = [verify EXCEPT ![c] = h]
    BY <1>0 DEF Respond
  <1>3. challenges[h.ch] # None
    BY <1>1 DEF AuthInv, HandlersCurrent
  <1> HIDE DEF h
  <1> QED BY <1>1, <1>2, <1>3, HandlerStep

LEMMA GetChallengeInv ==
    ASSUME AuthInv, NEW c \in Client, GetChallenge(c) PROVE AuthInv'
  <1> DEFINE chal == challenges[verify[c].ch]
  <1> USE DEF GetChallenge
  <1>1. CASE Respond(c, 404) \/ Respond(c, 202)
    BY <1>1, RespondInv DEF Statuses
  <1>2. CASE chal.tg # None /\ verify' = [verify EXCEPT ![c].pc = "select", ![c].tg = chal.tg]
    <2> DEFINE h == [verify[c] EXCEPT !.pc = "select", !.tg = chal.tg]
    <2>1. verify[c] \in Handlers /\ chal # None
      BY HandlerTyped DEF AuthInv, HandlersCurrent
    <2>2. chal.tg \in Telegram
      BY <1>2, <2>1 DEF AuthInv, AuthTypeOK, Handlers, Challenges
    <2>3. /\ h \in Handlers
          /\ h.pc = "select" /\ h.ch = verify[c].ch /\ h.tg = chal.tg
      BY <2>1, <2>2 DEF Handlers
    <2>4. verify' = [verify EXCEPT ![c] = h]
      BY <1>2
    <2> HIDE DEF h
    <2> QED BY <2>1, <2>2, <2>3, <2>4, HandlerStep
  <1> QED BY <1>1, <1>2

LEMMA SelectUserInv ==
    ASSUME AuthInv, NEW c \in Client, SelectUser(c) PROVE AuthInv'
  <1> DEFINE u == users[verify[c].tg]
  <1> USE DEF SelectUser
  <1>1. /\ verify[c] \in Handlers /\ verify[c].tg \in Telegram
        /\ challenges[verify[c].ch] # None /\ challenges[verify[c].ch].tg = verify[c].tg
    BY HandlerTyped DEF AuthInv, AuthTypeOK, HandlersCurrent
  <1>2. CASE u = None
    <2> DEFINE h == [verify[c] EXCEPT !.pc = "insert"]
    <2>1. h \in Handlers /\ h.pc = "insert" /\ h.ch = verify[c].ch /\ h.tg = verify[c].tg
      BY <1>1 DEF Handlers
    <2>2. verify' = [verify EXCEPT ![c] = h]
      BY <1>2 DEF Handle
    <2> HIDE DEF h
    <2> QED BY <1>1, <2>1, <2>2, HandlerStep
  <1>3. CASE u # None
    <2> DEFINE h == [verify[c] EXCEPT !.pc = "auditSession", !.id = u]
    <2>1. u \in UserId
      BY <1>1, <1>3 DEF AuthInv, AuthTypeOK
    <2>2. /\ h \in Handlers
          /\ h.pc = "auditSession" /\ h.ch = verify[c].ch /\ h.tg = verify[c].tg /\ h.id = u
      BY <1>1, <2>1 DEF Handlers
    <2>3. verify' = [verify EXCEPT ![c] = h]
      BY <1>3 DEF Handle
    <2> HIDE DEF h
    <2> QED BY <1>1, <2>1, <2>2, <2>3, HandlerStep
  <1> QED BY <1>2, <1>3

\* The INSERT finds no row, so no session has the Telegram user, and no other
\* handler is past its own INSERT for it.
LEMMA InsertUserInv ==
    ASSUME AuthInv, NEW c \in Client, NEW u \in UserId, InsertUser(c, u) PROVE AuthInv'
  <1> DEFINE t == verify[c].tg
  <1> USE DEF InsertUser
  <1>1. /\ verify[c] \in Handlers /\ t \in Telegram
        /\ challenges[verify[c].ch] # None /\ challenges[verify[c].ch].tg = t
    BY HandlerTyped DEF AuthInv, AuthTypeOK, HandlersCurrent
  <1>2. CASE users[t] # None
    BY <1>2, RespondInv DEF Statuses
  <1>3. CASE users[t] = None
    <2> DEFINE h == [verify[c] EXCEPT !.pc = "auditUser", !.id = u]
    <2>1. /\ h \in Handlers
          /\ h.pc = "auditUser" /\ h.ch = verify[c].ch /\ h.tg = t /\ h.id = u
      BY <1>1 DEF Handlers
    <2>2. users' = [users EXCEPT ![t] = u] /\ verify' = [verify EXCEPT ![c] = h]
      BY <1>3
    <2> HIDE DEF h
    <2>3. verify'[c] = h /\ \A d \in Client \ {c} : verify'[d] = verify[d]
      BY <2>2 DEF AuthInv, AuthTypeOK
    <2>4. \A s \in Telegram : users'[s] = IF s = t THEN u ELSE users[s]
      BY <1>1, <2>2 DEF AuthInv, AuthTypeOK
    <2>5. AuthTypeOK'
      BY <1>1, <2>1, <2>2, <2>3 DEF AuthInv, AuthTypeOK
    <2>6. SessionsHaveUser' /\ SessionOfResolver'
      BY <1>3, <2>4, SessionTyped, AuthAssumption
         DEF AuthInv, SessionsHaveUser, SessionOfResolver
    <2>7. HandlersCurrent'
      <3> SUFFICES ASSUME NEW d \in Client
                   PROVE /\ verify'[d].pc # "none" => challenges[verify'[d].ch] # None
                         /\ verify'[d].pc \in {"select", "insert", "auditUser", "auditSession"} =>
                               challenges[verify'[d].ch].tg = verify'[d].tg
                         /\ verify'[d].pc \in {"auditUser", "auditSession"} =>
                               users'[verify'[d].tg] = verify'[d].id
        BY DEF HandlersCurrent
      <3>1. CASE d = c
        BY <1>1, <2>1, <2>3, <2>4, <3>1
      <3>2. CASE d # c
        BY <1>3, <2>3, <2>4, <3>2, AuthAssumption DEF AuthInv, AuthTypeOK, HandlersCurrent
      <3> QED BY <3>1, <3>2
    <2> QED BY <2>5, <2>6, <2>7 DEF AuthInv
  <1> QED BY <1>2, <1>3

LEMMA AuditUserInv ==
    ASSUME AuthInv, NEW c \in Client, AuditUser(c) PROVE AuthInv'
  <1> DEFINE h == [verify[c] EXCEPT !.pc = "auditSession"]
  <1> USE DEF AuditUser
  <1>1. verify[c] \in Handlers
    BY HandlerTyped
  <1>2. /\ h \in Handlers /\ h.pc = "auditSession"
        /\ h.ch = verify[c].ch /\ h.tg = verify[c].tg /\ h.id = verify[c].id
    BY <1>1 DEF Handlers
  <1>3. verify' = [verify EXCEPT ![c] = h]
    BY DEF Handle
  <1> HIDE DEF h
  <1> QED BY <1>2, <1>3, HandlerStep DEF AuthInv, AuthTypeOK, HandlersCurrent

LEMMA AuditSessionInv ==
    ASSUME AuthInv, NEW c \in Client, AuditSession(c) PROVE AuthInv'
  <1> DEFINE s == [sub |-> verify[c].id, tg |-> verify[c].tg, ch |-> verify[c].ch]
  <1> DEFINE h == [verify[c] EXCEPT !.pc = "reply", !.code = 200]
  <1> USE DEF AuditSession
  <1>0. 200 \in Statuses
    BY DEF Statuses
  <1>1. /\ verify[c] \in Handlers /\ verify[c].tg \in Telegram /\ verify[c].id \in UserId
        /\ challenges[verify[c].ch] # None /\ challenges[verify[c].ch].tg = verify[c].tg
        /\ users[verify[c].tg] = verify[c].id
    BY HandlerTyped DEF AuthInv, AuthTypeOK, HandlersCurrent
  <1>2. /\ s \in Session
        /\ challenges[s.ch] # None /\ challenges[s.ch].tg = s.tg /\ users[s.tg] = s.sub
    BY <1>1 DEF Session, Handlers
  <1>3. h \in Handlers /\ h.pc = "reply" /\ h.ch = verify[c].ch
    BY <1>0, <1>1 DEF Handlers
  <1>4. sessions' = sessions \cup {s} /\ verify' = [verify EXCEPT ![c] = h]
    BY DEF Respond
  <1> HIDE DEF s, h
  <1>5. verify'[c] = h /\ \A d \in Client \ {c} : verify'[d] = verify[d]
    BY <1>4 DEF AuthInv, AuthTypeOK
  <1>6. AuthTypeOK'
    BY <1>2, <1>3, <1>4, <1>5 DEF AuthInv, AuthTypeOK
  <1>7. SessionsHaveUser' /\ SessionOfResolver'
    BY <1>2, <1>4 DEF AuthInv, SessionsHaveUser, SessionOfResolver
  <1>8. HandlersCurrent'
    BY <1>1, <1>3, <1>5 DEF AuthInv, HandlersCurrent
  <1> QED BY <1>6, <1>7, <1>8 DEF AuthInv

LEMMA TakeReplyInv ==
    ASSUME AuthInv, NEW c \in Client, TakeReply(c) PROVE AuthInv'
  <1>1. NoHandler.pc = "none"
    BY DEF NoHandler
  <1> QED BY <1>1, HandlerStep DEF TakeReply

LEMMA AuthTickInv == ASSUME AuthInv, AuthTick PROVE AuthInv'
  BY AuthAssumption
     DEF AuthTick, AuthInv, AuthTypeOK, SessionsHaveUser, SessionOfResolver, HandlersCurrent

\* Every step preserves the invariant.
LEMMA AuthNextInv == AuthInv /\ [AuthNext]_authVars => AuthInv'
  <1> SUFFICES ASSUME AuthInv, [AuthNext]_authVars PROVE AuthInv'
    OBVIOUS
  <1>1. CASE AuthTick
    BY <1>1, AuthTickInv
  <1>2. CASE ChallengeNext
    BY <1>2, CreateChallengeInv, ResolveChallengeInv DEF ChallengeNext
  <1>3. ASSUME NEW c \in Client, NEW ch \in Challenge, challenges[ch] # None, SendVerify(c, ch)
        PROVE AuthInv'
    BY <1>3, SendVerifyInv
  <1>4. ASSUME NEW c \in Client, VerifyStep(c) PROVE AuthInv'
    BY <1>4, GetChallengeInv, SelectUserInv, InsertUserInv, AuditUserInv, AuditSessionInv
       DEF VerifyStep
  <1>5. ASSUME NEW c \in Client, VerifyFault(c) PROVE AuthInv'
    BY <1>5, RespondInv DEF VerifyFault, Statuses
  <1>6. ASSUME NEW c \in Client, TakeReply(c) PROVE AuthInv'
    BY <1>6, TakeReplyInv
  <1>7. CASE UNCHANGED authVars
    BY <1>7 DEF authVars, AuthInv, AuthTypeOK, SessionsHaveUser, SessionOfResolver,
                HandlersCurrent
  <1> QED BY <1>1, <1>2, <1>3, <1>4, <1>5, <1>6, <1>7 DEF AuthNext

\* The inductive invariant of the login routes.
THEOREM AuthInvariance == AuthSpec => []AuthInv
  <1> QED BY AuthInitInv, AuthNextInv, PTL DEF AuthSpec

\* Every session names the row of its Telegram user, however first logins race.
THEOREM SessionsAreOfUsers == AuthSpec => []SessionsHaveUser
  <1>1. AuthInv => SessionsHaveUser
    BY DEF AuthInv
  <1> QED BY <1>1, AuthInvariance, PTL

\* Every session is the one of the Telegram user who resolved its challenge.
THEOREM SessionsAreResolvers == AuthSpec => []SessionOfResolver
  <1>1. AuthInv => SessionOfResolver
    BY DEF AuthInv
  <1> QED BY <1>1, AuthInvariance, PTL

\* The variables of the login routes hold values of their types.
THEOREM AuthTypeCorrect == AuthSpec => []AuthTypeOK
  <1>1. AuthInv => AuthTypeOK
    BY DEF AuthInv
  <1> QED BY <1>1, AuthInvariance, PTL

-----------------------------------------------------------------------------
\* The refinement of LoginPromise.  Steps that neither create a row nor issue a
\* session leave the links as they are.
Openers == [ch \in Challenge |-> OpenerOf(ch)]

LEMMA LinksKept ==
    ASSUME UNCHANGED <<challenges, users, sessions>>
    PROVE  UNCHANGED <<Openers, users, sessions>>
  BY DEF Openers, OpenerOf

\* The link of a new challenge is as unopened as that of a challenge to come.
LEMMA NewLinkUnopened ==
    ASSUME AuthInv, NEW ch \in Challenge, CreateChallenge(ch)
    PROVE  UNCHANGED <<Openers, users, sessions>>
  <1>1. \A d \in Challenge : OpenerOf(d)' = OpenerOf(d)
    BY AuthAssumption DEF CreateChallenge, OpenerOf, AuthInv, AuthTypeOK, Challenges
  <1> QED BY <1>1 DEF Openers, CreateChallenge

\* A challenge is resolved once: its link was not opened before.
LEMMA ResolveOpens ==
    ASSUME AuthInv, NEW ch \in Challenge, NEW t \in Telegram, resolveChallenge(ch, t)
    PROVE  Login!Open(ch, t)
  <1>1. \A d \in Challenge : OpenerOf(d)' = IF d = ch THEN t ELSE OpenerOf(d)
    BY AuthAssumption DEF resolveChallenge, OpenerOf, AuthInv, AuthTypeOK, Challenges
  <1>2. Openers' = [Openers EXCEPT ![ch] = t] /\ Openers[ch] = None
    BY <1>1 DEF resolveChallenge, Openers, OpenerOf
  <1> QED BY <1>2 DEF Login!Open, Openers, resolveChallenge

\* What a handler past its SELECT has read is who opened the link, whatever was
\* written since.
LEMMA HandlerOpener ==
    ASSUME AuthInv, NEW c \in Client,
           verify[c].pc \in {"select", "insert", "auditUser", "auditSession"}
    PROVE  /\ verify[c].ch \in Challenge
           /\ Openers[verify[c].ch] = verify[c].tg
           /\ verify[c].tg \in Telegram /\ verify[c].tg # None
  BY HandlerTyped, AuthAssumption
     DEF AuthInv, AuthTypeOK, HandlersCurrent, Handlers, Openers, OpenerOf

\* The INSERT that wins creates the account of who opened the link; another one
\* changes no table.
LEMMA InsertEnrolls ==
    ASSUME AuthInv, NEW c \in Client, NEW u \in UserId, InsertUser(c, u)
    PROVE  \/ Login!Enroll(verify[c].ch, u)
           \/ UNCHANGED <<Openers, users, sessions>>
  <1>1. Openers' = Openers /\ UNCHANGED sessions
    BY DEF InsertUser, Openers, OpenerOf
  <1>2. CASE users[verify[c].tg] = None
    <2>1. Openers[verify[c].ch] = verify[c].tg /\ verify[c].tg # None
      BY HandlerOpener DEF InsertUser
    <2>2. users' = [users EXCEPT ![Openers[verify[c].ch]] = u]
      BY <1>2, <2>1 DEF InsertUser
    <2> QED BY <1>1, <1>2, <2>1, <2>2 DEF InsertUser, Login!Enroll, Openers
  <1>3. CASE users[verify[c].tg] # None
    BY <1>1, <1>3 DEF InsertUser
  <1> QED BY <1>2, <1>3

\* A session is issued for the account of who opened the link.
LEMMA SessionGrants ==
    ASSUME AuthInv, NEW c \in Client, AuditSession(c)
    PROVE  Login!Grant(verify[c].ch)
  <1>1. /\ Openers[verify[c].ch] = verify[c].tg /\ verify[c].tg # None
        /\ users[verify[c].tg] = verify[c].id /\ verify[c].id # None
    BY HandlerOpener, AuthAssumption
       DEF AuditSession, AuthInv, AuthTypeOK, HandlersCurrent
  <1>2. Openers' = Openers
    BY DEF AuditSession, Openers, OpenerOf
  <1> QED BY <1>1, <1>2 DEF AuditSession, Login!Grant, Openers

\* Every step of the login routes is a step of LoginPromise or none.
LEMMA LoginStep ==
    ASSUME AuthInv, [AuthNext]_authVars
    PROVE  [Login!LoginNext]_(Login!loginVars)
  <1> DEFINE Kept == UNCHANGED <<Openers, users, sessions>>
  <1>1. Kept => UNCHANGED Login!loginVars
    BY DEF Openers, Login!loginVars
  <1>2. CASE ChallengeNext
    BY <1>1, <1>2, NewLinkUnopened, ResolveOpens DEF ChallengeNext, Login!LoginNext
  <1>3. ASSUME NEW c \in Client, NEW u \in UserId, InsertUser(c, u)
        PROVE  [Login!LoginNext]_(Login!loginVars)
    <2>1. PICK ch \in Challenge : ch = verify[c].ch
      BY <1>3, HandlerOpener DEF InsertUser
    <2>2. Login!Enroll(ch, u) \/ Kept
      BY <1>3, <2>1, InsertEnrolls
    <2> QED BY <1>1, <2>2 DEF Login!LoginNext
  <1>4. ASSUME NEW c \in Client, AuditSession(c)
        PROVE  [Login!LoginNext]_(Login!loginVars)
    <2>1. PICK ch \in Challenge : ch = verify[c].ch
      BY <1>4, HandlerOpener DEF AuditSession
    <2>2. Login!Grant(ch)
      BY <1>4, <2>1, SessionGrants
    <2> QED BY <2>2 DEF Login!LoginNext
  <1>5. ASSUME UNCHANGED <<challenges, users, sessions>>
        PROVE  UNCHANGED Login!loginVars
    BY <1>1, <1>5, LinksKept
  <1>6. ASSUME NEW c \in Client,
               \/ GetChallenge(c) \/ SelectUser(c) \/ AuditUser(c) \/ VerifyFault(c)
               \/ TakeReply(c) \/ \E ch \in Challenge : SendVerify(c, ch)
        PROVE  UNCHANGED <<challenges, users, sessions>>
    BY <1>6 DEF GetChallenge, SelectUser, AuditUser, VerifyFault, TakeReply, SendVerify
  <1>7. CASE AuthTick \/ UNCHANGED authVars
    BY <1>5, <1>7 DEF AuthTick, authVars
  <1> QED BY <1>2, <1>3, <1>4, <1>5, <1>6, <1>7 DEF AuthNext, VerifyStep

\* The login routes implement LoginPromise.
THEOREM AuthRefinesLogin == AuthSpec => ImplementsLogin
  <1>1. AuthInit => Login!LoginInit
    BY DEF AuthInit, Login!LoginInit, OpenerOf
  <1>2. AuthInv /\ [AuthNext]_authVars => [Login!LoginNext]_(Login!loginVars)
    BY LoginStep
  <1> QED BY <1>1, <1>2, AuthInvariance, PTL
          DEF AuthSpec, ImplementsLogin, Login!LoginSpec
=============================================================================
