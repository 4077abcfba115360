-------------------------------- MODULE Auth --------------------------------
(***************************************************************************)
(* Logging in: the challenges, users and sessions of the API Worker        *)
(* (api/src/index.ts, "Auth" and "Telegram Webhook", over the D1 tables    *)
(* challenges and users).                                                  *)
(*                                                                         *)
(* A client asks for a challenge, a Telegram user opens its link, and the  *)
(* client polls /v1/auth/verify until it gets a session.  The verify       *)
(* handler interleaves with itself and with the webhook at every await.    *)
(* What it writes to audit_events is left out; the awaits of these writes, *)
(* where it may fail, are not.                                             *)
(***************************************************************************)
EXTENDS Integers

CONSTANTS
    Challenge,      \* challenge ids (randomUUID)
    Telegram,       \* Telegram user ids
    UserId,         \* user ids (randomUUID)
    Client,         \* processes that call /v1/auth/verify, one call at a time
    None,
    ChallengeTtl,   \* CHALLENGE_TTL_SECONDS
    Faults,         \* whether the store or the network may fail
    MaxTime         \* bound of the clock

\* A row of the table challenges, without its id.
Challenges == [tg: Telegram \cup {None}, exp: Nat]

ASSUME AuthAssumption ==
    /\ None \notin Challenge \cup Telegram \cup UserId \cup Challenges
    /\ ChallengeTtl \in Nat \ {0}
    /\ Faults \in BOOLEAN
    /\ MaxTime \in Nat

VARIABLES
    now,            \* the clock of the API and of its clients
    challenges,     \* table challenges: id -> [tg, exp], or None
    users,          \* table users, UNIQUE(telegram_user_id): telegram id -> id, or None
    verify,         \* the verify handler of every client
    sessions        \* history: the sessions issued

authVars == <<now, challenges, users, verify, sessions>>

\* A session token: its claims, and the challenge it was issued for.
Session == [sub: UserId, tg: Telegram, ch: Challenge]

Statuses == {0, 200, 202, 404, 500}

\* The handler at an await (pc), or its response (pc "reply", with the status
\* code; 0 is a failed connection).
Handlers == [pc: {"get", "select", "insert", "auditUser", "auditSession", "reply"},
             ch: Challenge, tg: Telegram \cup {None}, id: UserId \cup {None},
             code: Statuses]

NoHandler == [pc |-> "none", ch |-> None, tg |-> None, id |-> None, code |-> 0]

AuthInit ==
    /\ now = 0
    /\ challenges = [ch \in Challenge |-> None]
    /\ users = [t \in Telegram |-> None]
    /\ verify = [c \in Client |-> NoHandler]
    /\ sessions = {}

-----------------------------------------------------------------------------
\* POST /v1/auth/challenge.
CreateChallenge(ch) ==
    /\ challenges[ch] = None
    /\ challenges' = [challenges EXCEPT ![ch] = [tg |-> None, exp |-> now + ChallengeTtl]]
    /\ UNCHANGED <<now, users, verify, sessions>>

\* Mutant of resolveChallenge: a later Telegram user takes the challenge over.
resolveChallengeAgain(ch, t) ==
    /\ challenges[ch] # None
    /\ challenges[ch].exp > now
    /\ challenges' = [challenges EXCEPT ![ch].tg = t]
    /\ UNCHANGED <<now, users, verify, sessions>>

\* The Telegram user t opens the deep link (or, in a deployment with test
\* authentication, is named by the client): an UPDATE with its conditions.
resolveChallenge(ch, t) ==
    /\ challenges[ch] # None
    /\ challenges[ch].tg = None
    /\ challenges[ch].exp > now
    /\ challenges' = [challenges EXCEPT ![ch].tg = t]
    /\ UNCHANGED <<now, users, verify, sessions>>

Handle(c, pc) == verify' = [verify EXCEPT ![c].pc = pc]
Respond(c, code) == verify' = [verify EXCEPT ![c].pc = "reply", ![c].code = code]

\* A client sends POST /v1/auth/verify.
SendVerify(c, ch) ==
    /\ verify[c] = NoHandler
    /\ verify' = [verify EXCEPT ![c] = [NoHandler EXCEPT !.pc = "get", !.ch = ch]]
    /\ UNCHANGED <<now, challenges, users, sessions>>

\* Mutant of GetChallenge: an unresolved challenge is taken for a resolved one.
GetChallengeNo202(c) ==
    LET chal == challenges[verify[c].ch] IN
    /\ verify[c].pc = "get"
    /\ \/ chal.exp <= now /\ Respond(c, 404)
       \/ /\ chal.exp > now
          /\ verify' = [verify EXCEPT ![c].pc = "select", ![c].tg = chal.tg]
    /\ UNCHANGED <<now, challenges, users, sessions>>

\* getChallenge: 404 when it has expired, 202 when nobody has opened the link.
GetChallenge(c) ==
    LET chal == challenges[verify[c].ch] IN
    /\ verify[c].pc = "get"
    /\ \/ chal.exp <= now /\ Respond(c, 404)
       \/ chal.exp > now /\ chal.tg = None /\ Respond(c, 202)
       \/ /\ chal.exp > now /\ chal.tg # None
          /\ verify' = [verify EXCEPT ![c].pc = "select", ![c].tg = chal.tg]
    /\ UNCHANGED <<now, challenges, users, sessions>>

\* createOrGetUser, its SELECT.
SelectUser(c) ==
    LET u == users[verify[c].tg] IN
    /\ verify[c].pc = "select"
    /\ \/ u = None /\ Handle(c, "insert")
       \/ u # None /\ verify' = [verify EXCEPT ![c].pc = "auditSession", ![c].id = u]
    /\ UNCHANGED <<now, challenges, users, sessions>>

\* Mutant of InsertUser: the last login wins.
InsertUserReplace(c, u) ==
    /\ verify[c].pc = "insert"
    /\ \A t \in Telegram : users[t] # u
    /\ users' = [users EXCEPT ![verify[c].tg] = u]
    /\ verify' = [verify EXCEPT ![c].pc = "auditUser", ![c].id = u]
    /\ UNCHANGED <<now, challenges, sessions>>

\* createOrGetUser, its INSERT of a user with the new id u: it throws (500) if
\* the Telegram user has got a row since the SELECT.
InsertUser(c, u) ==
    /\ verify[c].pc = "insert"
    /\ \A t \in Telegram : users[t] # u
    /\ \/ /\ users[verify[c].tg] = None
          /\ users' = [users EXCEPT ![verify[c].tg] = u]
          /\ verify' = [verify EXCEPT ![c].pc = "auditUser", ![c].id = u]
       \/ /\ users[verify[c].tg] # None
          /\ Respond(c, 500)
          /\ UNCHANGED users
    /\ UNCHANGED <<now, challenges, sessions>>

\* addAuditEvent "user.create".
AuditUser(c) ==
    /\ verify[c].pc = "auditUser"
    /\ Handle(c, "auditSession")
    /\ UNCHANGED <<now, challenges, users, sessions>>

\* The session is signed, audited ("session.create") and returned.
AuditSession(c) ==
    /\ verify[c].pc = "auditSession"
    /\ sessions' = sessions \cup
          {[sub |-> verify[c].id, tg |-> verify[c].tg, ch |-> verify[c].ch]}
    /\ Respond(c, 200)
    /\ UNCHANGED <<now, challenges, users>>

\* D1 throws (500), or the connection or the response is lost (0): what was
\* written stays written.
VerifyFault(c) ==
    /\ Faults
    /\ verify[c].pc # "none"
    /\ Respond(c, 0) \/ (verify[c].pc # "reply" /\ Respond(c, 500))
    /\ UNCHANGED <<now, challenges, users, sessions>>

VerifyStep(c) ==
    \/ GetChallenge(c)
    \/ SelectUser(c)
    \/ \E u \in UserId : InsertUser(c, u)
    \/ AuditUser(c)
    \/ AuditSession(c)

\* The client has the response.
TakeReply(c) ==
    /\ verify[c].pc = "reply"
    /\ verify' = [verify EXCEPT ![c] = NoHandler]
    /\ UNCHANGED <<now, challenges, users, sessions>>

AuthTick ==
    /\ now < MaxTime
    /\ now' = now + 1
    /\ UNCHANGED <<challenges, users, verify, sessions>>

\* What the API and the people with the deep links do.
ChallengeNext ==
    \E ch \in Challenge :
        CreateChallenge(ch) \/ \E t \in Telegram : resolveChallenge(ch, t)

AuthNext ==
    \/ AuthTick
    \/ ChallengeNext
    \/ \E c \in Client :
          \/ \E ch \in Challenge : challenges[ch] # None /\ SendVerify(c, ch)
          \/ VerifyStep(c)
          \/ VerifyFault(c)
          \/ TakeReply(c)

AuthSpec == AuthInit /\ [][AuthNext]_authVars

-----------------------------------------------------------------------------
\* The variables hold values of their types, and a handler has what it has read:
\* the Telegram user of the challenge, then the user's id.
AuthTypeOK ==
    /\ now \in 0..MaxTime
    /\ challenges \in [Challenge -> Challenges \cup {None}]
    /\ users \in [Telegram -> UserId \cup {None}]
    /\ verify \in [Client -> Handlers \cup {NoHandler}]
    /\ sessions \subseteq Session
    /\ \A c \in Client :
          /\ verify[c].pc \in {"select", "insert", "auditUser", "auditSession"} =>
                verify[c].tg \in Telegram
          /\ verify[c].pc \in {"auditUser", "auditSession"} => verify[c].id \in UserId

\* However first logins of one Telegram user race, the user id in every session
\* is the id of the user's row, so no session ends in "Session user no longer
\* exists" and the user has one set of identities.
SessionsHaveUser == \A s \in sessions : users[s.tg] = s.sub

\* A session belongs to the Telegram user who opened the link of its challenge
\* first: a link that somebody else opens later, while a handler that has read the
\* challenge is at an await or not, does not change whose session a client gets.
SessionOfResolver ==
    \A s \in sessions : challenges[s.ch] # None /\ challenges[s.ch].tg = s.tg

\* What a handler has read before an await is still so after it: challenges are
\* resolved once, user rows are final.
HandlersCurrent ==
    \A c \in Client :
        /\ verify[c].pc # "none" => challenges[verify[c].ch] # None
        /\ verify[c].pc \in {"select", "insert", "auditUser", "auditSession"} =>
              challenges[verify[c].ch].tg = verify[c].tg
        /\ verify[c].pc \in {"auditUser", "auditSession"} =>
              users[verify[c].tg] = verify[c].id

AuthInv == AuthTypeOK /\ SessionsHaveUser /\ SessionOfResolver /\ HandlersCurrent

-----------------------------------------------------------------------------
\* The link of a challenge is opened when its row gets a Telegram user.
OpenerOf(ch) == IF challenges[ch] = None THEN None ELSE challenges[ch].tg

Login == INSTANCE LoginPromise WITH
    opener  <- [ch \in Challenge |-> OpenerOf(ch)],
    account <- users,
    granted <- sessions

\* The login routes implement LoginPromise: however verify handlers, openings of
\* links, expiries and faults interleave, a challenge is resolved once, a Telegram
\* user gets one account, created by a login of his own, and a session is issued
\* only for a link that was opened, for the account of who opened it.
ImplementsLogin == Login!LoginSpec
=============================================================================
