------------------------- MODULE AuthMonitorProofs -------------------------
(***************************************************************************)
(* Theorems about the daemon's logins, for any number of them and any      *)
(* timing of polls, timeouts, new logins and faults.                       *)
(***************************************************************************)
EXTENDS AuthMonitor, AuthProofs

\* The initial state satisfies the invariant.
LEMMA MonitorInitInv == MonitorInit => MonitorInv
  <1> SUFFICES ASSUME MonitorInit PROVE MonitorInv
    OBVIOUS
  <1> USE DEF MonitorInit
  <1>1. AuthInv
    BY AuthInitInv
  <1>2. MonitorTypeOK
    BY <1>1, AuthAssumption DEF AuthInv, MonitorTypeOK, NoPoll
  <1>3. PollMatches
    BY MonitorAssumption DEF PollMatches, AuthInit, NoPoll, NoHandler, Reads
  <1>4. UnansweredWatched /\ ConnectedMeansSession /\ AnsweredOnce
    BY DEF UnansweredWatched, ConnectedMeansSession, AnsweredOnce, Replied, NoPoll
  <1> QED BY <1>1, <1>2, <1>3, <1>4 DEF MonitorInv

-----------------------------------------------------------------------------
\* A step of the API keeps the login routes' invariant; sessions stay, and
\* challenges stay resolved.
LEMMA ApiGrows ==
    ASSUME AuthInv, ApiNext
    PROVE  /\ AuthInv'
           /\ sessions \subseteq sessions'
           /\ \A ch \in Challenge :
                 /\ challenges[ch] # None => challenges'[ch] # None
                 /\ challenges[ch] # None /\ challenges[ch].tg # None =>
                       challenges'[ch].tg = challenges[ch].tg
  <1>1. AuthNext
    BY MonitorAssumption DEF ApiNext, AuthNext
  <1>2. AuthInv'
    BY <1>1, AuthNextInv
  <1>3. sessions \subseteq sessions' /\ (challenges' = challenges \/ ChallengeNext)
    BY DEF ApiNext, AuthTick, ChallengeNext, CreateChallenge, resolveChallenge, VerifyStep,
           GetChallenge, SelectUser, InsertUser, AuditUser, AuditSession, VerifyFault
  <1>4. ASSUME NEW d \in Challenge, CreateChallenge(d), NEW ch \in Challenge, challenges[ch] # None
        PROVE  challenges'[ch] = challenges[ch]
    BY <1>4 DEF CreateChallenge, AuthInv, AuthTypeOK
  <1>5. ASSUME NEW d \in Challenge, NEW t \in Telegram, resolveChallenge(d, t),
               NEW ch \in Challenge, challenges[ch] # None
        PROVE  challenges'[ch] # None /\ (challenges[ch].tg # None =>
                                             challenges'[ch] = challenges[ch])
    BY <1>5, AuthAssumption DEF resolveChallenge, AuthInv, AuthTypeOK, Challenges
  <1> QED BY <1>2, <1>3, <1>4, <1>5 DEF ChallengeNext

\* What the API does with the request of the daemon.
LEMMA HandlerKept ==
    ASSUME AuthInv, ApiNext
    PROVE  /\ verify'[daemon].pc # "none" <=> verify[daemon].pc # "none"
           /\ verify'[daemon].ch = verify[daemon].ch
           /\ Reads(200)' => \/ Reads(200) /\ verify' = verify
                             \/ [sub |-> verify'[daemon].id, tg |-> verify'[daemon].tg,
                                 ch |-> verify'[daemon].ch] \in sessions'
  <1>1. verify \in [Client -> Handlers \cup {NoHandler}] /\ daemon \in Client
    BY MonitorAssumption DEF AuthInv, AuthTypeOK
  <1>2. CASE AuthTick \/ ChallengeNext
    BY <1>2 DEF AuthTick, ChallengeNext, CreateChallenge, resolveChallenge, Reads
  <1>3. CASE VerifyStep(daemon)
    <2>1. CASE GetChallenge(daemon) \/ SelectUser(daemon)
      BY <1>1, <2>1 DEF GetChallenge, SelectUser, Handle, Respond, Reads, Handlers, NoHandler
    <2>2. CASE \E u \in UserId : InsertUser(daemon, u)
      BY <1>1, <2>2 DEF InsertUser, Respond, Reads, Handlers, NoHandler
    <2>3. CASE AuditUser(daemon)
      BY <1>1, <2>3 DEF AuditUser, Handle, Reads, Handlers, NoHandler
    <2>4. CASE AuditSession(daemon)
      BY <1>1, <2>4 DEF AuditSession, Respond, Reads, Handlers, NoHandler
    <2> QED BY <1>3, <2>1, <2>2, <2>3, <2>4 DEF VerifyStep
  <1>4. CASE VerifyFault(daemon)
    BY <1>1, <1>4 DEF VerifyFault, Respond, Reads, Handlers, NoHandler
  <1> QED BY <1>2, <1>3, <1>4 DEF ApiNext

LEMMA ApiInv ==
    ASSUME MonitorInv, ApiNext, UNCHANGED monitorVars PROVE MonitorInv'
  <1> USE DEF monitorVars
  <1>1. /\ AuthInv /\ AuthInv'
        /\ sessions \subseteq sessions'
        /\ \A ch \in Challenge :
              /\ challenges[ch] # None => challenges'[ch] # None
              /\ challenges[ch] # None /\ challenges[ch].tg # None =>
                    challenges'[ch].tg = challenges[ch].tg
    BY ApiGrows DEF MonitorInv
  <1>2. MonitorTypeOK'
    BY <1>1 DEF MonitorInv, MonitorTypeOK, AuthInv
  <1>3. ASSUME NEW s \in sessions
        PROVE  s \in sessions' /\ s.ch \in Challenge /\ challenges'[s.ch].tg = challenges[s.ch].tg
    BY <1>1, SessionTyped, AuthAssumption
  <1>4. PollMatches'
    <2>1. (poll.pc = "verify" <=> verify'[daemon].pc # "none")
          /\ (poll.pc = "verify" => verify'[daemon].ch = poll.ch)
      BY <1>1, HandlerKept DEF MonitorInv, PollMatches
    <2>2. Reads(200)' => [sub |-> verify'[daemon].id, tg |-> verify'[daemon].tg,
                          ch |-> verify'[daemon].ch] \in sessions'
      BY <1>1, HandlerKept DEF MonitorInv, PollMatches
    <2>3. poll.pc \in {"list", "restore", "connected"} =>
              \E s \in sessions' : s.ch = poll.ch /\ s.tg = challenges'[poll.ch].tg
      BY <1>3 DEF MonitorInv, PollMatches
    <2> QED BY <2>1, <2>2, <2>3 DEF PollMatches
  <1>5. UnansweredWatched' /\ AnsweredOnce'
    BY <1>1 DEF MonitorInv, MonitorTypeOK, UnansweredWatched, AnsweredOnce, Replied
  <1>6. ConnectedMeansSession'
    BY <1>3 DEF MonitorInv, ConnectedMeansSession
  <1> QED BY <1>1, <1>2, <1>4, <1>5, <1>6 DEF MonitorInv

-----------------------------------------------------------------------------
\* A step of a poll to p that answers nothing.
LEMMA PollStep ==
    ASSUME MonitorInv, AuthInv', NEW p \in [pc: PollPcs, ch: Challenge] \cup {NoPoll},
           poll' = p, polling' \in BOOLEAN, polling' <=> p # NoPoll,
           config' \in [token: Session \cup {None}, identity: BOOLEAN],
           UNCHANGED <<challenges, sessions, pending, timer, createdAt, watched, latest,
                       overtaken, replies>>,
           p.ch # None => p.ch \in watched /\ ~Replied(p.ch),
           PollMatches'
    PROVE  MonitorInv'
  <1>1. MonitorTypeOK'
    BY DEF MonitorInv, MonitorTypeOK, AuthInv
  <1>2. UnansweredWatched' /\ AnsweredOnce' /\ ConnectedMeansSession'
    BY DEF MonitorInv, UnansweredWatched, AnsweredOnce, ConnectedMeansSession, Replied
  <1> QED BY <1>1, <1>2 DEF MonitorInv

\* A running poll.
LEMMA Running ==
    ASSUME MonitorInv, poll.pc \in PollPcs
    PROVE  /\ poll \in [pc: PollPcs, ch: Challenge] /\ poll # NoPoll /\ polling
           /\ poll.ch \in Challenge /\ poll.ch # None
           /\ poll.ch \in watched /\ ~Replied(poll.ch)
  BY AuthAssumption DEF MonitorInv, MonitorTypeOK, UnansweredWatched, NoPoll, PollPcs

LEMMA PollInv == ASSUME MonitorInv, Poll PROVE MonitorInv'
  <1> DEFINE p == [ch |-> pending,
                   pc |-> IF now - createdAt[pending] > PollTimeout THEN "timedOut" ELSE "send"]
  <1> USE DEF Poll
  <1>1. /\ p \in [pc: PollPcs, ch: Challenge] /\ p.pc \in {"timedOut", "send"}
        /\ p.ch = pending /\ p # NoPoll
    BY DEF MonitorInv, MonitorTypeOK, PollPcs, NoPoll
  <1>2. poll' = p
    OBVIOUS
  <1> HIDE DEF p
  <1>3. AuthInv' /\ PollMatches'
    <2>1. poll = NoPoll
      BY DEF MonitorInv, MonitorTypeOK
    <2>2. UNCHANGED authVars
      OBVIOUS
    <2> QED BY <1>1, <1>2, <2>1, <2>2, AuthNextInv
            DEF MonitorInv, PollMatches, NoPoll, authVars, Reads
  <1> QED BY <1>1, <1>2, <1>3, PollStep DEF MonitorInv, MonitorTypeOK, UnansweredWatched, authVars

LEMMA PollSendInv == ASSUME MonitorInv, PollSend PROVE MonitorInv'
  <1> DEFINE p == [poll EXCEPT !.pc = "verify"]
  <1> USE DEF PollSend
  <1>1. /\ poll \in [pc: PollPcs, ch: Challenge] /\ polling
        /\ poll.ch \in Challenge /\ poll.ch \in watched /\ ~Replied(poll.ch)
    BY Running DEF PollPcs
  <1>2. /\ p \in [pc: PollPcs, ch: Challenge] /\ p.pc = "verify" /\ p.ch = poll.ch /\ p # NoPoll
        /\ poll' = p
    BY <1>1 DEF PollPcs, Await, NoPoll
  <1> HIDE DEF p
  <1>3. AuthInv' /\ UNCHANGED <<challenges, sessions>>
    BY <1>1, SendVerifyInv, MonitorAssumption DEF MonitorInv, UnansweredWatched, SendVerify
  <1>4. PollMatches'
    <2>1. verify'[daemon] = [NoHandler EXCEPT !.pc = "get", !.ch = poll.ch]
      BY MonitorAssumption DEF SendVerify, MonitorInv, AuthInv, AuthTypeOK
    <2>2. verify'[daemon].pc = "get" /\ verify'[daemon].ch = poll.ch
      BY <2>1 DEF NoHandler
    <2> QED BY <1>2, <2>2 DEF PollMatches, Reads
  <1> QED BY <1>1, <1>2, <1>3, <1>4, PollStep DEF MonitorInv, MonitorTypeOK

\* The daemon reads a response and the poll goes on to p.
LEMMA ReadStep ==
    ASSUME MonitorInv, NEW p \in [pc: PollPcs, ch: Challenge] \cup {NoPoll},
           TakeReply(daemon), poll' = p, polling' \in BOOLEAN, polling' <=> p # NoPoll,
           config' \in [token: Session \cup {None}, identity: BOOLEAN],
           UNCHANGED <<pending, timer, createdAt, watched, latest, overtaken, replies>>,
           p.ch # None => p.ch \in watched /\ ~Replied(p.ch),
           p.pc # "verify",
           p.pc \in {"list", "restore", "connected"} =>
               \E s \in sessions : s.ch = p.ch /\ s.tg = challenges[p.ch].tg
    PROVE  MonitorInv'
  <1>1. AuthInv' /\ UNCHANGED <<challenges, sessions>>
    BY TakeReplyInv, MonitorAssumption DEF MonitorInv, TakeReply
  <1>2. verify'[daemon].pc = "none"
    BY MonitorAssumption DEF TakeReply, NoHandler, MonitorInv, AuthInv, AuthTypeOK
  <1>3. PollMatches'
    BY <1>1, <1>2 DEF PollMatches, Reads
  <1> QED BY <1>1, <1>3, PollStep

LEMMA PollWaitInv == ASSUME MonitorInv, PollWait PROVE MonitorInv'
  <1>1. NoPoll.ch = None /\ NoPoll.pc = "idle"
    BY DEF NoPoll
  <1> QED BY <1>1, ReadStep DEF PollWait, EndPoll, MonitorInv, MonitorTypeOK

LEMMA PollFailInv == ASSUME MonitorInv, PollFail PROVE MonitorInv'
  <1> DEFINE p == [poll EXCEPT !.pc = "failed"]
  <1> USE DEF PollFail
  <1>1. /\ poll \in [pc: PollPcs, ch: Challenge] /\ polling
        /\ poll.ch \in watched /\ ~Replied(poll.ch)
    BY Running DEF PollPcs
  <1>2. /\ p \in [pc: PollPcs, ch: Challenge] /\ p.pc = "failed" /\ p.ch = poll.ch /\ p # NoPoll
        /\ poll' = p
    BY <1>1 DEF PollPcs, Await, NoPoll
  <1> HIDE DEF p
  <1> QED BY <1>1, <1>2, ReadStep DEF MonitorInv, MonitorTypeOK

LEMMA PollLoginInv == ASSUME MonitorInv, PollLogin PROVE MonitorInv'
  <1> DEFINE pc == IF config.identity THEN "restore" ELSE "list"
  <1> DEFINE p == [poll EXCEPT !.pc = pc]
  <1> DEFINE s == [sub |-> verify[daemon].id, tg |-> verify[daemon].tg, ch |-> poll.ch]
  <1> USE DEF PollLogin
  <1>1. /\ poll \in [pc: PollPcs, ch: Challenge] /\ polling
        /\ poll.ch \in watched /\ ~Replied(poll.ch)
    BY Running DEF PollPcs
  <1>2. /\ p \in [pc: PollPcs, ch: Challenge] /\ p.pc \in {"restore", "list"}
        /\ p.ch = poll.ch /\ p # NoPoll
        /\ poll' = p
    BY <1>1 DEF PollPcs, Await, NoPoll
  <1>3. s \in sessions /\ s.ch = poll.ch
    BY DEF MonitorInv, PollMatches
  <1>4. config' = [config EXCEPT !.token = s]
    OBVIOUS
  <1> HIDE DEF p, s
  <1>5. s \in Session /\ s.tg = challenges[poll.ch].tg
    BY <1>3, SessionTyped DEF MonitorInv, AuthInv, AuthTypeOK
  <1>6. config' \in [token: Session \cup {None}, identity: BOOLEAN]
    BY <1>4, <1>5 DEF MonitorInv, MonitorTypeOK
  <1> QED BY <1>1, <1>2, <1>3, <1>5, <1>6, ReadStep DEF MonitorInv, MonitorTypeOK

\* The poll goes on while the API is idle.
LEMMA AwaitStep ==
    ASSUME MonitorInv, poll.pc \in {"list", "restore"}, NEW pc \in {"restore", "connected"},
           Await(pc), config' \in [token: Session \cup {None}, identity: BOOLEAN],
           UNCHANGED <<authVars, pending, timer, polling, createdAt, watched, latest, overtaken,
                       replies>>
    PROVE  MonitorInv'
  <1> DEFINE p == [poll EXCEPT !.pc = pc]
  <1>1. /\ poll \in [pc: PollPcs, ch: Challenge] /\ polling
        /\ poll.ch \in watched /\ ~Replied(poll.ch)
    BY Running DEF PollPcs
  <1>2. /\ p \in [pc: PollPcs, ch: Challenge] /\ p.pc = pc /\ p.ch = poll.ch /\ p # NoPoll
        /\ poll' = p
    BY <1>1 DEF PollPcs, Await, NoPoll
  <1> HIDE DEF p
  <1>3. AuthInv'
    BY AuthNextInv DEF MonitorInv
  <1>4. PollMatches'
    BY <1>2 DEF MonitorInv, PollMatches, Reads, authVars
  <1> QED BY <1>1, <1>2, <1>3, <1>4, PollStep DEF MonitorInv, MonitorTypeOK, authVars

\* The answer and the stop that follows it.
LEMMA PollReplyInv == ASSUME MonitorInv, PollReply PROVE MonitorInv'
  <1> DEFINE ch == poll.ch
  <1> DEFINE text == TextAt(poll.pc)
  <1> USE DEF PollReply
  <1>1. ch \in Challenge /\ ch \in watched /\ ~Replied(ch)
    BY Running DEF PollPcs
  <1>2. text \in Texts /\ (text = "connected" => poll.pc = "connected")
    BY DEF TextAt, Texts
  <1>3. replies' = replies \cup {<<ch, text>>}
    OBVIOUS
  <1>4. text = "connected" => \E s \in sessions : s.ch = ch /\ s.tg = challenges[ch].tg
    BY <1>2 DEF MonitorInv, PollMatches
  <1>5. poll.pc # "verify" /\ verify[daemon].pc = "none"
    BY DEF MonitorInv, PollMatches
  <1>6. /\ pending' = None /\ timer' = FALSE /\ polling' = FALSE /\ poll' = NoPoll
        /\ UNCHANGED <<authVars, createdAt, config, watched, latest, overtaken>>
    BY DEF stop, EndPoll
  <1> HIDE DEF ch, text
  <1>7. AuthInv'
    BY <1>6, AuthNextInv DEF MonitorInv
  <1>8. MonitorTypeOK'
    <2>1. AuthTypeOK'
      BY <1>7 DEF AuthInv
    <2>2. replies' \subseteq Challenge \X Texts
      BY <1>1, <1>2, <1>3 DEF MonitorInv, MonitorTypeOK
    <2>3. /\ pending' \in Challenge \cup {None} /\ timer' \in BOOLEAN /\ polling' \in BOOLEAN
          /\ poll' \in [pc: PollPcs, ch: Challenge] \cup {NoPoll}
          /\ timer' <=> pending' # None
          /\ polling' <=> poll' # NoPoll
      BY <1>6
    <2> QED BY <1>6, <2>1, <2>2, <2>3 DEF MonitorInv, MonitorTypeOK
  <1>9. PollMatches'
    BY <1>5, <1>6 DEF PollMatches, NoPoll, Reads, authVars
  <1>10. \A d \in Challenge : d # ch => (Replied(d)' <=> Replied(d))
    BY <1>3 DEF Replied
  <1>11. UnansweredWatched'
    BY <1>1, <1>6, <1>10 DEF MonitorInv, UnansweredWatched, NoPoll, authVars
  <1>12. AnsweredOnce'
    BY <1>1, <1>3 DEF MonitorInv, AnsweredOnce, Replied
  <1>13. ConnectedMeansSession'
    BY <1>3, <1>4, <1>6 DEF MonitorInv, ConnectedMeansSession, authVars
  <1> QED BY <1>7, <1>8, <1>9, <1>11, <1>12, <1>13 DEF MonitorInv

LEMMA WatchInv == ASSUME MonitorInv, NEW ch \in Challenge, Watch(ch) PROVE MonitorInv'
  <1> USE DEF Watch
  <1>1. UNCHANGED <<authVars, config, replies>> /\ ch # None
    BY AuthAssumption
  <1>2. AuthInv'
    BY <1>1, AuthNextInv DEF MonitorInv
  <1>3. ~Replied(ch)
    BY DEF MonitorInv, UnansweredWatched
  <1>4. \/ poll' = poll /\ polling' = polling
        \/ poll = NoPoll /\ poll' = [pc |-> "send", ch |-> ch] /\ polling' = TRUE
    BY DEF MonitorInv, MonitorTypeOK
  <1>5. MonitorTypeOK'
    <2>1. AuthTypeOK'
      BY <1>2 DEF AuthInv
    <2>2. createdAt' \in [Challenge -> Nat]
      BY AuthAssumption DEF MonitorInv, MonitorTypeOK, AuthInv, AuthTypeOK
    <2>3. /\ polling' \in BOOLEAN
          /\ poll' \in [pc: PollPcs, ch: Challenge] \cup {NoPoll}
          /\ polling' <=> poll' # NoPoll
      <3>1. CASE poll' = poll /\ polling' = polling
        BY <3>1 DEF MonitorInv, MonitorTypeOK
      <3>2. CASE poll' = [pc |-> "send", ch |-> ch] /\ polling' = TRUE
        <4>1. poll' \in [pc: PollPcs, ch: Challenge]
          BY <3>2 DEF PollPcs
        <4>2. poll'.ch # NoPoll.ch
          BY <3>2, <1>1 DEF NoPoll
        <4> QED BY <3>2, <4>1, <4>2
      <3> QED BY <1>4, <3>1, <3>2
    <2>4. /\ pending' \in Challenge \cup {None} /\ timer' \in BOOLEAN
          /\ timer' <=> pending' # None
          /\ latest' \in Challenge \cup {None}
      BY <1>1
    <2>5. watched' \subseteq Challenge /\ overtaken' \subseteq Challenge
      BY DEF MonitorInv, MonitorTypeOK
    <2> QED BY <1>1, <2>1, <2>2, <2>3, <2>4, <2>5 DEF MonitorInv, MonitorTypeOK
  <1>6. PollMatches'
    BY <1>1, <1>4 DEF MonitorInv, PollMatches, Reads, NoPoll, authVars
  <1>7. UnansweredWatched'
    BY <1>1, <1>3, <1>4 DEF MonitorInv, UnansweredWatched, Replied, authVars
  <1>8. AnsweredOnce' /\ ConnectedMeansSession'
    BY <1>1 DEF MonitorInv, AnsweredOnce, ConnectedMeansSession, authVars
  <1> QED BY <1>2, <1>5, <1>6, <1>7, <1>8 DEF MonitorInv

\* Every step preserves the invariant.
LEMMA MonitorNextInv == MonitorInv /\ [MonitorNext]_vars => MonitorInv'
  <1> SUFFICES ASSUME MonitorInv, [MonitorNext]_vars PROVE MonitorInv'
    OBVIOUS
  <1>1. CASE ApiNext /\ UNCHANGED monitorVars
    BY <1>1, ApiInv
  <1>2. CASE \E ch \in Challenge : Watch(ch)
    BY <1>2, WatchInv
  <1>3. CASE Poll
    BY <1>3, PollInv
  <1>4. CASE PollList
    <2>1. config' \in [token: Session \cup {None}, identity: BOOLEAN]
      BY <1>4 DEF PollList, MonitorInv, MonitorTypeOK
    <2> QED BY <1>4, <2>1, AwaitStep DEF PollList
  <1>5. CASE PollRestore
    BY <1>5, AwaitStep DEF PollRestore, MonitorInv, MonitorTypeOK
  <1>6. CASE PollSend \/ PollWait \/ PollLogin \/ PollFail \/ PollReply
    BY <1>6, PollSendInv, PollWaitInv, PollLoginInv, PollFailInv, PollReplyInv
  <1>7. CASE UNCHANGED vars
    <2>1. AuthInv'
      BY <1>7, AuthNextInv DEF MonitorInv, vars
    <2>2. MonitorTypeOK'
      BY <1>7, <2>1 DEF vars, monitorVars, MonitorInv, MonitorTypeOK, AuthInv
    <2>3. PollMatches'
      BY <1>7 DEF vars, authVars, monitorVars, MonitorInv, PollMatches, Reads
    <2>4. UnansweredWatched' /\ ConnectedMeansSession' /\ AnsweredOnce'
      BY <1>7 DEF vars, authVars, monitorVars, MonitorInv, UnansweredWatched, Replied,
                  ConnectedMeansSession, AnsweredOnce
    <2> QED BY <2>1, <2>2, <2>3, <2>4 DEF MonitorInv
  <1> QED BY <1>1, <1>2, <1>3, <1>4, <1>5, <1>6, <1>7 DEF MonitorNext, Continue

\* The inductive invariant of the daemon's logins.
THEOREM MonitorInvariance == MonitorSpec => []MonitorInv
  <1> QED BY MonitorInitInv, MonitorNextInv, PTL DEF MonitorSpec

\* The variables of the monitor hold values of their types, and its timer and its
\* flag polling always say what is going on.
THEOREM MonitorTypeCorrect == MonitorSpec => []MonitorTypeOK
  <1>1. MonitorInv => MonitorTypeOK
    BY DEF MonitorInv
  <1> QED BY <1>1, MonitorInvariance, PTL

\* "Connected" is only sent for a session of the user who opened the link.
THEOREM ConnectedIsLoggedIn == MonitorSpec => []ConnectedMeansSession
  <1>1. MonitorInv => ConnectedMeansSession
    BY DEF MonitorInv
  <1> QED BY <1>1, MonitorInvariance, PTL

\* No login is answered twice, whatever overlaps.
THEOREM AnswersOnce == MonitorSpec => []AnsweredOnce
  <1>1. MonitorInv => AnsweredOnce
    BY DEF MonitorInv
  <1> QED BY <1>1, MonitorInvariance, PTL

\* The daemon is a client of the login routes: what is proved of them holds when
\* it is the one that polls.
THEOREM MonitorUsesAuth == MonitorSpec => AuthSpec
  <1>1. MonitorInit => AuthInit
    BY DEF MonitorInit
  <1>2. MonitorInv /\ [MonitorNext]_vars => [AuthNext]_authVars
    <2> SUFFICES ASSUME MonitorInv, [MonitorNext]_vars PROVE [AuthNext]_authVars
      OBVIOUS
    <2>1. CASE ApiNext
      BY <2>1, MonitorAssumption DEF ApiNext, AuthNext
    <2>2. CASE PollSend
      <3>1. poll.ch \in Challenge /\ challenges[poll.ch] # None
        BY <2>2, Running DEF PollSend, PollPcs, MonitorInv, UnansweredWatched
      <3> QED BY <2>2, <3>1, MonitorAssumption DEF PollSend, AuthNext
    <2>3. CASE TakeReply(daemon)
      BY <2>3, MonitorAssumption DEF AuthNext
    <2>4. CASE UNCHANGED authVars
      BY <2>4
    <2> QED BY <2>1, <2>2, <2>3, <2>4
            DEF MonitorNext, Continue, Watch, Poll, PollWait, PollLogin, PollList, PollRestore,
                PollFail, PollReply, vars
  <1> QED BY <1>1, <1>2, MonitorInvariance, PTL DEF MonitorSpec, AuthSpec

\* When it is the daemon that polls, with its timeouts and overlapping logins, the
\* login routes still keep what LoginPromise states.
THEOREM MonitorKeepsPromise == MonitorSpec => ImplementsLogin
  <1> QED BY MonitorUsesAuth, AuthRefinesLogin
=============================================================================
