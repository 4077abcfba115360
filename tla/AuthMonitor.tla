---------------------------- MODULE AuthMonitor ----------------------------
(***************************************************************************)
(* The AuthMonitor of the daemon (cli/src/authMonitor.ts), with the routes *)
(* of the API it polls (module Auth): POST /auth/start of the daemon asks  *)
(* for a challenge and watches it; a timer polls /v1/auth/verify until     *)
(* there is a session, an error or a timeout, and a Telegram message then  *)
(* answers the one that started the login.                                 *)
(*                                                                         *)
(* The daemon has one thread: a poll runs to its next await in one step,   *)
(* and while it waits the timer, or another POST /auth/start, may run.     *)
(***************************************************************************)
EXTENDS Auth

CONSTANTS
    daemon,         \* the client that is the daemon
    PollTimeout     \* POLL_TIMEOUT_MS

ASSUME MonitorAssumption ==
    /\ daemon \in Client
    /\ PollTimeout \in Nat

VARIABLES
    pending,        \* the challenge being watched, or None
    timer,          \* whether the interval timer is set
    polling,        \* whether a poll is running
    poll,           \* the running poll: where it waits, and the challenge it captured
    createdAt,      \* challenge -> when it was watched
    config,         \* config.json: the session token, and whether it names an identity
    watched,        \* history: the challenges watched
    latest,         \* history: the one watched last
    overtaken,      \* history: challenges dropped by watch, or watched while a poll ran
    replies         \* history: <<challenge, text>> sent as Telegram reply

monitorVars == <<pending, timer, polling, poll, createdAt, config, watched, latest,
                 overtaken, replies>>
vars == <<authVars, monitorVars>>

NoPoll == [pc |-> "idle", ch |-> None]
PollPcs == {"send", "verify", "list", "restore", "timedOut", "connected", "failed"}
Texts == {"timed out", "connected", "failed"}

MonitorInit ==
    /\ AuthInit
    /\ pending = None
    /\ timer = FALSE
    /\ polling = FALSE
    /\ poll = NoPoll
    /\ createdAt = [ch \in Challenge |-> 0]
    /\ config \in [token: {None}, identity: BOOLEAN]
    /\ watched = {}
    /\ latest = None
    /\ overtaken = {}
    /\ replies = {}

-----------------------------------------------------------------------------
\* Mutant of stop: the challenge stays pending.
stopTimerOnly == timer' = FALSE /\ UNCHANGED pending

stop == timer' = FALSE /\ pending' = None

Await(pc) == poll' = [poll EXCEPT !.pc = pc]

\* The poll is over ("finally").
EndPoll == polling' = FALSE /\ poll' = NoPoll

\* watch: stop the old timer, set the new one, poll at once unless a poll is
\* running.  (The clock has not moved, so this poll does not time out.)
Watch(ch) ==
    /\ challenges[ch] # None
    /\ ch \notin watched
    /\ now + PollTimeout < MaxTime      \* the bounded clock must reach the timeout
    /\ pending' = ch
    /\ timer' = TRUE
    /\ createdAt' = [createdAt EXCEPT ![ch] = now]
    /\ watched' = watched \cup {ch}
    /\ latest' = ch
    /\ overtaken' = overtaken \cup ({pending} \ {None}) \cup (IF polling THEN {ch} ELSE {})
    /\ \/ polling /\ UNCHANGED <<polling, poll>>
       \/ ~polling /\ polling' = TRUE /\ poll' = [pc |-> "send", ch |-> ch]
    /\ UNCHANGED <<authVars, config, replies>>

\* Mutant of Poll: no timeout.
PollForever ==
    /\ timer
    /\ pending # None
    /\ ~polling
    /\ polling' = TRUE
    /\ poll' = [ch |-> pending, pc |-> "send"]
    /\ UNCHANGED <<authVars, pending, timer, createdAt, config, watched, latest, overtaken,
                   replies>>

\* The timer calls poll().
Poll ==
    /\ timer
    /\ pending # None
    /\ ~polling
    /\ polling' = TRUE
    /\ poll' = [ch |-> pending,
                pc |-> IF now - createdAt[pending] > PollTimeout THEN "timedOut" ELSE "send"]
    /\ UNCHANGED <<authVars, pending, timer, createdAt, config, watched, latest, overtaken,
                   replies>>

PollSend ==
    /\ poll.pc = "send"
    /\ SendVerify(daemon, poll.ch)
    /\ Await("verify")
    /\ UNCHANGED <<pending, timer, polling, createdAt, config, watched, latest, overtaken,
                   replies>>

Reads(code) == verify[daemon].pc = "reply" /\ verify[daemon].code = code

\* Mutant of PollWait: a poll whose connection fails leaves the flag polling set.
PollWaitStuck ==
    /\ poll.pc = "verify"
    /\ Reads(0) \/ Reads(202)
    /\ TakeReply(daemon)
    /\ IF Reads(0) THEN poll' = NoPoll /\ UNCHANGED polling ELSE EndPoll
    /\ UNCHANGED <<pending, timer, createdAt, config, watched, latest, overtaken, replies>>

\* 202, or the connection failed: the timer will poll again.
PollWait ==
    /\ poll.pc = "verify"
    /\ Reads(0) \/ Reads(202)
    /\ TakeReply(daemon)
    /\ EndPoll
    /\ UNCHANGED <<pending, timer, createdAt, config, watched, latest, overtaken, replies>>

\* Mutant of PollLogin: 202 is taken for success, as res.ok alone would say.
PollLoginAny2xx ==
    /\ poll.pc = "verify"
    /\ Reads(200) \/ Reads(202)
    /\ TakeReply(daemon)
    /\ config' = [config EXCEPT !.token =
                      IF Reads(200)
                      THEN [sub |-> verify[daemon].id, tg |-> verify[daemon].tg, ch |-> poll.ch]
                      ELSE None]
    /\ Await(IF config.identity THEN "restore" ELSE "list")
    /\ UNCHANGED <<pending, timer, polling, createdAt, watched, latest, overtaken, replies>>

\* 200: loadConfig and saveConfig with the new token, then the identity in the
\* config is restored or the user's identities are listed.
PollLogin ==
    /\ poll.pc = "verify"
    /\ Reads(200)
    /\ TakeReply(daemon)
    /\ config' = [config EXCEPT !.token =
                      [sub |-> verify[daemon].id, tg |-> verify[daemon].tg, ch |-> poll.ch]]
    /\ Await(IF config.identity THEN "restore" ELSE "list")
    /\ UNCHANGED <<pending, timer, polling, createdAt, watched, latest, overtaken, replies>>

\* The list of identities has come: the newest is saved and restored, if any
\* (an error counts as none).
PollList ==
    /\ poll.pc = "list"
    /\ \/ config' = [config EXCEPT !.identity = TRUE] /\ Await("restore")
       \/ UNCHANGED config /\ Await("connected")
    /\ UNCHANGED <<authVars, pending, timer, polling, createdAt, watched, latest, overtaken,
                   replies>>

\* The restore has answered; a failure is only logged.
PollRestore ==
    /\ poll.pc = "restore"
    /\ Await("connected")
    /\ UNCHANGED <<authVars, pending, timer, polling, createdAt, config, watched, latest,
                   overtaken, replies>>

\* Any other answer is an error.
PollFail ==
    /\ poll.pc = "verify"
    /\ Reads(404) \/ Reads(500)
    /\ TakeReply(daemon)
    /\ Await("failed")
    /\ UNCHANGED <<pending, timer, polling, createdAt, config, watched, latest, overtaken,
                   replies>>

TextAt(pc) == IF pc = "timedOut" THEN "timed out" ELSE pc

\* Mutant of PollReply: no stop() after the reply.
PollReplyGoesOn ==
    /\ poll.pc \in {"timedOut", "connected", "failed"}
    /\ replies' = replies \cup {<<poll.ch, TextAt(poll.pc)>>}
    /\ EndPoll
    /\ UNCHANGED <<authVars, pending, timer, createdAt, config, watched, latest, overtaken>>

\* sendTelegramReply to the message of the poll's own challenge (errors are
\* swallowed), then stop(), whatever challenge is watched by now.
PollReply ==
    /\ poll.pc \in {"timedOut", "connected", "failed"}
    /\ replies' = replies \cup {<<poll.ch, TextAt(poll.pc)>>}
    /\ stop
    /\ EndPoll
    /\ UNCHANGED <<authVars, createdAt, config, watched, latest, overtaken>>

Continue == PollSend \/ PollWait \/ PollLogin \/ PollList \/ PollRestore \/ PollFail \/ PollReply

ApiNext == AuthTick \/ ChallengeNext \/ VerifyStep(daemon) \/ VerifyFault(daemon)

MonitorNext ==
    \/ ApiNext /\ UNCHANGED monitorVars
    \/ \E ch \in Challenge : Watch(ch)
    \/ Poll
    \/ Continue

\* The clock advances, the timer fires, and awaits are settled by the API's
\* handler or by a fault.  Nobody has to start a login or to open a link.
MonitorFairness ==
    /\ WF_vars(AuthTick /\ UNCHANGED monitorVars)
    /\ WF_vars(Poll)
    /\ WF_vars(Continue)
    /\ WF_vars((VerifyStep(daemon) \/ VerifyFault(daemon)) /\ UNCHANGED monitorVars)

MonitorSpec == MonitorInit /\ [][MonitorNext]_vars /\ MonitorFairness

-----------------------------------------------------------------------------
Replied(ch) == \E text \in Texts : <<ch, text>> \in replies

\* The variables hold values of their types; a timer runs exactly while a
\* challenge is watched, and polling is set exactly while a poll runs.
MonitorTypeOK ==
    /\ AuthTypeOK
    /\ pending \in Challenge \cup {None}
    /\ timer \in BOOLEAN
    /\ polling \in BOOLEAN
    /\ poll \in [pc: PollPcs, ch: Challenge] \cup {NoPoll}
    /\ config \in [token: Session \cup {None}, identity: BOOLEAN]
    /\ createdAt \in [Challenge -> Nat]
    /\ watched \subseteq Challenge
    /\ latest \in Challenge \cup {None}
    /\ overtaken \subseteq Challenge
    /\ replies \subseteq Challenge \X Texts
    /\ timer <=> pending # None
    /\ polling <=> poll # NoPoll

\* "Connected, welcome back!" is only ever sent for a login that has succeeded,
\* for a session of the Telegram user who opened this very link.
ConnectedMeansSession ==
    \A ch \in Challenge : <<ch, "connected">> \in replies =>
        \E s \in sessions : s.ch = ch /\ s.tg = challenges[ch].tg

\* A login is answered at most once, although polls, timeouts, errors and new
\* logins overlap.
AnsweredOnce ==
    \A ch \in Challenge, t1, t2 \in Texts :
        <<ch, t1>> \in replies /\ <<ch, t2>> \in replies => t1 = t2

\* The daemon's side of a poll and the API's belong together: the daemon waits
\* for the verify handler of the challenge it captured, and a 200 that is still
\* to be read is of a session that was issued.
PollMatches ==
    /\ poll.pc = "verify" <=> verify[daemon].pc # "none"
    /\ poll.pc = "verify" => verify[daemon].ch = poll.ch
    /\ Reads(200) => [sub |-> verify[daemon].id, tg |-> verify[daemon].tg,
                      ch |-> verify[daemon].ch] \in sessions
    /\ poll.pc \in {"list", "restore", "connected"} =>
          \E s \in sessions : s.ch = poll.ch /\ s.tg = challenges[poll.ch].tg

\* What is watched, or polled, has not been answered.
UnansweredWatched ==
    /\ \A ch \in watched : challenges[ch] # None
    /\ \A ch \in Challenge : Replied(ch) => ch \in watched
    /\ pending # None => pending \in watched /\ ~Replied(pending)
    /\ poll.ch # None => poll.ch \in watched /\ ~Replied(poll.ch)

MonitorInv ==
    /\ AuthInv
    /\ MonitorTypeOK
    /\ PollMatches
    /\ UnansweredWatched
    /\ ConnectedMeansSession
    /\ AnsweredOnce

\* Nothing is watched for ever: with the network down, nobody opening the link,
\* and logins overtaking one another, the monitor becomes idle.
WatchEnds == \A ch \in Challenge : pending = ch ~> pending # ch

\* A login is answered, with success, failure or a timeout, unless another one
\* overlapped with it.
LoneLoginAnswered ==
    \A ch \in Challenge : ch \in watched ~> Replied(ch) \/ ch \in overtaken

\* The latest login is answered once the user has opened the link ("The daemon
\* will reply ... once the user authenticates via the deep link"): watching yet
\* another challenge is the only thing that makes the daemon give up on it.
LatestLoginAnswered ==
    \A ch \in Challenge :
        latest = ch /\ challenges[ch].tg # None ~> Replied(ch) \/ latest # ch
=============================================================================
