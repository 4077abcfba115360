---------------------------- MODULE WalletProofs ----------------------------
(***************************************************************************)
(* Theorems about the command line client: config.json, the daemon and its *)
(* PID file, payments and signatures, for any number of processes.         *)
(***************************************************************************)
EXTENDS Wallet, TLAPS

\* What SessionInv says of one process.
Knows(p) == /\ p.pc \in {"stopWait", "health"} => p.pid # None
            /\ p.pc \in {"initRestore", "destroy"} => p.config.id # None
            /\ p.config.id = p.config.key
            /\ p.cmd = "init" => p.pc \notin {"list", "restart", "signal", "stopWait"}

Refused == {"incompatible", "destroyed"}
Kept == {"ok", "destroyed"}

\* What SessionInv says of one process and the identities.
Fits(p, ids) ==
    /\ p.pc = "destroy" => ids[p.config.id] \in Refused
    /\ p.cmd = "init" /\ p.pc \in {"save", "spawn", "health"} =>
          p.config.id # None /\ ids[p.config.id] \in Kept

\* A process of the invariant.
LEMMA OfProcess ==
    ASSUME SessionInv, NEW c \in Cli
    PROVE  cli[c] \in Process /\ Knows(cli[c]) /\ Fits(cli[c], identity)
  BY DEF SessionInv, SessionTypeOK, KeysMatch, InitKeepsUsable, InitReplacesConflict, Knows, Fits,
         Refused, Kept

\* What a process goes on to may be anything that fits what the API has then.
LEMMA MoveInv ==
    ASSUME SessionInv, NEW c \in Cli, NEW p \in Process, cli' = [cli EXCEPT ![c] = p],
           Knows(p), Fits(p, identity'),
           file' \in Config, file'.id = file'.key,
           session' \in [Token -> {"none", "valid", "expired"}],
           identity' \in [Identity -> {"none", "ok", "incompatible", "destroyed"}],
           \A i \in Identity : /\ identity[i] \in Kept => identity'[i] \in Kept
                               /\ identity[i] \in Refused => identity'[i] \in Refused,
           daemon' \in [Daemon -> DaemonStates], pidFile' \in Daemon \cup {None},
           OnePort', PidFileIsCurrent'
    PROVE  SessionInv'
  <1>1. cli' \in [Cli -> Process]
    BY DEF SessionInv, SessionTypeOK
  <1>2. ASSUME NEW d \in Cli PROVE Knows(cli'[d]) /\ Fits(cli'[d], identity')
    <2>1. CASE d = c
      BY <2>1 DEF SessionInv, SessionTypeOK
    <2>2. CASE d # c
      <3>1. cli'[d] = cli[d] /\ cli[d] \in Process /\ Knows(cli[d]) /\ Fits(cli[d], identity)
        BY <2>2, OfProcess DEF SessionInv, SessionTypeOK
      <3>2. cli[d].config.id \in Identity \cup {None}
        BY <3>1 DEF Process, Config
      <3>3. cli[d].pc = "destroy" => identity'[cli[d].config.id] \in Refused
        BY <3>1, <3>2 DEF Knows, Fits
      <3>4. cli[d].cmd = "init" /\ cli[d].pc \in {"save", "spawn", "health"}
               => cli[d].config.id # None /\ identity'[cli[d].config.id] \in Kept
        BY <3>1, <3>2 DEF Fits
      <3> QED BY <3>1, <3>3, <3>4 DEF Fits
    <2> QED BY <2>1, <2>2
  <1> QED BY <1>1, <1>2 DEF SessionInv, SessionTypeOK, KeysMatch, InitKeepsUsable,
                            InitReplacesConflict, Knows, Fits, Refused, Kept

\* Where cli[c] only changes its place.
LEMMA GotoInv ==
    ASSUME SessionInv, NEW c \in Cli, NEW pc \in Pcs, Goto(c, pc),
           pc \in {"stopWait", "health"} => cli[c].pid # None,
           pc \in {"initRestore", "destroy"} => cli[c].config.id # None,
           cli[c].cmd = "init" => pc \notin {"list", "restart", "signal", "stopWait"},
           Fits([cli[c] EXCEPT !.pc = pc], identity),
           file' \in Config, file'.id = file'.key,
           UNCHANGED <<session, identity>>,
           daemon' \in [Daemon -> DaemonStates], pidFile' \in Daemon \cup {None},
           OnePort', PidFileIsCurrent'
    PROVE  SessionInv'
  <1> DEFINE p == [cli[c] EXCEPT !.pc = pc]
  <1>1. cli[c] \in Process /\ Knows(cli[c])
    BY OfProcess
  <1>2. p \in Process /\ Knows(p)
    BY <1>1 DEF Process, Knows
  <1>3. cli' = [cli EXCEPT ![c] = p]
    BY DEF Goto
  <1>4. /\ session' \in [Token -> {"none", "valid", "expired"}]
        /\ identity' \in [Identity -> {"none", "ok", "incompatible", "destroyed"}]
    BY DEF SessionInv, SessionTypeOK
  <1>5. Fits(p, identity')
    OBVIOUS
  <1> HIDE DEF p
  <1> QED BY <1>2, <1>3, <1>4, <1>5, MoveInv

\* Where a process exits.
LEMMA ExitInv ==
    ASSUME SessionInv, NEW c \in Cli, NEW pc \in Finished, Exit(c, pc),
           UNCHANGED <<file, session, identity>>,
           daemon' \in [Daemon -> DaemonStates], pidFile' \in Daemon \cup {None},
           OnePort', PidFileIsCurrent'
    PROVE  SessionInv'
  <1> DEFINE p == [NoProcess EXCEPT !.cmd = cli[c].cmd, !.pc = pc]
  <1>1. cli[c] \in Process
    BY OfProcess
  <1>2. p \in Process /\ Knows(p) /\ Fits(p, identity')
    BY <1>1 DEF Process, Knows, Fits, NoProcess, NoConfig, Config, Pcs, Finished
  <1>3. cli' = [cli EXCEPT ![c] = p]
    BY DEF Exit
  <1>4. /\ session' \in [Token -> {"none", "valid", "expired"}]
        /\ identity' \in [Identity -> {"none", "ok", "incompatible", "destroyed"}]
        /\ file' \in Config /\ file'.id = file'.key
    BY DEF SessionInv, SessionTypeOK, KeysMatch
  <1> HIDE DEF p
  <1> QED BY <1>2, <1>3, <1>4, MoveInv

\* The daemons stay what they are, or one of them moves on without serving.
LEMMA SameDaemons ==
    ASSUME SessionInv, UNCHANGED daemon, pidFile' \in {pidFile, None}
    PROVE  /\ daemon' \in [Daemon -> DaemonStates] /\ pidFile' \in Daemon \cup {None}
           /\ OnePort' /\ PidFileIsCurrent'
  BY DEF SessionInv, SessionTypeOK, OnePort, PidFileIsCurrent

LEMMA DaemonMoves ==
    ASSUME SessionInv, NEW d \in Daemon, NEW st \in DaemonStates \ {"listening"},
           daemon' = [daemon EXCEPT ![d] = st],
           st \in PortHeld => daemon[d] \in PortHeld \/ ~PortTaken,
           pidFile' \in {pidFile, None}
    PROVE  /\ daemon' \in [Daemon -> DaemonStates] /\ pidFile' \in Daemon \cup {None}
           /\ OnePort' /\ PidFileIsCurrent'
  BY DEF SessionInv, SessionTypeOK, OnePort, PidFileIsCurrent, PortTaken

\* A step that moves no process and changes no config or identity.
LEMMA NoMoveInv ==
    ASSUME SessionInv, UNCHANGED <<cli, file, identity>>,
           session' \in [Token -> {"none", "valid", "expired"}],
           daemon' \in [Daemon -> DaemonStates], pidFile' \in Daemon \cup {None},
           OnePort', PidFileIsCurrent'
    PROVE  SessionInv'
  BY DEF SessionInv, SessionTypeOK, KeysMatch, InitKeepsUsable, InitReplacesConflict

\* Every step of the session and the daemons keeps the invariant.
LEMMA StartCommandInv ==
    ASSUME SessionInv, NEW c \in Cli, NEW cmd \in Commands, StartCommand(c, cmd)
    PROVE  SessionInv'
  <1> DEFINE pc == CASE cmd = "login" -> "verify"
                     [] cmd = "init" -> IF Active(file.token) THEN "identity" ELSE "verify"
                     [] cmd = "start" -> IF Running THEN "done" ELSE "spawn"
                     [] cmd = "stop" -> IF Running THEN "signal" ELSE "done"
                     [] OTHER -> IF ~Complete(file) THEN "failed"
                                 ELSE IF Active(file.token) THEN "run" ELSE "verify"
             p == [cmd |-> cmd, pc |-> pc, pid |-> None,
                   config |-> IF cmd \in {"start", "stop"} \/ pc \in Finished THEN NoConfig
                              ELSE file]
  <1>1. cli' = [cli EXCEPT ![c] = p] /\ UNCHANGED <<file, session, identity, daemon>>
        /\ pidFile' \in {pidFile, None}
    BY DEF StartCommand, RemoveStale
  <1>2. /\ pc \in {"verify", "identity", "done", "spawn", "signal", "failed", "run"}
        /\ cmd = "init" => pc \in {"verify", "identity"}
    BY DEF Commands, WalletCommands
  <1> HIDE DEF pc
  <1>3. p \in Process /\ Knows(p) /\ Fits(p, identity')
    BY <1>2 DEF SessionInv, SessionTypeOK, KeysMatch, Process, Knows, Fits, Pcs, Finished,
                NoConfig, Config
  <1>4. /\ session' \in [Token -> {"none", "valid", "expired"}]
        /\ identity' \in [Identity -> {"none", "ok", "incompatible", "destroyed"}]
        /\ file' \in Config /\ file'.id = file'.key
    BY <1>1 DEF SessionInv, SessionTypeOK, KeysMatch
  <1> HIDE DEF p
  <1> QED BY <1>1, <1>3, <1>4, SameDaemons, MoveInv

\* A process goes on, or exits, while the daemons stay as they are.
LEMMA ContinueInv ==
    ASSUME SessionInv, NEW c \in Cli, NEW pc \in Pcs, Continue(c, pc),
           pc \notin {"stopWait", "health", "destroy"},
           pc = "initRestore" => cli[c].config.id # None,
           cli[c].cmd = "init" => pc \notin {"list", "restart", "signal", "save", "spawn"},
           UNCHANGED <<file, session, identity>>,
           daemon' \in [Daemon -> DaemonStates], pidFile' \in Daemon \cup {None},
           OnePort', PidFileIsCurrent'
    PROVE  SessionInv'
  <1>1. file' \in Config /\ file'.id = file'.key
    BY DEF SessionInv, SessionTypeOK, KeysMatch
  <1>2. CASE pc \in Finished
    BY <1>2, ExitInv DEF Continue
  <1>3. CASE pc \notin Finished
    <2>1. Fits([cli[c] EXCEPT !.pc = pc], identity)
      BY OfProcess DEF Fits, Process
    <2> QED BY <1>1, <1>3, <2>1, GotoInv DEF Continue
  <1> QED BY <1>2, <1>3

LEMMA SessionStepInv ==
    ASSUME SessionInv, NEW c \in Cli, CliStep(c) \/ CliKilled(c)
    PROVE  SessionInv'
  <1>0. /\ cli[c] \in Process /\ Knows(cli[c]) /\ Fits(cli[c], identity)
        /\ file \in Config /\ file.id = file.key
        /\ session \in [Token -> {"none", "valid", "expired"}]
        /\ identity \in [Identity -> {"none", "ok", "incompatible", "destroyed"}]
    BY OfProcess DEF SessionInv, SessionTypeOK, KeysMatch
  <1>1. CASE Verified(c)
    <2>1. PICK t \in Token :
             /\ session' = [session EXCEPT ![t] = "valid"]
             /\ cli' = [cli EXCEPT ![c].config.token = t, ![c].pc = AfterLogin(c)]
             /\ file' = IF cli[c].cmd = "login" THEN [cli[c].config EXCEPT !.token = t] ELSE file
      BY <1>1 DEF Verified
    <2> DEFINE p == [cli[c] EXCEPT !.config.token = t, !.pc = AfterLogin(c)]
    <2>2. cli' = [cli EXCEPT ![c] = p]
      BY <2>1, <1>0
    <2>3. AfterLogin(c) \in {"identity", "list", "restart"}
          /\ (cli[c].cmd = "init" => AfterLogin(c) = "identity")
      BY DEF AfterLogin
    <2>4. p \in Process /\ Knows(p) /\ Fits(p, identity)
      BY <2>3, <1>0 DEF Process, Config, Knows, Fits, Pcs
    <2>5. file' \in Config /\ file'.id = file'.key
      BY <2>1, <1>0 DEF Process, Config, Knows
    <2>6. session' \in [Token -> {"none", "valid", "expired"}]
      BY <2>1, <1>0
    <2>7. UNCHANGED <<identity, daemon, pidFile>>
      BY <1>1 DEF Verified
    <2> HIDE DEF p
    <2> QED BY <2>2, <2>4, <2>5, <2>6, <2>7, <1>0, SameDaemons, MoveInv
  <1>2. CASE NotYetVerified(c)
    <2> DEFINE p == [cli[c] EXCEPT !.config.token = None, !.pc = AfterLogin(c)]
    <2>1. cli' = [cli EXCEPT ![c] = p]
          /\ UNCHANGED <<file, session, identity, daemon, pidFile>>
      BY <1>2, <1>0 DEF NotYetVerified
    <2>2. AfterLogin(c) \in {"identity", "list", "restart"}
          /\ (cli[c].cmd = "init" => AfterLogin(c) = "identity")
      BY DEF AfterLogin
    <2>3. p \in Process /\ Knows(p) /\ Fits(p, identity)
      BY <2>2, <1>0 DEF Process, Config, Knows, Fits, Pcs
    <2> HIDE DEF p
    <2> QED BY <2>1, <2>3, <1>0, SameDaemons, MoveInv
  <1>3. CASE Recover(c)
    <2>1. CASE Continue(c, "restart") /\ UNCHANGED <<file, session, identity, daemon, pidFile>>
      <3>1. cli[c].cmd # "init"
        BY <1>3, <1>0 DEF Recover, Knows
      <3> QED BY <2>1, <3>1, SameDaemons, ContinueInv DEF Pcs
    <2>2. CASE \E i \in Listed :
             /\ cli' = [cli EXCEPT ![c].config.id = i, ![c].config.key = i, ![c].pc = "restart"]
             /\ file' = [cli[c].config EXCEPT !.id = i, !.key = i]
             /\ UNCHANGED <<session, identity, daemon, pidFile>>
      <3>1. PICK i \in Listed :
             /\ cli' = [cli EXCEPT ![c].config.id = i, ![c].config.key = i, ![c].pc = "restart"]
             /\ file' = [cli[c].config EXCEPT !.id = i, !.key = i]
        BY <2>2
      <3> DEFINE p == [cli[c] EXCEPT !.config.id = i, !.config.key = i, !.pc = "restart"]
      <3>2. i \in Identity /\ cli[c].cmd # "init"
        BY <1>3, <1>0 DEF Recover, Knows, Listed
      <3>3. cli' = [cli EXCEPT ![c] = p]
        BY <3>1, <1>0
      <3>4. p \in Process /\ Knows(p) /\ Fits(p, identity)
        BY <3>2, <1>0 DEF Process, Config, Knows, Fits, Pcs
      <3>5. file' \in Config /\ file'.id = file'.key
        BY <3>1, <3>2, <1>0 DEF Process, Config
      <3> HIDE DEF p
      <3> QED BY <2>2, <3>3, <3>4, <3>5, <1>0, SameDaemons, MoveInv
    <2> QED BY <1>3, <2>1, <2>2 DEF Recover, Continue, Finished
  <1>4. CASE Restart(c)
    <2> DEFINE pc == IF Running THEN "signal" ELSE IF cli[c].cmd = "login" THEN "done" ELSE "saveToken"
    <2>1. pc \in {"signal", "done", "saveToken"} /\ Continue(c, pc) /\ cli[c].cmd # "init"
          /\ UNCHANGED <<file, session, identity, daemon>> /\ pidFile' \in {pidFile, None}
      BY <1>4, <1>0 DEF Restart, RemoveStale, Knows
    <2> HIDE DEF pc
    <2> QED BY <2>1, SameDaemons, ContinueInv DEF Pcs, Finished
  <1>5. CASE SaveToken(c)
    <2>1. file' \in Config /\ file'.id = file'.key
          /\ UNCHANGED <<session, identity, daemon, pidFile>> /\ Goto(c, "run")
      BY <1>5, <1>0 DEF SaveToken, Process, Knows
    <2>2. Fits([cli[c] EXCEPT !.pc = "run"], identity)
      BY <1>0 DEF Fits, Process
    <2> QED BY <2>1, <2>2, SameDaemons, GotoInv DEF Pcs
  <1>6. CASE ChooseIdentity(c)
    <2>1. UNCHANGED <<file, session, identity, daemon, pidFile>>
      BY <1>6 DEF ChooseIdentity
    <2>2. CASE Goto(c, "initRestore") /\ HasIdentity(cli[c].config)
      BY <2>1, <2>2, SameDaemons, ContinueInv DEF Pcs, Finished, Continue, HasIdentity
    <2>3. CASE Goto(c, "create")
      BY <2>1, <2>3, SameDaemons, ContinueInv DEF Pcs, Finished, Continue
    <2>4. CASE \E i \in Listed :
             cli' = [cli EXCEPT ![c].config.id = i, ![c].config.key = i, ![c].pc = "initRestore"]
      <3>1. PICK i \in Listed :
             cli' = [cli EXCEPT ![c].config.id = i, ![c].config.key = i, ![c].pc = "initRestore"]
        BY <2>4
      <3> DEFINE p == [cli[c] EXCEPT !.config.id = i, !.config.key = i, !.pc = "initRestore"]
      <3>2. cli' = [cli EXCEPT ![c] = p]
        BY <3>1, <1>0
      <3>3. p \in Process /\ Knows(p) /\ Fits(p, identity)
        BY <1>0, SessionAssumption DEF Process, Config, Knows, Fits, Pcs, Listed
      <3> HIDE DEF p
      <3> QED BY <2>1, <3>2, <3>3, <1>0, SameDaemons, MoveInv
    <2> QED BY <1>6, <2>2, <2>3, <2>4 DEF ChooseIdentity
  <1>7. CASE RestoreOrReplace(c)
    <2>1. UNCHANGED <<file, session, identity, daemon, pidFile>> /\ cli[c].config.id \in Identity
      BY <1>7, <1>0 DEF RestoreOrReplace, Knows, Process, Config
    <2>2. CASE identity[cli[c].config.id] \in Kept /\ Goto(c, "save")
      <3>1. Fits([cli[c] EXCEPT !.pc = "save"], identity)
        BY <2>1, <2>2, <1>0, SessionAssumption DEF Fits, Process
      <3> QED BY <2>1, <2>2, <3>1, <1>0, SameDaemons, GotoInv DEF Pcs
    <2>3. CASE identity[cli[c].config.id] \in Refused /\ Goto(c, "destroy")
      <3>1. Fits([cli[c] EXCEPT !.pc = "destroy"], identity)
        BY <2>1, <2>3, <1>0 DEF Fits, Process
      <3> QED BY <2>1, <2>3, <3>1, <1>0, SameDaemons, GotoInv, SessionAssumption DEF Pcs
    <2> QED BY <1>7, <2>2, <2>3 DEF RestoreOrReplace, Kept, Refused
  <1>8. CASE DestroyOld(c)
    <2> DEFINE p == [cli[c] EXCEPT !.config.id = None, !.config.key = None, !.pc = "create"]
    <2>0. cli' = [cli EXCEPT ![c] = p]
      BY <1>8 DEF DestroyOld
    <2>1. UNCHANGED <<file, session, daemon, pidFile>>
          /\ cli[c].config.id \in Identity /\ identity[cli[c].config.id] \in Refused
      BY <1>8, <1>0 DEF DestroyOld, Knows, Fits, Process, Config
    <2>2. identity' = [identity EXCEPT ![cli[c].config.id] = "destroyed"] \/ UNCHANGED identity
      BY <1>8 DEF DestroyOld
    <2>3. /\ identity' \in [Identity -> {"none", "ok", "incompatible", "destroyed"}]
          /\ \A i \in Identity : /\ identity[i] \in Kept => identity'[i] \in Kept
                                 /\ identity[i] \in Refused => identity'[i] \in Refused
      BY <2>1, <2>2, <1>0 DEF Refused, Kept
    <2>4. p \in Process /\ Knows(p) /\ Fits(p, identity')
      BY <1>0 DEF Process, Config, Knows, Fits, Pcs
    <2> HIDE DEF p
    <2> QED BY <2>0, <2>1, <2>3, <2>4, <1>0, SameDaemons, MoveInv
  <1>9. CASE CreateIdentity(c)
    <2>1. PICK i \in Identity :
             /\ identity[i] = "none"
             /\ identity' = [identity EXCEPT ![i] = "ok"]
             /\ cli' = [cli EXCEPT ![c].config.id = i, ![c].config.key = i, ![c].pc = "save"]
      BY <1>9 DEF CreateIdentity
    <2> DEFINE p == [cli[c] EXCEPT !.config.id = i, !.config.key = i, !.pc = "save"]
    <2>0. cli' = [cli EXCEPT ![c] = p]
      BY <2>1
    <2>2. UNCHANGED <<file, session, daemon, pidFile>>
      BY <1>9 DEF CreateIdentity
    <2>3. /\ identity' \in [Identity -> {"none", "ok", "incompatible", "destroyed"}]
          /\ identity'[i] = "ok"
          /\ \A j \in Identity : /\ identity[j] \in Kept => identity'[j] \in Kept
                                 /\ identity[j] \in Refused => identity'[j] \in Refused
      BY <2>1, <1>0 DEF Refused, Kept
    <2>4. p \in Process /\ Knows(p) /\ Fits(p, identity')
      BY <2>3, <1>0, SessionAssumption DEF Process, Config, Knows, Fits, Pcs, Kept
    <2> HIDE DEF p
    <2> QED BY <2>0, <2>2, <2>3, <2>4, <1>0, SameDaemons, MoveInv
  <1>10. CASE SaveInit(c)
    <2>1. file' \in Config /\ file'.id = file'.key
          /\ UNCHANGED <<session, identity, daemon, pidFile>> /\ Goto(c, "spawn")
      BY <1>10, <1>0 DEF SaveInit, Process, Knows
    <2>2. Fits([cli[c] EXCEPT !.pc = "spawn"], identity)
      BY <1>10, <1>0 DEF Fits, Process, SaveInit
    <2> QED BY <2>1, <2>2, SameDaemons, GotoInv DEF Pcs
  <1>11. CASE ApiFails(c) \/ CliKilled(c)
    BY <1>11, SameDaemons, ExitInv DEF ApiFails, CliKilled, Finished
  <1>12. CASE Signal(c)
    <2>1. UNCHANGED <<file, session, identity>> /\ pidFile' \in {pidFile, None}
          /\ cli[c].cmd # "init"
      BY <1>12, <1>0 DEF Signal, RemoveStale, Knows
    <2>2. CASE Running
      <3> DEFINE p == [cli[c] EXCEPT !.pid = pidFile, !.pc = "stopWait"]
                 st == IF daemon[pidFile] = "listening" THEN "stopping" ELSE daemon[pidFile]
      <3>1. /\ cli' = [cli EXCEPT ![c] = p] /\ daemon' = [daemon EXCEPT ![pidFile] = st]
            /\ pidFile \in Daemon
        BY <1>12, <2>2, <1>0 DEF Signal, Running, SessionInv, SessionTypeOK
      <3>2. p \in Process /\ Knows(p) /\ Fits(p, identity)
        BY <1>0, <2>1, <3>1, SessionAssumption DEF Process, Knows, Fits, Pcs
      <3>3. st \in DaemonStates \ {"listening"} /\ (st \in PortHeld => daemon[pidFile] \in PortHeld)
        BY <3>1 DEF SessionInv, SessionTypeOK, DaemonStates, PortHeld
      <3> HIDE DEF p, st
      <3> QED BY <2>1, <3>1, <3>2, <3>3, <1>0, DaemonMoves, MoveInv
    <2>3. CASE ~Running
      <3>1. UNCHANGED daemon /\ Continue(c, AfterStop(c)) /\ AfterStop(c) \in {"done", "spawn"}
        BY <1>12, <2>3 DEF Signal, AfterStop
      <3> QED BY <2>1, <3>1, SameDaemons, ContinueInv DEF Pcs, Finished
    <2> QED BY <2>2, <2>3
  <1>13. CASE StopWait(c)
    <2>1. UNCHANGED <<file, session, identity>> /\ pidFile' = None /\ cli[c].cmd # "init"
          /\ cli[c].pid \in Daemon /\ daemon' = [daemon EXCEPT ![cli[c].pid] = "dead"]
          /\ Continue(c, AfterStop(c)) /\ AfterStop(c) \in {"done", "spawn"}
      BY <1>13, <1>0 DEF StopWait, Knows, Process, AfterStop
    <2>2. "dead" \in DaemonStates \ {"listening"} /\ "dead" \notin PortHeld
      BY DEF DaemonStates, PortHeld
    <2> QED BY <2>1, <2>2, DaemonMoves, ContinueInv DEF Pcs, Finished
  <1>14. CASE Spawn(c)
    <2>1. PICK d \in Daemon :
             /\ daemon' = [daemon EXCEPT ![d] = "starting"]
             /\ cli' = [cli EXCEPT ![c].pid = d, ![c].pc = "health"]
      BY <1>14 DEF Spawn
    <2> DEFINE p == [cli[c] EXCEPT !.pid = d, !.pc = "health"]
    <2>2. UNCHANGED <<file, session, identity, pidFile>> /\ cli' = [cli EXCEPT ![c] = p]
          /\ cli[c].pc = "spawn"
      BY <2>1, <1>0, <1>14 DEF Spawn
    <2>3. p \in Process /\ Knows(p) /\ Fits(p, identity)
      BY <1>0, <2>2, SessionAssumption DEF Process, Knows, Fits, Pcs
    <2>4. "starting" \in DaemonStates \ {"listening"} /\ "starting" \notin PortHeld
      BY DEF DaemonStates, PortHeld
    <2> HIDE DEF p
    <2> QED BY <2>1, <2>2, <2>3, <2>4, <1>0, DaemonMoves, MoveInv
  <1>15. CASE Healthy(c)
    <2>1. UNCHANGED <<file, session, identity, daemon, pidFile>> /\ Continue(c, AfterStart(c))
          /\ AfterStart(c) \in {"done", "saveToken"}
      BY <1>15 DEF Healthy, AfterStart
    <2> QED BY <2>1, SameDaemons, ContinueInv DEF Pcs, Finished
  <1>16. CASE Unhealthy(c)
    <2> DEFINE st == IF daemon[cli[c].pid] \in {"starting", "loaded"} THEN "dead"
                     ELSE daemon[cli[c].pid]
               pc == IF cli[c].cmd = "start" THEN "failed" ELSE AfterStart(c)
    <2>1. UNCHANGED <<file, session, identity, pidFile>> /\ Continue(c, pc)
          /\ pc \in {"done", "saveToken", "failed"} /\ cli[c].pid \in Daemon
          /\ daemon' = [daemon EXCEPT ![cli[c].pid] = st] /\ ~PortTaken
      BY <1>16, <1>0 DEF Unhealthy, AfterStart, Knows, Process
    <2>2. st \in DaemonStates \ {"listening"}
      BY <2>1 DEF SessionInv, SessionTypeOK, DaemonStates, PortTaken, PortHeld
    <2> HIDE DEF st, pc
    <2> QED BY <2>1, <2>2, DaemonMoves, ContinueInv DEF Pcs, Finished
  <1> QED BY <1>1, <1>2, <1>3, <1>4, <1>5, <1>6, <1>7, <1>8, <1>9, <1>10, <1>11, <1>12, <1>13,
            <1>14, <1>15, <1>16 DEF CliStep

LEMMA DaemonStepInv ==
    ASSUME SessionInv, NEW d \in Daemon, DaemonStep(d) \/ DaemonKilled(d)
    PROVE  SessionInv'
  <1>1. UNCHANGED <<cli, file, identity, session>>
    BY DEF DaemonStep, DaemonKilled, DaemonLoad, DaemonListen, SaveDaemonPid, DaemonClose,
           DaemonExit
  <1>2. session' \in [Token -> {"none", "valid", "expired"}]
    BY <1>1 DEF SessionInv, SessionTypeOK
  <1>3. CASE SaveDaemonPid(d)
    <2>1. /\ daemon' \in [Daemon -> DaemonStates] /\ pidFile' \in Daemon \cup {None}
          /\ OnePort' /\ PidFileIsCurrent'
      BY <1>3 DEF SaveDaemonPid, SessionInv, SessionTypeOK, OnePort, PidFileIsCurrent, PortHeld,
                  DaemonStates
    <2> QED BY <1>1, <1>2, <2>1, NoMoveInv
  <1>4. CASE ~SaveDaemonPid(d)
    <2>1. PICK st \in {"loaded", "dead", "bound", "closed"} :
             /\ daemon' = [daemon EXCEPT ![d] = st] /\ pidFile' \in {pidFile, None}
             /\ st = "bound" => ~PortTaken
      BY <1>4 DEF DaemonStep, DaemonKilled, DaemonLoad, DaemonListen, DaemonClose, DaemonExit
    <2>2. st \in DaemonStates \ {"listening"} /\ (st \in PortHeld => st = "bound")
      BY DEF DaemonStates, PortHeld
    <2> QED BY <1>1, <1>2, <2>1, <2>2, DaemonMoves, NoMoveInv
  <1> QED BY <1>3, <1>4

LEMMA SessionNextInv ==
    ASSUME SessionInv, SessionNext
    PROVE  SessionInv'
  <1>1. ASSUME NEW t \in Token, Expire(t) PROVE SessionInv'
    <2>1. UNCHANGED <<cli, file, identity, daemon, pidFile>>
          /\ session' \in [Token -> {"none", "valid", "expired"}]
      BY <1>1 DEF Expire, SessionInv, SessionTypeOK
    <2> QED BY <2>1, SameDaemons, NoMoveInv
  <1> QED BY <1>1, StartCommandInv, SessionStepInv, DaemonStepInv DEF SessionNext

LEMMA SessionInitInv == SessionInit => SessionInv
  BY SessionAssumption
     DEF SessionInit, SessionInv, SessionTypeOK, KeysMatch, OnePort, PidFileIsCurrent,
         InitKeepsUsable, InitReplacesConflict, NoProcess, NoConfig, Process, Config, Pcs,
         DaemonStates, PortHeld

-----------------------------------------------------------------------------
(* Payments and signatures.                                                 *)

WalletPcs == {"payInvoice", "retry", "sign", "signBatch"}

\* Neither the session nor a daemon moves a process to, or from one to another of,
\* the places where it pays or signs, nor ends a command that signs with success.
LEMMA SessionKeepsOut ==
    ASSUME SessionInv, SessionNext, NEW d \in Cli
    PROVE  /\ cli'[d].pc \in WalletPcs => cli'[d] = cli[d]
           /\ cli'[d].pc = "done" /\ cli'[d].cmd \in {"sign-psbt", "send"} => cli'[d] = cli[d]
  <1> DEFINE Out == /\ cli'[d].pc \in WalletPcs => cli'[d] = cli[d]
                    /\ cli'[d].pc = "done" /\ cli'[d].cmd \in {"sign-psbt", "send"}
                         => cli'[d] = cli[d]
  <1>0. cli \in [Cli -> Process]
    BY DEF SessionInv, SessionTypeOK
  <1>1. ASSUME NEW c \in Cli, NEW pc, Goto(c, pc), pc \notin WalletPcs \cup {"done"} PROVE Out
    BY <1>0, <1>1 DEF Goto, Process
  <1>2. ASSUME NEW c \in Cli, NEW pc, Exit(c, pc), pc \notin WalletPcs,
               pc = "done" => cli[c].cmd \notin {"sign-psbt", "send"}
        PROVE Out
    BY <1>0, <1>2 DEF Exit, NoProcess
  <1>3. ASSUME NEW c \in Cli, NEW pc, Continue(c, pc), pc \notin WalletPcs,
               pc = "done" => cli[c].cmd \notin {"sign-psbt", "send"}
        PROVE Out
    BY <1>1, <1>2, <1>3 DEF Continue, Finished
  <1>a. ASSUME NEW c \in Cli, NEW p, cli' = [cli EXCEPT ![c] = p], p.pc \notin WalletPcs,
               p.pc = "done" => p.cmd \notin {"sign-psbt", "send"}
        PROVE Out
    BY <1>0, <1>a
  <1>4. ASSUME NEW c \in Cli, NEW cmd \in Commands, StartCommand(c, cmd) PROVE Out
    <2> DEFINE pc == CASE cmd = "login" -> "verify"
                       [] cmd = "init" -> IF Active(file.token) THEN "identity" ELSE "verify"
                       [] cmd = "start" -> IF Running THEN "done" ELSE "spawn"
                       [] cmd = "stop" -> IF Running THEN "signal" ELSE "done"
                       [] OTHER -> IF ~Complete(file) THEN "failed"
                                   ELSE IF Active(file.token) THEN "run" ELSE "verify"
               p == [cmd |-> cmd, pc |-> pc, pid |-> None,
                     config |-> IF cmd \in {"start", "stop"} \/ pc \in Finished THEN NoConfig
                                ELSE file]
    <2>1. cli' = [cli EXCEPT ![c] = p]
      BY <1>4 DEF StartCommand
    <2>2. pc \notin WalletPcs /\ (pc = "done" => cmd \in {"start", "stop"})
      BY DEF WalletPcs, Commands, WalletCommands
    <2> QED BY <1>a, <2>1, <2>2
  <1>5. ASSUME NEW c \in Cli, CliStep(c) \/ CliKilled(c) PROVE Out
    <2>1. CASE Verified(c) \/ NotYetVerified(c)
      <3>1. PICK t :
               cli' = [cli EXCEPT ![c] = [cli[c] EXCEPT !.config.token = t, !.pc = AfterLogin(c)]]
        BY <2>1 DEF Verified, NotYetVerified
      <3>2. AfterLogin(c) \notin WalletPcs \cup {"done"}
        BY DEF AfterLogin, WalletPcs
      <3> QED BY <1>0, <1>a, <3>1, <3>2 DEF Process
    <2>2. CASE Recover(c)
      <3>1. CASE \E i \in Listed : cli' = [cli EXCEPT ![c].config.id = i, ![c].config.key = i,
                                                      ![c].pc = "restart"]
        <4>1. PICK i \in Listed : cli' = [cli EXCEPT ![c].config.id = i, ![c].config.key = i,
                                                     ![c].pc = "restart"]
          BY <3>1
        <4> DEFINE p == [cli[c] EXCEPT !.config.id = i, !.config.key = i, !.pc = "restart"]
        <4>2. cli' = [cli EXCEPT ![c] = p]
          BY <4>1
        <4>3. p.pc = "restart"
          BY <1>0 DEF Process
        <4> HIDE DEF p
        <4> QED BY <1>a, <4>2, <4>3 DEF WalletPcs
      <3>2. CASE Goto(c, "restart")
        BY <1>1, <3>2 DEF WalletPcs
      <3> QED BY <2>2, <3>1, <3>2 DEF Recover
    <2>3. CASE ChooseIdentity(c)
      <3>1. CASE Goto(c, "initRestore") \/ Goto(c, "create")
        BY <1>1, <3>1 DEF WalletPcs
      <3>2. CASE \E i \in Listed : cli' = [cli EXCEPT ![c].config.id = i, ![c].config.key = i,
                                                      ![c].pc = "initRestore"]
        <4>1. PICK i \in Listed : cli' = [cli EXCEPT ![c].config.id = i, ![c].config.key = i,
                                                     ![c].pc = "initRestore"]
          BY <3>2
        <4> DEFINE p == [cli[c] EXCEPT !.config.id = i, !.config.key = i, !.pc = "initRestore"]
        <4>2. cli' = [cli EXCEPT ![c] = p]
          BY <4>1
        <4>3. p.pc = "initRestore"
          BY <1>0 DEF Process
        <4> HIDE DEF p
        <4> QED BY <1>a, <4>2, <4>3 DEF WalletPcs
      <3> QED BY <2>3, <3>1, <3>2 DEF ChooseIdentity
    <2>4. CASE DestroyOld(c)
      <3> DEFINE p == [cli[c] EXCEPT !.config.id = None, !.config.key = None, !.pc = "create"]
      <3>1. cli' = [cli EXCEPT ![c] = p]
        BY <2>4 DEF DestroyOld
      <3>2. p.pc = "create"
        BY <1>0 DEF Process
      <3> HIDE DEF p
      <3> QED BY <1>a, <3>1, <3>2 DEF WalletPcs
    <2>5. CASE CreateIdentity(c)
      <3>1. PICK i \in Identity : cli' = [cli EXCEPT ![c].config.id = i, ![c].config.key = i,
                                                     ![c].pc = "save"]
        BY <2>5 DEF CreateIdentity
      <3> DEFINE p == [cli[c] EXCEPT !.config.id = i, !.config.key = i, !.pc = "save"]
      <3>2. cli' = [cli EXCEPT ![c] = p]
        BY <3>1
      <3>3. p.pc = "save"
        BY <1>0 DEF Process
      <3> HIDE DEF p
      <3> QED BY <1>a, <3>2, <3>3 DEF WalletPcs
    <2>6. CASE Spawn(c)
      <3>1. PICK d1 \in Daemon : cli' = [cli EXCEPT ![c].pid = d1, ![c].pc = "health"]
        BY <2>6 DEF Spawn
      <3> DEFINE p == [cli[c] EXCEPT !.pid = d1, !.pc = "health"]
      <3>2. cli' = [cli EXCEPT ![c] = p]
        BY <3>1
      <3>3. p.pc = "health"
        BY <1>0 DEF Process
      <3> HIDE DEF p
      <3> QED BY <1>a, <3>2, <3>3 DEF WalletPcs
    <2>7. CASE Restart(c)
      BY <1>3, <2>7 DEF Restart, WalletPcs
    <2>8. CASE SaveToken(c) \/ SaveInit(c)
      BY <1>1, <2>8 DEF SaveToken, SaveInit, WalletPcs
    <2>9. CASE RestoreOrReplace(c)
      BY <1>1, <2>9 DEF RestoreOrReplace, WalletPcs
    <2>10. CASE ApiFails(c) \/ CliKilled(c)
      BY <1>2, <2>10 DEF ApiFails, CliKilled, WalletPcs
    <2>11. CASE Signal(c)
      <3>1. CASE Running
        <4>1. cli' = [cli EXCEPT ![c] = [cmd |-> cli[c].cmd, pc |-> "stopWait", pid |-> pidFile,
                                         config |-> cli[c].config]]
          BY <1>0, <2>11, <3>1 DEF Signal, Process
        <4> QED BY <1>0, <4>1 DEF WalletPcs
      <3>2. CASE ~Running
        BY <1>3, <2>11, <3>2 DEF Signal, AfterStop, WalletPcs
      <3> QED BY <3>1, <3>2
    <2>12. CASE StopWait(c)
      BY <1>3, <2>12 DEF StopWait, AfterStop, WalletPcs
    <2>13. CASE Healthy(c)
      BY <1>3, <2>13 DEF Healthy, AfterStart, WalletPcs, WalletCommands
    <2>14. CASE Unhealthy(c)
      BY <1>3, <2>14 DEF Unhealthy, AfterStart, WalletPcs, WalletCommands
    <2> QED BY <1>5, <2>1, <2>2, <2>3, <2>4, <2>5, <2>6, <2>7, <2>8, <2>9, <2>10, <2>11, <2>12,
               <2>13, <2>14 DEF CliStep
  <1>6. ASSUME NEW e \in Daemon, DaemonStep(e) \/ DaemonKilled(e) PROVE Out
    BY <1>6 DEF DaemonStep, DaemonKilled, DaemonLoad, DaemonListen, SaveDaemonPid, DaemonClose,
                DaemonExit
  <1>7. ASSUME NEW t \in Token, Expire(t) PROVE Out
    BY <1>7 DEF Expire
  <1> QED BY <1>4, <1>5, <1>6, <1>7 DEF SessionNext

\* So such a step keeps what is said of payments and signatures.
LEMMA SessionKeepsWallet ==
    ASSUME WalletInv, SessionNext, UNCHANGED <<pay, psbt>>
    PROVE  WalletInv'
  <1>1. SessionInv'
    BY SessionNextInv DEF WalletInv
  <1>2. \A d \in Cli :
           /\ cli'[d].pc \in WalletPcs => cli'[d] = cli[d]
           /\ cli'[d].pc = "done" /\ cli'[d].cmd \in {"sign-psbt", "send"} => cli'[d] = cli[d]
    BY SessionKeepsOut DEF WalletInv
  <1>3. WalletTypeOK'
    BY <1>1, <1>2 DEF WalletInv, WalletTypeOK, SessionInv, WalletPcs
  <1>4. PayFollowsOffer' /\ PaidIsTrue'
    BY <1>2 DEF WalletInv, PayFollowsOffer, PaidIsTrue, WalletPcs
  <1>5. SignaturesFollowTx' /\ SignaturesFit'
    BY <1>2 DEF WalletInv, SignaturesFollowTx, SignaturesFit, WalletPcs
  <1> QED BY <1>1, <1>3, <1>4, <1>5 DEF WalletInv

\* A step that pays or signs keeps SessionInv.
LEMMA WalletKeepsSession ==
    ASSUME SessionInv, NEW c \in Cli, WalletStep(c)
    PROVE  SessionInv'
  <1>1. UNCHANGED <<file, session, identity, daemon, pidFile>>
    BY DEF WalletStep, Request, PayInvoice, Retry, LoadPsbt, SignInput, ExtractDigests,
           SignBatch, SignFails
  <1>2. UNCHANGED cli \/ \E pc \in WalletPcs \cup Finished : Continue(c, pc)
    BY DEF WalletStep, Request, PayInvoice, Retry, LoadPsbt, SignInput, ExtractDigests,
           SignBatch, SignFails, Continue, WalletPcs, Finished
  <1>3. CASE UNCHANGED cli
    BY <1>1, <1>3, SameDaemons, NoMoveInv DEF SessionInv, SessionTypeOK
  <1>4. CASE \E pc \in WalletPcs \cup Finished : Continue(c, pc)
    BY <1>1, <1>4, SameDaemons, ContinueInv DEF WalletPcs, Finished, Pcs
  <1> QED BY <1>2, <1>3, <1>4

\* Goto and Exit move only c.
LEMMA OthersUntouched ==
    ASSUME WalletInv, NEW c \in Cli, NEW pc \in Pcs, Goto(c, pc) \/ Exit(c, pc)
    PROVE  /\ cli'[c].pc = pc /\ cli'[c].cmd = cli[c].cmd
           /\ \A d \in Cli \ {c} : cli'[d] = cli[d]
  BY DEF WalletInv, SessionInv, SessionTypeOK, Process, Goto, Exit, NoProcess

LEMMA PayKept ==
    ASSUME WalletInv, NEW c \in Cli, WalletStep(c), UNCHANGED pay,
           cli'[c].pc \notin {"payInvoice", "retry"}, \A d \in Cli \ {c} : cli'[d] = cli[d]
    PROVE  PayFollowsOffer' /\ PaidIsTrue'
  BY DEF WalletInv, PayFollowsOffer, PaidIsTrue

LEMMA PsbtKept ==
    ASSUME WalletInv, NEW c \in Cli, WalletStep(c), UNCHANGED psbt,
           cli'[c].pc \notin {"sign", "signBatch"}, 
           cli'[c].pc = "done" => cli'[c].cmd \notin {"sign-psbt", "send"},
           \A d \in Cli \ {c} : cli'[d] = cli[d]
    PROVE  SignaturesFollowTx' /\ SignaturesFit'
  BY DEF WalletInv, SignaturesFollowTx, SignaturesFit

\* Pay follows the offer, and what is said of signatures is not concerned.
LEMMA PayStepInv ==
    ASSUME WalletInv, NEW c \in Cli, Request(c) \/ PayInvoice(c) \/ Retry(c)
    PROVE  WalletInv'
  <1> DEFINE Record == [offer: Offers \cup {<<>>}, chosen: Nat, settled: BOOLEAN, proof: Nat]
             Good(p, q) ==
                /\ p.settled \/ q = "payInvoice" =>
                      /\ p.chosen \in DOMAIN p.offer /\ Acceptable(p.offer[p.chosen])
                      /\ \A j \in DOMAIN p.offer : Acceptable(p.offer[j]) => p.chosen <= j
                /\ q = "payInvoice" => p.proof = 0
                /\ q = "retry" => p.settled
                /\ p.proof # 0 => p.settled /\ p.proof = p.chosen
  <1>0. WalletStep(c) /\ pay \in [Cli -> Record]
    BY DEF WalletStep, WalletInv, WalletTypeOK
  <1>1. SessionInv'
    BY <1>0, WalletKeepsSession DEF WalletInv
  <1>2. \E p \in Record, pc \in {"payInvoice", "retry", "done", "failed"} :
           /\ pay' = [pay EXCEPT ![c] = p]
           /\ Goto(c, pc) \/ Exit(c, pc)
           /\ Good(p, pc)
    <2>0. Good(pay[c], cli[c].pc) /\ pay[c] \in Record
      BY <1>0 DEF WalletInv, PayFollowsOffer, PaidIsTrue
    <2>1. CASE Request(c)
      <3>1. CASE UNCHANGED pay /\ (Exit(c, "done") \/ Exit(c, "failed"))
        <4>1. pay' = [pay EXCEPT ![c] = pay[c]]
          BY <1>0, <3>1
        <4> QED BY <2>0, <3>1, <4>1
      <3>2. CASE \E offer \in Offers :
             LET good == {k \in DOMAIN offer : Acceptable(offer[k])} IN
             \E first \in good :
                /\ \A k \in good : first <= k
                /\ offer[first].invoice
                /\ pay' = [pay EXCEPT ![c] = [NoPay EXCEPT !.offer = offer, !.chosen = first]]
                /\ Goto(c, "payInvoice")
        <4>a. PICK offer \in Offers : \E first \in DOMAIN offer :
                /\ Acceptable(offer[first])
                /\ \A k \in DOMAIN offer : Acceptable(offer[k]) => first <= k
                /\ pay' = [pay EXCEPT ![c] = [NoPay EXCEPT !.offer = offer, !.chosen = first]]
                /\ Goto(c, "payInvoice")
          BY <3>2
        <4>1. PICK first \in DOMAIN offer :
                /\ Acceptable(offer[first])
                /\ \A k \in DOMAIN offer : Acceptable(offer[k]) => first <= k
                /\ pay' = [pay EXCEPT ![c] = [NoPay EXCEPT !.offer = offer, !.chosen = first]]
                /\ Goto(c, "payInvoice")
          BY <4>a
        <4>2. first \in Nat
          <5>1. offer \in Seq(Challenges)
            BY WalletAssumption
          <5>2. DOMAIN offer = 1..Len(offer) /\ Len(offer) \in Nat
            BY <5>1
          <5> QED BY <5>2
        <4> DEFINE p == [NoPay EXCEPT !.offer = offer, !.chosen = first]
        <4>3. p.offer = offer /\ p.chosen = first /\ p.settled = FALSE /\ p.proof = 0
          BY DEF NoPay
        <4>4. p \in Record
          BY <4>2 DEF NoPay
        <4>5. Good(p, "payInvoice")
          BY <4>1, <4>3
        <4>6. pay' = [pay EXCEPT ![c] = p] /\ Goto(c, "payInvoice")
          BY <4>1
        <4> HIDE DEF p, Record, Good
        <4> QED BY <4>4, <4>5, <4>6
      <3> QED BY <2>1, <3>1, <3>2 DEF Request
    <2>2. CASE PayInvoice(c)
      <3>1. PICK paid \in BOOLEAN, pc \in {"retry", "failed"} :
               /\ pay' = [pay EXCEPT ![c].settled = paid] /\ (pc = "retry" => paid)
               /\ Goto(c, pc) \/ Exit(c, pc)
        BY <2>2 DEF PayInvoice
      <3> DEFINE p == [pay[c] EXCEPT !.settled = paid]
      <3>2. pay' = [pay EXCEPT ![c] = p] /\ p \in Record
        BY <3>1, <2>0
      <3>3. Good(p, pc)
        BY <2>0, <2>2, <3>1 DEF PayInvoice, At
      <3> QED BY <3>1, <3>2, <3>3
    <2>3. CASE Retry(c)
      <3>1. pay[c].settled
        BY <2>0, <2>3 DEF Retry, At
      <3>2. CASE pay' = [pay EXCEPT ![c].proof = pay[c].chosen] /\ Exit(c, "done")
        <4> DEFINE p == [pay[c] EXCEPT !.proof = pay[c].chosen]
        <4>1. pay' = [pay EXCEPT ![c] = p] /\ p \in Record
          BY <3>2, <2>0
        <4>2. Good(p, "done")
          BY <2>0, <3>1
        <4> QED BY <3>2, <4>1, <4>2
      <3>3. CASE Exit(c, "failed") /\ UNCHANGED pay
        <4>1. pay' = [pay EXCEPT ![c] = pay[c]]
          BY <1>0, <3>3
        <4> QED BY <2>0, <3>3, <4>1
      <3> QED BY <2>3, <3>2, <3>3 DEF Retry
    <2> QED BY <2>1, <2>2, <2>3
  <1>3. PICK p \in Record, pc \in {"payInvoice", "retry", "done", "failed"} :
           /\ pay' = [pay EXCEPT ![c] = p]
           /\ Goto(c, pc) \/ Exit(c, pc)
           /\ Good(p, pc)
    BY <1>2
  <1>4. cli'[c].pc = pc /\ cli'[c].cmd = cli[c].cmd /\ \A d \in Cli \ {c} : cli'[d] = cli[d]
    BY <1>3, OthersUntouched DEF Pcs, Finished
  <1>5. pay' \in [Cli -> Record] /\ \A d \in Cli : Good(pay'[d], cli'[d].pc)
    <2>1. \A d \in Cli : Good(pay[d], cli[d].pc)
      BY DEF WalletInv, PayFollowsOffer, PaidIsTrue
    <2> QED BY <1>0, <1>3, <1>4, <2>1
  <1>6. PayFollowsOffer' /\ PaidIsTrue'
    <2>1. PayFollowsOffer'
      BY <1>5 DEF PayFollowsOffer
    <2>2. ASSUME NEW d \in Cli, pay'[d].settled
          PROVE  /\ Acceptable(pay'[d].offer[pay'[d].chosen])
                 /\ \A j \in 1..(pay'[d].chosen - 1) : ~Acceptable(pay'[d].offer[j])
      <3>1. pay'[d] \in Record
        BY <1>5
      <3>2. pay'[d].chosen \in DOMAIN pay'[d].offer /\ pay'[d].offer \in Seq(Challenges)
        BY <3>1, <1>5, <2>2, WalletAssumption
      <3>3. \A j \in 1..(pay'[d].chosen - 1) : j \in DOMAIN pay'[d].offer
        BY <3>2, <1>5, <2>2
      <3> QED BY <3>1, <3>3, <1>5, <2>2
    <2>3. PaidIsTrue'
      BY <1>5, <2>2 DEF PaidIsTrue, Acceptable
    <2> QED BY <2>1, <2>3
  <1>7. UNCHANGED psbt
    BY DEF Request, PayInvoice, Retry
  <1>8. SignaturesFollowTx' /\ SignaturesFit'
    <2>1. cli[c].cmd = "pay"
      BY DEF Request, PayInvoice, Retry, At
    <2> QED BY <1>0, <1>3, <1>4, <1>7, <2>1, PsbtKept
  <1>9. WalletTypeOK'
    BY <1>1, <1>4, <1>5, <1>7 DEF WalletInv, WalletTypeOK, SessionInv
  <1> QED BY <1>1, <1>6, <1>8, <1>9 DEF WalletInv

\* What is signed follows the transaction, and payments are not concerned.
LEMMA SignStepInv ==
    ASSUME WalletInv, NEW c \in Cli,
           LoadPsbt(c) \/ SignInput(c) \/ ExtractDigests(c) \/ SignBatch(c) \/ SignFails(c)
    PROVE  WalletInv'
  <1> DEFINE Record == [tx: Psbts \cup {<<>>}, config: Config, todo: SUBSET Nat,
                        sigs: SUBSET (Nat \X Identity)]
             Follows(p, q, cmd) ==
                /\ p.config.id = p.config.key
                /\ p.todo \subseteq DOMAIN p.tx
                /\ \A i \in p.todo : p.tx[i].owner = p.config.key
                /\ cmd = "sign-psbt" /\ q = "sign" =>
                      {s[1] : s \in p.sigs} \cup p.todo = ScriptInputs(p.tx, p.config.key)
                /\ cmd = "send" /\ q = "signBatch" => p.todo = Digests(p.tx, p.config.key)
             Fit(p, q, cmd) ==
                /\ q = "done" /\ cmd = "sign-psbt" =>
                      {s[1] : s \in p.sigs} = ScriptInputs(p.tx, p.config.key)
                /\ q = "done" /\ cmd = "send" =>
                      {s[1] : s \in p.sigs} = Digests(p.tx, p.config.key)
                /\ \A s \in p.sigs : p.tx[s[1]].owner = s[2]
                /\ q = "sign" => p.config.id # None
             Good(p, q, cmd) == Follows(p, q, cmd) /\ Fit(p, q, cmd)
  <1>0. WalletStep(c) /\ psbt \in [Cli -> Record] /\ UNCHANGED <<file, pay>>
        /\ cli[c] \in Process /\ cli[c].config.id = cli[c].config.key
        /\ file \in Config /\ file.id = file.key
    BY DEF WalletStep, WalletInv, WalletTypeOK, SessionInv, SessionTypeOK, KeysMatch,
           LoadPsbt, SignInput, ExtractDigests, SignBatch, SignFails
  <1>1. SessionInv'
    BY <1>0, WalletKeepsSession DEF WalletInv
  <1>a. \A d \in Cli : Good(psbt[d], cli[d].pc, cli[d].cmd) /\ psbt[d] \in Record
    BY <1>0 DEF WalletInv, WalletTypeOK, SignaturesFollowTx, SignaturesFit
  <1>2. \E p \in Record, pc \in {"sign", "signBatch", "done", "failed"} :
           /\ psbt' = [psbt EXCEPT ![c] = p]
           /\ Goto(c, pc) \/ Exit(c, pc) \/ (UNCHANGED cli /\ pc = cli[c].pc)
           /\ Good(p, pc, cli[c].cmd)
    <2>1. CASE LoadPsbt(c)
      <3>1. CASE Exit(c, "failed") /\ UNCHANGED psbt
        <4>1. psbt' = [psbt EXCEPT ![c] = psbt[c]]
          BY <1>0, <3>1
        <4>2. Good(psbt[c], "failed", cli[c].cmd)
          BY <1>a
        <4> HIDE DEF Good, Record
        <4> QED BY <1>a, <3>1, <4>1, <4>2
      <3>2. CASE \E tx \in Psbts :
               /\ Complete(file)
               /\ psbt' = [psbt EXCEPT ![c] = [tx |-> tx, config |-> file,
                                               todo |-> ScriptInputs(tx, file.key), sigs |-> {}]]
               /\ Goto(c, "sign")
        <4>1. PICK tx \in Psbts :
               /\ Complete(file)
               /\ psbt' = [psbt EXCEPT ![c] = [tx |-> tx, config |-> file,
                                               todo |-> ScriptInputs(tx, file.key), sigs |-> {}]]
               /\ Goto(c, "sign")
          BY <3>2
        <4> DEFINE p == [tx |-> tx, config |-> file, todo |-> ScriptInputs(tx, file.key),
                         sigs |-> {}]
        <4>2. /\ ScriptInputs(tx, file.key) \subseteq DOMAIN tx /\ DOMAIN tx \subseteq Nat
              /\ \A i \in ScriptInputs(tx, file.key) : tx[i].owner = file.key
          BY WalletAssumption DEF ScriptInputs
        <4>3. p \in Record
          BY <4>2, <1>0
        <4>4. Follows(p, "sign", cli[c].cmd)
          BY <4>2, <1>0
        <4>5. Fit(p, "sign", cli[c].cmd)
          BY <4>1 DEF Complete
        <4>6. psbt' = [psbt EXCEPT ![c] = p] /\ Goto(c, "sign") /\ Good(p, "sign", cli[c].cmd)
          BY <4>1, <4>4, <4>5
        <4> HIDE DEF p, Record, Good
        <4> QED BY <4>3, <4>6
      <3> QED BY <2>1, <3>1, <3>2 DEF LoadPsbt
    <2>2. CASE SignInput(c)
      <3>1. PICK i \in psbt[c].todo :
               /\ psbt' = [psbt EXCEPT ![c].todo = @ \ {i},
                                       ![c].sigs = @ \cup {<<i, psbt[c].config.id>>}]
               /\ IF psbt[c].todo = {i} THEN Exit(c, "done") ELSE UNCHANGED cli
        BY <2>2 DEF SignInput
      <3> DEFINE p == [psbt[c] EXCEPT !.todo = psbt[c].todo \ {i},
                                      !.sigs = psbt[c].sigs \cup {<<i, psbt[c].config.id>>}]
                 pc == IF psbt[c].todo = {i} THEN "done" ELSE "sign"
      <3>2. psbt' = [psbt EXCEPT ![c] = p]
        BY <3>1
      <3>3. cli[c].cmd = "sign-psbt" /\ cli[c].pc = "sign" /\ psbt[c] \in Record
            /\ Good(psbt[c], "sign", "sign-psbt")
        BY <2>2, <1>a DEF SignInput, At
      <3>4. psbt[c].config.id \in Identity /\ i \in Nat
        BY <3>3 DEF Config
      <3>5. /\ p.tx = psbt[c].tx /\ p.config = psbt[c].config /\ p.todo = psbt[c].todo \ {i}
            /\ p.sigs = psbt[c].sigs \cup {<<i, psbt[c].config.id>>}
        BY <3>3
      <3>6. p \in Record
        <4>1. psbt[c].todo \ {i} \in SUBSET Nat
              /\ psbt[c].sigs \cup {<<i, psbt[c].config.id>>} \in SUBSET (Nat \X Identity)
          BY <3>3, <3>4
        <4> QED BY <3>3, <4>1
      <3>7. {s[1] : s \in p.sigs} = {s[1] : s \in psbt[c].sigs} \cup {i}
        <4> HIDE DEF p
        <4>1. p.sigs = psbt[c].sigs \cup {<<i, psbt[c].config.id>>}
          BY <3>5
        <4>2. <<i, psbt[c].config.id>>[1] = i
          OBVIOUS
        <4> QED BY <4>1, <4>2, Zenon
      <3>8. Follows(p, pc, "sign-psbt")
        BY <3>3, <3>5, <3>7
      <3>9. \A s \in p.sigs : p.tx[s[1]].owner = s[2]
        BY <3>3, <3>5
      <3>10. psbt[c].todo = {i} => {s[1] : s \in p.sigs} = ScriptInputs(p.tx, p.config.key)
        BY <3>3, <3>5, <3>7
      <3>11. Fit(p, pc, "sign-psbt")
        BY <3>4, <3>5, <3>9, <3>10, SessionAssumption
      <3>12. Good(p, pc, cli[c].cmd) /\ (Exit(c, pc) \/ (UNCHANGED cli /\ pc = cli[c].pc))
        BY <3>1, <3>3, <3>8, <3>11
      <3> HIDE DEF p, Record, Good
      <3> QED BY <3>2, <3>6, <3>12
    <2>3. CASE ExtractDigests(c)
      <3>1. PICK tx \in Psbts :
               psbt' = [psbt EXCEPT ![c] = [tx |-> tx, config |-> cli[c].config,
                                            todo |-> Digests(tx, cli[c].config.key), sigs |-> {}]]
        BY <2>3 DEF ExtractDigests
      <3> DEFINE p == [tx |-> tx, config |-> cli[c].config,
                       todo |-> Digests(tx, cli[c].config.key), sigs |-> {}]
      <3>2. /\ Digests(tx, cli[c].config.key) \subseteq DOMAIN tx /\ DOMAIN tx \subseteq Nat
            /\ \A i \in Digests(tx, cli[c].config.key) : tx[i].owner = cli[c].config.key
        BY WalletAssumption DEF Digests
      <3>3. p \in Record
        BY <3>2, <1>0 DEF Process
      <3>4. cli[c].cmd = "send"
        BY <2>3 DEF ExtractDigests, At
      <3>5. Follows(p, "signBatch", cli[c].cmd) /\ Fit(p, "signBatch", cli[c].cmd)
        BY <3>2, <3>4, <1>0
      <3>6. psbt' = [psbt EXCEPT ![c] = p] /\ Goto(c, "signBatch")
        BY <2>3, <3>1 DEF ExtractDigests
      <3>7. Good(p, "signBatch", cli[c].cmd)
        BY <3>5
      <3> HIDE DEF p, Record, Good
      <3> QED BY <3>3, <3>6, <3>7
    <2>4. CASE SignBatch(c)
      <3> DEFINE p == [psbt[c] EXCEPT !.todo = {},
                                      !.sigs = {<<i, psbt[c].config.id>> : i \in psbt[c].todo}]
      <3>1. psbt' = [psbt EXCEPT ![c] = p] /\ Exit(c, "done")
        BY <2>4 DEF SignBatch
      <3>2. cli[c].cmd = "send" /\ cli[c].pc = "signBatch" /\ psbt[c] \in Record
            /\ Good(psbt[c], "signBatch", "send")
        BY <2>4, <1>a DEF SignBatch, At
      <3>3. psbt[c].todo = {} \/ psbt[c].config.id \in Identity
        BY <2>4, <3>2 DEF SignBatch, MaySign, Config
      <3>4. /\ p.tx = psbt[c].tx /\ p.config = psbt[c].config /\ p.todo = {}
            /\ p.sigs = {<<i, psbt[c].config.id>> : i \in psbt[c].todo}
        BY <3>2
      <3>5. p.sigs \in SUBSET (Nat \X Identity)
        BY <3>2, <3>3, <3>4
      <3>6. p \in Record
        BY <3>2, <3>5
      <3>7. {s[1] : s \in p.sigs} = psbt[c].todo
        <4> HIDE DEF p
        <4>1. p.sigs = {<<i, psbt[c].config.id>> : i \in psbt[c].todo}
          BY <3>4
        <4>2. \A i : <<i, psbt[c].config.id>>[1] = i
          OBVIOUS
        <4>3. \A x : x \in {s[1] : s \in p.sigs} => x \in psbt[c].todo
          BY <4>1, <4>2, Zenon
        <4>4. \A x \in psbt[c].todo : x \in {s[1] : s \in p.sigs}
          BY <4>1, <4>2, Zenon
        <4> QED BY <4>3, <4>4, Zenon
      <3>8. \A s \in p.sigs : p.tx[s[1]].owner = s[2]
        BY <3>2, <3>4
      <3>9. Follows(p, "done", "send")
        BY <3>2, <3>4
      <3>10. Fit(p, "done", "send")
        BY <3>2, <3>4, <3>7, <3>8
      <3>11. Good(p, "done", cli[c].cmd)
        BY <3>2, <3>9, <3>10
      <3> HIDE DEF p, Record, Good
      <3> QED BY <3>1, <3>6, <3>11
    <2>5. CASE SignFails(c)
      <3>1. Exit(c, "failed") /\ psbt' = [psbt EXCEPT ![c] = psbt[c]]
        BY <2>5, <1>0 DEF SignFails
      <3>2. Good(psbt[c], "failed", cli[c].cmd)
        BY <1>a
      <3> HIDE DEF Good, Record
      <3> QED BY <1>a, <3>1, <3>2
    <2> QED BY <2>1, <2>2, <2>3, <2>4, <2>5
  <1>3. PICK p \in Record, pc \in {"sign", "signBatch", "done", "failed"} :
           /\ psbt' = [psbt EXCEPT ![c] = p]
           /\ Goto(c, pc) \/ Exit(c, pc) \/ (UNCHANGED cli /\ pc = cli[c].pc)
           /\ Good(p, pc, cli[c].cmd)
    BY <1>2
  <1>4. cli'[c].pc = pc /\ cli'[c].cmd = cli[c].cmd /\ \A d \in Cli \ {c} : cli'[d] = cli[d]
    BY <1>3, OthersUntouched DEF Pcs, Finished
  <1>5. psbt' \in [Cli -> Record] /\ \A d \in Cli : Good(psbt'[d], cli'[d].pc, cli'[d].cmd)
    <2>1. psbt' \in [Cli -> Record] /\ psbt'[c] = p /\ \A d \in Cli \ {c} : psbt'[d] = psbt[d]
      BY <1>0, <1>3
    <2> HIDE DEF Good, Record
    <2> QED BY <1>a, <1>3, <1>4, <2>1
  <1>6. SignaturesFollowTx' /\ SignaturesFit'
    BY <1>5 DEF SignaturesFollowTx, SignaturesFit
  <1>7. PayFollowsOffer' /\ PaidIsTrue'
    BY <1>0, <1>4, PayKept
  <1>8. WalletTypeOK'
    BY <1>0, <1>1, <1>5 DEF WalletInv, WalletTypeOK, SessionInv
  <1> QED BY <1>1, <1>6, <1>7, <1>8 DEF WalletInv

LEMMA WalletInitInv == WalletInit => WalletInv
  <1> SUFFICES ASSUME WalletInit PROVE WalletInv
    OBVIOUS
  <1>1. SessionInv /\ cli = [c \in Cli |-> NoProcess]
    BY SessionInitInv DEF WalletInit, SessionInit
  <1>2. WalletTypeOK
    BY <1>1 DEF WalletInit, WalletTypeOK, SessionInv, NoPay, NoPsbt, NoProcess, NoConfig, Config
  <1>3. PayFollowsOffer /\ PaidIsTrue
    BY <1>1 DEF WalletInit, PayFollowsOffer, PaidIsTrue, NoPay, NoProcess
  <1>4. SignaturesFollowTx /\ SignaturesFit
    BY <1>1 DEF WalletInit, SignaturesFollowTx, SignaturesFit, NoPsbt, NoProcess, NoConfig
  <1> QED BY <1>1, <1>2, <1>3, <1>4 DEF WalletInv

\* The inductive invariant of the command line client: any number of processes and
\* daemons, killed at any time, keep config.json, the PID file, their payments and
\* their signatures in order.
THEOREM WalletInvariant == WalletSpec => []WalletInv
  <1>1. ASSUME WalletInv, [WalletNext]_vars PROVE WalletInv'
    <2>1. CASE UNCHANGED vars
      <3> USE <2>1 DEF vars, sessionVars
      <3>1. SessionInv'
        BY <1>1 DEF WalletInv, SessionInv, SessionTypeOK, KeysMatch, OnePort, PidFileIsCurrent,
                    PortHeld, InitKeepsUsable, InitReplacesConflict
      <3>2. WalletTypeOK'
        BY <1>1, <3>1 DEF WalletInv, WalletTypeOK, SessionInv
      <3>3. PayFollowsOffer' /\ PaidIsTrue'
        BY <1>1 DEF WalletInv, PayFollowsOffer, PaidIsTrue
      <3>4. SignaturesFollowTx' /\ SignaturesFit'
        BY <1>1 DEF WalletInv, SignaturesFollowTx, SignaturesFit
      <3> QED BY <3>1, <3>2, <3>3, <3>4 DEF WalletInv
    <2>2. CASE WalletNext
      BY <1>1, <2>2, SessionKeepsWallet, PayStepInv, SignStepInv DEF WalletNext, WalletStep
    <2> QED BY <1>1, <2>1, <2>2
  <1> QED BY WalletInitInv, <1>1, PTL DEF WalletSpec

\* Whatever is interleaved, all variables keep their types and a process that
\* waits for a daemon or replaces an identity knows which one.
THEOREM WalletTypeCorrect == WalletSpec => []WalletTypeOK
  BY WalletInvariant, PTL DEF WalletInv

\* Processes that load, change and write back config.json never pair an identity
\* with the key of another.
THEOREM KeysAlwaysMatch == WalletSpec => []KeysMatch
  BY WalletInvariant, PTL DEF WalletInv, SessionInv

\* No interleaving of starts, stops and restarts makes the PID file name another
\* process than the daemon that serves.
THEOREM PidFileAlwaysCurrent == WalletSpec => []PidFileIsCurrent
  BY WalletInvariant, PTL DEF WalletInv, SessionInv

\* However many inits overlap, what one saves is never an identity that the signer
\* has refused.
THEOREM ConflictAlwaysReplaced == WalletSpec => []InitReplacesConflict
  BY WalletInvariant, PTL DEF WalletInv, SessionInv

\* Only the calls that destroy and create an identity change what the API has, and
\* what is destroyed is what the signer has refused.
LEMMA SessionKeepsUsable ==
    ASSUME SessionInv, SessionNext, NEW i \in Identity, identity[i] = "ok"
    PROVE  identity'[i] = "ok"
  <1>0. identity \in [Identity -> {"none", "ok", "incompatible", "destroyed"}]
    BY DEF SessionInv, SessionTypeOK
  <1>1. ASSUME NEW c \in Cli, DestroyOld(c) PROVE identity'[i] = "ok"
    <2>1. cli[c].config.id # i
      BY <1>1 DEF DestroyOld, SessionInv, InitKeepsUsable
    <2> QED BY <1>0, <1>1, <2>1 DEF DestroyOld
  <1>2. ASSUME NEW c \in Cli, CreateIdentity(c) PROVE identity'[i] = "ok"
    BY <1>0, <1>2 DEF CreateIdentity
  <1>3. ASSUME NEW c \in Cli, CliStep(c) \/ CliKilled(c), ~DestroyOld(c), ~CreateIdentity(c)
        PROVE  UNCHANGED identity
    BY <1>3 DEF CliStep, CliKilled, Verified, NotYetVerified, Recover, Restart, SaveToken,
                ChooseIdentity, RestoreOrReplace, SaveInit, ApiFails, Signal, StopWait, Spawn,
                Healthy, Unhealthy
  <1>4. ASSUME NEW c \in Cli, NEW cmd \in Commands, StartCommand(c, cmd)
        PROVE  UNCHANGED identity
    BY <1>4 DEF StartCommand
  <1>5. ASSUME NEW d \in Daemon, DaemonStep(d) \/ DaemonKilled(d)
        PROVE  UNCHANGED identity
    BY <1>5 DEF DaemonStep, DaemonKilled, DaemonLoad, DaemonListen, SaveDaemonPid, DaemonClose,
                DaemonExit
  <1>6. ASSUME NEW t \in Token, Expire(t) PROVE UNCHANGED identity
    BY <1>6 DEF Expire
  <1> QED BY <1>1, <1>2, <1>3, <1>4, <1>5, <1>6 DEF SessionNext

\* However commands overlap, die and lose answers, none of them destroys an
\* identity with a key that the signer can use.
THEOREM UsableAlwaysKept == WalletSpec => UsableIsKept
  <1> DEFINE Keeps == \A i \in Identity : identity[i] = "ok" => identity'[i] = "ok"
  <1>1. ASSUME WalletInv, [WalletNext]_vars PROVE [Keeps]_sessionVars
    <2>1. CASE UNCHANGED vars
      BY <2>1 DEF vars
    <2>2. ASSUME NEW c \in Cli, WalletStep(c) PROVE UNCHANGED identity
      BY <2>2 DEF WalletStep, Request, PayInvoice, Retry, LoadPsbt, SignInput, ExtractDigests,
                  SignBatch, SignFails
    <2>3. CASE SessionNext
      BY <1>1, <2>3, SessionKeepsUsable DEF WalletInv
    <2> QED BY <1>1, <2>1, <2>2, <2>3 DEF WalletNext
  <1> QED BY WalletInvariant, <1>1, PTL DEF WalletSpec, UsableIsKept

\* `cash pay` pays the first challenge it can and reports only payments it made.
THEOREM PaidIsAlwaysTrue == WalletSpec => []PaidIsTrue
  BY WalletInvariant, PTL DEF WalletInv

\* A transaction comes out signed for all that was to be signed, by its owner.
THEOREM SignaturesAlwaysFit == WalletSpec => []SignaturesFit
  BY WalletInvariant, PTL DEF WalletInv
=============================================================================
