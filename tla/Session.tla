------------------------------ MODULE Session ------------------------------
(***************************************************************************)
(* The command line client: config.json and the processes that load it,    *)
(* work on a copy and write all of it back (cli/config.ts, index.ts,       *)
(* commands/init.ts, login.ts), and the daemon that they start, stop and   *)
(* restart through a PID file and a port (cli/daemon.ts, index.ts).        *)
(*                                                                         *)
(* A CLI process runs one command.  What it does between two awaits is one *)
(* step; other CLI processes and daemons run in between, and any of them   *)
(* may be killed.  The API is external: it issues sessions, and creates,   *)
(* restores and destroys identities (modules Auth and Signer).             *)
(***************************************************************************)
EXTENDS Naturals, FiniteSets

CONSTANTS
    Cli,            \* CLI processes
    Daemon,         \* daemon processes (their pids)
    Token,          \* session tokens
    Identity,       \* identities; the public key of one stands for itself
    None

ASSUME SessionAssumption == None \notin Token \cup Identity \cup Daemon

VARIABLES
    file,           \* config.json
    session,        \* token -> whether it has been issued and is still valid
    identity,       \* identity -> what the API has of it
    daemon,         \* pid -> how far the daemon process is
    pidFile,        \* daemon.pid: a pid, or None
    cli             \* CLI process -> its command, where it waits, its copy of the config

sessionVars == <<file, session, identity, daemon, pidFile, cli>>

Config == [token: Token \cup {None}, id: Identity \cup {None}, key: Identity \cup {None}]

\* getSessionStatus(token).active
Active(token) == token # None /\ session[token] = "valid"

\* validateConfig finds nothing missing.
Complete(config) == config.token # None /\ config.id # None /\ config.key # None

HasIdentity(config) == config.id # None /\ config.key # None

WalletCommands == {"pay", "sign-psbt", "send"}
Commands == {"init", "login", "start", "stop"} \cup WalletCommands

DaemonStates == {"none", "starting", "loaded", "bound", "listening", "stopping", "closed",
                 "dead"}
NoConfig == [token |-> None, id |-> None, key |-> None]
NoProcess == [cmd |-> None, pc |-> "idle", pid |-> None, config |-> NoConfig]

\* The user may have logged in and made an identity before, under another mode of
\* the signer, and may have left a daemon running.
SessionInit ==
    /\ file \in {c \in Config : c.key = c.id /\ (c.id # None => c.token # None)}
    /\ session \in [Token -> {"none", "valid", "expired"}]
    /\ \A t \in Token : session[t] # "none" <=> file.token = t
    /\ identity \in [Identity -> {"none", "ok", "incompatible"}]
    /\ \A i \in Identity : identity[i] # "none" <=> file.id = i
    /\ cli = [c \in Cli |-> NoProcess]
    /\ \/ pidFile = None /\ daemon = [d \in Daemon |-> "none"]
       \/ \E d \in Daemon :
             /\ Complete(file)
             /\ pidFile = d
             /\ daemon = [x \in Daemon |-> IF x = d THEN "listening" ELSE "none"]

-----------------------------------------------------------------------------
Goto(c, pc) == cli' = [cli EXCEPT ![c].pc = pc]

\* outputSuccess, or outputError or a signal: the process exits.
Exit(c, result) ==
    cli' = [cli EXCEPT ![c] = [NoProcess EXCEPT !.cmd = cli[c].cmd, !.pc = result]]
Finished == {"done", "failed"}
Continue(c, pc) == IF pc \in Finished THEN Exit(c, pc) ELSE Goto(c, pc)

\* getDaemonStatus: the process that the PID file names, if it is alive; the PID
\* file of a dead one is removed.
Alive(d) == daemon[d] \notin {"none", "dead"}
Running == pidFile # None /\ Alive(pidFile)
RemoveStale == pidFile' = IF Running THEN pidFile ELSE None

PortHeld == {"bound", "listening", "stopping"}
PortTaken == \E d \in Daemon : daemon[d] \in PortHeld

\* A command starts: init, login and the wallet commands load the config first.
\* The wallet commands refuse an incomplete one and refresh an expired session.
StartCommand(c, cmd) ==
    /\ cli[c] = NoProcess
    /\ LET pc == CASE cmd = "login" -> "verify"
                   [] cmd = "init" -> IF Active(file.token) THEN "identity" ELSE "verify"
                   [] cmd = "start" -> IF Running THEN "done" ELSE "spawn"
                   [] cmd = "stop" -> IF Running THEN "signal" ELSE "done"
                   [] OTHER -> IF ~Complete(file) THEN "failed"
                               ELSE IF Active(file.token) THEN "run" ELSE "verify"
       IN cli' = [cli EXCEPT ![c] =
             [cmd |-> cmd, pc |-> pc, pid |-> None,
              config |-> IF cmd \in {"start", "stop"} \/ pc \in Finished THEN NoConfig ELSE file]]
    /\ IF cmd \in {"start", "stop"} THEN RemoveStale ELSE UNCHANGED pidFile
    /\ UNCHANGED <<file, session, identity, daemon>>

-----------------------------------------------------------------------------
(* A session: login, authenticate (init) and refreshSession (index.ts).     *)

\* Where the command goes on once it is authenticated.
AfterLogin(c) == IF cli[c].cmd = "init" THEN "identity"
                 ELSE IF cli[c].cmd = "login" /\ ~HasIdentity(cli[c].config) THEN "list"
                 ELSE "restart"

\* POST /v1/auth/challenge, then POST /v1/auth/verify until it answers 200: login
\* saves the token at once.  The identity is then restored; a failure is only a
\* warning.
Verified(c) ==
    /\ cli[c].pc = "verify"
    /\ \E t \in Token :
          /\ session[t] = "none"
          /\ session' = [session EXCEPT ![t] = "valid"]
          /\ cli' = [cli EXCEPT ![c].config.token = t, ![c].pc = AfterLogin(c)]
          /\ file' = IF cli[c].cmd = "login" THEN [cli[c].config EXCEPT !.token = t] ELSE file
    /\ UNCHANGED <<identity, daemon, pidFile>>

\* 202, not yet resolved: login and init poll again, but refreshSession takes any
\* 2xx for success and goes on with the token that the answer does not have.
NotYetVerified(c) ==
    /\ cli[c].pc = "verify"
    /\ cli[c].cmd \in WalletCommands
    /\ cli' = [cli EXCEPT ![c].config.token = None, ![c].pc = AfterLogin(c)]
    /\ UNCHANGED <<file, session, identity, daemon, pidFile>>

\* What the API lists: the identities that have not been destroyed.
Listed == {i \in Identity : identity[i] \in {"ok", "incompatible"}}

\* login without an identity in its config: the one listed first is saved (which
\* one is, is left open) and restored; no answer counts as none.
Recover(c) ==
    /\ cli[c].pc = "list"
    /\ \/ \E i \in Listed :
             /\ cli' = [cli EXCEPT ![c].config.id = i, ![c].config.key = i, ![c].pc = "restart"]
             /\ file' = [cli[c].config EXCEPT !.id = i, !.key = i]
       \/ Goto(c, "restart") /\ UNCHANGED file
    /\ UNCHANGED <<session, identity, daemon, pidFile>>

\* "Restart daemon if it was running (so it picks up the new token)".
Restart(c) ==
    /\ cli[c].pc = "restart"
    /\ Continue(c, IF Running THEN "signal"
                   ELSE IF cli[c].cmd = "login" THEN "done" ELSE "saveToken")
    /\ RemoveStale
    /\ UNCHANGED <<file, session, identity, daemon>>

\* main(): the wallet command saves the fresh token, after the restart.
SaveToken(c) ==
    /\ cli[c].pc = "saveToken"
    /\ file' = cli[c].config
    /\ Goto(c, "run")
    /\ UNCHANGED <<session, identity, daemon, pidFile>>

-----------------------------------------------------------------------------
(* handleInit.                                                              *)

\* Mutant of ChooseIdentity: the first identity listed is taken unseen.
ChooseFirst(c) ==
    /\ cli[c].pc = "identity"
    /\ IF HasIdentity(cli[c].config) THEN Goto(c, "initRestore")
       ELSE \E i \in IF Listed = {} THEN {None} ELSE Listed :
               cli' = [cli EXCEPT ![c].config.id = i, ![c].config.key = i,
                                  ![c].pc = "initRestore"]
    /\ UNCHANGED <<file, session, identity, daemon, pidFile>>

\* Without an identity in the config the API is asked for one.
ChooseIdentity(c) ==
    /\ cli[c].pc = "identity"
    /\ IF HasIdentity(cli[c].config) THEN Goto(c, "initRestore")
       ELSE IF Listed = {} THEN Goto(c, "create")
       ELSE \E i \in Listed :
               cli' = [cli EXCEPT ![c].config.id = i, ![c].config.key = i,
                                  ![c].pc = "initRestore"]
    /\ UNCHANGED <<file, session, identity, daemon, pidFile>>

\* Mutant of RestoreOrReplace: a conflict is taken for success.
RestoreAnything(c) ==
    /\ cli[c].pc = "initRestore"
    /\ identity[cli[c].config.id] # "none"
    /\ Goto(c, "save")
    /\ UNCHANGED <<file, session, identity, daemon, pidFile>>

\* Mutant of RestoreOrReplace: an error of the API is taken for a conflict.
RestoreOrDestroy(c) ==
    /\ cli[c].pc = "initRestore"
    /\ Goto(c, "save") \/ Goto(c, "destroy")
    /\ UNCHANGED <<file, session, identity, daemon, pidFile>>

\* restoreIdentity: the API answers 409 for a key in a format that the signer
\* cannot use, and 200 for every other identity that it has: for a destroyed one
\* too, whose row stays, unless a sealed key in the other format was left behind.
RestoreOrReplace(c) ==
    /\ cli[c].pc = "initRestore"
    /\ LET status == identity[cli[c].config.id] IN
       \/ status \in {"ok", "destroyed"} /\ Goto(c, "save")
       \/ status \in {"incompatible", "destroyed"} /\ Goto(c, "destroy")
    /\ UNCHANGED <<file, session, identity, daemon, pidFile>>

\* destroyIdentity is best effort; the config in memory forgets the identity.
DestroyOld(c) ==
    /\ cli[c].pc = "destroy"
    /\ \/ identity' = [identity EXCEPT ![cli[c].config.id] = "destroyed"]
       \/ UNCHANGED identity
    /\ cli' = [cli EXCEPT ![c].config.id = None, ![c].config.key = None, ![c].pc = "create"]
    /\ UNCHANGED <<file, session, daemon, pidFile>>

\* Mutant of CreateIdentity: the key of the new identity is not kept.
CreateIdentityNoKey(c) ==
    /\ cli[c].pc = "create"
    /\ \E i \in Identity :
          /\ identity[i] = "none"
          /\ identity' = [identity EXCEPT ![i] = "ok"]
          /\ cli' = [cli EXCEPT ![c].config.id = i, ![c].pc = "save"]
    /\ UNCHANGED <<file, session, daemon, pidFile>>

\* ClwApiClient.createIdentity
CreateIdentity(c) ==
    /\ cli[c].pc = "create"
    /\ \E i \in Identity :
          /\ identity[i] = "none"
          /\ identity' = [identity EXCEPT ![i] = "ok"]
          /\ cli' = [cli EXCEPT ![c].config.id = i, ![c].config.key = i, ![c].pc = "save"]
    /\ UNCHANGED <<file, session, daemon, pidFile>>

\* saveConfig, and then the daemon is started, whether one runs or not.
SaveInit(c) ==
    /\ cli[c].pc = "save"
    /\ file' = cli[c].config
    /\ Goto(c, "spawn")
    /\ UNCHANGED <<session, identity, daemon, pidFile>>

\* A call of the API fails, or the login times out: the command ends.  (When the
\* API refuses to restore, login and refreshSession only warn; without an answer
\* they end.)
ApiFails(c) ==
    /\ cli[c].pc \in {"verify", "restart", "identity", "initRestore", "create"}
    /\ Exit(c, "failed")
    /\ UNCHANGED <<file, session, identity, daemon, pidFile>>

-----------------------------------------------------------------------------
(* daemon.ts: stopDaemon and startDaemonInBackground.                       *)

AfterStop(c) == IF cli[c].cmd = "stop" THEN "done" ELSE "spawn"

\* getDaemonStatus again, and SIGTERM, which the daemon handles by shutting down.
Signal(c) ==
    /\ cli[c].pc = "signal"
    /\ IF Running
       THEN /\ cli' = [cli EXCEPT ![c].pid = pidFile, ![c].pc = "stopWait"]
            /\ daemon' = [daemon EXCEPT ![pidFile] = IF @ = "listening" THEN "stopping" ELSE @]
       ELSE /\ Continue(c, AfterStop(c))
            /\ UNCHANGED daemon
    /\ RemoveStale
    /\ UNCHANGED <<file, session, identity>>

\* The process has exited, or is killed after 5 s; then the PID file goes,
\* whichever process it names by now.
StopWait(c) ==
    /\ cli[c].pc = "stopWait"
    /\ daemon' = [daemon EXCEPT ![cli[c].pid] = "dead"]
    /\ pidFile' = None
    /\ Continue(c, AfterStop(c))
    /\ UNCHANGED <<file, session, identity>>

Spawn(c) ==
    /\ cli[c].pc = "spawn"
    /\ \E d \in Daemon :
          /\ daemon[d] = "none"
          /\ daemon' = [daemon EXCEPT ![d] = "starting"]
          /\ cli' = [cli EXCEPT ![c].pid = d, ![c].pc = "health"]
    /\ UNCHANGED <<file, session, identity, pidFile>>

AfterStart(c) == IF cli[c].cmd \in WalletCommands THEN "saveToken" ELSE "done"

\* GET /health: whichever daemon has the port answers.
Healthy(c) ==
    /\ cli[c].pc = "health"
    /\ PortTaken
    /\ Continue(c, AfterStart(c))
    /\ UNCHANGED <<file, session, identity, daemon, pidFile>>

\* 30 s without an answer: the child is told to stop, and only `cash start` fails.
Unhealthy(c) ==
    /\ cli[c].pc = "health"
    /\ ~PortTaken
    /\ daemon' = [daemon EXCEPT ![cli[c].pid] =
          IF @ \in {"starting", "loaded"} THEN "dead" ELSE @]
    /\ Continue(c, IF cli[c].cmd = "start" THEN "failed" ELSE AfterStart(c))
    /\ UNCHANGED <<file, session, identity, pidFile>>

-----------------------------------------------------------------------------
(* The daemon process: runDaemon.                                           *)

\* loadConfig and validateConfig.
DaemonLoad(d) ==
    /\ daemon[d] = "starting"
    /\ daemon' = [daemon EXCEPT ![d] = IF Complete(file) THEN "loaded" ELSE "dead"]
    /\ UNCHANGED <<file, session, identity, pidFile, cli>>

\* Mutant of DaemonListen: the PID is saved before the port is known to be free.
DaemonListenSaveFirst(d) ==
    /\ daemon[d] = "loaded"
    /\ daemon' = [daemon EXCEPT ![d] = IF PortTaken THEN "dead" ELSE "bound"]
    /\ pidFile' = d
    /\ UNCHANGED <<file, session, identity, cli>>

\* server.listen: the port is bound, or taken, which nothing handles.
DaemonListen(d) ==
    /\ daemon[d] = "loaded"
    /\ daemon' = [daemon EXCEPT ![d] = IF PortTaken THEN "dead" ELSE "bound"]
    /\ UNCHANGED <<file, session, identity, pidFile, cli>>

\* The callback of listen: saveDaemonPid.
SaveDaemonPid(d) ==
    /\ daemon[d] = "bound"
    /\ daemon' = [daemon EXCEPT ![d] = "listening"]
    /\ pidFile' = d
    /\ UNCHANGED <<file, session, identity, cli>>

\* shutdown(): the server closes; then the PID file goes and the process exits.
\* Other processes run between the two system calls.
DaemonClose(d) ==
    /\ daemon[d] = "stopping"
    /\ daemon' = [daemon EXCEPT ![d] = "closed"]
    /\ UNCHANGED <<file, session, identity, pidFile, cli>>

DaemonExit(d) ==
    /\ daemon[d] = "closed"
    /\ daemon' = [daemon EXCEPT ![d] = "dead"]
    /\ pidFile' = None
    /\ UNCHANGED <<file, session, identity, cli>>

\* Killed or crashed: the PID file stays.
DaemonKilled(d) ==
    /\ Alive(d)
    /\ daemon' = [daemon EXCEPT ![d] = "dead"]
    /\ UNCHANGED <<file, session, identity, pidFile, cli>>

-----------------------------------------------------------------------------
CliKilled(c) ==
    /\ cli[c].pc \notin Finished \cup {"idle"}
    /\ Exit(c, "failed")
    /\ UNCHANGED <<file, session, identity, daemon, pidFile>>

\* A session reaches the end of its life.
Expire(t) ==
    /\ session[t] = "valid"
    /\ session' = [session EXCEPT ![t] = "expired"]
    /\ UNCHANGED <<file, identity, daemon, pidFile, cli>>

CliStep(c) ==
    \/ Verified(c) \/ NotYetVerified(c) \/ Recover(c) \/ Restart(c)
    \/ SaveToken(c) \/ ChooseIdentity(c) \/ RestoreOrReplace(c)
    \/ DestroyOld(c) \/ CreateIdentity(c) \/ SaveInit(c) \/ ApiFails(c)
    \/ Signal(c) \/ StopWait(c) \/ Spawn(c) \/ Healthy(c) \/ Unhealthy(c)

DaemonStep(d) ==
    \/ DaemonLoad(d) \/ DaemonListen(d) \/ SaveDaemonPid(d) \/ DaemonClose(d) \/ DaemonExit(d)

SessionNext ==
    \/ \E c \in Cli, cmd \in Commands : StartCommand(c, cmd)
    \/ \E c \in Cli : CliStep(c) \/ CliKilled(c)
    \/ \E d \in Daemon : DaemonStep(d) \/ DaemonKilled(d)
    \/ \E t \in Token : Expire(t)

-----------------------------------------------------------------------------
Pcs == {"idle", "verify", "list", "restart", "saveToken", "identity", "initRestore",
        "destroy", "create", "save", "signal", "stopWait", "spawn", "health"}
       \cup {"run", "payInvoice", "retry", "sign", "signBatch"} \cup Finished
Process == [cmd: Commands \cup {None}, pc: Pcs, pid: Daemon \cup {None}, config: Config]

SessionTypeOK ==
    /\ file \in Config
    /\ session \in [Token -> {"none", "valid", "expired"}]
    /\ identity \in [Identity -> {"none", "ok", "incompatible", "destroyed"}]
    /\ daemon \in [Daemon -> DaemonStates]
    /\ pidFile \in Daemon \cup {None}
    /\ cli \in [Cli -> Process]
    /\ \A c \in Cli : /\ cli[c].pc \in {"stopWait", "health"} => cli[c].pid # None
                      /\ cli[c].pc \in {"initRestore", "destroy"} => cli[c].config.id # None

\* The identity and the public key in a config belong together, in config.json
\* and in every copy, although processes write whole configs over one another
\* and init replaces an identity in between: with the key of another identity the
\* wallet would derive addresses whose coins its signer cannot spend.
KeysMatch ==
    /\ file.id = file.key
    /\ \A c \in Cli : cli[c].config.id = cli[c].config.key

\* When a daemon serves and there is a PID file, the file names this daemon, so
\* that commands signal, stop and ask the one that has the port.
PidFileIsCurrent ==
    \A d \in Daemon : daemon[d] = "listening" /\ pidFile # None => pidFile = d

\* init never saves an identity whose key the signer refuses: it is replaced,
\* although other processes make, replace and save identities meanwhile.
InitReplacesConflict ==
    \A c \in Cli :
        cli[c].cmd = "init" /\ cli[c].pc \in {"save", "spawn", "health"}
            => cli[c].config.id # None /\ identity[cli[c].config.id] \in {"ok", "destroyed"}

\* No command destroys an identity that the signer can use: with its key the coins
\* it owns would be lost.  init decides to destroy one, and does so, in two calls.
UsableIsKept ==
    [][\A i \in Identity : identity[i] = "ok" => identity'[i] = "ok"]_sessionVars

\* An init that no other command overlaps leaves an identity in config.json that
\* the signer can use ("Creates a fresh worker-mode identity and saves config
\* immediately"), although an earlier one may have died or failed half-way.
InitLeavesUsable ==
    \A c \in Cli :
        /\ cli[c].cmd = "init" /\ cli[c].pc \in {"save", "spawn", "health"}
        /\ \A d \in Cli \ {c} : cli[d].pc \in Finished \cup {"idle"}
        => cli[c].config.id # None /\ identity[cli[c].config.id] = "ok"

(* What makes these invariants inductive.                                   *)

\* Only one daemon has the port.
OnePort == \A d, e \in Daemon : daemon[d] \in PortHeld /\ daemon[e] \in PortHeld => d = e

\* init neither lists, restarts nor stops as the other commands do, and comes to
\* destroy only an identity that the signer refused.
InitKeepsUsable ==
    \A c \in Cli :
        /\ cli[c].cmd = "init" => cli[c].pc \notin {"list", "restart", "signal", "stopWait"}
        /\ cli[c].pc = "destroy" => identity[cli[c].config.id] \in {"incompatible", "destroyed"}

SessionInv ==
    /\ SessionTypeOK /\ KeysMatch /\ OnePort /\ PidFileIsCurrent
    /\ InitKeepsUsable /\ InitReplacesConflict
=============================================================================
