# claw-cash in TLA+

TLA+ specifications of claw-cash, model-checked with TLC on small instances and
proved with TLAPS for all sizes. The reference is the code: every definition
that models code is listed in `PROJECT.json` (`map`) with the lines it stands for.

## The system

claw-cash keeps secp256k1 keys for users who log in with Telegram and signs with
them through an HTTP API; a CLI and its daemon build a Bitcoin wallet, stablecoin
swaps and payments on top. Its parts:

| part | state | operations | hard behaviour |
|---|---|---|---|
| **Enclave** `enclave/` | keys and nonce replay cache, in memory | generate, sign, destroy, export, import | awaits inside sign/export/import; restart loses everything; pruning at the second of expiry |
| **API: custody and signing** `api/src` | D1 tables identities, key_backups, audit_events; KV tickets | create, restore, sign-intent, sign, sign-batch, destroy | handlers interleave at every await, no transactions, failures between writes, retry after a 404 of the enclave |
| **API: login** `api/src` | D1 tables challenges, users | challenge, webhook, verify | check-then-act on users and challenges |
| **API: rate limiter** | KV counters | allow | get and put without transaction |
| **Daemon login monitor** `cli/src/authMonitor.ts` | one pending login, a timer, a running poll | watch, poll, stop | a poll at an await while a new login replaces the old one; timeouts, network errors |
| **Daemon swap monitor, webhooks** `cli/src/monitor.ts`, `notifier.ts` | a timer, a running poll, registered webhooks | claim and refund of swaps, events | acts on statuses read before an await, beside routes, commands and other processes |
| **Swaps** `skills/src/skills/lendaswap.ts` | a SQLite table of swaps | create, fund, claim, refund, look at, list | two-step funding, stale and reordered statuses, answers lost after they took effect |
| **CLI session, config, init** `cli/src` | one config file | login, refresh, init | several processes that write whole copies, no lock; migration of an identity |
| **Daemon lifecycle** `cli/src/daemon.ts` | PID file, port | start, stop, restart | two starts at once, stale PID, a stop that overlaps a start |
| **MPP client** `cli/src/mpp` | one payment | pay | payment made before the retry that may fail |
| **SDK, sign-psbt** | one transaction | sign | several requests for one transaction, a config that changes meanwhile |
| **Web page** `web/src` | one payment per tab | open, connect, fund, poll | stale status, reverted transactions, several tabs |
| **Wallet skills, schemas, scripts** | none of their own | | third-party state, pure data |

How they interact: the CLI, its daemon and the SDK call the API over HTTP; the
API calls the enclave over HTTP (enclave mode) or signs itself with a key it
unseals from key_backups (worker mode, `SIGNER_MODE`); the Telegram bot calls
the webhook of the API; the daemon polls the API and the swap service and calls
back webhooks; all CLI processes and daemons share one config file, one PID
file, one port and one table of swaps; a page pays the swap of a client it never
talks to.

What makes each part correct: a ticket is good for one signature; an active
identity can always be served, with its own key; a destroyed one loses its
backup; rows are final; a session is of the user who opened the link; a login is
answered exactly once; a paid swap can be found again and is settled; what
webhooks, lists and pages say of a swap is so; identity and key stay together
however commands overwrite each other's configuration; the PID file names the
daemon that serves; a transaction is signed by the owners of its inputs.

## Modules

| module | models | composes |
|---|---|---|
| `Enclave` | `enclave/src/index.ts`: one action per run of a handler to its next await | |
| `TicketLedger` | what the enclave promises about tickets (abstract) | implemented by `Enclave` (`ImplementsLedger`) |
| `IdentityCustody` | what the API promises the owner of an identity (abstract) | implemented by `Signer` (`ImplementsCustody`) |
| `LoginPromise` | what logging in promises (abstract) | implemented by `Auth` (`ImplementsLogin`) |
| `SwapOutcome` | what a swap is to its client (abstract) | implemented by `PayPage` (`ImplementsOutcome`) |
| `Signer` | the API's custody and signing routes over D1 and KV, in both modes | `Enclave` |
| `SignerInvariant` | the inductive invariant of `Signer` | `Signer` |
| `Auth` | challenge, webhook and verify over the tables challenges and users | |
| `AuthMonitor` | the daemon's login monitor | `Auth` |
| `Swaps` | the LendaSwap skill, the commands and routes for swaps, the swap monitor and webhooks | |
| `PayPage` | the web payment page, with the client that made its links; the properties of both | `Swaps` |
| `Session` | config.json, login, init and refresh as processes, and daemons with PID file and port | |
| `Wallet` | `cash pay`, `cash sign-psbt` and the signing of `cash send`, in such processes | `Session` |
| `MC*` | constants of the TLC runs | |
| `EnclaveProofs`, `SignerProofs`, `TicketProofs`, `CustodyProofs`, `AuthProofs`, `AuthMonitorProofs`, `SwapProofs`, `WalletProofs` | theorems | each the proofs it builds on |

### State and actions

*Enclave.* `keysByIdentityId` and `nonceReplayCache` are the two maps.
`call[c]` is the handler that serves caller `c`: where it awaits, what it has
read, or the response its caller has not read. `SignLookup` is the sign handler
up to `await jwtVerify`, `SignVerify` the rest; export and import are split at
sealing and unsealing; generate and destroy have no await. `Restart` empties the
maps and fails the handlers in flight. `uses` is a history variable that counts
the signatures per ticket since the last restart.

*Signer.* `row`, `backup`, `audit` and `kv` are the stores, `req[r]` the API's
side of request `r` (its handler and what it does next), `call[r]` the enclave's.
`Start...` admits a request; each further action is one store operation or one
call of the enclave, with the code up to the next await. The branches of the
handlers by mode are guards on `Mode`. `Crash` ends a request between two
awaits; `TicketStoreError` fails a KV write; `KvExpire` is the TTL of KV;
`EnclaveRestart` is a restart under running requests.

*Auth.* `verify[c]` is the verify handler that client `c` has called, at one of
its awaits or answered; `challenges` and `users` are the tables.
`resolveChallenge` is the UPDATE of the webhook with its conditions.
`VerifyFault` is a store that throws (500) or a lost connection.

*AuthMonitor.* `pending`, `timer` and `polling` are the fields of the class,
`poll` the run of `poll()` in progress: where it awaits and which login it
captured. `Watch` may run at any of these awaits. `watched`, `latest`,
`overtaken` and `replies` are history.

*Swaps.* `remote[s]` is LendaSwap's status of a swap (external: `ServiceStep`,
`Pay`, `Claimable`, `Refundable`), `stored[s]` the one in the SQLite table.
`proc[p]` is a request, or the monitor's poll (`monitor`): `host` says whether it
runs in the daemon, `pc` at which await it is, `seen` is an answer that is not
yet stored, `todo` the rest of the loop of `getPendingSwaps` and `found` what the
poll will act on, as it was when it was listed or looked at. `Get` and `Store`
are the two ends of `getSwap(..., updateStorage)`; `ClaimLost` is a claim that takes
effect without an answer. `DaemonEnds` takes the poll, the daemon's requests and
the webhooks with it; `CliEnds` kills a command. `events` is history.

*PayPage.* `page[g]` is what a tab shows and which swap it is about; `funding`
tells a swap that a client made from one the page creates itself, `mined` how the
funding transaction ended. The kinds of links are `OpenIdLink` and `OpenOldLink`.

*Session.* `file` is config.json as token, identity and public key; `cli[c]` a
command with its own copy. A step loads, or works on the copy, or writes all of
it back. `session` and `identity` are the API's side (external here, specified in
`Auth` and `Signer`). `daemon[d]` follows runDaemon from fork to exit: the port is
bound before the PID is saved in the callback of `listen`, and freed before the PID
file is removed. `Signal` and `StopWait` are `stopDaemon`, `Spawn`, `Healthy` and
`Unhealthy` `startDaemonInBackground`; `CliKilled` and `DaemonKilled` happen anywhere.

*Wallet.* `pay[c]` is the challenges a server offered, the one chosen, whether the
invoice is settled and the proof reported; `psbt[c]` a transaction, the config it
is signed with, the inputs left and the signatures. `LoadPsbt` loads the config
again, as the code does, and signs one input per request; `SignBatch` signs all in
one.

*The abstract specifications.* `IdentityCustody` has a vault (the backups), accounts
(the rows) and the signatures made; `Deposit`, `Open`, `Close` and `Erase` are
separate steps, because the API has no transaction, and a request that overlaps
`Close` may still sign. `LoginPromise` has who opened a link (the Telegram user in
the row of a challenge, `OpenerOf`), the accounts (users) and the sessions.
`SwapOutcome` has whether a swap is paid, how it ended (`OutcomeOf` LendaSwap's
status), and the ends of swaps that webhooks were told of; an event may only be
told in the step that ends the swap, or never. `TicketLedger` has the redeemed
tickets and the clock.

### What the models leave out

- Cryptography and encodings: a private key stands for its public key, a sealed
  key for its plaintext and format, a digest for its hash; tickets and sessions
  are their claims. The API mints only tickets with scope "sign", so the scope and
  HMAC checks pass.
- A request that is refused before it changes anything (no session, rate limit,
  malformed body) is not started.
- KV is strongly consistent in the model; Cloudflare's is eventually consistent
  across locations. `markTicketUsed` (a get and a put) is one step: a put that
  follows an expired get would only bring a used ticket back as used.
- The signer mode is fixed during a behaviour. The migration of
  `docs/runbook.md` appears as backups imported before the start.
- audit_events of logins; the message texts other than which of three is sent.
- In `AuthMonitor`: an error of the config file, other processes that write it,
  and the stop() when the daemon shuts down.
- In `Swaps`: amounts, quotes, pairs and the text of messages; `Host` has a
  command find the daemon whenever one runs (a daemon that has lost its PID file
  is in `Session`); LendaSwap behaves as `Edges` says, and an HTLC is funded once.
  The delivery of a webhook is not awaited, so an event counts when it is posted.
- In `PayPage`: wallets, chains and rendering; a call that fails shows an error.
- In `Session`: URLs, network and bot settings of the config, a file that cannot
  be read, and the daemon's login monitor (`AuthMonitor`). A write of the config is
  one step, as `writeFileSync` of a small file. The order in which the API lists
  identities is left open.
- In `Wallet`: amounts, header syntax, sighashes and the fees of a payment.
- The daemon's Lightning swap manager and VTXO delegation: objects of the SDKs.

## Runs

| run | configuration | shows |
|---|---|---|
| `enclave` | 2 identities, keys and digests, 1 ticket, 2 concurrent callers, clock 0..4 with TTL 2, 1 restart | one signature per ticket between restarts, no false replay, `Enclave` implements `TicketLedger` |
| `signer_worker` | worker mode: 1 identity, 2 requests, 2 tickets, batches of 2, crashes, fairness | custody and signing are consistent; a destroyed identity's backup goes unless a request died |
| `signer_enclave` | enclave mode: 2 users, 1 identity whose backup may have been imported, 2 keys, 1 ticket, 1 restart, crashes | the same, rows are final, at most one signature per ticket and restart, and `Signer` implements `IdentityCustody` |
| `ticket_replay` | worker mode, no faults | *violated*: two sign requests with one ticket both pass the check of `used_at` before either sets it |
| `auth` | 2 clients, challenges and Telegram users, 3 user ids, faults, clock 0..3 with TTL 2 | sessions name the row of the user who opened the link; `Auth` implements `LoginPromise` |
| `auth_monitor` | 2 logins, 2 Telegram users, faults, timeout 1 below TTL 2, clock 0..3, fairness | answered at most once, Connected means a session, nothing watched for ever, a login without overlap is answered |
| `watch_race` | 2 logins, no faults | *violated*: the stop() at the end of a poll drops a login watched during its last await |
| `swaps` | 1 swap, the monitor and 1 other request, 1 tab, 1 subscription to claims and refunds, 1 failing call, fairness | what webhooks, the list and the page say of a swap is so; a paid one is stored, and settled while the daemon runs; `PayPage` implements `SwapOutcome` |
| `expired_refund` | 1 swap, the monitor and 1 request, no tab, no faults, every request ends | *violated*: a swap whose expiry a status request has stored is never refunded by the monitor |
| `cli_session` | 2 commands, 3 daemons, 2 tokens, 2 identities, 4 lists of challenges, 3 transactions | configs, PID file, init, payments and signatures are consistent whatever overlaps or dies: init saves no identity the signer refuses and destroys none it can use |
| `init_forgotten` | the same constants | *violated*: an init that follows one that died has saved an identity that cannot sign |
| `session_refresh` | 1 command, otherwise the same | *violated*: an unresolved login is taken for a session, and the wallet command runs without a token |

The bounds. Two concurrent requests (callers, clients) are enough for each
check-then-act to be separated by another actor's write, since every race listed
in `hazards` is between two; the theorems remove the bound. One identity is
enough in `Signer` because stores, keys and tickets are per identity and nothing
in a handler relates two of them; the check of a ticket against the wrong
identity or digest is in the run `enclave` and in the proofs. What `ImplementsCustody` says of two
identities (that neither gets the other's key) is left to `CustodyProofs` by this
bound. TTLs are 1 or 2
ticks and clocks pass the expiry of every ticket or challenge. `MaxRestarts`,
`MaxTime`, `BatchSize`, `MaxSigned` and `MaxFaults` are the named bounds. Deadlock
is checked in `enclave` and `auth`. `Signer` may stop when all ids are used and
nobody sends a request; `AuthMonitor` stops when the bounded logins are answered,
`PayPage` when its swaps are settled, `Wallet` when its commands have ended.

One swap is enough in `swaps` because a row of the table, a status at LendaSwap and
an event are about one swap, and the loops over several swaps only interleave what
is done for each; the monitor, one request that may be of any kind, a tab, and the
service are then four actors at it. In `cli_session` two commands make every race
over the config, and three daemons one that serves, one that dies and one that
is started; each identity is owned, foreign or replaced in the transactions. The
commands, daemons and tokens of that run are interchangeable (SYMMETRY); nothing
in it is about liveness. The theorems hold for any number of all of these.

Fairness. `FairSignerSpec` is weakly fair to each admitted request: Node and
Workers run a handler whose promise has settled. Crashes, clients, KV expiry and
the clock are not forced. `MonitorFairness` has the clock advance, the interval
timer fire, and each await of a poll settle, by the API's handler or by a fault
(fetch ends with a response or throws). Nobody is forced to start a login or open
a link. `PayPageFairness` has the monitor's timer fire while the daemon runs, each
await of its poll settle, and LendaSwap go on with a swap it sees paid: the code
sets an interval and sets `polling` back in a `finally`, and its calls end or throw.
Commands, daemons, payers and redemptions by others are not forced. It takes for
granted that a fetch settles; the code sets no timeout of its own, so a call that
never does would hold up the monitor. `EndingSpec` adds that every request ends,
so that the counterexample of `expired_refund` is not one about a request that
hangs.

## Findings

1. `ticket_replay`: `api/src/index.ts:371` against `docs/threat-model.md:25`. In
   enclave mode the replay cache stops the second signature (`SignaturesPerTicket`).
2. `init_forgotten`: `cli/src/commands/init.ts:137` against `docs/runbook.md:308`
   ("Creates a fresh worker-mode identity and saves config immediately") and the
   comment in `init.ts:134` ("ensure it's registered on the API"). The trace: an
   init gets 409 for the identity in config.json, destroys it, and dies before it
   has created and saved another; the next init gets 200 for the destroyed
   identity, keeps it and ends well, and nothing can be signed with it.
3. `watch_race`: `cli/src/authMonitor.ts:140` against `cli/SKILL.md:110`. The
   trace: login A is polled and resolved; during an await of A's poll the user
   starts login B; the poll answers A and calls `stop()`, which clears B's timer.
4. `expired_refund`: `skills/src/skills/lendaswap.ts:335` against
   `cli/src/monitor.ts:94` ("Attempt refund for expired swaps"). The trace: a BTC
   swap is paid for and known as funded; it expires; `cash swap` or GET /status
   stores "expired", which is terminal, so `getPendingSwaps` never hands it to the
   monitor. The user has to run `cash refund`.
5. `session_refresh`: `cli/src/index.ts:240` against `cli/src/commands/login.ts:81`
   and `init.ts:36`. The 202 of a challenge nobody has opened is `ok`; refreshSession
   returns the token it does not contain, and the command saves and uses it.

## Proofs

Assumptions: the named ASSUMEs on the constants (`EnclaveAssumption`,
`SignerAssumption`, `AuthAssumption`, `MonitorAssumption`), which TLC evaluates
in the runs. Every safety theorem follows from an inductive invariant, with one
lemma per action.

- `EnclaveProofs`. `EnclaveInv` is inductive. `OneSignaturePerTicket` alone is
  not: it needs `CachedUntilExpired` (a ticket that has signed is in the cache or
  has expired, so pruning never forgets one that would still be accepted) and
  `CachedOnlyIfSigned`. `EnclaveRefinesLedger` shows that every step of the
  enclave is a step of the ledger or a stutter.
- `SignerProofs`. `SignerInv` adds to the types what a handler may rely on between
  two awaits: its pc fits its operation and mode (`RequestTyped`), the enclave's
  side of a call fits the API's (`CallMatches`), every copy of a key is the one
  generated for the identity (`KeysAgree`, `KeyHeld`), backups are written before
  rows and deleted after they are marked (`StoresOrdered`, `RequestOrdered`),
  redeemed tickets are marked (`TicketsMarked`, `TicketHeld`). The lemmas about
  steps that change one store, one request or one call are shared by the actions.
  From it: types, recoverable keys, verifying signatures, erased backups, refused
  replays, and that rows are final (an action property).
- `TicketProofs`. That the API gets one signature per ticket and restart is no
  invariant of the API alone: it depends on answers of the enclave that are still to
  be read. `TicketInv` has the enclave's cache invariant (proved again for the
  enclave as the API drives it, with its retries, restores and crashes) and, for
  every ticket, a count (`Counted`): the signatures read, plus the calls whose
  signature waits to be read (`Unread`, finite), are at most the uses since the last
  restart plus the restarts. A restart empties the uses and fails the waiting calls,
  so the sum holds with one restart more. With at most one use per run of the
  enclave (`OneSignaturePerTicket`) the count is `SignaturesPerTicket`.
- `CustodyProofs`. `SignerInv` says that every copy of a key is the one generated for
  its identity; `KeysOwned` adds that no two identities were given the same one. With
  both, each of the eight actions that write a table or record a signature
  (`StoreEffect`) is a step of `IdentityCustody`, in either mode, and every other
  action is none.
- `AuthProofs`. `AuthInv` adds `HandlersCurrent`: what a verify handler has read
  before an await is still so after it, because challenges are resolved once and
  user rows never change. `AuthRefinesLogin` maps every step to `LoginPromise`: the
  UPDATE of the webhook opens a link, the INSERT that wins enrolls, the end of
  verify grants; what the handler then holds is still so in the tables
  (`HandlerOpener`).
- `AuthMonitorProofs`. `MonitorInv` adds `PollMatches` (the daemon's side of a poll
  and the API's belong together) and `UnansweredWatched` (what is watched or
  polled has not been answered). `MonitorUsesAuth` shows that the daemon is a client
  the theorems of `AuthProofs` apply to.
- `SwapProofs`. `SwapInv` adds to the properties that only existing swaps are stored
  and none as completed before it is (`SwapKnown`); that a request is only at work
  on stored swaps and an answer it has yet to store was true when it came, which
  is enough because redeemed statuses never go back (`RequestKnows`); and that a
  page which goes on to pay knows a swap that payers fund (`PageKnows`). From it:
  no webhook is told a claim or refund that is not one, a swap shown as claimed is,
  a paid BTC swap is in the store, and "Sent!" is so, whatever number of requests,
  processes, tabs, crashes and lost answers. `SwapsRefineOutcome` needs one thing
  more, that a swap nobody has paid for is only pending or expired
  (`UnpaidIsPending`, proved as a theorem of its own): then each step that redeems or
  refunds ends a paid, open swap, and tells nobody the other end (`SwapEffect`).
- `WalletProofs`. `WalletInv` contains `SessionInv`, which adds that one daemon has
  the port (`OnePort`, from which the PID file is current) and that init comes to
  destroy only what the signer refused (`InitKeepsUsable`); for payments, that the
  challenge about to be paid is the one to pay (`PayFollowsOffer`); for signatures,
  that what is signed and what is left make up what the command set out to sign,
  all with one config (`SignaturesFollowTx`). From the same invariant
  follow that init never saves an identity that the signer refuses
  (`ConflictAlwaysReplaced`) and the action property that no step of any process
  destroys one that it can use (`UsableAlwaysKept`), although init lists, restores and destroys in calls between
  which other commands act.

Only model-checked: the liveness properties `DestroyedBackupGoes`, `WatchEnds`,
`LoneLoginAnswered` and `PaidIsSettled`, since liveness under fairness is out of the
reach of this prover. Every safety property of a passing run has a theorem.

## Plan

Done: all modules above with their proofs. What could follow, by importance:

1. The daemon's login monitor as one of the processes of `Session`, so that its
   writes of the config and the commands' meet in one model.
2. An abstract specification of the wallet's processes (one daemon at a time, one
   identity with its key) that `Session` is shown to implement, and one of a payment
   that `Wallet` is.

## Not modelled

- The rate limiter: it promises an approximate limit, and how far concurrent
  requests exceed it is their number. Whether it refuses is left open elsewhere.
- The wallet skills (`arkadeBitcoin.ts`, `lightning.ts`): they forward to the
  Arkade and Boltz SDKs, whose state is not in this repository; `waitForIncomingFunds`
  races a timeout with a subscription of the SDK. Their effects are external steps
  of `Swaps` and `Wallet`.
- Encodings, sighashes, schemas and units: pure data, covered by unit tests.
- Deployment scripts, interface descriptions and static pages: no run-time state.
