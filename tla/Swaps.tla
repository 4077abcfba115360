------------------------------- MODULE Swaps -------------------------------
(***************************************************************************)
(* Stablecoin swaps: the LendaSwap skill (skills/lendaswap.ts), the swap   *)
(* monitor of the daemon (cli/monitor.ts), the webhooks it tells           *)
(* (cli/notifier.ts), and the commands and HTTP routes that start, look    *)
(* at, claim and refund a swap.  They share one SQLite table of swaps and  *)
(* know a swap only through the LendaSwap service, which is external.      *)
(*                                                                         *)
(* A request runs in the daemon when there is one and in the CLI process   *)
(* otherwise; its awaits are steps of their own, so that requests, the     *)
(* monitor and the service interleave.                                     *)
(***************************************************************************)
EXTENDS Naturals, FiniteSets

CONSTANTS
    Swap,           \* swap ids
    Proc,           \* concurrent requests, and the monitor's poll
    monitor,        \* the process that is the poll of the SwapMonitor
    Subscription,   \* the sets of event types that webhooks register for
    MaxFaults,      \* bound: how many calls fail
    None

EventTypes == {"swap.claimed", "swap.refunded", "swap.failed"}
Statuses == {"pending", "clientfundingseen", "clientfunded", "serverfunded",
             "clientredeeming", "clientredeemed", "serverredeemed", "expired",
             "clientfundedtoolate", "clientrefunded", "clientfundedserverrefunded",
             "clientrefundedserverfunded", "clientrefundedserverrefunded",
             "clientredeemedandclientrefunded", "clientinvalidfunded"}

ASSUME SwapAssumption ==
    /\ monitor \in Proc
    /\ Subscription \subseteq SUBSET EventTypes
    /\ MaxFaults \in Nat
    /\ None \notin Swap \cup Statuses

VARIABLES
    remote,         \* swap -> the status LendaSwap has of it, None before it exists
    direction,      \* swap -> which side the client funds
    paid,           \* swap -> the client's HTLC is funded on chain
    stored,         \* swap -> the status in the SQLite store, None when not there
    up,             \* whether the daemon runs
    webhooks,       \* WebhookRegistry: what is registered for
    events,         \* history: <<swap, event>> posted to a webhook
    proc,           \* process -> the request it runs
    faults          \* how many calls have failed

swapVars == <<remote, direction, paid, stored, up, webhooks, events, proc, faults>>

Redeemed == {"clientredeeming", "clientredeemed", "serverredeemed"}
ClientRefunded == {"clientrefunded", "clientrefundedserverrefunded"}
Directions == {"btc_to_stablecoin", "stablecoin_to_btc"}

\* Mutant of mapSwapStatus: a swap the server has funded counts as completed.
mapSwapStatusEarly(status) ==
    CASE status \in {"clientfundingseen", "clientfunded"} -> "funded"
      [] status \in {"serverfunded", "clientredeeming", "clientredeemed", "serverredeemed",
                     "clientredeemedandclientrefunded"} -> "completed"
      [] status \in {"expired", "clientfundedtoolate"} -> "expired"
      [] status \in {"clientrefunded", "clientfundedserverrefunded",
                     "clientrefundedserverfunded", "clientrefundedserverrefunded"} -> "refunded"
      [] status = "clientinvalidfunded" -> "failed"
      [] OTHER -> "pending"

mapSwapStatus(status) ==
    CASE status \in {"clientfundingseen", "clientfunded"} -> "funded"
      [] status \in {"serverfunded", "clientredeeming"} -> "processing"
      [] status \in {"clientredeemed", "serverredeemed", "clientredeemedandclientrefunded"}
            -> "completed"
      [] status \in {"expired", "clientfundedtoolate"} -> "expired"
      [] status \in {"clientrefunded", "clientfundedserverrefunded",
                     "clientrefundedserverfunded", "clientrefundedserverrefunded"} -> "refunded"
      [] status = "clientinvalidfunded" -> "failed"
      [] OTHER -> "pending"

\* Mutant of isTerminalStatus: nothing is pending once it is processing.
isTerminalStatusEarly(status) ==
    status \in {"processing", "completed", "expired", "refunded", "failed"}

isTerminalStatus(status) == status \in {"completed", "expired", "refunded", "failed"}

\* The category under which `cash swaps` and GET /swaps show a stored swap.
Category(s) ==
    CASE stored[s] = None -> "none"
      [] mapSwapStatus(stored[s]) = "completed" -> "claimed"
      [] mapSwapStatus(stored[s]) \in {"expired", "refunded", "failed"} -> mapSwapStatus(stored[s])
      [] OTHER -> "pending"

Idle == [op |-> "idle", host |-> "cli", pc |-> "idle", swap |-> None, seen |-> None,
         todo |-> {}, found |-> [s \in Swap |-> None]]

SwapsInit ==
    /\ remote = [s \in Swap |-> None]
    /\ direction \in [Swap -> Directions]
    /\ paid = [s \in Swap |-> FALSE]
    /\ stored = [s \in Swap |-> None]
    /\ up = FALSE
    /\ webhooks = {}
    /\ events = {}
    /\ proc = [p \in Proc |-> Idle]
    /\ faults = 0

-----------------------------------------------------------------------------
(* The service and the chains: what happens to a swap without this client. *)

\* LendaSwap sees the client's payment, funds its own side, and takes the client's
\* money once the client has redeemed or its own back; without progress a swap
\* expires.
Edges(s) ==
    IF paid[s]
    THEN {<<"pending", "clientfundingseen">>, <<"pending", "clientinvalidfunded">>,
          <<"clientfundingseen", "clientfunded">>, <<"clientfunded", "serverfunded">>,
          <<"clientfunded", "expired">>, <<"serverfunded", "clientfundedserverrefunded">>,
          <<"clientredeeming", "clientredeemed">>, <<"clientredeemed", "serverredeemed">>}
    ELSE {<<"pending", "expired">>}

ServiceStep(s) ==
    /\ \E e \in Edges(s) :
          /\ remote[s] = e[1]
          /\ remote' = [remote EXCEPT ![s] = e[2]]
    /\ UNCHANGED <<direction, paid, stored, up, webhooks, events, proc, faults>>

\* The client's HTLC is funded on chain, after the expiry too late.
Pay(s) ==
    /\ paid' = [paid EXCEPT ![s] = TRUE]
    /\ remote' = [remote EXCEPT ![s] = IF @ = "expired" THEN "clientfundedtoolate" ELSE @]

Claimable(s) == remote[s] = "serverfunded"

Refundable(s) ==
    paid[s] /\ remote[s] \in {"expired", "clientfundedtoolate", "clientinvalidfunded",
                              "clientfundedserverrefunded"}

Refunded(s) == IF remote[s] = "clientfundedserverrefunded"
               THEN "clientrefundedserverrefunded" ELSE "clientrefunded"

\* The user broadcasts the EVM refund transaction that `cash refund` returned.
UserRefunds(s) ==
    /\ direction[s] = "stablecoin_to_btc"
    /\ Refundable(s)
    /\ remote' = [remote EXCEPT ![s] = Refunded(s)]
    /\ UNCHANGED <<direction, paid, stored, up, webhooks, events, proc, faults>>

-----------------------------------------------------------------------------
Goto(p, pc) == proc' = [proc EXCEPT ![p].pc = pc]
End(p) == proc' = [proc EXCEPT ![p] = Idle]
Fault == faults < MaxFaults /\ faults' = faults + 1

\* emit and WebhookRegistry.dispatch: whoever registered for the event is told.
emit(s, event) ==
    events' = IF \E h \in webhooks : event \in h THEN events \cup {<<s, event>>} ELSE events

Begin(p, op, pc, s, host) ==
    proc' = [proc EXCEPT ![p] = [Idle EXCEPT !.op = op, !.host = host, !.pc = pc, !.swap = s]]

\* A command runs in the daemon if there is one (getDaemonUrl), else by itself.
Host == IF up THEN "daemon" ELSE "cli"

StartRequest(p, op, pc, s, host) ==
    /\ p # monitor
    /\ proc[p] = Idle
    /\ Begin(p, op, pc, s, host)
    /\ UNCHANGED <<remote, direction, paid, stored, up, webhooks, events, faults>>

\* `cash send`, POST /send of a stablecoin.
StartSend(p, s) ==
    /\ remote[s] = None
    /\ direction[s] = "btc_to_stablecoin"
    /\ StartRequest(p, "send", "create", s, Host)

\* `cash receive` of a stablecoin, which makes its swap itself even when there is
\* a daemon, and POST /receive.
StartReceive(p, s) ==
    /\ remote[s] = None
    /\ direction[s] = "stablecoin_to_btc"
    /\ \E host \in {"cli", Host} : StartRequest(p, "receive", "create", s, host)

\* `cash swap <id>`, GET /swaps/:id.
StartStatus(p, s) == stored[s] # None /\ StartRequest(p, "status", "get", s, Host)

\* `cash claim <id>`, POST /swaps/:id/claim.
StartClaim(p, s) == stored[s] # None /\ StartRequest(p, "claim", "claim", s, Host)

\* `cash refund <id>`, POST /swaps/:id/refund.
StartRefund(p, s) == stored[s] # None /\ StartRequest(p, "refund", "get", s, Host)

\* `cash status`, which asks the daemon alone: GET /status.
StartList(p) == up /\ StartRequest(p, "list", "choose", None, "daemon")

\* The timer of the SwapMonitor, or start(); skipped while a poll is running.
Poll ==
    /\ up
    /\ proc[monitor] = Idle
    /\ Begin(monitor, "poll", "choose", None, "daemon")
    /\ UNCHANGED <<remote, direction, paid, stored, up, webhooks, events, faults>>

-----------------------------------------------------------------------------
(* Creating a swap. *)

\* Mutant of CreateBtcSwap: the swap is not in the store before it is funded.
CreateBtcSwapUnstored(p) ==
    LET s == proc[p].swap IN
    /\ proc[p].op = "send"
    /\ proc[p].pc = "create"
    /\ remote[s] = None
    /\ remote' = [remote EXCEPT ![s] = "pending"]
    /\ Goto(p, "fund")
    /\ UNCHANGED <<direction, paid, stored, up, webhooks, events, faults>>

\* swapBtcToStablecoin: createArkadeToEvmSwap stores the swap.
CreateBtcSwap(p) ==
    LET s == proc[p].swap IN
    /\ proc[p].op = "send"
    /\ proc[p].pc = "create"
    /\ remote[s] = None
    /\ remote' = [remote EXCEPT ![s] = "pending"]
    /\ stored' = [stored EXCEPT ![s] = "pending"]
    /\ Goto(p, "fund")
    /\ UNCHANGED <<direction, paid, up, webhooks, events, faults>>

\* swapStablecoinToBtc: createEvmToArkadeSwap stores the swap, which somebody
\* else will pay for.
CreateEvmSwap(p) ==
    LET s == proc[p].swap IN
    /\ proc[p].op = "receive"
    /\ proc[p].pc = "create"
    /\ remote[s] = None
    /\ remote' = [remote EXCEPT ![s] = "pending"]
    /\ stored' = [stored EXCEPT ![s] = "pending"]
    /\ End(p)
    /\ UNCHANGED <<direction, paid, up, webhooks, events, faults>>

\* swapBtcToStablecoin goes on: sendBitcoin funds the HTLC.
FundSwap(p) ==
    /\ proc[p].pc = "fund"
    /\ Pay(proc[p].swap)
    /\ End(p)
    /\ UNCHANGED <<direction, stored, up, webhooks, events, faults>>

\* The service or the wallet refuses, or cannot be reached.
CreateFails(p) ==
    /\ proc[p].pc \in {"create", "fund"}
    /\ End(p)
    /\ UNCHANGED <<remote, direction, paid, stored, up, webhooks, events, faults>>

-----------------------------------------------------------------------------
(* Looking at swaps: getSwapStatus, getPendingSwaps. *)

\* What is found of a swap, as far as the poll will act on it.
Found(status) == IF status \in {"processing", "expired"} THEN status ELSE None

\* listAllSwaps: those whose STORED status is not terminal, and what the poll finds
\* of them unless the service knows better.
ChoosePending(p) ==
    LET todo == {s \in Swap : stored[s] # None /\ ~isTerminalStatus(mapSwapStatus(stored[s]))} IN
    /\ proc[p].pc = "choose"
    /\ proc' = [proc EXCEPT ![p].pc = "next", ![p].swap = None, ![p].todo = todo,
                            ![p].found = [s \in Swap |->
                                IF proc[p].op = "poll" /\ s \in todo
                                THEN Found(mapSwapStatus(stored[s])) ELSE None]]
    /\ UNCHANGED <<remote, direction, paid, stored, up, webhooks, events, faults>>

\* Mutant of NextPending: the status is asked for without an id.
NextPendingNoId(p) ==
    /\ proc[p].pc = "next"
    /\ \/ \E s \in proc[p].todo : proc' = [proc EXCEPT ![p].pc = "get", ![p].todo = @ \ {s}]
       \/ /\ proc[p].todo = {}
          /\ IF proc[p].op = "poll" THEN Goto(p, "act") ELSE End(p)
    /\ UNCHANGED <<remote, direction, paid, stored, up, webhooks, events, faults>>

\* for (stored of allSwaps): each is looked at in turn.
NextPending(p) ==
    /\ proc[p].pc = "next"
    /\ \/ \E s \in proc[p].todo :
             proc' = [proc EXCEPT ![p].pc = "get", ![p].swap = s, ![p].todo = @ \ {s}]
       \/ /\ proc[p].todo = {}
          /\ IF proc[p].op = "poll" THEN Goto(p, "act") ELSE End(p)
    /\ UNCHANGED <<remote, direction, paid, stored, up, webhooks, events, faults>>

\* getSwap: the service answers.
Get(p) ==
    /\ proc[p].pc \in {"get", "refundGet"}
    /\ proc' = [proc EXCEPT ![p].seen = remote[proc[p].swap],
                            ![p].pc = IF @ = "get" THEN "store" ELSE "refundStore"]
    /\ UNCHANGED <<remote, direction, paid, stored, up, webhooks, events, faults>>

\* The answer is stored ("updateStorage") and the request goes on with it.  The
\* refund command and route hand an EVM swap to the user instead of the client.
Store(p) ==
    LET r == proc[p]  s == r.swap IN
    /\ r.pc = "store"
    /\ stored' = [stored EXCEPT ![s] = r.seen]
    /\ CASE r.op = "poll" ->
              proc' = [proc EXCEPT ![p].pc = "next", ![p].seen = None, ![p].swap = None,
                                   ![p].found[s] = Found(mapSwapStatus(r.seen))]
         [] r.op = "list" ->
              proc' = [proc EXCEPT ![p].pc = "next", ![p].seen = None, ![p].swap = None]
         [] r.op = "refund" /\ direction[s] = "btc_to_stablecoin" ->
              proc' = [proc EXCEPT ![p].pc = "refundGet", ![p].seen = None]
         [] OTHER -> End(p)
    /\ UNCHANGED <<remote, direction, paid, up, webhooks, events, faults>>

\* getSwap fails: the list keeps the status that it has found, a request ends.
GetFails(p) ==
    /\ proc[p].pc = "get"
    /\ Fault
    /\ IF proc[p].op \in {"poll", "list"}
       THEN proc' = [proc EXCEPT ![p].pc = "next", ![p].swap = None]
       ELSE End(p)
    /\ UNCHANGED <<remote, direction, paid, stored, up, webhooks, events>>

-----------------------------------------------------------------------------
(* Acting on swaps: claimSwap, refundSwap. *)

\* The poll takes the swaps it has found one by one, with the status it found.
Act(p) ==
    LET found == {s \in Swap : proc[p].found[s] # None} IN
    /\ proc[p].pc = "act"
    /\ \/ \E s \in found :
             proc' = [proc EXCEPT ![p].found[s] = None, ![p].swap = s,
                                  ![p].pc = IF proc[p].found[s] = "processing"
                                            THEN "claim" ELSE "refundGet"]
       \/ found = {} /\ End(p)
    /\ UNCHANGED <<remote, direction, paid, stored, up, webhooks, events, faults>>

\* The poll reports what came of it and goes on; a request has its answer.
Report(p, event) ==
    IF proc[p].op = "poll"
    THEN /\ emit(proc[p].swap, event)
         /\ proc' = [proc EXCEPT ![p].pc = "act", ![p].swap = None, ![p].seen = None]
    ELSE End(p) /\ UNCHANGED events

ClaimSucceeds(p) ==
    LET s == proc[p].swap IN
    /\ proc[p].pc = "claim"
    /\ Claimable(s)
    /\ remote' = [remote EXCEPT ![s] = "clientredeeming"]
    /\ Report(p, "swap.claimed")
    /\ UNCHANGED <<direction, paid, stored, up, webhooks, faults>>

\* Mutant of ClaimFails: the poll does not look at result.success.
ClaimFailsUnnoticed(p) ==
    /\ proc[p].pc = "claim"
    /\ \/ ~Claimable(proc[p].swap) /\ UNCHANGED faults
       \/ Fault
    /\ Report(p, "swap.claimed")
    /\ UNCHANGED <<remote, direction, paid, stored, up, webhooks>>

\* Not claimable (success: false, or an exception), or the call fails.
ClaimFails(p) ==
    /\ proc[p].pc = "claim"
    /\ \/ ~Claimable(proc[p].swap) /\ UNCHANGED faults
       \/ Fault
    /\ Report(p, "swap.failed")
    /\ UNCHANGED <<remote, direction, paid, stored, up, webhooks>>

\* The claim takes effect and its answer is lost.
ClaimLost(p) ==
    LET s == proc[p].swap IN
    /\ proc[p].pc = "claim"
    /\ Claimable(s)
    /\ Fault
    /\ remote' = [remote EXCEPT ![s] = "clientredeeming"]
    /\ Report(p, "swap.failed")
    /\ UNCHANGED <<direction, paid, stored, up, webhooks>>

\* refundSwap stores the status it reads; an EVM swap is not the client's to refund.
RefundStore(p) ==
    LET s == proc[p].swap IN
    /\ proc[p].pc = "refundStore"
    /\ stored' = [stored EXCEPT ![s] = proc[p].seen]
    /\ IF direction[s] = "stablecoin_to_btc"
       THEN Report(p, "swap.failed")
       ELSE /\ proc' = [proc EXCEPT ![p].pc = "refund", ![p].seen = None]
            /\ UNCHANGED events
    /\ UNCHANGED <<remote, direction, paid, up, webhooks, faults>>

RefundSucceeds(p) ==
    LET s == proc[p].swap IN
    /\ proc[p].pc = "refund"
    /\ Refundable(s)
    /\ remote' = [remote EXCEPT ![s] = Refunded(s)]
    /\ Report(p, "swap.refunded")
    /\ UNCHANGED <<direction, paid, stored, up, webhooks, faults>>

RefundFails(p) ==
    /\ \/ proc[p].pc = "refund" /\ ~Refundable(proc[p].swap) /\ UNCHANGED faults
       \/ proc[p].pc \in {"refund", "refundGet"} /\ Fault
    /\ Report(p, "swap.failed")
    /\ UNCHANGED <<remote, direction, paid, stored, up, webhooks>>

-----------------------------------------------------------------------------
(* The daemon: webhooks, start, stop and crash. *)

\* POST /notify/register and DELETE /notify/:id.
Register(h) ==
    /\ up
    /\ h # {}
    /\ webhooks' = webhooks \cup {h}
    /\ UNCHANGED <<remote, direction, paid, stored, up, events, proc, faults>>

Unregister(h) ==
    /\ up
    /\ h \in webhooks
    /\ webhooks' = webhooks \ {h}
    /\ UNCHANGED <<remote, direction, paid, stored, up, events, proc, faults>>

DaemonStart ==
    /\ ~up
    /\ up' = TRUE
    /\ UNCHANGED <<remote, direction, paid, stored, webhooks, events, proc, faults>>

\* Stopped, killed or crashed: its poll and its requests are gone, and so are the
\* webhooks, which are in memory.
DaemonEnds ==
    /\ up
    /\ up' = FALSE
    /\ webhooks' = {}
    /\ proc' = [p \in Proc |-> IF proc[p].host = "daemon" THEN Idle ELSE proc[p]]
    /\ UNCHANGED <<remote, direction, paid, stored, events, faults>>

\* A CLI process is killed.
CliEnds(p) ==
    /\ proc[p] # Idle
    /\ proc[p].host = "cli"
    /\ End(p)
    /\ UNCHANGED <<remote, direction, paid, stored, up, webhooks, events, faults>>

Continue(p) ==
    \/ CreateBtcSwap(p) \/ CreateEvmSwap(p) \/ FundSwap(p) \/ CreateFails(p)
    \/ ChoosePending(p) \/ NextPending(p) \/ Get(p) \/ Store(p) \/ GetFails(p)
    \/ Act(p) \/ ClaimSucceeds(p) \/ ClaimFails(p) \/ ClaimLost(p)
    \/ RefundStore(p) \/ RefundSucceeds(p) \/ RefundFails(p)

SwapsNext ==
    \/ \E s \in Swap : ServiceStep(s) \/ UserRefunds(s)
    \/ \E p \in Proc, s \in Swap :
          StartSend(p, s) \/ StartReceive(p, s) \/ StartStatus(p, s) \/ StartClaim(p, s)
          \/ StartRefund(p, s)
    \/ \E p \in Proc : StartList(p)
    \/ Poll
    \/ \E p \in Proc : Continue(p) \/ CliEnds(p)
    \/ \E h \in Subscription : Register(h) \/ Unregister(h)
    \/ DaemonStart
    \/ DaemonEnds
=============================================================================
