------------------------------ MODULE PayPage ------------------------------
(***************************************************************************)
(* The web payment page (web/main.ts, params.ts, swap.ts, wallet.ts), with *)
(* the client that made the link and will claim what is paid (module       *)
(* Swaps).  A browser tab opens a link to a swap, or one that lets the     *)
(* page create the swap, and the payer's wallet approves and funds it.     *)
(***************************************************************************)
EXTENDS Swaps

CONSTANTS Tab       \* the payer's browser tabs

VARIABLES page      \* tab -> what it shows, and the swap it is about

vars == <<swapVars, page>>

Steps == {"closed", "ready", "already-paid", "link-expired", "creating-swap", "approve",
          "fund", "waiting", "done", "failed"}
Shows(step) == [step |-> step, swap |-> None, funding |-> FALSE, mined |-> None]

PayPageInit == SwapsInit /\ page = [g \in Tab |-> Shows("closed")]

\* FUNDABLE_STATUSES, and what main() takes for paid.  Both lists also name
\* statuses of the skill, which LendaSwap does not answer with.
FUNDABLE == {"pending"}
FUNDED == {"clientfundingseen", "clientfunded", "serverfunded", "clientredeemed",
           "serverredeemed", "clientredeemedandclientrefunded"}

\* TERMINAL_STATUSES and SUCCESS_STATUSES of pollSwapStatus.
SUCCESS == {"clientredeemed", "serverredeemed", "clientredeemedandclientrefunded"}
TERMINAL == SUCCESS \cup {"expired", "clientfundedtoolate", "clientrefunded",
                          "clientfundedserverrefunded", "clientrefundedserverfunded",
                          "clientrefundedserverrefunded", "clientinvalidfunded"}

setPage(g, step) == page' = [page EXCEPT ![g] = Shows(step)]
setStep(g, step) == page' = [page EXCEPT ![g].step = step]

-----------------------------------------------------------------------------
\* The page is ready to pay swap s, for which it has the call data, or to create one.
ReadyToPay(g, s) ==
    page' = [page EXCEPT ![g] = [Shows("ready") EXCEPT !.swap = s, !.funding = TRUE]]
ReadyToCreate(g) == setPage(g, "ready")

\* A link that `cash receive` made, ?id=<swap>: parseParams asks for the status
\* of the swap, and main() stops unless it can be funded.  The answer may lack
\* the call data, and the page then creates a swap of its own.
OpenIdLink(g, s) ==
    /\ page[g].step = "closed"
    /\ stored[s] # None
    /\ direction[s] = "stablecoin_to_btc"
    /\ CASE remote[s] \in FUNDABLE -> ReadyToPay(g, s) \/ ReadyToCreate(g)
         [] remote[s] \in FUNDED -> setPage(g, "already-paid")
         [] OTHER -> setPage(g, "link-expired")
    /\ UNCHANGED swapVars

\* A link with the call data inline (?swapId=<swap>), whose status is not asked
\* for, or one with an amount and an address, for which the page creates a swap.
OpenOldLink(g) ==
    /\ page[g].step = "closed"
    /\ \/ \E s \in Swap :
             /\ stored[s] # None
             /\ direction[s] = "stablecoin_to_btc"
             /\ ReadyToPay(g, s)
       \/ ReadyToCreate(g)
    /\ UNCHANGED swapVars

\* The link cannot be read, the wallet refuses, a call fails: an error is shown.
ShowError(g) ==
    /\ page[g].step \in {"closed", "ready", "creating-swap", "approve", "fund", "waiting"}
    /\ setPage(g, "failed")
    /\ UNCHANGED swapVars

\* The payer clicks and the wallet connects.
ConnectWallet(g) ==
    /\ page[g].step = "ready"
    /\ IF page[g].funding THEN setStep(g, "approve") ELSE setPage(g, "creating-swap")
    /\ UNCHANGED swapVars

\* createSwap and getFundingCallData.
CreateSwapOnPage(g) ==
    /\ page[g].step = "creating-swap"
    /\ \E s \in Swap :
          /\ remote[s] = None
          /\ direction[s] = "stablecoin_to_btc"
          /\ remote' = [remote EXCEPT ![s] = "pending"]
          /\ page' = [page EXCEPT ![g].step = "approve", ![g].swap = s]
    /\ UNCHANGED <<direction, paid, stored, up, webhooks, events, proc, faults>>

\* The allowance suffices, or the payer approves it and the receipt comes.
Approve(g) ==
    /\ page[g].step = "approve"
    /\ setStep(g, "fund")
    /\ UNCHANGED swapVars

\* The payer sends the funding transaction and its receipt comes.  It may have
\* been reverted (as it is when the HTLC exists): the page does not look.
Fund(g) ==
    LET t == page[g]  after == IF t.funding THEN "done" ELSE "waiting" IN
    /\ t.step = "fund"
    /\ \/ /\ ~paid[t.swap]
          /\ Pay(t.swap)
          /\ page' = [page EXCEPT ![g].step = after, ![g].mined = "ok"]
       \/ /\ UNCHANGED <<paid, remote>>
          /\ page' = [page EXCEPT ![g].step = after, ![g].mined = "reverted"]
    /\ UNCHANGED <<direction, stored, up, webhooks, events, proc, faults>>

\* Mutant of PollSwapStatus: any end is a success.
PollSwapStatusAny(g) ==
    /\ page[g].step = "waiting"
    /\ remote[page[g].swap] \in TERMINAL
    /\ setStep(g, "done")
    /\ UNCHANGED swapVars

\* pollSwapStatus sees an end of the swap (too many attempts are an error).
PollSwapStatus(g) ==
    /\ page[g].step = "waiting"
    /\ \/ remote[page[g].swap] \in SUCCESS /\ setStep(g, "done")
       \/ remote[page[g].swap] \in TERMINAL \ SUCCESS /\ setPage(g, "failed")
    /\ UNCHANGED swapVars

\* The page never claims: a swap that it has created is redeemed, if it is, by
\* whoever else can.
RedeemForPage(s) ==
    /\ stored[s] = None
    /\ Claimable(s)
    /\ remote' = [remote EXCEPT ![s] = "clientredeeming"]
    /\ UNCHANGED <<direction, paid, stored, up, webhooks, events, proc, faults, page>>

\* The payer closes the tab; opening the link again is the only way on from an
\* error, since the button is gone.
CloseTab(g) ==
    /\ page[g].step # "closed"
    /\ setPage(g, "closed")
    /\ UNCHANGED swapVars

TabNext(g) ==
    \/ \E s \in Swap : OpenIdLink(g, s)
    \/ OpenOldLink(g) \/ ShowError(g) \/ ConnectWallet(g) \/ CreateSwapOnPage(g)
    \/ Approve(g) \/ Fund(g) \/ PollSwapStatus(g) \/ CloseTab(g)

PayPageNext ==
    \/ SwapsNext /\ UNCHANGED page
    \/ \E g \in Tab : TabNext(g)
    \/ \E s \in Swap : RedeemForPage(s)

\* The daemon's timer fires and its awaits are settled; LendaSwap goes on with a
\* swap that is paid for.  Nobody has to start a command, a daemon or a payment.
PayPageFairness ==
    /\ WF_vars(Poll /\ UNCHANGED page)
    /\ WF_vars(Continue(monitor) /\ UNCHANGED page)
    /\ \A s \in Swap : WF_vars(paid[s] /\ remote[s] \in {"pending", "clientfundingseen",
                                                         "clientfunded"}
                                       /\ ServiceStep(s) /\ UNCHANGED page)

PayPageSpec == PayPageInit /\ [][PayPageNext]_vars /\ PayPageFairness

\* Every request ends, too: no counterexample is about one that hangs.
EndingSpec == PayPageSpec /\ \A p \in Proc : WF_vars(Continue(p) /\ UNCHANGED page)

-----------------------------------------------------------------------------
Pcs == {"idle", "create", "fund", "choose", "next", "get", "store", "act", "claim",
        "refundGet", "refundStore", "refund"}
Ops == {"idle", "send", "receive", "status", "claim", "refund", "list", "poll"}

Request == [op: Ops, host: {"cli", "daemon"}, pc: Pcs, swap: Swap \cup {None},
            seen: Statuses \cup {None}, todo: SUBSET Swap,
            found: [Swap -> {"processing", "expired", None}]]
View == [step: Steps, swap: Swap \cup {None}, funding: BOOLEAN, mined: {None, "ok", "reverted"}]

\* The variables hold values of their types; a request is at work on a swap
\* exactly at the points of its code that use one.
SwapTypeOK ==
    /\ remote \in [Swap -> Statuses \cup {None}]
    /\ direction \in [Swap -> Directions]
    /\ paid \in [Swap -> BOOLEAN]
    /\ stored \in [Swap -> Statuses \cup {None}]
    /\ up \in BOOLEAN
    /\ webhooks \subseteq Subscription
    /\ events \subseteq Swap \X EventTypes
    /\ proc \in [Proc -> Request]
    /\ faults \in 0..MaxFaults
    /\ page \in [Tab -> View]
    /\ \A p \in Proc :
          proc[p].pc \in {"create", "fund", "get", "store", "claim", "refundGet",
                          "refundStore", "refund"} => proc[p].swap # None

\* What the webhooks have been told is so: a swap reported as claimed has been
\* redeemed and one reported as refunded has been refunded, whatever commands,
\* other processes and lost answers do meanwhile; so no swap is reported as both.
EventsAreTrue ==
    \A s \in Swap :
        /\ <<s, "swap.claimed">> \in events => remote[s] \in Redeemed
        /\ <<s, "swap.refunded">> \in events => remote[s] \in ClientRefunded

\* What `cash swaps` shows as claimed has been redeemed, although the stored
\* statuses lag behind and answers are stored out of order.
ClaimedIsFinal == \A s \in Swap : Category(s) = "claimed" => remote[s] \in SUCCESS

\* A BTC swap that this wallet has paid for is in the store, from which alone it
\* can be claimed or refunded, even when the process was killed meanwhile.
PaidIsStored ==
    \A s \in Swap : direction[s] = "btc_to_stablecoin" /\ paid[s] => stored[s] # None

\* "Sent!" is shown for a swap that is funded, unless the transaction was
\* reverted, and for one that the page created only when it is redeemed.
SentIsTrue ==
    \A g \in Tab : page[g].step = "done" =>
        /\ page[g].mined = "ok" => paid[page[g].swap]
        /\ ~page[g].funding => remote[page[g].swap] \in SUCCESS

(* What makes these invariants inductive.                                   *)

\* Only swaps that exist are stored, and none as completed before it is.
SwapKnown(s) ==
    /\ stored[s] # None => remote[s] # None
    /\ stored[s] \in SUCCESS => remote[s] \in SUCCESS

\* A request only looks at and acts on swaps that are stored, and an answer that
\* is still to be stored was true when it came.
RequestKnows(r) ==
    /\ r.pc \in {"fund", "get", "store", "claim", "refundGet", "refundStore", "refund"} =>
          stored[r.swap] # None
    /\ \A s \in r.todo : stored[s] # None
    /\ \A s \in Swap : r.found[s] # None => stored[s] # None
    /\ r.pc \in {"store", "refundStore"} =>
          r.seen # None /\ (r.seen \in SUCCESS => remote[r.swap] \in SUCCESS)

\* A page that goes on to pay knows its swap, which is one that a payer funds.
PageKnows(t) ==
    /\ t.step \in {"approve", "fund", "waiting", "done"} \/ (t.step = "ready" /\ t.funding) =>
          t.swap # None
    /\ t.swap # None => direction[t.swap] = "stablecoin_to_btc"
    /\ t.step = "waiting" /\ t.mined = "ok" => paid[t.swap]

SwapInv ==
    /\ SwapTypeOK /\ EventsAreTrue /\ ClaimedIsFinal /\ PaidIsStored /\ SentIsTrue
    /\ \A s \in Swap : SwapKnown(s)
    /\ \A p \in Proc : RequestKnows(proc[p])
    /\ \A g \in Tab : PageKnows(page[g])

-----------------------------------------------------------------------------
Unsettled == {"pending", "clientfundingseen", "clientfunded", "serverfunded"}

\* "Pre-created swap: CLI daemon claims automatically": a stored swap that is paid
\* for, by this wallet or on the page, is redeemed or ends otherwise while the daemon
\* runs, in spite of failing calls and of requests that read, store and claim too.
PaidIsSettled ==
    \A s \in Swap :
        stored[s] # None /\ paid[s] /\ remote[s] \in Unsettled
            ~> ~up \/ remote[s] \notin Unsettled

\* What SwapMonitor says it does, "Attempt refund for expired swaps": a BTC swap
\* that is known to be paid for, and expires, is refunded while the daemon runs.
ExpiredIsRefunded ==
    \A s \in Swap :
        direction[s] = "btc_to_stablecoin" /\ stored[s] = "clientfunded" /\ remote[s] = "expired"
            ~> remote[s] = "clientrefunded" \/ ~up

\* Where the client's money is, by the status that LendaSwap has of the swap.
OutcomeOf(status) ==
    IF status \in Redeemed \cup {"clientredeemedandclientrefunded"} THEN "redeemed"
    ELSE IF status \in ClientRefunded \cup {"clientrefundedserverfunded"} THEN "refunded"
    ELSE "open"

\* Commands, monitors, tabs and services that act on a swap at once, and calls
\* whose answers are lost, are together no more than a SwapOutcome.
Outcome == INSTANCE SwapOutcome WITH
    funded <- paid,
    outcome <- [s \in Swap |-> OutcomeOf(remote[s])],
    told <- {e \in events : e[2] # "swap.failed"}

ImplementsOutcome == Outcome!OutcomeSpec
=============================================================================
