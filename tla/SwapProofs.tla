----------------------------- MODULE SwapProofs -----------------------------
(***************************************************************************)
(* Theorems about swaps, the monitor, the webhooks and the payment page,   *)
(* for any number of swaps, requests, tabs and webhooks, with faults.      *)
(***************************************************************************)
EXTENDS PayPage, TLAPS

\* What a step may do to a swap.
SwapMoves(s) ==
    /\ remote[s] # None => remote'[s] # None
    /\ remote[s] \in SUCCESS => remote'[s] \in SUCCESS
    /\ remote[s] \in Redeemed => remote'[s] \in Redeemed
    /\ remote[s] \in ClientRefunded => remote'[s] \in ClientRefunded
    /\ stored[s] # None => stored'[s] # None
    /\ paid[s] => paid'[s]
    /\ SwapKnown(s)'
    /\ direction[s] = "btc_to_stablecoin" /\ paid'[s] => stored'[s] # None

TableTypes ==
    /\ remote \in [Swap -> Statuses \cup {None}]
    /\ direction \in [Swap -> Directions]
    /\ paid \in [Swap -> BOOLEAN]
    /\ stored \in [Swap -> Statuses \cup {None}]
    /\ up \in BOOLEAN
    /\ webhooks \subseteq Subscription
    /\ events \subseteq Swap \X EventTypes
    /\ faults \in 0..MaxFaults

HasSwap(r) == r.pc \in {"create", "fund", "get", "store", "claim", "refundGet", "refundStore",
                        "refund"} => r.swap # None

\* The swaps a request has listed are stored.
Listed(r) ==
    /\ \A s \in r.todo : stored[s] # None
    /\ \A s \in Swap : r.found[s] # None => stored[s] # None

Told(s) == /\ <<s, "swap.claimed">> \in events => remote[s] \in Redeemed
           /\ <<s, "swap.refunded">> \in events => remote[s] \in ClientRefunded

PageTrue(t) ==
    /\ PageKnows(t)
    /\ t.step = "done" => /\ t.mined = "ok" => paid[t.swap]
                          /\ ~t.funding => remote[t.swap] \in SUCCESS

\* A step that moves swaps forward and lets requests and pages go on only with what
\* is true keeps the invariant.
LEMMA StepInv ==
    ASSUME SwapInv, TableTypes', UNCHANGED direction,
           \A s \in Swap : SwapMoves(s) /\ Told(s)',
           proc' \in [Proc -> Request], page' \in [Tab -> View],
           \A p \in Proc : proc'[p] = proc[p] \/ (RequestKnows(proc[p]) /\ HasSwap(proc[p]))',
           \A g \in Tab : page'[g] = page[g] \/ PageTrue(page[g])'
    PROVE  SwapInv'
  <1>1. \A p \in Proc : (RequestKnows(proc[p]) /\ HasSwap(proc[p]))'
    <2> SUFFICES ASSUME NEW p \in Proc, proc'[p] = proc[p]
                 PROVE  (RequestKnows(proc[p]) /\ HasSwap(proc[p]))'
      OBVIOUS
    <2>1. proc[p] \in Request /\ RequestKnows(proc[p]) /\ HasSwap(proc[p])
      BY DEF SwapInv, SwapTypeOK, HasSwap
    <2>2. proc[p].swap \in Swap \cup {None} /\ proc[p].todo \subseteq Swap
      BY <2>1 DEF Request
    <2>3. RequestKnows(proc[p])'
      BY <2>1, <2>2 DEF RequestKnows, HasSwap, SwapMoves
    <2> QED BY <2>1, <2>3 DEF HasSwap
  <1>2. \A g \in Tab : PageTrue(page[g])'
    <2> SUFFICES ASSUME NEW g \in Tab, page'[g] = page[g] PROVE PageTrue(page[g])'
      OBVIOUS
    <2>1. page[g] \in View /\ PageTrue(page[g])
      BY DEF SwapInv, SwapTypeOK, SentIsTrue, PageTrue
    <2>2. page[g].swap \in Swap \cup {None}
      BY <2>1 DEF View
    <2> QED BY <2>1, <2>2 DEF PageTrue, PageKnows, SwapMoves
  <1>3. SwapTypeOK'
    BY <1>1 DEF TableTypes, SwapTypeOK, HasSwap
  <1>4. EventsAreTrue' /\ PaidIsStored' /\ \A s \in Swap : SwapKnown(s)'
    BY DEF EventsAreTrue, Told, SwapMoves, PaidIsStored
  <1>5. ClaimedIsFinal'
    <2>1. \A s \in Swap : stored'[s] \in Statuses \cup {None}
      BY DEF TableTypes
    <2>2. \A s \in Swap : Category(s)' = "claimed" => stored'[s] \in SUCCESS
      BY <2>1 DEF Category, mapSwapStatus, Statuses, SUCCESS
    <2> QED BY <2>2, <1>4 DEF ClaimedIsFinal, SwapKnown
  <1>6. SentIsTrue'
    BY <1>2 DEF SentIsTrue, PageTrue
  <1>7. \A g \in Tab : PageKnows(page[g])'
    BY <1>2 DEF PageTrue
  <1> QED BY <1>1, <1>3, <1>4, <1>5, <1>6, <1>7 DEF SwapInv

\* The invariant, taken apart.
LEMMA Tables ==
    ASSUME SwapInv
    PROVE  TableTypes /\ \A s \in Swap :
              /\ Told(s) /\ SwapKnown(s)
              /\ direction[s] = "btc_to_stablecoin" /\ paid[s] => stored[s] # None
  BY DEF SwapInv, SwapTypeOK, TableTypes, EventsAreTrue, Told, PaidIsStored

LEMMA Requests ==
    ASSUME SwapInv, NEW p \in Proc
    PROVE  proc[p] \in Request /\ RequestKnows(proc[p]) /\ HasSwap(proc[p])
           /\ proc \in [Proc -> Request] /\ page \in [Tab -> View]
  BY DEF SwapInv, SwapTypeOK, HasSwap

\* A step of one request.
LEMMA RequestInv ==
    ASSUME SwapInv, NEW p \in Proc, TableTypes', UNCHANGED <<direction, page>>,
           \A s \in Swap : SwapMoves(s) /\ Told(s)',
           \E r \in Request : proc' = [proc EXCEPT ![p] = r],
           (RequestKnows(proc[p]) /\ HasSwap(proc[p]))'
    PROVE  SwapInv'
  <1>1. /\ proc' \in [Proc -> Request] /\ page' \in [Tab -> View]
        /\ \A q \in Proc : q # p => proc'[q] = proc[q]
    BY Requests
  <1>2. \A q \in Proc : proc'[q] = proc[q] \/ (RequestKnows(proc[q]) /\ HasSwap(proc[q]))'
    BY <1>1
  <1> QED BY <1>1, <1>2, StepInv

\* A step that leaves the swaps and what was told as they are.
LEMMA SameSwaps ==
    ASSUME SwapInv, UNCHANGED <<remote, direction, paid, stored>>, up' \in BOOLEAN,
           webhooks' \subseteq Subscription, events' = events, faults' \in 0..MaxFaults
    PROVE  TableTypes' /\ \A s \in Swap : SwapMoves(s) /\ Told(s)'
  <1>1. TableTypes'
    BY Tables DEF TableTypes
  <1>2. ASSUME NEW s \in Swap PROVE SwapMoves(s) /\ Told(s)'
    BY Tables DEF SwapMoves, SwapKnown, Told
  <1> QED BY <1>1, <1>2

\* A step that stores a status which was true when it was read.
LEMMA StoreSwap ==
    ASSUME SwapInv, NEW s \in Swap, NEW st \in Statuses,
           stored[s] # None, st # None, st \in SUCCESS => remote[s] \in SUCCESS,
           stored' = [stored EXCEPT ![s] = st],
           UNCHANGED <<remote, direction, paid, up, webhooks, faults>>,
           events' \in {events, events \cup {<<s, "swap.failed">>}}
    PROVE  TableTypes' /\ \A x \in Swap : SwapMoves(x) /\ Told(x)'
  <1>1. TableTypes'
    BY Tables DEF TableTypes, EventTypes
  <1>2. ASSUME NEW x \in Swap PROVE SwapMoves(x) /\ Told(x)'
    BY Tables DEF SwapMoves, SwapKnown, Told, TableTypes
  <1> QED BY <1>1, <1>2

\* A step that gives a swap a later status, and tells of it what is then so.
LEMMA RemoteSwap ==
    ASSUME SwapInv, NEW s \in Swap, NEW st \in Statuses,
           remote[s] # None, st # None, remote' = [remote EXCEPT ![s] = st],
           remote[s] \in SUCCESS => st \in SUCCESS,
           remote[s] \in Redeemed => st \in Redeemed,
           remote[s] \in ClientRefunded => st \in ClientRefunded,
           UNCHANGED <<direction, paid, stored, up, webhooks>>,
           NEW event \in EventTypes, events' \in {events, events \cup {<<s, event>>}},
           event = "swap.claimed" => st \in Redeemed,
           event = "swap.refunded" => st \in ClientRefunded,
           faults' \in 0..MaxFaults
    PROVE  TableTypes' /\ \A x \in Swap : SwapMoves(x) /\ Told(x)'
  <1>1. TableTypes'
    BY Tables DEF TableTypes
  <1>2. ASSUME NEW x \in Swap PROVE SwapMoves(x) /\ Told(x)'
    BY Tables DEF SwapMoves, SwapKnown, Told, TableTypes
  <1> QED BY <1>1, <1>2

\* A step that tells of a failure.
LEMMA ToldFailure ==
    ASSUME SwapInv, NEW s \in Swap,
           UNCHANGED <<remote, direction, paid, stored, up, webhooks>>,
           events' \in {events, events \cup {<<s, "swap.failed">>}}, faults' \in 0..MaxFaults
    PROVE  TableTypes' /\ \A x \in Swap : SwapMoves(x) /\ Told(x)'
  <1>1. TableTypes'
    BY Tables DEF TableTypes, EventTypes
  <1>2. ASSUME NEW x \in Swap PROVE SwapMoves(x) /\ Told(x)'
    BY Tables DEF SwapMoves, SwapKnown, Told
  <1> QED BY <1>1, <1>2

\* A request that has ended knows nothing.
LEMMA Ended ==
    ASSUME SwapInv, NEW p \in Proc, proc'[p] = Idle
    PROVE  Idle \in Request /\ (RequestKnows(proc[p]) /\ HasSwap(proc[p]))'
  BY SwapAssumption DEF Idle, Request, Ops, Pcs, RequestKnows, HasSwap

\* A request starts, on a swap that is stored or still to be created.
LEMMA StartInv ==
    ASSUME SwapInv, NEW p \in Proc, NEW op \in Ops, NEW pc \in Pcs, NEW s \in Swap \cup {None},
           NEW host \in {"cli", "daemon"}, Begin(p, op, pc, s, host),
           pc \in {"create", "choose"} \/ (pc \in {"get", "claim"} /\ stored[s] # None),
           pc # "choose" => s \in Swap,
           UNCHANGED <<remote, direction, paid, stored, up, webhooks, events, faults, page>>
    PROVE  SwapInv'
  <1> DEFINE r == [Idle EXCEPT !.op = op, !.host = host, !.pc = pc, !.swap = s]
  <1>1. proc' = [proc EXCEPT ![p] = r] /\ r \in Request
    BY SwapAssumption DEF Begin, Request, Idle
  <1>2. proc'[p] = r
    BY <1>1, Requests
  <1>3. (RequestKnows(proc[p]) /\ HasSwap(proc[p]))'
    BY <1>2, SwapAssumption DEF RequestKnows, HasSwap, Idle
  <1>4. TableTypes' /\ \A x \in Swap : SwapMoves(x) /\ Told(x)'
    BY SameSwaps, Tables DEF TableTypes
  <1> HIDE DEF r
  <1> QED BY <1>1, <1>3, <1>4, RequestInv

\* Creating a swap.
LEMMA CreateInv ==
    ASSUME SwapInv, NEW p \in Proc, UNCHANGED page,
           CreateBtcSwap(p) \/ CreateEvmSwap(p) \/ FundSwap(p) \/ CreateFails(p)
    PROVE  SwapInv'
  <1>0. proc[p] \in Request /\ RequestKnows(proc[p]) /\ HasSwap(proc[p])
        /\ proc \in [Proc -> Request] /\ TableTypes
    BY Requests, Tables
  <1> DEFINE s == proc[p].swap
  <1>1. s \in Swap /\ UNCHANGED <<direction, page>>
    BY <1>0 DEF HasSwap, Request, CreateBtcSwap, CreateEvmSwap, FundSwap, CreateFails
  <1>2. "pending" \in Statuses /\ "pending" \notin SUCCESS
    BY DEF Statuses, SUCCESS
  <1>3. ASSUME remote[s] = None, remote' = [remote EXCEPT ![s] = "pending"],
               stored' = [stored EXCEPT ![s] = "pending"],
               UNCHANGED <<direction, paid, up, webhooks, events, faults>>
        PROVE  /\ TableTypes' /\ \A x \in Swap : SwapMoves(x) /\ Told(x)'
               /\ stored'[s] # None
    <2>1. TableTypes' /\ stored'[s] # None /\ remote'[s] # None
      BY <1>0, <1>1, <1>2, <1>3, SwapAssumption DEF TableTypes
    <2>2. \A x \in Swap : SwapMoves(x) /\ Told(x)'
      BY <1>0, <1>1, <1>2, <1>3, <2>1, Tables, SwapAssumption
         DEF TableTypes, SwapMoves, SwapKnown, Told, SUCCESS, Redeemed, ClientRefunded, Statuses
    <2> QED BY <2>1, <2>2
  <1>4. CASE CreateBtcSwap(p)
    <2> DEFINE r == [proc[p] EXCEPT !.pc = "fund"]
    <2>1. proc' = [proc EXCEPT ![p] = r] /\ r \in Request
      BY <1>0, <1>4 DEF CreateBtcSwap, Goto, Request, Pcs
    <2>2. TableTypes' /\ (\A x \in Swap : SwapMoves(x) /\ Told(x)') /\ stored'[s] # None
      BY <1>3, <1>4 DEF CreateBtcSwap
    <2>3. /\ proc'[p].pc = "fund" /\ proc'[p].swap = s /\ proc'[p].todo = proc[p].todo
          /\ proc'[p].found = proc[p].found
      BY <2>1, <1>0 DEF Request
    <2>4. (RequestKnows(proc[p]) /\ HasSwap(proc[p]))'
      <3>1. \A x \in Swap : stored[x] # None => stored'[x] # None
        BY <2>2 DEF SwapMoves
      <3>2. proc[p].todo \subseteq Swap
        BY <1>0 DEF Request
      <3> QED BY <2>2, <2>3, <3>1, <3>2, <1>0, <1>1, SwapAssumption DEF RequestKnows, HasSwap
    <2> HIDE DEF r
    <2> QED BY <1>1, <2>1, <2>2, <2>4, RequestInv
  <1>5. CASE CreateEvmSwap(p)
    <2>1. proc' = [proc EXCEPT ![p] = Idle] /\ proc'[p] = Idle
      BY <1>0, <1>5 DEF CreateEvmSwap, End
    <2>2. TableTypes' /\ \A x \in Swap : SwapMoves(x) /\ Told(x)'
      BY <1>3, <1>5 DEF CreateEvmSwap
    <2> QED BY <1>1, <2>1, <2>2, Ended, RequestInv
  <1>6. CASE FundSwap(p)
    <2>1. proc' = [proc EXCEPT ![p] = Idle] /\ proc'[p] = Idle
      BY <1>0, <1>6 DEF FundSwap, End
    <2>2. stored[s] # None /\ Pay(s) /\ UNCHANGED <<direction, stored, up, webhooks, events, faults>>
      BY <1>0, <1>6 DEF FundSwap, RequestKnows
    <2>3. TableTypes'
      BY <1>0, <1>1, <2>2 DEF TableTypes, Pay, Statuses
    <2>4. \A x \in Swap : SwapMoves(x) /\ Told(x)'
      BY <1>0, <1>1, <2>2, Tables, SwapAssumption
         DEF TableTypes, Pay, SwapMoves, SwapKnown, Told, SUCCESS, Redeemed, ClientRefunded, Statuses
    <2> QED BY <1>1, <2>1, <2>3, <2>4, Ended, RequestInv
  <1>7. CASE CreateFails(p)
    <2>1. proc' = [proc EXCEPT ![p] = Idle] /\ proc'[p] = Idle
      BY <1>0, <1>7 DEF CreateFails, End
    <2>2. TableTypes' /\ \A x \in Swap : SwapMoves(x) /\ Told(x)'
      BY <1>0, <1>7, SameSwaps DEF CreateFails, TableTypes
    <2> QED BY <1>1, <2>1, <2>2, Ended, RequestInv
  <1> QED BY <1>4, <1>5, <1>6, <1>7

\* A request that has ended, when nothing else but faults and events was changed.
LEMMA EndInv ==
    ASSUME SwapInv, NEW p \in Proc, proc' = [proc EXCEPT ![p] = Idle],
           UNCHANGED <<direction, page>>, TableTypes', \A s \in Swap : SwapMoves(s) /\ Told(s)'
    PROVE  SwapInv'
  <1>1. proc'[p] = Idle
    BY Requests
  <1> QED BY <1>1, Ended, RequestInv

\* A request goes on as r, whose swaps were already stored.
LEMMA RequestGoes ==
    ASSUME SwapInv, NEW p \in Proc, NEW r \in Request, proc' = [proc EXCEPT ![p] = r],
           UNCHANGED <<direction, page>>, TableTypes', \A s \in Swap : SwapMoves(s) /\ Told(s)',
           r.pc # "create",
           r.pc \in {"fund", "get", "store", "claim", "refundGet", "refundStore", "refund"} =>
               r.swap # None /\ stored[r.swap] # None,
           Listed(r),
           r.pc \in {"store", "refundStore"} =>
               r.seen # None /\ (r.seen \in SUCCESS => remote[r.swap] \in SUCCESS)
    PROVE  SwapInv'
  <1>1. proc'[p] = r
    BY Requests
  <1>2. r.swap \in Swap \cup {None} /\ r.todo \subseteq Swap
    BY DEF Request
  <1>3. HasSwap(proc[p])'
    BY <1>1 DEF HasSwap
  <1>4. RequestKnows(proc[p])'
    BY <1>1, <1>2 DEF RequestKnows, SwapMoves, Listed
  <1> QED BY <1>3, <1>4, RequestInv

\* Looking at swaps.
LEMMA LookInv ==
    ASSUME SwapInv, NEW p \in Proc, UNCHANGED page,
           ChoosePending(p) \/ NextPending(p) \/ Get(p) \/ GetFails(p)
    PROVE  SwapInv'
  <1>0. proc[p] \in Request /\ RequestKnows(proc[p]) /\ HasSwap(proc[p])
        /\ proc \in [Proc -> Request] /\ TableTypes
    BY Requests, Tables
  <1>1. UNCHANGED <<direction, page>> /\ TableTypes' /\ \A x \in Swap : SwapMoves(x) /\ Told(x)'
    <2>1. UNCHANGED <<remote, direction, paid, stored, up, webhooks, events>> /\ faults' \in 0..MaxFaults
      <3>1. CASE GetFails(p)
        <4>1. Fault /\ UNCHANGED <<remote, direction, paid, stored, up, webhooks, events>>
          BY <3>1 DEF GetFails
        <4> QED BY <1>0, <4>1, SwapAssumption DEF Fault, TableTypes
      <3>2. CASE ChoosePending(p) \/ NextPending(p) \/ Get(p)
        BY <1>0, <3>2 DEF ChoosePending, NextPending, Get, TableTypes
      <3> QED BY <3>1, <3>2
    <2> QED BY <1>0, <2>1, SameSwaps DEF TableTypes
  <1>2. CASE ChoosePending(p)
    <2> DEFINE pending == {s \in Swap : stored[s] # None /\ ~isTerminalStatus(mapSwapStatus(stored[s]))}
               f == [s \in Swap |-> IF proc[p].op = "poll" /\ s \in pending
                                   THEN Found(mapSwapStatus(stored[s])) ELSE None]
               r == [proc[p] EXCEPT !.pc = "next", !.swap = None, !.todo = pending, !.found = f]
    <2>1. pending \subseteq Swap /\ \A s \in pending : stored[s] # None
      OBVIOUS
    <2>2. proc' = [proc EXCEPT ![p] = r]
      BY <1>2 DEF ChoosePending
    <2> HIDE DEF pending
    <2>3. /\ f \in [Swap -> {"processing", "expired", None}]
          /\ \A s \in Swap : f[s] # None => s \in pending
      BY DEF Found
    <2> HIDE DEF f
    <2>4. r \in Request /\ r.pc = "next" /\ r.todo = pending /\ r.found = f
      BY <1>0, <2>1, <2>3 DEF Request, Pcs
    <2>5. Listed(r)
      BY <2>1, <2>3, <2>4 DEF Listed
    <2> HIDE DEF r
    <2> QED BY <1>1, <2>1, <2>2, <2>4, <2>5, RequestGoes
  <1>3. CASE NextPending(p)
    <2>1. CASE \E s \in proc[p].todo :
                  proc' = [proc EXCEPT ![p].pc = "get", ![p].swap = s, ![p].todo = @ \ {s}]
      <3>1. PICK s \in proc[p].todo :
                  proc' = [proc EXCEPT ![p].pc = "get", ![p].swap = s, ![p].todo = @ \ {s}]
        BY <2>1
      <3> DEFINE r == [proc[p] EXCEPT !.pc = "get", !.swap = s, !.todo = @ \ {s}]
      <3>2. proc' = [proc EXCEPT ![p] = r] /\ s \in Swap /\ stored[s] # None /\ s # None
        BY <1>0, <3>1, SwapAssumption DEF Request, RequestKnows
      <3>3. /\ r \in Request /\ r.pc = "get" /\ r.swap = s /\ r.todo \subseteq proc[p].todo
            /\ r.found = proc[p].found
        BY <1>0, <3>2 DEF Request, Pcs
      <3> HIDE DEF r
      <3>4. Listed(r)
        BY <1>0, <3>3 DEF RequestKnows, Listed
      <3> QED BY <1>1, <3>2, <3>3, <3>4, RequestGoes
    <2>2. CASE Goto(p, "act")
      <3> DEFINE r == [proc[p] EXCEPT !.pc = "act"]
      <3>1. proc' = [proc EXCEPT ![p] = r]
        BY <2>2 DEF Goto
      <3>2. r \in Request /\ r.pc = "act" /\ r.todo = proc[p].todo /\ r.found = proc[p].found
        BY <1>0 DEF Request, Pcs
      <3> HIDE DEF r
      <3>3. Listed(r)
        BY <1>0, <3>2 DEF RequestKnows, Listed
      <3> QED BY <1>1, <3>1, <3>2, <3>3, RequestGoes
    <2>3. CASE End(p)
      BY <1>1, <2>3, EndInv DEF End
    <2> QED BY <1>3, <2>1, <2>2, <2>3 DEF NextPending
  <1>4. CASE Get(p)
    <2> DEFINE r == [proc[p] EXCEPT !.seen = remote[proc[p].swap],
                                    !.pc = IF @ = "get" THEN "store" ELSE "refundStore"]
    <2>1. proc' = [proc EXCEPT ![p] = r]
      BY <1>4 DEF Get
    <2>2. /\ proc[p].swap # None /\ proc[p].swap \in Swap /\ stored[proc[p].swap] # None
          /\ remote[proc[p].swap] \in Statuses \cup {None}
      BY <1>0, <1>4 DEF Get, HasSwap, Request, RequestKnows, TableTypes
    <2>3. remote[proc[p].swap] # None
      BY <2>2, Tables DEF SwapKnown
    <2>4. /\ r \in Request /\ r.pc \in {"store", "refundStore"} /\ r.todo = proc[p].todo
          /\ r.found = proc[p].found /\ r.swap = proc[p].swap /\ r.seen = remote[proc[p].swap]
      BY <1>0, <2>2 DEF Request, Pcs
    <2> HIDE DEF r
    <2>5. Listed(r)
      BY <1>0, <2>4 DEF RequestKnows, Listed
    <2> QED BY <1>1, <2>1, <2>2, <2>3, <2>4, <2>5, RequestGoes
  <1>5. CASE GetFails(p)
    <2>1. CASE proc' = [proc EXCEPT ![p].pc = "next", ![p].swap = None]
      <3> DEFINE r == [proc[p] EXCEPT !.pc = "next", !.swap = None]
      <3>1. proc' = [proc EXCEPT ![p] = r]
        BY <2>1
      <3>2. r \in Request /\ r.pc = "next" /\ r.todo = proc[p].todo /\ r.found = proc[p].found
        BY <1>0 DEF Request, Pcs
      <3> HIDE DEF r
      <3>3. Listed(r)
        BY <1>0, <3>2 DEF RequestKnows, Listed
      <3> QED BY <1>1, <3>1, <3>2, <3>3, RequestGoes
    <2>2. CASE End(p)
      BY <1>1, <2>2, EndInv DEF End
    <2> QED BY <1>5, <2>1, <2>2 DEF GetFails
  <1> QED BY <1>2, <1>3, <1>4, <1>5

\* What a request at work on a swap knows of it.
LEMMA AtWork ==
    ASSUME SwapInv, NEW p \in Proc,
           proc[p].pc \in {"get", "store", "claim", "refundGet", "refundStore", "refund"}
    PROVE  /\ proc[p].swap \in Swap /\ stored[proc[p].swap] # None /\ remote[proc[p].swap] # None
           /\ proc[p].pc \in {"store", "refundStore"} =>
                 /\ proc[p].seen \in Statuses /\ proc[p].seen # None
                 /\ proc[p].seen \in SUCCESS => remote[proc[p].swap] \in SUCCESS
  <1>1. proc[p] \in Request /\ RequestKnows(proc[p]) /\ HasSwap(proc[p])
    BY Requests
  <1>2. proc[p].swap \in Swap /\ stored[proc[p].swap] # None
    BY <1>1 DEF HasSwap, Request, RequestKnows
  <1>3. remote[proc[p].swap] # None
    BY <1>2, Tables DEF SwapKnown
  <1>4. proc[p].seen \in Statuses \cup {None}
    BY <1>1 DEF Request
  <1> QED BY <1>1, <1>2, <1>3, <1>4 DEF RequestKnows

\* Storing an answer.
LEMMA StoreInv ==
    ASSUME SwapInv, NEW p \in Proc, UNCHANGED page, Store(p)
    PROVE  SwapInv'
  <1> DEFINE s == proc[p].swap
  <1>0. proc[p] \in Request /\ RequestKnows(proc[p]) /\ HasSwap(proc[p])
        /\ proc \in [Proc -> Request] /\ TableTypes /\ proc[p].pc = "store"
    BY Requests, Tables DEF Store
  <1>1. /\ s \in Swap /\ stored[s] # None /\ proc[p].seen \in Statuses /\ proc[p].seen # None
        /\ proc[p].seen \in SUCCESS => remote[s] \in SUCCESS
    BY <1>0, AtWork
  <1>2. UNCHANGED <<direction, page>> /\ TableTypes' /\ \A x \in Swap : SwapMoves(x) /\ Told(x)'
    <2>1. stored' = [stored EXCEPT ![s] = proc[p].seen]
          /\ UNCHANGED <<remote, direction, paid, up, webhooks, events, faults>>
      BY DEF Store
    <2> QED BY <1>1, <2>1, StoreSwap
  <1> DEFINE f == Found(mapSwapStatus(proc[p].seen))
  <1>3. f \in {"processing", "expired", None}
    BY DEF Found
  <1>4. \/ proc' = [proc EXCEPT ![p].pc = "next", ![p].seen = None, ![p].swap = None, ![p].found[s] = f]
        \/ proc' = [proc EXCEPT ![p].pc = "next", ![p].seen = None, ![p].swap = None]
        \/ proc' = [proc EXCEPT ![p].pc = "refundGet", ![p].seen = None]
        \/ End(p)
    BY SMT DEF Store
  <1> HIDE DEF f
  <1>5. CASE proc' = [proc EXCEPT ![p].pc = "next", ![p].seen = None, ![p].swap = None, ![p].found[s] = f]
    <2> DEFINE r == [proc[p] EXCEPT !.pc = "next", !.seen = None, !.swap = None, !.found[s] = f]
    <2>1. proc' = [proc EXCEPT ![p] = r]
      BY <1>5
    <2>2. /\ r \in Request /\ r.pc = "next" /\ r.todo = proc[p].todo
          /\ r.found = [proc[p].found EXCEPT ![s] = f]
          /\ proc[p].found \in [Swap -> {"processing", "expired", None}]
      BY <1>0, <1>1, <1>3 DEF Request, Pcs
    <2> HIDE DEF r
    <2>3. Listed(r)
      BY <1>0, <1>1, <2>2 DEF RequestKnows, Listed
    <2> QED BY <1>2, <2>1, <2>2, <2>3, RequestGoes
  <1>6. CASE proc' = [proc EXCEPT ![p].pc = "next", ![p].seen = None, ![p].swap = None]
    <2> DEFINE r == [proc[p] EXCEPT !.pc = "next", !.seen = None, !.swap = None]
    <2>1. proc' = [proc EXCEPT ![p] = r]
      BY <1>6
    <2>2. r \in Request /\ r.pc = "next" /\ r.todo = proc[p].todo /\ r.found = proc[p].found
      BY <1>0 DEF Request, Pcs
    <2> HIDE DEF r
    <2>3. Listed(r)
      BY <1>0, <2>2 DEF RequestKnows, Listed
    <2> QED BY <1>2, <2>1, <2>2, <2>3, RequestGoes
  <1>7. CASE proc' = [proc EXCEPT ![p].pc = "refundGet", ![p].seen = None]
    <2> DEFINE r == [proc[p] EXCEPT !.pc = "refundGet", !.seen = None]
    <2>1. proc' = [proc EXCEPT ![p] = r]
      BY <1>7
    <2>2. /\ r \in Request /\ r.pc = "refundGet" /\ r.swap = s
          /\ r.todo = proc[p].todo /\ r.found = proc[p].found
      BY <1>0 DEF Request, Pcs
    <2> HIDE DEF r
    <2>3. Listed(r) /\ s # None
      BY <1>0, <1>1, <2>2, SwapAssumption DEF RequestKnows, Listed
    <2> QED BY <1>1, <1>2, <2>1, <2>2, <2>3, RequestGoes
  <1>8. CASE End(p)
    BY <1>2, <1>8, EndInv DEF End
  <1> QED BY <1>4, <1>5, <1>6, <1>7, <1>8

\* The poll reports and goes on, a request ends.
LEMMA Reported ==
    ASSUME SwapInv, NEW p \in Proc, NEW event, Report(p, event), UNCHANGED <<direction, page>>,
           TableTypes', \A x \in Swap : SwapMoves(x) /\ Told(x)'
    PROVE  SwapInv'
  <1>0. proc[p] \in Request /\ RequestKnows(proc[p])
    BY Requests
  <1>1. CASE proc' = [proc EXCEPT ![p].pc = "act", ![p].swap = None, ![p].seen = None]
    <2> DEFINE r == [proc[p] EXCEPT !.pc = "act", !.swap = None, !.seen = None]
    <2>1. proc' = [proc EXCEPT ![p] = r]
      BY <1>1
    <2>2. r \in Request /\ r.pc = "act" /\ r.todo = proc[p].todo /\ r.found = proc[p].found
      BY <1>0 DEF Request, Pcs
    <2> HIDE DEF r
    <2>3. Listed(r)
      BY <1>0, <2>2 DEF RequestKnows, Listed
    <2> QED BY <2>1, <2>2, <2>3, RequestGoes
  <1>2. CASE End(p)
    BY <1>2, EndInv DEF End
  <1> QED BY <1>1, <1>2 DEF Report

\* Acting on swaps: a claim or a refund that succeeds, fails, or whose answer is lost.
LEMMA ActInv ==
    ASSUME SwapInv, NEW p \in Proc, UNCHANGED page,
           Act(p) \/ ClaimSucceeds(p) \/ ClaimFails(p) \/ ClaimLost(p)
           \/ RefundStore(p) \/ RefundSucceeds(p) \/ RefundFails(p)
    PROVE  SwapInv'
  <1> DEFINE s == proc[p].swap
  <1>0. proc[p] \in Request /\ RequestKnows(proc[p]) /\ HasSwap(proc[p])
        /\ proc \in [Proc -> Request] /\ TableTypes
        /\ EventTypes = {"swap.claimed", "swap.refunded", "swap.failed"}
    BY Requests, Tables DEF EventTypes
  <1>1. Fault => faults' \in 0..MaxFaults
    BY <1>0, SwapAssumption DEF Fault, TableTypes
  <1>2. UNCHANGED faults => faults' \in 0..MaxFaults
    BY <1>0 DEF TableTypes
  <1>3. \A event : Report(p, event) => events' \in {events, events \cup {<<s, event>>}}
    BY DEF Report, emit
  <1>4. CASE Act(p)
    <2>1. UNCHANGED <<direction, page>> /\ TableTypes' /\ \A x \in Swap : SwapMoves(x) /\ Told(x)'
      BY <1>0, <1>4, SameSwaps DEF Act, TableTypes
    <2>2. CASE End(p)
      BY <2>1, <2>2, EndInv DEF End
    <2>3. ASSUME NEW x \in Swap, proc[p].found[x] # None,
                 proc' = [proc EXCEPT ![p].found[x] = None, ![p].swap = x,
                                      ![p].pc = IF proc[p].found[x] = "processing"
                                                THEN "claim" ELSE "refundGet"]
          PROVE  SwapInv'
      <3> DEFINE pc == IF proc[p].found[x] = "processing" THEN "claim" ELSE "refundGet"
                 r == [proc[p] EXCEPT !.found[x] = None, !.swap = x, !.pc = pc]
      <3>1. proc' = [proc EXCEPT ![p] = r] /\ pc \in {"claim", "refundGet"}
        BY <2>3
      <3> HIDE DEF pc
      <3>2. /\ r \in Request /\ r.pc = pc /\ r.swap = x /\ r.todo = proc[p].todo
            /\ r.found = [proc[p].found EXCEPT ![x] = None]
            /\ proc[p].found \in [Swap -> {"processing", "expired", None}]
        BY <1>0, <3>1 DEF Request, Pcs
      <3> HIDE DEF r
      <3>3. Listed(r) /\ x # None /\ stored[x] # None
        BY <1>0, <2>3, <3>2, SwapAssumption DEF RequestKnows, Listed
      <3> QED BY <2>1, <3>1, <3>2, <3>3, RequestGoes
    <2> QED BY <1>4, <2>2, <2>3 DEF Act
  <1>5. CASE ClaimSucceeds(p) \/ ClaimLost(p)
    <2> DEFINE st == "clientredeeming"
    <2>1. /\ s \in Swap /\ remote[s] = "serverfunded" /\ remote[s] # None
          /\ remote' = [remote EXCEPT ![s] = st] /\ faults' \in 0..MaxFaults
          /\ UNCHANGED <<direction, paid, stored, up, webhooks>>
      BY <1>1, <1>2, <1>5, AtWork DEF ClaimSucceeds, ClaimLost, Claimable
    <2>2. /\ st \in Statuses /\ st # None /\ st \in Redeemed
          /\ remote[s] \notin SUCCESS /\ remote[s] \notin Redeemed /\ remote[s] \notin ClientRefunded
      BY <2>1, SwapAssumption DEF Statuses, Redeemed, SUCCESS, ClientRefunded
    <2>3. PICK event \in {"swap.claimed", "swap.failed"} : Report(p, event)
      BY <1>5 DEF ClaimSucceeds, ClaimLost
    <2>4. event \in EventTypes /\ events' \in {events, events \cup {<<s, event>>}} /\ event # "swap.refunded"
      BY <1>0, <1>3, <2>3
    <2> HIDE DEF st
    <2>5. TableTypes' /\ \A x \in Swap : SwapMoves(x) /\ Told(x)'
      BY <2>1, <2>2, <2>4, RemoteSwap
    <2> QED BY <2>1, <2>3, <2>5, Reported
  <1>6. CASE RefundSucceeds(p)
    <2> DEFINE st == Refunded(s)
    <2>1. /\ s \in Swap /\ remote[s] # None
          /\ remote[s] \in {"expired", "clientfundedtoolate", "clientinvalidfunded", "clientfundedserverrefunded"}
          /\ remote' = [remote EXCEPT ![s] = st] /\ faults' \in 0..MaxFaults
          /\ UNCHANGED <<direction, paid, stored, up, webhooks>>
      BY <1>2, <1>6, AtWork DEF RefundSucceeds, Refundable
    <2>2. /\ st \in Statuses /\ st # None /\ st \in ClientRefunded
          /\ remote[s] \notin SUCCESS /\ remote[s] \notin Redeemed /\ remote[s] \notin ClientRefunded
      BY <2>1, SwapAssumption DEF Statuses, Redeemed, SUCCESS, ClientRefunded, Refunded
    <2>3. Report(p, "swap.refunded")
      BY <1>6 DEF RefundSucceeds
    <2>4. "swap.refunded" \in EventTypes /\ events' \in {events, events \cup {<<s, "swap.refunded">>}}
      BY <1>0, <1>3, <2>3
    <2> HIDE DEF st
    <2>5. TableTypes' /\ \A x \in Swap : SwapMoves(x) /\ Told(x)'
      BY <2>1, <2>2, <2>4, RemoteSwap
    <2> QED BY <2>1, <2>3, <2>5, Reported
  <1>7. CASE ClaimFails(p) \/ RefundFails(p)
    <2>1. s \in Swap /\ faults' \in 0..MaxFaults /\ Report(p, "swap.failed")
          /\ UNCHANGED <<remote, direction, paid, stored, up, webhooks>>
      BY <1>1, <1>2, <1>7, AtWork DEF ClaimFails, RefundFails
    <2>2. TableTypes' /\ \A x \in Swap : SwapMoves(x) /\ Told(x)'
      BY <1>3, <2>1, ToldFailure
    <2> QED BY <2>1, <2>2, Reported
  <1>8. CASE RefundStore(p)
    <2>1. /\ s \in Swap /\ stored[s] # None /\ proc[p].seen \in Statuses /\ proc[p].seen # None
          /\ proc[p].seen \in SUCCESS => remote[s] \in SUCCESS
          /\ s # None
      BY <1>8, AtWork, SwapAssumption DEF RefundStore
    <2>2. /\ stored' = [stored EXCEPT ![s] = proc[p].seen]
          /\ UNCHANGED <<remote, direction, paid, up, webhooks, faults>>
      BY <1>8 DEF RefundStore
    <2>3. events' \in {events, events \cup {<<s, "swap.failed">>}}
      BY <1>3, <1>8 DEF RefundStore
    <2>4. TableTypes' /\ \A x \in Swap : SwapMoves(x) /\ Told(x)'
      BY <2>1, <2>2, <2>3, StoreSwap
    <2>5. CASE Report(p, "swap.failed")
      BY <2>2, <2>4, <2>5, Reported
    <2>6. CASE proc' = [proc EXCEPT ![p].pc = "refund", ![p].seen = None]
      <3> DEFINE r == [proc[p] EXCEPT !.pc = "refund", !.seen = None]
      <3>1. proc' = [proc EXCEPT ![p] = r]
        BY <2>6
      <3>2. /\ r \in Request /\ r.pc = "refund" /\ r.swap = s
            /\ r.todo = proc[p].todo /\ r.found = proc[p].found
        BY <1>0 DEF Request, Pcs
      <3> HIDE DEF r
      <3>3. Listed(r)
        BY <1>0, <3>2 DEF RequestKnows, Listed
      <3> QED BY <2>1, <2>2, <2>4, <3>1, <3>2, <3>3, RequestGoes
    <2> QED BY <1>8, <2>5, <2>6 DEF RefundStore
  <1> QED BY <1>4, <1>5, <1>6, <1>7, <1>8

\* The service, the user and others move a swap.
LEMMA RemoteInv ==
    ASSUME SwapInv, UNCHANGED page, NEW s \in Swap,
           ServiceStep(s) \/ UserRefunds(s) \/ RedeemForPage(s)
    PROVE  SwapInv'
  <1>1. \E st \in Statuses :
           /\ remote' = [remote EXCEPT ![s] = st] /\ remote[s] # None /\ st # None
           /\ remote[s] \in SUCCESS => st \in SUCCESS
           /\ remote[s] \in Redeemed => st \in Redeemed
           /\ remote[s] \in ClientRefunded => st \in ClientRefunded
    <2>1. CASE ServiceStep(s)
      <3>1. PICK e \in Edges(s) : remote[s] = e[1] /\ remote' = [remote EXCEPT ![s] = e[2]]
        BY <2>1 DEF ServiceStep
      <3> DEFINE st == e[2]
      <3>2. /\ st \in Statuses /\ remote[s] \in Statuses
            /\ remote[s] \in SUCCESS => st \in SUCCESS
            /\ remote[s] \in Redeemed => st \in Redeemed
            /\ remote[s] \notin ClientRefunded
        BY <3>1 DEF Edges, Statuses, SUCCESS, Redeemed, ClientRefunded
      <3> QED BY <3>1, <3>2, SwapAssumption
    <2>2. CASE UserRefunds(s)
      <3> DEFINE st == Refunded(s)
      <3>1. /\ remote[s] \in {"expired", "clientfundedtoolate", "clientinvalidfunded",
                               "clientfundedserverrefunded"}
            /\ remote' = [remote EXCEPT ![s] = st]
        BY <2>2 DEF UserRefunds, Refundable
      <3>2. st \in Statuses /\ remote[s] \in Statuses /\ remote[s] \notin SUCCESS
            /\ remote[s] \notin Redeemed /\ remote[s] \notin ClientRefunded
        BY <3>1 DEF Refunded, Statuses, SUCCESS, Redeemed, ClientRefunded
      <3> HIDE DEF st
      <3> QED BY <3>1, <3>2, SwapAssumption
    <2>3. CASE RedeemForPage(s)
      <3>1. remote[s] = "serverfunded" /\ remote' = [remote EXCEPT ![s] = "clientredeeming"]
        BY <2>3 DEF RedeemForPage, Claimable
      <3>2. {"serverfunded", "clientredeeming"} \subseteq Statuses
            /\ remote[s] \notin SUCCESS /\ remote[s] \notin Redeemed /\ remote[s] \notin ClientRefunded
        BY <3>1 DEF Statuses, SUCCESS, Redeemed, ClientRefunded
      <3> QED BY <3>1, <3>2, SwapAssumption
    <2> QED BY <2>1, <2>2, <2>3
  <1>2. UNCHANGED <<direction, paid, stored, up, webhooks, events, proc, faults>>
    BY DEF ServiceStep, UserRefunds, RedeemForPage
  <1>3. TableTypes' /\ \A x \in Swap : SwapMoves(x) /\ Told(x)'
    <2>1. PICK st \in Statuses :
           /\ remote' = [remote EXCEPT ![s] = st] /\ remote[s] # None /\ st # None
           /\ remote[s] \in SUCCESS => st \in SUCCESS
           /\ remote[s] \in Redeemed => st \in Redeemed
           /\ remote[s] \in ClientRefunded => st \in ClientRefunded
      BY <1>1
    <2>2. TableTypes'
      BY <1>2, <2>1, Tables DEF TableTypes
    <2>3. \A x \in Swap : SwapMoves(x) /\ Told(x)'
      BY <1>2, <2>1, Tables DEF SwapMoves, SwapKnown, Told, TableTypes
    <2> QED BY <2>2, <2>3
  <1>4. proc' \in [Proc -> Request] /\ page' \in [Tab -> View]
    BY <1>2 DEF SwapInv, SwapTypeOK
  <1> QED BY <1>2, <1>3, <1>4, StepInv

\* Requests start, and the poll does.
LEMMA RequestStarts ==
    ASSUME SwapInv, UNCHANGED page, NEW p \in Proc, NEW s \in Swap,
           \/ StartSend(p, s) \/ StartReceive(p, s) \/ StartStatus(p, s) \/ StartClaim(p, s)
           \/ StartRefund(p, s)
    PROVE  SwapInv'
  <1>1. Host \in {"cli", "daemon"} /\ None \notin Swap
    BY SwapAssumption DEF Host
  <1>2. {"create", "get", "claim"} \subseteq Pcs
        /\ {"send", "receive", "status", "claim", "refund"} \subseteq Ops
    BY DEF Pcs, Ops
  <1>3. CASE StartSend(p, s)
    BY <1>1, <1>2, <1>3, StartInv DEF StartSend, StartRequest
  <1>4. CASE StartReceive(p, s)
    <2>1. PICK host \in {"cli", Host} : StartRequest(p, "receive", "create", s, host)
      BY <1>4 DEF StartReceive
    <2> QED BY <1>1, <1>2, <2>1, StartInv DEF StartRequest
  <1>5. CASE StartStatus(p, s)
    BY <1>1, <1>2, <1>5, StartInv DEF StartStatus, StartRequest
  <1>6. CASE StartClaim(p, s)
    BY <1>1, <1>2, <1>6, StartInv DEF StartClaim, StartRequest
  <1>7. CASE StartRefund(p, s)
    BY <1>1, <1>2, <1>7, StartInv DEF StartRefund, StartRequest
  <1> QED BY <1>3, <1>4, <1>5, <1>6, <1>7

LEMMA ListStarts ==
    ASSUME SwapInv, UNCHANGED page, NEW p \in Proc, StartList(p) \/ Poll
    PROVE  SwapInv'
  <1>1. "choose" \in Pcs /\ {"list", "poll"} \subseteq Ops /\ monitor \in Proc
    BY SwapAssumption DEF Pcs, Ops
  <1>2. CASE StartList(p)
    BY <1>1, <1>2, StartInv DEF StartList, StartRequest
  <1>3. CASE Poll
    BY <1>1, <1>3, StartInv DEF Poll
  <1> QED BY <1>2, <1>3

\* The daemon starts and ends, takes and drops webhooks; a CLI process is killed.
LEMMA DaemonInv ==
    ASSUME SwapInv, UNCHANGED page,
           \/ DaemonStart \/ DaemonEnds \/ \E h \in Subscription : Register(h) \/ Unregister(h)
           \/ \E p \in Proc : CliEnds(p)
    PROVE  SwapInv'
  <1>0. TableTypes /\ page \in [Tab -> View] /\ proc \in [Proc -> Request]
    BY Tables DEF SwapInv, SwapTypeOK
  <1>1. CASE DaemonStart \/ \E h \in Subscription : Register(h) \/ Unregister(h)
    <2>1. UNCHANGED <<remote, direction, paid, stored, events, proc, faults>>
          /\ up' \in BOOLEAN /\ webhooks' \subseteq Subscription
      BY <1>0, <1>1 DEF DaemonStart, Register, Unregister, TableTypes
    <2>2. TableTypes' /\ \A x \in Swap : SwapMoves(x) /\ Told(x)'
      BY <1>0, <2>1, SameSwaps DEF TableTypes
    <2> QED BY <1>0, <2>1, <2>2, StepInv
  <1>2. CASE DaemonEnds
    <2>1. TableTypes' /\ \A x \in Swap : SwapMoves(x) /\ Told(x)'
      BY <1>0, <1>2, SameSwaps DEF DaemonEnds, TableTypes
    <2>2. Idle \in Request
      BY SwapAssumption DEF Idle, Request, Ops, Pcs
    <2>3. proc' \in [Proc -> Request] /\ \A p \in Proc : proc'[p] = proc[p] \/ proc'[p] = Idle
      BY <1>0, <1>2, <2>2 DEF DaemonEnds
    <2>4. \A p \in Proc : proc'[p] = proc[p] \/ (RequestKnows(proc[p]) /\ HasSwap(proc[p]))'
      BY <2>3, Ended
    <2> QED BY <1>0, <1>2, <2>1, <2>3, <2>4, StepInv DEF DaemonEnds
  <1>3. ASSUME NEW p \in Proc, CliEnds(p) PROVE SwapInv'
    <2>1. TableTypes' /\ \A x \in Swap : SwapMoves(x) /\ Told(x)'
      BY <1>0, <1>3, SameSwaps DEF CliEnds, TableTypes
    <2> QED BY <1>3, <2>1, EndInv DEF CliEnds, End
  <1> QED BY <1>1, <1>2, <1>3

\* A step of a tab that leaves it with what is true.
LEMMA TabGoes ==
    ASSUME SwapInv, NEW g \in Tab, NEW v \in View, page' = [page EXCEPT ![g] = v],
           UNCHANGED <<direction, proc>>, TableTypes', \A s \in Swap : SwapMoves(s) /\ Told(s)',
           v.step \in {"approve", "fund", "waiting", "done"} \/ (v.step = "ready" /\ v.funding) =>
               v.swap # None,
           v.swap # None => direction[v.swap] = "stablecoin_to_btc",
           v.step \in {"waiting", "done"} /\ v.mined = "ok" => paid'[v.swap],
           v.step = "done" /\ ~v.funding => remote'[v.swap] \in SUCCESS
    PROVE  SwapInv'
  <1>1. page' \in [Tab -> View] /\ page'[g] = v /\ \A t \in Tab : t # g => page'[t] = page[t]
    BY DEF SwapInv, SwapTypeOK
  <1>2. PageTrue(page[g])'
    BY <1>1 DEF PageTrue, PageKnows
  <1>3. proc' \in [Proc -> Request]
    BY DEF SwapInv, SwapTypeOK
  <1> QED BY <1>1, <1>2, <1>3, StepInv

\* A step that shows a page without a swap.
LEMMA TabShows ==
    ASSUME SwapInv, NEW g \in Tab, NEW step \in {"closed", "ready", "already-paid", "link-expired",
                                                 "creating-swap", "failed"},
           page' = [page EXCEPT ![g] = Shows(step)], UNCHANGED swapVars
    PROVE  SwapInv'
  <1> DEFINE v == Shows(step)
  <1>1. v \in View /\ v.step = step /\ v.swap = None /\ ~v.funding
    BY DEF Shows, View, Steps
  <1>2. TableTypes' /\ \A x \in Swap : SwapMoves(x) /\ Told(x)'
    BY Tables, SameSwaps DEF swapVars, TableTypes
  <1>3. page' = [page EXCEPT ![g] = v] /\ UNCHANGED <<direction, proc>>
    BY DEF swapVars
  <1> HIDE DEF v
  <1> QED BY <1>1, <1>2, <1>3, TabGoes

\* The tab is ready to pay a swap that a payer funds.
LEMMA TabReady ==
    ASSUME SwapInv, NEW g \in Tab, NEW s \in Swap, ReadyToPay(g, s), UNCHANGED swapVars,
           direction[s] = "stablecoin_to_btc"
    PROVE  SwapInv'
  <1> DEFINE v == [Shows("ready") EXCEPT !.swap = s, !.funding = TRUE]
  <1>1. v \in View /\ v.step = "ready" /\ v.swap = s /\ s # None
    BY SwapAssumption DEF Shows, View, Steps
  <1>2. TableTypes' /\ \A x \in Swap : SwapMoves(x) /\ Told(x)'
    BY Tables, SameSwaps DEF swapVars, TableTypes
  <1>3. page' = [page EXCEPT ![g] = v] /\ UNCHANGED <<direction, proc>>
    BY DEF swapVars, ReadyToPay
  <1> HIDE DEF v
  <1> QED BY <1>1, <1>2, <1>3, TabGoes

\* Opening a link, connecting, creating, approving, funding, polling, closing.
LEMMA TabInv ==
    ASSUME SwapInv, NEW g \in Tab, TabNext(g)
    PROVE  SwapInv'
  <1>0. /\ page[g] \in View /\ PageKnows(page[g]) /\ page \in [Tab -> View] /\ TableTypes
        /\ page[g].swap \in Swap \cup {None} /\ None \notin Swap
    BY Tables, SwapAssumption DEF SwapInv, SwapTypeOK, View
  <1>1. UNCHANGED swapVars =>
           UNCHANGED <<direction, proc>> /\ TableTypes' /\ \A x \in Swap : SwapMoves(x) /\ Told(x)'
    BY <1>0, SameSwaps DEF swapVars, TableTypes
  <1>2. ASSUME NEW s \in Swap, OpenIdLink(g, s) PROVE SwapInv'
    <2>1. /\ UNCHANGED swapVars /\ direction[s] = "stablecoin_to_btc"
          /\ \/ setPage(g, "already-paid") \/ setPage(g, "link-expired")
             \/ ReadyToCreate(g) \/ ReadyToPay(g, s)
      BY <1>2 DEF OpenIdLink
    <2>2. CASE setPage(g, "already-paid") \/ setPage(g, "link-expired") \/ ReadyToCreate(g)
      BY <2>1, <2>2, TabShows DEF setPage, ReadyToCreate
    <2>3. CASE ReadyToPay(g, s)
      BY <2>1, <2>3, TabReady
    <2> QED BY <2>1, <2>2, <2>3
  <1>3. CASE OpenOldLink(g)
    <2>1. CASE ReadyToCreate(g)
      BY <1>3, <2>1, TabShows DEF OpenOldLink, setPage, ReadyToCreate
    <2>2. CASE ~ReadyToCreate(g)
      BY <1>3, <2>2, TabReady DEF OpenOldLink
    <2> QED BY <2>1, <2>2
  <1>4. CASE ShowError(g) \/ CloseTab(g)
    BY <1>4, TabShows DEF ShowError, CloseTab, setPage
  <1>5. CASE ConnectWallet(g)
    <2>1. CASE setPage(g, "creating-swap")
      BY <1>5, <2>1, TabShows DEF ConnectWallet, setPage
    <2>2. CASE page[g].funding /\ setStep(g, "approve")
      <3> DEFINE v == [page[g] EXCEPT !.step = "approve"]
      <3>1. v \in View /\ v.step = "approve" /\ v.swap = page[g].swap
        BY <1>0 DEF View, Steps
      <3>2. page' = [page EXCEPT ![g] = v] /\ UNCHANGED swapVars
        BY <1>5, <2>2 DEF setStep, ConnectWallet
      <3>3. v.swap # None /\ direction[v.swap] = "stablecoin_to_btc"
        BY <1>0, <1>5, <2>2, <3>1 DEF ConnectWallet, PageKnows
      <3> HIDE DEF v
      <3> QED BY <1>1, <3>1, <3>2, <3>3, TabGoes
    <2> QED BY <1>5, <2>1, <2>2 DEF ConnectWallet
  <1>6. CASE CreateSwapOnPage(g)
    <2>1. PICK s \in Swap :
             /\ remote[s] = None /\ direction[s] = "stablecoin_to_btc"
             /\ remote' = [remote EXCEPT ![s] = "pending"]
             /\ page' = [page EXCEPT ![g].step = "approve", ![g].swap = s]
      BY <1>6 DEF CreateSwapOnPage
    <2>2. UNCHANGED <<direction, paid, stored, up, webhooks, events, proc, faults>>
      BY <1>6 DEF CreateSwapOnPage
    <2> DEFINE v == [page[g] EXCEPT !.step = "approve", !.swap = s]
    <2>3. v \in View /\ v.step = "approve" /\ v.swap = s
      BY <1>0 DEF View, Steps
    <2>4. page' = [page EXCEPT ![g] = v]
      BY <2>1
    <2>5. TableTypes'
      BY <1>0, <2>1, <2>2 DEF TableTypes, Statuses
    <2>6. \A x \in Swap : SwapMoves(x) /\ Told(x)'
      BY <1>0, <2>1, <2>2, Tables, SwapAssumption
         DEF TableTypes, SwapMoves, SwapKnown, Told, SUCCESS, Redeemed, ClientRefunded, Statuses
    <2> HIDE DEF v
    <2> QED BY <1>0, <2>1, <2>2, <2>3, <2>4, <2>5, <2>6, TabGoes
  <1>7. CASE Approve(g)
    <2> DEFINE v == [page[g] EXCEPT !.step = "fund"]
    <2>1. v \in View /\ v.step = "fund" /\ v.swap = page[g].swap
      BY <1>0 DEF View, Steps
    <2>2. page' = [page EXCEPT ![g] = v] /\ UNCHANGED swapVars
      BY <1>7 DEF setStep, Approve
    <2>3. v.swap # None /\ direction[v.swap] = "stablecoin_to_btc"
      BY <1>0, <1>7, <2>1 DEF Approve, PageKnows
    <2> HIDE DEF v
    <2> QED BY <1>1, <2>1, <2>2, <2>3, TabGoes
  <1>8. CASE Fund(g)
    <2> DEFINE s == page[g].swap
               after == IF page[g].funding THEN "done" ELSE "waiting"
    <2>1. s \in Swap /\ direction[s] = "stablecoin_to_btc"
      BY <1>0, <1>8 DEF Fund, PageKnows
    <2>2. PICK mined \in {"ok", "reverted"} :
             /\ page' = [page EXCEPT ![g].step = after, ![g].mined = mined]
             /\ IF mined = "ok" THEN Pay(s) ELSE UNCHANGED <<paid, remote>>
      BY <1>8 DEF Fund
    <2>3. UNCHANGED <<direction, stored, up, webhooks, events, proc, faults>>
      BY <1>8 DEF Fund
    <2>4. TableTypes'
      BY <1>0, <2>1, <2>2, <2>3 DEF TableTypes, Pay, Statuses
    <2>5. /\ \A x \in Swap : SwapMoves(x) /\ Told(x)'
          /\ mined = "ok" => paid'[s]
      BY <1>0, <2>1, <2>2, <2>3, Tables, SwapAssumption
         DEF TableTypes, Pay, SwapMoves, SwapKnown, Told, SUCCESS, Redeemed, ClientRefunded, Statuses
    <2> DEFINE v == [page[g] EXCEPT !.step = after, !.mined = mined]
    <2>6. /\ v \in View /\ v.step = after /\ v.swap = s /\ v.mined = mined
          /\ v.funding = page[g].funding
      BY <1>0 DEF View, Steps
    <2>7. page' = [page EXCEPT ![g] = v]
      BY <2>2
    <2>8. v.step = "done" => v.funding
      BY <2>6
    <2> HIDE DEF v
    <2> QED BY <1>0, <2>1, <2>3, <2>4, <2>5, <2>6, <2>7, <2>8, TabGoes
  <1>9. CASE PollSwapStatus(g)
    <2>1. CASE setPage(g, "failed")
      BY <1>9, <2>1, TabShows DEF PollSwapStatus, setPage
    <2>2. CASE remote[page[g].swap] \in SUCCESS /\ setStep(g, "done")
      <3> DEFINE v == [page[g] EXCEPT !.step = "done"]
      <3>1. v \in View /\ v.step = "done" /\ v.swap = page[g].swap /\ v.mined = page[g].mined
        BY <1>0 DEF View, Steps
      <3>2. page' = [page EXCEPT ![g] = v] /\ UNCHANGED swapVars
        BY <1>9, <2>2 DEF setStep, PollSwapStatus
      <3>3. /\ v.swap # None /\ direction[v.swap] = "stablecoin_to_btc"
            /\ v.mined = "ok" => paid'[v.swap]
            /\ remote'[v.swap] \in SUCCESS
        BY <1>0, <1>9, <2>2, <3>1, <3>2 DEF PollSwapStatus, PageKnows, swapVars
      <3> HIDE DEF v
      <3> QED BY <1>1, <3>1, <3>2, <3>3, TabGoes
    <2> QED BY <1>9, <2>1, <2>2 DEF PollSwapStatus
  <1> QED BY <1>2, <1>3, <1>4, <1>5, <1>6, <1>7, <1>8, <1>9 DEF TabNext

\* At the start nothing exists, nothing is told and nothing is shown.
LEMMA SwapInitInv ==
    ASSUME PayPageInit
    PROVE  SwapInv
  <1>1. \A s \in Swap : remote[s] = None /\ stored[s] = None /\ ~paid[s]
    BY DEF PayPageInit, SwapsInit
  <1>2. (\A p \in Proc : proc[p] = Idle) /\ (\A g \in Tab : page[g] = Shows("closed"))
    BY DEF PayPageInit, SwapsInit
  <1>3. Idle \in Request /\ Shows("closed") \in View
    BY SwapAssumption DEF Idle, Request, Ops, Pcs, Shows, View, Steps
  <1>4. SwapTypeOK
    <2>1. \A p \in Proc : HasSwap(proc[p])
      BY <1>2 DEF HasSwap, Idle
    <2>2. faults \in 0..MaxFaults
      BY SwapAssumption DEF PayPageInit, SwapsInit
    <2> QED BY <1>3, <2>1, <2>2 DEF PayPageInit, SwapsInit, SwapTypeOK, HasSwap
  <1>5. EventsAreTrue /\ PaidIsStored /\ \A s \in Swap : SwapKnown(s)
    BY <1>1, SwapAssumption
       DEF PayPageInit, SwapsInit, EventsAreTrue, PaidIsStored, SwapKnown, SUCCESS, Statuses
  <1>8. ClaimedIsFinal
    <2>1. \A s \in Swap : Category(s) = "none"
      BY <1>1, SwapAssumption DEF Category, mapSwapStatus, Statuses
    <2> QED BY <2>1 DEF ClaimedIsFinal
  <1>6. \A p \in Proc : RequestKnows(proc[p])
    BY <1>2 DEF RequestKnows, Idle
  <1>7. SentIsTrue /\ \A g \in Tab : PageKnows(page[g])
    BY <1>2 DEF SentIsTrue, PageKnows, Shows
  <1> QED BY <1>4, <1>5, <1>6, <1>7, <1>8 DEF SwapInv

\* Every step keeps the invariant.
LEMMA SwapStepInv ==
    ASSUME SwapInv, [PayPageNext]_vars
    PROVE  SwapInv'
  <1>1. CASE SwapsNext /\ UNCHANGED page
    <2>1. ASSUME NEW p \in Proc, Continue(p) PROVE SwapInv'
      BY <1>1, <2>1, CreateInv, LookInv, StoreInv, ActInv DEF Continue
    <2> QED BY <1>1, <2>1, RemoteInv, RequestStarts, ListStarts, DaemonInv, SwapAssumption
            DEF SwapsNext
  <1>2. ASSUME NEW g \in Tab, TabNext(g) PROVE SwapInv'
    BY <1>2, TabInv
  <1>3. ASSUME NEW s \in Swap, RedeemForPage(s) PROVE SwapInv'
    BY <1>3, RemoteInv DEF RedeemForPage
  <1>4. CASE UNCHANGED vars
    <2>1. UNCHANGED <<remote, direction, paid, stored, up, webhooks, events, proc, faults, page>>
      BY <1>4 DEF vars, swapVars
    <2>2. TableTypes' /\ \A x \in Swap : SwapMoves(x) /\ Told(x)'
      BY <2>1, Tables, SameSwaps DEF TableTypes
    <2>3. proc' \in [Proc -> Request] /\ page' \in [Tab -> View]
      BY <2>1 DEF SwapInv, SwapTypeOK
    <2> QED BY <2>1, <2>2, <2>3, StepInv
  <1> QED BY <1>1, <1>2, <1>3, <1>4 DEF PayPageNext

\* The invariant of the swaps, the monitor and the page, which the others are parts of.
THEOREM SwapInvariant == PayPageSpec => []SwapInv
  <1>1. PayPageInit => SwapInv
    BY SwapInitInv
  <1>2. SwapInv /\ [PayPageNext]_vars => SwapInv'
    BY SwapStepInv
  <1> QED BY <1>1, <1>2, PTL DEF PayPageSpec

\* The variables have their types, and a request has a swap where its code uses one
\* (getSwapStatus, claimSwap, refundSwap are never called without an id).
THEOREM SwapTypeCorrect == PayPageSpec => []SwapTypeOK
  <1>1. SwapInv => SwapTypeOK
    BY DEF SwapInv
  <1> QED BY <1>1, SwapInvariant, PTL

\* What SwapMonitor.emit tells the webhooks is so, however many requests run.
THEOREM EventsAreAlwaysTrue == PayPageSpec => []EventsAreTrue
  <1>1. SwapInv => EventsAreTrue
    BY DEF SwapInv
  <1> QED BY <1>1, SwapInvariant, PTL

\* What GET /swaps and `cash swaps` call claimed is redeemed.
THEOREM ClaimedIsAlwaysFinal == PayPageSpec => []ClaimedIsFinal
  <1>1. SwapInv => ClaimedIsFinal
    BY DEF SwapInv
  <1> QED BY <1>1, SwapInvariant, PTL

\* swapBtcToStablecoin never pays for a swap that the store does not have.
THEOREM PaidIsAlwaysStored == PayPageSpec => []PaidIsStored
  <1>1. SwapInv => PaidIsStored
    BY DEF SwapInv
  <1> QED BY <1>1, SwapInvariant, PTL

\* What the payment page calls sent is paid for, or redeemed.
THEOREM SentIsAlwaysTrue == PayPageSpec => []SentIsTrue
  <1>1. SwapInv => SentIsTrue
    BY DEF SwapInv
  <1> QED BY <1>1, SwapInvariant, PTL

-----------------------------------------------------------------------------
\* The refinement of SwapOutcome.  What it needs beyond SwapInv: before it is paid
\* for, a swap is only pending, or expired.
UnpaidIsPending == \A s \in Swap : ~paid[s] => remote[s] \in {None, "pending", "expired"}

\* What a step may do to the outcome of swap s, and who may be told of it.
Pays(s) == Pay(s) /\ UNCHANGED events

Pending(s) ==
    /\ remote[s] = None
    /\ remote' = [remote EXCEPT ![s] = "pending"]
    /\ UNCHANGED <<paid, events>>

ServiceMoves(s) ==
    /\ \E e \in Edges(s) : remote[s] = e[1] /\ remote' = [remote EXCEPT ![s] = e[2]]
    /\ UNCHANGED <<paid, events>>

Redeems(s) ==
    /\ Claimable(s)
    /\ remote' = [remote EXCEPT ![s] = "clientredeeming"]
    /\ events' \in {events, events \cup {<<s, "swap.claimed">>}, events \cup {<<s, "swap.failed">>}}
    /\ UNCHANGED paid

Refunds(s) ==
    /\ Refundable(s)
    /\ remote' = [remote EXCEPT ![s] = Refunded(s)]
    /\ events' \in {events, events \cup {<<s, "swap.refunded">>}}
    /\ UNCHANGED paid

Nothing ==
    /\ UNCHANGED <<remote, paid>>
    /\ events' = events \/ \E s \in Swap : events' = events \cup {<<s, "swap.failed">>}

SwapEffect(s) == Pays(s) \/ Pending(s) \/ ServiceMoves(s) \/ Redeems(s) \/ Refunds(s)

\* A report adds its event or none.
LEMMA ReportEvents ==
    ASSUME NEW p \in Proc, NEW event, Report(p, event)
    PROVE  events' \in {events, events \cup {<<proc[p].swap, event>>}}
  BY DEF Report, emit

\* A step of a request, of the monitor, or of one of their processes.
LEMMA ContinueEffect ==
    ASSUME SwapInv, NEW p \in Proc, Continue(p)
    PROVE  Nothing \/ \E s \in Swap : SwapEffect(s)
  <1>0. /\ proc[p].swap \in Swap \cup {None}
        /\ proc[p].pc \in {"create", "fund", "get", "store", "claim", "refundGet",
                           "refundStore", "refund"} => proc[p].swap \in Swap
    BY Requests DEF Request, HasSwap
  <1>1. CASE CreateBtcSwap(p) \/ CreateEvmSwap(p)
    <2>1. proc[p].swap \in Swap
      BY <1>0, <1>1 DEF CreateBtcSwap, CreateEvmSwap
    <2>2. Pending(proc[p].swap)
      BY <1>1 DEF CreateBtcSwap, CreateEvmSwap, Pending
    <2> QED BY <2>1, <2>2 DEF SwapEffect
  <1>2. CASE FundSwap(p)
    <2>1. proc[p].swap \in Swap
      BY <1>0, <1>2 DEF FundSwap
    <2>2. Pays(proc[p].swap)
      BY <1>2 DEF FundSwap, Pays
    <2> QED BY <2>1, <2>2 DEF SwapEffect
  <1>3. CASE \/ CreateFails(p) \/ ChoosePending(p) \/ NextPending(p) \/ Get(p) \/ Store(p)
             \/ GetFails(p) \/ Act(p)
    BY <1>3 DEF CreateFails, ChoosePending, NextPending, Get, Store, GetFails, Act, Nothing
  <1>4. CASE ClaimSucceeds(p) \/ ClaimLost(p)
    <2>1. proc[p].swap \in Swap
      BY <1>0, <1>4 DEF ClaimSucceeds, ClaimLost
    <2>2. Redeems(proc[p].swap)
      BY <1>4, ReportEvents DEF ClaimSucceeds, ClaimLost, Redeems
    <2> QED BY <2>1, <2>2 DEF SwapEffect
  <1>5. CASE RefundSucceeds(p)
    <2>1. proc[p].swap \in Swap
      BY <1>0, <1>5 DEF RefundSucceeds
    <2>2. Refunds(proc[p].swap)
      BY <1>5, ReportEvents DEF RefundSucceeds, Refunds
    <2> QED BY <2>1, <2>2 DEF SwapEffect
  <1>6. CASE ClaimFails(p) \/ RefundStore(p) \/ RefundFails(p)
    <2>1. proc[p].swap \in Swap
      BY <1>0, <1>6 DEF ClaimFails, RefundStore, RefundFails
    <2>2. events' \in {events, events \cup {<<proc[p].swap, "swap.failed">>}}
      BY <1>6, ReportEvents DEF ClaimFails, RefundStore, RefundFails
    <2>3. UNCHANGED <<remote, paid>>
      BY <1>6 DEF ClaimFails, RefundStore, RefundFails
    <2> QED BY <2>1, <2>2, <2>3 DEF Nothing
  <1> QED BY <1>1, <1>2, <1>3, <1>4, <1>5, <1>6 DEF Continue

\* A step of a tab.
LEMMA TabEffect ==
    ASSUME SwapInv, NEW g \in Tab, TabNext(g)
    PROVE  Nothing \/ \E s \in Swap : SwapEffect(s)
  <1>1. CASE \/ (\E s \in Swap : OpenIdLink(g, s)) \/ OpenOldLink(g) \/ ShowError(g)
             \/ ConnectWallet(g) \/ Approve(g) \/ PollSwapStatus(g) \/ CloseTab(g)
    BY <1>1 DEF OpenIdLink, OpenOldLink, ShowError, ConnectWallet, Approve, PollSwapStatus,
                CloseTab, swapVars, Nothing
  <1>2. CASE CreateSwapOnPage(g)
    BY <1>2 DEF CreateSwapOnPage, Pending, SwapEffect
  <1>3. CASE Fund(g)
    <2>1. page[g].swap \in Swap
      BY <1>3 DEF Fund, SwapInv, SwapTypeOK, View, PageKnows
    <2>2. Pays(page[g].swap) \/ Nothing
      BY <1>3 DEF Fund, Pays, Nothing
    <2> QED BY <2>1, <2>2 DEF SwapEffect
  <1> QED BY <1>1, <1>2, <1>3 DEF TabNext

\* Any step.
LEMMA AnyEffect ==
    ASSUME SwapInv, [PayPageNext]_vars
    PROVE  Nothing \/ \E s \in Swap : SwapEffect(s)
  <1>1. ASSUME NEW s \in Swap, ServiceStep(s) \/ UserRefunds(s) \/ RedeemForPage(s)
        PROVE  SwapEffect(s)
    BY <1>1 DEF ServiceStep, UserRefunds, RedeemForPage, ServiceMoves, Refunds, Redeems, SwapEffect
  <1>2. ASSUME NEW p \in Proc, NEW s \in Swap,
               \/ StartSend(p, s) \/ StartReceive(p, s) \/ StartStatus(p, s)
               \/ StartClaim(p, s) \/ StartRefund(p, s)
        PROVE  Nothing
    BY <1>2 DEF StartSend, StartReceive, StartStatus, StartClaim, StartRefund, StartRequest, Nothing
  <1>3. CASE \/ \E p \in Proc : StartList(p) \/ CliEnds(p)
             \/ Poll \/ DaemonStart \/ DaemonEnds
             \/ \E h \in Subscription : Register(h) \/ Unregister(h)
    BY <1>3 DEF StartList, StartRequest, CliEnds, Poll, DaemonStart, DaemonEnds, Register,
                Unregister, Nothing
  <1>4. CASE \E p \in Proc : Continue(p)
    BY <1>4, ContinueEffect
  <1>5. CASE \E g \in Tab : TabNext(g)
    BY <1>5, TabEffect
  <1>6. CASE UNCHANGED vars
    BY <1>6 DEF vars, swapVars, Nothing
  <1> QED BY <1>1, <1>2, <1>3, <1>4, <1>5, <1>6 DEF PayPageNext, SwapsNext

\* The statuses of swaps and the outcomes that they stand for.
LEMMA OutcomeTypes ==
    ASSUME SwapInv
    PROVE  /\ remote \in [Swap -> Statuses \cup {None}]
           /\ paid \in [Swap -> BOOLEAN]
           /\ OutcomeOf(None) = "open"
           /\ None \notin Statuses
  BY SwapAssumption DEF SwapInv, SwapTypeOK, OutcomeOf, Redeemed, ClientRefunded, Statuses

LEMMA UnpaidInit == PayPageInit => UnpaidIsPending
  BY DEF PayPageInit, SwapsInit, UnpaidIsPending

LEMMA UnpaidNext ==
    ASSUME SwapInv, UnpaidIsPending, [PayPageNext]_vars PROVE UnpaidIsPending'
  <1>0. /\ remote \in [Swap -> Statuses \cup {None}] /\ paid \in [Swap -> BOOLEAN]
        /\ None \notin Statuses
    BY OutcomeTypes
  <1>1. CASE Nothing
    BY <1>1 DEF Nothing, UnpaidIsPending
  <1>2. ASSUME NEW s \in Swap, Pays(s) PROVE UnpaidIsPending'
    BY <1>0, <1>2 DEF Pays, Pay, UnpaidIsPending
  <1>3. ASSUME NEW s \in Swap, Pending(s) PROVE UnpaidIsPending'
    BY <1>0, <1>3 DEF Pending, UnpaidIsPending
  <1>4. ASSUME NEW s \in Swap, ServiceMoves(s) PROVE UnpaidIsPending'
    BY <1>0, <1>4 DEF ServiceMoves, Edges, UnpaidIsPending
  <1>5. ASSUME NEW s \in Swap, Redeems(s) \/ Refunds(s) PROVE UnpaidIsPending'
    <2>1. paid[s]
      BY <1>0, <1>5 DEF Redeems, Claimable, Refunds, Refundable, UnpaidIsPending, Statuses
    <2>2. UNCHANGED paid /\ \A x \in Swap \ {s} : remote'[x] = remote[x]
      BY <1>0, <1>5 DEF Redeems, Refunds
    <2> QED BY <2>1, <2>2 DEF UnpaidIsPending
  <1> QED BY <1>1, <1>2, <1>3, <1>4, <1>5, AnyEffect DEF SwapEffect

\* No swap gets anywhere before its client has paid.
THEOREM UnpaidIsAlwaysPending == PayPageSpec => []UnpaidIsPending
  <1>1. SwapInv /\ UnpaidIsPending /\ [PayPageNext]_vars => UnpaidIsPending'
    BY UnpaidNext
  <1> QED BY UnpaidInit, <1>1, SwapInvariant, PTL DEF PayPageSpec

\* What SwapOutcome sees of the state.
Outcomes == [s \in Swap |-> OutcomeOf(remote[s])]
ToldEnds == {e \in events : e[2] # "swap.failed"}

\* A step that keeps every outcome.
LEMMA OutcomeKept ==
    ASSUME SwapInv, NEW s \in Swap, NEW st, remote' = [remote EXCEPT ![s] = st],
           OutcomeOf(st) = OutcomeOf(remote[s])
    PROVE  Outcomes' = Outcomes
  <1>1. remote \in [Swap -> Statuses \cup {None}]
    BY OutcomeTypes
  <1>2. \A x \in Swap : OutcomeOf(remote[x])' = OutcomeOf(remote[x])
    BY <1>1 DEF OutcomeOf
  <1> QED BY <1>2 DEF Outcomes

\* A step that ends a swap, and tells of nothing but that.
LEMMA OutcomeEnds ==
    ASSUME SwapInv, NEW s \in Swap, NEW st, remote' = [remote EXCEPT ![s] = st],
           NEW end, NEW event, event # "swap.failed",
           OutcomeOf(remote[s]) = "open", OutcomeOf(st) = end,
           paid[s], UNCHANGED paid,
           events' \in {events, events \cup {<<s, event>>}, events \cup {<<s, "swap.failed">>}}
    PROVE  Outcome!Ends(s, end, event)
  <1>1. remote \in [Swap -> Statuses \cup {None}]
    BY OutcomeTypes
  <1>2. \A x \in Swap : OutcomeOf(remote[x])' = IF x = s THEN end ELSE OutcomeOf(remote[x])
    BY <1>1 DEF OutcomeOf
  <1>3. Outcomes' = [Outcomes EXCEPT ![s] = end]
    BY <1>2 DEF Outcomes
  <1>4. ToldEnds' \in {ToldEnds, ToldEnds \cup {<<s, event>>}}
    <2>1. CASE events' = events \/ events' = events \cup {<<s, "swap.failed">>}
      BY <2>1 DEF ToldEnds
    <2>2. CASE events' = events \cup {<<s, event>>}
      BY <2>2 DEF ToldEnds
    <2> QED BY <2>1, <2>2
  <1> QED BY <1>3, <1>4 DEF Outcome!Ends, Outcomes, ToldEnds

\* A step of the system is a step of SwapOutcome or leaves it unchanged.
LEMMA OutcomeStepRefined ==
    ASSUME SwapInv, UnpaidIsPending, [PayPageNext]_vars
    PROVE  [Outcome!OutcomeNext]_Outcome!outcomeVars
  <1>0. /\ remote \in [Swap -> Statuses \cup {None}] /\ paid \in [Swap -> BOOLEAN]
        /\ OutcomeOf(None) = "open" /\ None \notin Statuses
    BY OutcomeTypes
  <1>1. ASSUME UNCHANGED paid, Outcomes' = Outcomes, ToldEnds' = ToldEnds
        PROVE  [Outcome!OutcomeNext]_Outcome!outcomeVars
    BY <1>1 DEF Outcome!outcomeVars, Outcomes, ToldEnds
  <1>2. CASE Nothing
    <2>1. UNCHANGED paid /\ Outcomes' = Outcomes /\ ToldEnds' = ToldEnds
      BY <1>2 DEF Nothing, Outcomes, ToldEnds, OutcomeOf
    <2> QED BY <1>1, <2>1
  <1>3. ASSUME NEW s \in Swap, Pays(s) PROVE [Outcome!OutcomeNext]_Outcome!outcomeVars
    <2> DEFINE st == IF remote[s] = "expired" THEN "clientfundedtoolate" ELSE remote[s]
    <2>1. OutcomeOf(st) = OutcomeOf(remote[s]) /\ remote' = [remote EXCEPT ![s] = st]
      BY <1>3 DEF OutcomeOf, Redeemed, ClientRefunded, Pays, Pay
    <2> HIDE DEF st
    <2>2. Outcomes' = Outcomes
      BY <2>1, OutcomeKept
    <2>3. ToldEnds' = ToldEnds
      BY <1>3 DEF Pays, ToldEnds
    <2>4. CASE paid[s]
      <3>1. UNCHANGED paid
        BY <1>0, <1>3, <2>4 DEF Pays, Pay
      <3> QED BY <1>1, <2>2, <2>3, <3>1
    <2>5. CASE ~paid[s]
      <3>1. OutcomeOf(remote[s]) = "open"
        BY <1>0, <2>5 DEF UnpaidIsPending, OutcomeOf, Redeemed, ClientRefunded
      <3>2. Outcome!Fund(s)
        BY <1>3, <2>2, <2>3, <2>5, <3>1 DEF Outcome!Fund, Pays, Pay, Outcomes, ToldEnds
      <3> QED BY <3>2 DEF Outcome!OutcomeNext
    <2> QED BY <1>0, <2>4, <2>5
  <1>4. ASSUME NEW s \in Swap, Pending(s) PROVE [Outcome!OutcomeNext]_Outcome!outcomeVars
    <2>1. OutcomeOf("pending") = OutcomeOf(remote[s])
      BY <1>0, <1>4 DEF Pending, OutcomeOf, Redeemed, ClientRefunded
    <2>2. Outcomes' = Outcomes
      BY <1>4, <2>1, OutcomeKept DEF Pending
    <2> QED BY <1>1, <1>4, <2>2 DEF Pending, ToldEnds
  <1>5. ASSUME NEW s \in Swap, ServiceMoves(s) PROVE [Outcome!OutcomeNext]_Outcome!outcomeVars
    <2>1. PICK e \in Edges(s) : remote[s] = e[1] /\ remote' = [remote EXCEPT ![s] = e[2]]
      BY <1>5 DEF ServiceMoves
    <2>2. OutcomeOf(e[2]) = OutcomeOf(e[1])
      BY DEF Edges, OutcomeOf, Redeemed, ClientRefunded
    <2>3. Outcomes' = Outcomes
      BY <2>1, <2>2, OutcomeKept
    <2> QED BY <1>1, <1>5, <2>3 DEF ServiceMoves, ToldEnds
  <1>6. ASSUME NEW s \in Swap, Redeems(s) PROVE [Outcome!OutcomeNext]_Outcome!outcomeVars
    <2>1. /\ OutcomeOf(remote[s]) = "open"
          /\ OutcomeOf("clientredeeming") = "redeemed"
          /\ paid[s]
      BY <1>0, <1>6, SwapAssumption
         DEF Redeems, Claimable, UnpaidIsPending, OutcomeOf, Redeemed, ClientRefunded, Statuses
    <2>2. Outcome!Ends(s, "redeemed", "swap.claimed")
      BY <1>6, <2>1, OutcomeEnds DEF Redeems
    <2> QED BY <2>2 DEF Outcome!OutcomeNext
  <1>7. ASSUME NEW s \in Swap, Refunds(s) PROVE [Outcome!OutcomeNext]_Outcome!outcomeVars
    <2>1. /\ OutcomeOf(remote[s]) = "open"
          /\ OutcomeOf(Refunded(s)) = "refunded"
          /\ paid[s]
      BY <1>7 DEF Refunds, Refundable, Refunded, OutcomeOf, Redeemed, ClientRefunded
    <2>2. Outcome!Ends(s, "refunded", "swap.refunded")
      BY <1>7, <2>1, OutcomeEnds DEF Refunds
    <2> QED BY <2>2 DEF Outcome!OutcomeNext
  <1> QED BY <1>2, <1>3, <1>4, <1>5, <1>6, <1>7, AnyEffect DEF SwapEffect

\* However commands, the monitor, tabs and the service act on a swap at once, and
\* whatever answers are lost, its client's money goes one way, once, after it was
\* paid, and the webhooks are told of no other end.
THEOREM SwapsRefineOutcome == PayPageSpec => ImplementsOutcome
  <1>1. PayPageInit => Outcome!OutcomeInit
    BY SwapInitInv, OutcomeTypes DEF PayPageInit, SwapsInit, Outcome!OutcomeInit
  <1>2. SwapInv /\ UnpaidIsPending /\ [PayPageNext]_vars
            => [Outcome!OutcomeNext]_Outcome!outcomeVars
    BY OutcomeStepRefined
  <1> QED BY <1>1, <1>2, SwapInvariant, UnpaidIsAlwaysPending, PTL
          DEF PayPageSpec, ImplementsOutcome, Outcome!OutcomeSpec
=============================================================================
