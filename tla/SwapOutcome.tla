---------------------------- MODULE SwapOutcome ----------------------------
(***************************************************************************)
(* What a swap is to its client, without statuses, requests, a store or a  *)
(* monitor: money that is paid once, then goes one way, to the other side  *)
(* (the swap is redeemed) or back (it is refunded), and of which the       *)
(* webhooks are told nothing else.                                         *)
(***************************************************************************)
CONSTANTS Swap

VARIABLES
    funded,     \* swap -> whether the client's side is paid
    outcome,    \* swap -> "open", "redeemed" or "refunded"
    told        \* <<swap, event>> of the ends that webhooks were told of

outcomeVars == <<funded, outcome, told>>

OutcomeInit ==
    /\ funded = [s \in Swap |-> FALSE]
    /\ outcome = [s \in Swap |-> "open"]
    /\ told = {}

Fund(s) ==
    /\ ~funded[s]
    /\ outcome[s] = "open"
    /\ funded' = [funded EXCEPT ![s] = TRUE]
    /\ UNCHANGED <<outcome, told>>

\* The swap ends, and who is registered for the event may be told.
Ends(s, end, event) ==
    /\ funded[s]
    /\ outcome[s] = "open"
    /\ outcome' = [outcome EXCEPT ![s] = end]
    /\ told' \in {told, told \cup {<<s, event>>}}
    /\ UNCHANGED funded

OutcomeNext ==
    \E s \in Swap :
        \/ Fund(s)
        \/ Ends(s, "redeemed", "swap.claimed")
        \/ Ends(s, "refunded", "swap.refunded")

OutcomeSpec == OutcomeInit /\ [][OutcomeNext]_outcomeVars
=============================================================================
