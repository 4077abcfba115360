--------------------------- MODULE TicketLedger ---------------------------
(***************************************************************************)
(* What the enclave promises about tickets, without keys, calls or a       *)
(* replay cache: a minted ticket can be redeemed once, before it expires.  *)
(* Only a restart of the enclave makes it forget which were redeemed.      *)
(***************************************************************************)
EXTENDS Integers

CONSTANTS Nonce, TicketTtl

VARIABLES
    time,      \* the clock
    expiry,    \* nonce -> when its ticket expires, 0 before it is minted
    redeemed   \* nonce -> how often it was redeemed since the last restart

ledgerVars == <<time, expiry, redeemed>>

LedgerInit ==
    /\ time = 0
    /\ expiry = [n \in Nonce |-> 0]
    /\ redeemed = [n \in Nonce |-> 0]

LedgerMint(n) ==
    /\ expiry[n] = 0
    /\ expiry' = [expiry EXCEPT ![n] = time + TicketTtl]
    /\ UNCHANGED <<time, redeemed>>

Redeem(n) ==
    /\ time < expiry[n]
    /\ redeemed[n] = 0
    /\ redeemed' = [redeemed EXCEPT ![n] = 1]
    /\ UNCHANGED <<time, expiry>>

Forget ==
    /\ redeemed' = [n \in Nonce |-> 0]
    /\ UNCHANGED <<time, expiry>>

LedgerTick ==
    /\ time' = time + 1
    /\ UNCHANGED <<expiry, redeemed>>

LedgerNext ==
    \/ \E n \in Nonce : LedgerMint(n) \/ Redeem(n)
    \/ Forget
    \/ LedgerTick

LedgerSpec == LedgerInit /\ [][LedgerNext]_ledgerVars
=============================================================================
