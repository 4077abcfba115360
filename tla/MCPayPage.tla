----------------------------- MODULE MCPayPage -----------------------------
EXTENDS PayPage

\* One subscription that tells claims and refunds apart.
Subscriptions == {{"swap.claimed", "swap.refunded"}}
=============================================================================
