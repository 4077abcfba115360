----------------------------- MODULE MCWallet -----------------------------
EXTENDS Wallet, TLC

CONSTANTS i1, i2

Live == [supported |-> TRUE, expired |-> FALSE, invoice |-> TRUE]
Late == [Live EXCEPT !.expired = TRUE]
Bare == [Live EXCEPT !.invoice = FALSE]
Card == [Live EXCEPT !.supported = FALSE]

\* Servers that offer two challenges, of which one, none or both can be paid.
ServerOffers == {<<Late, Live>>, <<Live, Bare>>, <<Card, Bare>>, <<Late, Card>>}

Input(path, owner, prevout) == [path |-> path, owner |-> owner, prevout |-> prevout]

\* Transactions with inputs of two identities, on both paths, and without prevout.
Transactions ==
    {<<Input("script", i1, TRUE), Input("script", i1, TRUE)>>,
     <<Input("script", i1, TRUE), Input("script", i2, TRUE), Input("key", i2, TRUE)>>,
     <<Input("script", i2, FALSE), Input("key", i1, TRUE)>>}
Interchangeable == Permutations(Cli) \cup Permutations(Daemon) \cup Permutations(Token)
=============================================================================
