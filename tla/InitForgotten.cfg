SPECIFICATION WalletSpec
CONSTANTS
    Cli = {c1, c2}
    Daemon = {d1}
    Token = {t1, t2}
    Identity = {i1, i2}
    i1 = i1
    i2 = i2
    None = None
    Offers <- ServerOffers
    Psbts <- Transactions
INVARIANT InitLeavesUsable
CHECK_DEADLOCK FALSE
