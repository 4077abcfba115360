SPECIFICATION WalletSpec
CONSTANTS
    Cli = {c1}
    Daemon = {d1, d2}
    Token = {t1, t2}
    Identity = {i1, i2}
    i1 = i1
    i2 = i2
    None = None
    Offers <- ServerOffers
    Psbts <- Transactions
INVARIANT RunsWithSession
CHECK_DEADLOCK FALSE
