SPECIFICATION WalletSpec
CONSTANTS
    Cli = {c1, c2}
    Daemon = {d1, d2, d3}
    Token = {t1, t2}
    Identity = {i1, i2}
    i1 = i1
    i2 = i2
    None = None
    Offers <- ServerOffers
    Psbts <- Transactions
SYMMETRY Interchangeable
INVARIANTS
    WalletTypeOK
    
    PidFileIsCurrent
    InitReplacesConflict
    PaidIsTrue
    SignaturesFit
PROPERTY UsableIsKept
CHECK_DEADLOCK FALSE
