CONSTANTS
    Identity = {i1, i2}
    Key = {k1, k2}
    Digest = {d1, d2}
    Nonce = {n1}
    Call = {c1, c2}
    None = None
    TicketTtl = 2
    MaxTime = 4
    MaxRestarts = 1
SYMMETRY Symmetry
SPECIFICATION EnclaveSpec
INVARIANTS EnclaveTypeOK OneSignaturePerTicket CachedOnlyIfSigned CachedUntilExpired
PROPERTY ImplementsLedger
