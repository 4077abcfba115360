CONSTANTS
    i1 = i1
    k1 = k1
    Identity = {i1}
    Key = {k1, k2}
    Nonce = {n1}
    Digest = {d1}
    Call = {r1, r2}
    User = {u1, u2}
    None = None
    Mode = "enclave"
    Migrated <- OneMigrated
    MigratedKey <- OneMigratedKey
    BatchSize = 1
    TicketTtl = 1
    MaxTime = 1
    MaxRestarts = 1
    MaxSigned = 3
    Faults = TRUE
SYMMETRY Symmetry
SPECIFICATION SignerSpec
INVARIANTS SignerTypeOK   SignaturesPerTicket
PROPERTIES RowsAreFinal 
CHECK_DEADLOCK FALSE
