CONSTANTS
    i1 = i1
    k1 = k1
    Identity = {i1}
    Key = {k1}
    Nonce = {n1}
    Digest = {d1}
    Call = {r1, r2}
    User = {u1}
    None = None
    Mode = "worker"
    Migrated <- NoMigrated
    MigratedKey <- NoMigratedKey
    BatchSize = 1
    TicketTtl = 1
    MaxTime = 1
    MaxRestarts = 0
    MaxSigned = 2
    Faults = FALSE
SPECIFICATION SignerSpec
INVARIANT TicketSignsOnce
CHECK_DEADLOCK FALSE
