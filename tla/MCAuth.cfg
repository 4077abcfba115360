SPECIFICATION AuthSpec
CONSTANTS
    Challenge = {ch1, ch2}
    Telegram = {t1, t2}
    UserId = {u1, u2, u3}
    Client = {daemon, cli}
    None = None
    ChallengeTtl = 2
    Faults = TRUE
    MaxTime = 3
SYMMETRY AuthSymmetry
INVARIANTS
    AuthTypeOK
    SessionsHaveUser
    SessionOfResolver
PROPERTY
    ImplementsLogin
