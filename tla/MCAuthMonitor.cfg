SPECIFICATION MonitorSpec
CONSTANTS
    Challenge = {ch1, ch2}
    Telegram = {t1, t2}
    UserId = {u1, u2}
    Client = {daemon}
    daemon = daemon
    None = None
    ChallengeTtl = 2
    PollTimeout = 1
    Faults = TRUE
    MaxTime = 3
INVARIANTS
    MonitorTypeOK
    ConnectedMeansSession
    
PROPERTIES
    WatchEnds
    LoneLoginAnswered
CHECK_DEADLOCK FALSE
