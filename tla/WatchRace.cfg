SPECIFICATION MonitorSpec
CONSTANTS
    Challenge = {ch1, ch2}
    Telegram = {t1}
    UserId = {u1}
    Client = {daemon}
    daemon = daemon
    None = None
    ChallengeTtl = 2
    PollTimeout = 1
    Faults = FALSE
    MaxTime = 3
PROPERTIES
    LatestLoginAnswered
CHECK_DEADLOCK FALSE
