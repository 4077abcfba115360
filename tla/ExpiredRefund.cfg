SPECIFICATION EndingSpec
CONSTANTS
    Swap = {s1}
    Proc = {monitor, p1}
    monitor = monitor
    Tab = {}
    Subscription = {}
    MaxFaults = 0
    None = None
PROPERTIES
    ExpiredIsRefunded
CHECK_DEADLOCK FALSE
