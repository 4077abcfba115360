SPECIFICATION PayPageSpec
CONSTANTS
    Swap = {s1}
    Proc = {monitor, p1}
    monitor = monitor
    Tab = {g1}
    Subscription <- Subscriptions
    MaxFaults = 1
    None = None
INVARIANTS
    SwapTypeOK
    EventsAreTrue
    ClaimedIsFinal
    PaidIsStored
    
PROPERTIES
    PaidIsSettled
    
CHECK_DEADLOCK FALSE
