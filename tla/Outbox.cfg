CONSTANTS
    e1 = e1
    e2 = e2
    bad = bad
    l1 = l1
    l2 = l2
    d1 = d1
    d2 = d2
    NoEvent = NoEvent
    Events = {e1, e2, bad}
    ListenersOf <- MCListenersOf
    Malformed = {bad}
    Dispatchers = {d1, d2}
    BatchLimit = 2
    MaxCrashes = 1
    Casts <- MCCasts
SPECIFICATION FairSpec
INVARIANT DeliveryHolds
PROPERTIES RefinesContract EveryEventDelivered
