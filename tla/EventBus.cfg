CONSTANTS
    s1 = s1
    s2 = s2
    Subscribers <- MCSubscribers
    MaxRecent = 1
    MaxEvents = 2
SPECIFICATION FairSpec
INVARIANTS TypeOK ExactlyOnceInOrder
PROPERTIES EventuallyDelivered UnsubscribeReturns
CHECK_DEADLOCK FALSE
