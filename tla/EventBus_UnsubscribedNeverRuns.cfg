CONSTANTS
    s1 = s1
    s2 = s2
    Subscribers <- MCSubscribers
    MaxRecent = 2
    MaxEvents = 2
SPECIFICATION Spec
INVARIANTS UnsubscribedNeverRuns
CHECK_DEADLOCK FALSE
