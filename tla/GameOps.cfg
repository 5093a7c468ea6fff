CONSTANTS
    r1 = r1
    r2 = r2
    a = a
    b = b
    Requests <- MCRequests
    NoRequest = NoRequest
    NoName = NoName
    User = User
    Asks <- MCAsks
    Name <- MCName
    UserNames = {a}
    MaxPlayer = 1
SPECIFICATION FairSpec
INVARIANTS TypeOK NoLeakedSlot CancelledStaysCancelled
PROPERTIES ImplementsDeferredCall PhaseForward SlotReleased
CHECK_DEADLOCK FALSE
