CONSTANTS
    r1 = r1
    m1 = m1
    Reads <- MCReads
    Mutations <- MCMutations
SPECIFICATION FairSpec
INVARIANTS TypeOK PendingExact
PROPERTIES ImplementsDeferredCall CallerReturns
CHECK_DEADLOCK FALSE
