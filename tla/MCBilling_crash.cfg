\* One caller at a time, and a crash.
CONSTANTS
    b1 = b1  b2 = b2  t1 = t1  t2 = t2  NONE = NONE
    BillingKeys <- MCBillingKeys
    Threads <- OneThread
    InitialBalances <- MCInitialBalances
    Openings = {1}
    AdminDeltas = {1}
    Usages = {1, 3}
    BalMin <- MCBalMin
    BalMax = 2
    FlushBatch = 2
    ChanBound = 2
    MaxCrashes = 1

SPECIFICATION Spec

INVARIANT TypeOK
INVARIANT DurableConverges
PROPERTY StagedEventuallyWritten
