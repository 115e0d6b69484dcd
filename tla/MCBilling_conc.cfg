\* Two callers interleaving on the balances, no crash.
CONSTANTS
    b1 = b1  b2 = b2  t1 = t1  t2 = t2  NONE = NONE
    BillingKeys <- MCBillingKeys
    Threads <- TwoThreads
    InitialBalances <- MCInitialBalances
    Openings = {1}
    AdminDeltas = {1}
    Usages = {1}
    BalMin <- RaceBalMin
    BalMax = 1
    FlushBatch = 2
    ChanBound = 2
    MaxCrashes = 0

SPECIFICATION Spec

INVARIANT TypeOK
PROPERTY LedgerRefined
PROPERTY StagedEventuallyWritten
