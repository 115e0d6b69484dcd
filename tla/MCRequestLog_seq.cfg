SPECIFICATION Spec
CONSTANTS
    r1 = r1
    r2 = r2
    Reqs <- OneReq
    Outcomes <- AllWrites
    Statuses <- MCStatuses
    Windows <- MCWindows
    Step <- MCStep
    Cap <- MCCap
    RingCap = 2
    LogCap = 1
    FlushAt = 2
    MaxTime = 3
    MaxRecords = 3
\* The server may sit idle once no request arrives and the writer is drained.
CHECK_DEADLOCK FALSE
INVARIANTS
    TypeOK
    RingHoldsNewest
    BucketsContiguous
PROPERTY
    WrittenEventuallyFlushed
