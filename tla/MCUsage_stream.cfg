SPECIFICATION Spec
CONSTANTS
    u1 = u1
    u2 = u2
    Upstreams <- OneUpstream
    InjectUpstreams <- OneUpstream
    Requests <- MixedRequests
    Ctypes <- AllCtypes
    Gzip <- EitherEncoding
    Tokens = {0, 3}
    Pads = {0, 2}
    ChanCap = 2
    MaxChunk = 2
    ParseCap = 3
\* One response: once its tee task has recorded the request nothing is left.
CHECK_DEADLOCK FALSE
INVARIANTS
    TypeOK
    BilledUsageWasForwarded
PROPERTY
    TeeTerminates
