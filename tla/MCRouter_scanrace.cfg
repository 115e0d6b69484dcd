\* Two requests advance the shared sched_rr cursor of one scan each.
CONSTANTS
    u1 = u1  u2 = u2  k1 = k1  k2 = k2  k3 = k3  m1 = m1  m2 = m2  m3 = m3
    r1 = r1  r2 = r2  NULL = NULL
    Upstreams <- MCUpstreams
    UpstreamOrder <- MCUpstreamOrder
    WeightCfg <- MCEvenWeightCfg
    KeysOf <- MCOneKeyEach
    ModelsOf <- MCModelsOf
    Models <- MCModels
    Requests <- TwoRequests
    RateLimitMs = 1
    AuthErrorMs = 1
    ServerErrorMs = 1
    NetworkErrorMs = 1
    MaxBackoffPow = 0
    MaxRetries = 1
    MaxTime = 0
    Answers <- RaceAnswers
    MaxCancels = 0
    BodyFaults <- NoBodyFaults
    LatencyOf <- MCLatencyOf

SPECIFICATION Spec

INVARIANT SelectScansWholeSchedule
