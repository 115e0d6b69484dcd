\* Two concurrent requests sharing the cursors, cooldowns and streaks; one
\* client may disconnect during a round trip.
CONSTANTS
    u1 = u1  u2 = u2  k1 = k1  k2 = k2  k3 = k3  m1 = m1  m2 = m2  m3 = m3
    r1 = r1  r2 = r2  NULL = NULL
    Upstreams <- MCUpstreams
    UpstreamOrder <- MCUpstreamOrder
    WeightCfg <- MCEvenWeightCfg
    KeysOf <- MCOneKeyEach
    ModelsOf <- MCModelsOf
    Models <- MCModels
    Requests <- TwoRequests
    RateLimitMs = 1
    AuthErrorMs = 1
    ServerErrorMs = 1
    NetworkErrorMs = 1
    MaxBackoffPow = 0
    MaxRetries = 1
    MaxTime = 0
    Answers <- RaceAnswers
    MaxCancels = 1
    BodyFaults <- NoBodyFaults
    LatencyOf <- MCLatencyOf

SPECIFICATION Spec

INVARIANT TypeOK
INVARIANT LatencyMaxIsLargest

PROPERTY RequestsTerminate
