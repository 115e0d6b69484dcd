\* One request at a time: the selector and breaker without interleaving.
CONSTANTS
    u1 = u1  u2 = u2  k1 = k1  k2 = k2  k3 = k3  m1 = m1  m2 = m2  m3 = m3
    r1 = r1  r2 = r2  NULL = NULL
    Upstreams <- MCUpstreams
    UpstreamOrder <- MCUpstreamOrder
    WeightCfg <- MCWeightCfg
    KeysOf <- MCKeysOf
    ModelsOf <- MCModelsOf
    Models <- MCModelsUnserved
    Requests <- OneRequest
    RateLimitMs = 1
    AuthErrorMs = 1
    ServerErrorMs = 1
    NetworkErrorMs = 1
    MaxBackoffPow = 1
    MaxRetries = 5
    MaxTime = 1
    Answers <- AllAnswers
    MaxCancels = 0
    BodyFaults <- AllBodyFaults
    LatencyOf <- MCLatencyOf

SPECIFICATION Spec

INVARIANT TypeOK
INVARIANT UnavailableOnlyWhenNoneEligible
INVARIANT RetryAvoidsRateLimitedKey

PROPERTY RequestsTerminate
