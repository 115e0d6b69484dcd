\* One request whose client disconnects once during the upstream round trip.
CONSTANTS
    u1 = u1  u2 = u2  k1 = k1  k2 = k2  k3 = k3  m1 = m1  m2 = m2  m3 = m3
    r1 = r1  r2 = r2  NULL = NULL
    Upstreams <- MCUpstreams
    UpstreamOrder <- MCUpstreamOrder
    WeightCfg <- MCWeightCfg
    KeysOf <- MCKeysOf
    ModelsOf <- MCModelsOf
    Models <- MCModels
    Requests <- OneRequest
    RateLimitMs = 1
    AuthErrorMs = 1
    ServerErrorMs = 1
    NetworkErrorMs = 1
    MaxBackoffPow = 0
    MaxRetries = 1
    MaxTime = 0
    Answers <- ServerErrors
    MaxCancels = 1
    BodyFaults <- NoBodyFaults
    LatencyOf <- MCLatencyOf

SPECIFICATION Spec

INVARIANT InflightCountsRequests
