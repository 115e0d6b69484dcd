\* One admin request at a time, and the refresh task it spawned still running.
CONSTANTS
    ua = ua  ub = ub  c1 = c1  c2 = c2  x1 = x1  x2 = x2  m1 = m1  m2 = m2  f1 = f1
    UpIds <- MCUpIds
    Creds <- MCCreds
    InitialIds <- MCInitialIds
    InitialStore <- MCInitialStore
    KeyBatches <- MCKeyBatches
    Admins <- OneAdmin
    MaxBuilds = 2
    MaxRestarts = 0
    Models <- MCModels
    Probe <- MCProbe
    InitialRoutes <- MCInitialRoutes
    RoutePuts <- MCRoutePuts
    Tasks <- OneTask

SPECIFICATION Spec

INVARIANT RoutesMatchLive
