\* One admin request at a time, every mutation.
CONSTANTS
    ua = ua  ub = ub  c1 = c1  c2 = c2  x1 = x1  x2 = x2  m1 = m1  m2 = m2  f1 = f1
    UpIds <- MCUpIds
    Creds <- MCCreds
    InitialIds <- MCInitialIds
    InitialStore <- MCInitialStore
    KeyBatches <- MCKeyBatches
    Admins <- OneAdmin
    MaxBuilds = 2
    MaxRestarts = 1
    Models <- MCModels
    Probe <- MCProbe
    InitialRoutes <- MCInitialRoutes
    RoutePuts <- MCRoutePuts
    Tasks <- OneTask

SPECIFICATION Spec
VIEW HeldView

INVARIANT TypeOK
INVARIANT KeysMatchStore
INVARIANT OverrideMatchesSnapshot
INVARIANT MutationsNotLost
INVARIANT SerialRoutesMatchLive
PROPERTY AdminTerminates
PROPERTY RefreshTerminates
PROPERTY RestartKeepsService
