\* Two concurrent requests, two codes, two Jobs; a bucket of one attempt that is
\* full again after one tick.
SPECIFICATION ApiSpec
CONSTANTS
    site1 = site1
    SITE1 = SITE1
    site2 = site2
    SITE2 = SITE2
    r1 = r1
    r2 = r2
    c1 = c1
    c2 = c2
    Origins = {site1, SITE1, site2, SITE2}
    Normal <- MCNormal
    NoOrigin = NoOrigin
    Contents = {c1, c2}
    Requests = {r1, r2}
    MaxCodes = 2
    MaxJobs = 2
    MaxTime = 1
    MaxFailures = 2
    Burst = 1
    Rate = 1
    Cost = 1
INVARIANTS OneTokenPerCode PairingAttemptsBounded ServedIsEntitled AnswerIsOwnJob
PROPERTIES TokenFitsItsPage
SYMMETRY MCSymmetry
CHECK_DEADLOCK FALSE
