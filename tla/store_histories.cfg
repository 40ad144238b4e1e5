\* One Job on one or two printers: chains of the program's three retries, reprints, cancellations.
CONSTANTS
    Jobs = {j1}
    Printers = {p1, p2}
    Requests = {q1}
    MaxAutomaticRetries = 3
    MaxRuns = 6
    NoRequest = NoRequest
SPECIFICATION StoreSpec
SYMMETRY Symmetry
INVARIANTS StoreInv OneUnmarkedCopy RetryFollowsFailure RetriesBounded
    OpenRunIsLatest CancelledTargetIsQuiet ReprintOnce AttentionFilterAgrees
PROPERTIES CompletedStays
CHECK_DEADLOCK FALSE
