\* A completed Job that needed an automatic retry.
CONSTANTS
    Jobs = {j1}
    Printers = {p1, p2}
    Requests = {q1, q2}
    MaxAutomaticRetries = 1
    MaxRuns = 4
    NoRequest = NoRequest
SPECIFICATION StoreSpec
INVARIANTS CompletedIsPurgeable
CHECK_DEADLOCK FALSE
