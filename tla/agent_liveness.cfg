\* Two printers compete for the permit, under fairness.
CONSTANTS
    Jobs = {j1}
    Printers = {p1, p2}
    Requests = {}
    AutoReconnect = {p1, p2}
    MaxAutomaticRetries = 1
    MaxRuns = 2
    NoRequest = NoRequest
    MaxOutages = 0
    MaxCrashes = 0
    MaxOperations = 0
    MaxSecondStarts = 0
SPECIFICATION FairSpec
PROPERTIES QueueDrains
CHECK_DEADLOCK FALSE
