\* A second agent is started on the data of the first.
CONSTANTS
    Jobs = {j1}
    Printers = {p1}
    Requests = {}
    AutoReconnect = {p1}
    MaxAutomaticRetries = 1
    MaxRuns = 2
    NoRequest = NoRequest
    MaxOutages = 0
    MaxCrashes = 0
    MaxOperations = 0
    MaxSecondStarts = 1
SPECIFICATION FairSpec
PROPERTIES PauseEnds
CHECK_DEADLOCK FALSE
