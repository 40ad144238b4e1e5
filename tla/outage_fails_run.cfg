\* A database outage between the claim and the reading of the Job.
CONSTANTS
    Jobs = {j1}
    Printers = {p1}
    Requests = {}
    AutoReconnect = {p1}
    MaxAutomaticRetries = 1
    MaxRuns = 2
    NoRequest = NoRequest
    MaxOutages = 1
    MaxCrashes = 0
    MaxOperations = 0
    MaxSecondStarts = 0
SPECIFICATION Spec
PROPERTIES FailedIsDeterministic
CHECK_DEADLOCK FALSE
