\* One printer with reprints, a database outage, operations of the Manager and a stop, under fairness.
CONSTANTS
    Jobs = {j1}
    Printers = {p1}
    Requests = {q1}
    AutoReconnect = {p1}
    MaxAutomaticRetries = 1
    MaxRuns = 2
    NoRequest = NoRequest
    MaxOutages = 1
    MaxCrashes = 0
    MaxOperations = 2
    MaxSecondStarts = 0
SPECIFICATION FairSpec
INVARIANTS RetiredPrinterIsQuiet CleanStopLeavesNothing
PROPERTIES ImplementsStore QueueDrains PauseEnds StopCompletes
CHECK_DEADLOCK FALSE
