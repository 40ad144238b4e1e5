\* Two printers; faults of the printers, the database and the process, a second start.
CONSTANTS
    Jobs = {j1}
    Printers = {p1, p2}
    Requests = {}
    AutoReconnect = {p1, p2}
    MaxAutomaticRetries = 1
    MaxRuns = 3
    NoRequest = NoRequest
    MaxOutages = 1
    MaxCrashes = 1
    MaxOperations = 0
    MaxSecondStarts = 1
SPECIFICATION Spec
SYMMETRY Symmetry
INVARIANTS AgentTypeOK ProcessingIsOwned PauseHasCause StatusTellsTheTruth NoUnmarkedDuplicate
PROPERTIES WritesByContract
CHECK_DEADLOCK FALSE
