\* Two printers with one address, three calls of Connect, one restart of the daemon.
SPECIFICATION BrokerSpec
CONSTANTS
    p1 = p1
    p2 = p2
    a1 = a1
    Printers = {p1, p2}
    Addresses = {a1}
    AddressOf <- MCSharedAddress
    MaxAttempts = 3
    MaxRestarts = 1
INVARIANTS DescriptorsAccounted WaiterHasCaller ActiveIsOwned TokenIsTheRunningCall
SYMMETRY MCSymmetry
CHECK_DEADLOCK FALSE
