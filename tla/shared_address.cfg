\* Two printers with one address may ask for different protocols.
CONSTANTS
    Size = 1
    ChunkSize = 2
    Handles = {h1}
    NoHandle = NoHandle
    LateGattErrors = FALSE
    Platforms = {"linux"}
    DeviceModels <- DualModePrinter
    Neighbours = {"auto", "rfcomm", "ble"}
    PairRequests = {"rfcomm"}
SPECIFICATION DriversFairSpec
INVARIANTS ConfirmedOnOwnBearer
CHECK_DEADLOCK FALSE
