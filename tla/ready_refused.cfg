\* Devices that are not classic printers, and the pairing call.
CONSTANTS
    Size = 1
    ChunkSize = 2
    Handles = {h1}
    NoHandle = NoHandle
    LateGattErrors = FALSE
    Platforms = {"linux"}
    DeviceModels <- MCDeviceModels
    Neighbours = {}
    PairRequests = {"auto", "rfcomm", "ble"}
SPECIFICATION DriversFairSpec
INVARIANTS ReadyDeviceConnects
CHECK_DEADLOCK FALSE
