\* Every driver, every preference, a second printer of the same address; a document of two chunks.
CONSTANTS
    Size = 3
    ChunkSize = 2
    Handles = {h1, h2}
    NoHandle = NoHandle
    LateGattErrors = FALSE
    Platforms = {"linux", "darwin", "windows", "mock"}
    DeviceModels <- SharedPrinters
    Neighbours = {"rfcomm", "ble"}
    PairRequests = {"rfcomm"}
SPECIFICATION DriversFairSpec
INVARIANTS TransportInv ConfirmedWhenRoutesAgree TransportBelongsToWorker
PROPERTIES SecondReadingIsNew LossIsNoticed KeepsContract CallsReturn
CHECK_DEADLOCK FALSE
