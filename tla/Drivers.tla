------------------------------ MODULE Drivers ------------------------------
(***************************************************************************)
(* How a printer worker gets a connection: the platform drivers            *)
(* (internal/platform) between the worker's connectOnce                    *)
(* (internal/printers/worker.go) and the transports of module Transports,  *)
(* and the Bluetooth management calls of the HTTP API                      *)
(* (internal/api/handlers.go) that change the device meanwhile.            *)
(*                                                                         *)
(* There is one Bluetooth device.  A printer is configured with its        *)
(* address, and on linux a second one may be, its neighbour, since nothing *)
(* in config.go keeps two printers from having one address: they share the *)
(* driver's route and the broker's state, which are kept per address.  The *)
(* neighbour's own transport is not modelled.  The platform is that of the *)
(* driver, or "mock" for a printer configured with the mock transport.     *)
(* Where the worker is:                                                    *)
(*   none     no printer is configured      grace    in the grace period   *)
(*   down     to connect, or in backoff     again    before the second one *)
(*   connect  in Connect of the transport   up       connected             *)
(*   verify   before the first linkState                                   *)
(***************************************************************************)
EXTENDS Transports

CONSTANTS
    Platforms,     \* the drivers considered
    DeviceModels,  \* the devices considered: their look and their services
    Neighbours,    \* ConnectionPreferences the neighbour may have; {}: there is none
    PairRequests   \* ConnectionPreferences that the API is asked to pair for

Services == {"spp", "ble", "other"}
Looks == {"printer", "unclear", "not_printer"}
Preferences == {"auto", "rfcomm", "ble"}

ASSUME DriversAssumption ==
    /\ Platforms \subseteq {"linux", "darwin", "windows", "mock"}
    /\ DeviceModels # {}
    /\ DeviceModels \subseteq [look : Looks, services : SUBSET Services]
    /\ Neighbours \subseteq Preferences
    /\ PairRequests \subseteq Preferences

VARIABLES
    platform,      \* the driver, fixed
    preference,    \* the printer's ConnectionPreference
    endpoint,      \* the configured endpoint
    device,        \* what the operating system knows of the device
    route,         \* linux: the driver's route to the address
    broker,        \* linux: the profile broker (module ProfileBroker) at the address
    snapshot,      \* darwin: the cached list of paired devices
    worker,        \* where the worker is, and the reading that confirmed the link
    neighbour,     \* linux: the worker of the other printer
    pairing,       \* preference of the PairDevice call in progress
    offer,         \* preference of a device the API has called ready, as it is now
    forgetting     \* a forget request between its check and its call

fixed == <<platform, preference, endpoint>>
driverVars == <<fixed, device, route, broker, snapshot, worker, neighbour, pairing, offer,
                forgetting>>

\* "node": a path under /dev.  Of the address the bearer does not matter, since
\* the route, once there is one, takes its place (resolvedEndpoint).
Endpoints == {"address", "node"}
LinkStates == {"connected", "disconnected", "unknown"}

\* services is empty while BlueZ has not resolved them.
DeviceRecord == [known : BOOLEAN, paired : BOOLEAN, connected : BOOLEAN,
                 look : Looks, services : SUBSET Services]

\* What ConnectionState answers, and whose socket is active.
Broker == [state : {"unknown", "up", "down"}, socket : {"none", "worker", "neighbour"}]

\* fresh: younger than deviceCacheTTL; taken: when, relative to the worker.
Snapshot == [state : LinkStates, fresh : BOOLEAN,
             taken : {"before_open", "open", "grace"}]

\* source: what the reading that confirmed the link was of.
Worker == [at : {"none", "down", "connect", "verify", "grace", "again", "up"},
           source : {"none", "broker", "device", "snapshot", "trust"}]

\* The neighbour: to be connected, in Connect, or with an open transport.
Neighbour == [at : {"absent", "down", "connect", "open"}, pref : Preferences,
              kind : {"none", "rfcomm", "gatt"}]

-----------------------------------------------------------------------------
(* Classification of a device (linux/driver.go) *)

isPrinterDevice(d) == d.look = "printer"
isObviouslyNotPrinter(d) == d.look = "not_printer"
hasUUID(d, s) == s \in d.services

isConnectionEligible(d) ==
    \/ d.paired
    \/ isPrinterDevice(d) /\ hasUUID(d, "ble")
    \/ d.connected /\ isPrinterDevice(d) /\ hasUUID(d, "spp")

isUsableCandidate(d) ==
    /\ isConnectionEligible(d)
    /\ hasUUID(d, "spp") \/ hasUUID(d, "ble") \/ isPrinterDevice(d)
    /\ isPrinterDevice(d) \/ ~isObviouslyNotPrinter(d)

supportsConnection(d, pref) ==
    pref = "auto" \/ (pref = "rfcomm" /\ hasUUID(d, "spp")) \/ (pref = "ble" /\ hasUUID(d, "ble"))

\* Classic SPP for bonded devices, else the BLE print service if there is one.
endpointForDevice(d) ==
    IF hasUUID(d, "ble") /\ ~(d.paired /\ hasUUID(d, "spp")) THEN "ble" ELSE "rfcomm"

preferredEndpoint(d, pref) == IF pref = "auto" THEN endpointForDevice(d) ELSE pref

\* The tests of EnsureConnected on linux.
Accepts(d, pref, configured) ==
    /\ configured # "node"
    /\ d.known /\ isConnectionEligible(d)
    /\ d.services # {} => hasUUID(d, "spp") \/ isPrinterDevice(d)
    /\ supportsConnection(d, pref)
    /\ pref = "rfcomm" => d.paired

-----------------------------------------------------------------------------
(* Reading the state of the link *)

Observed == IF ~device.known THEN "unknown"
            ELSE IF device.connected THEN "connected" ELSE "disconnected"

\* When a snapshot taken now was taken.
Moment == IF worker.at = "grace" THEN "grace"
          ELSE IF port # NoHandle THEN "open" ELSE "before_open"

\* devices() of darwin: the cached snapshot, or a new one, which may be an error.
Snapshots ==
    IF platform # "darwin" \/ snapshot.fresh THEN {snapshot}
    ELSE {[state |-> s, fresh |-> TRUE, taken |-> Moment] : s \in {Observed, "unknown"}}

\* On linux the broker knows an RFCOMM connection, BlueZ any other.
BrokerDecides == route # "ble" /\ broker.state # "unknown"

\* linkState of the worker with snapshot sn: the state and what it was read from.
\* A query that fails counts as unknown.
linkState(sn) ==
    CASE platform = "linux" /\ BrokerDecides ->
            {[state |-> IF broker.state = "up" THEN "connected" ELSE "disconnected",
              source |-> "broker"]}
      [] platform = "linux" /\ ~BrokerDecides ->
            {[state |-> s, source |-> "device"] : s \in {Observed, "unknown"}}
      [] platform = "darwin" -> {[state |-> sn.state, source |-> "snapshot"]}
      [] OTHER -> {[state |-> "connected", source |-> "trust"]}

-----------------------------------------------------------------------------
(* The worker: connectLoop and connectOnce *)

At(a) == worker' = [worker EXCEPT !.at = a]

\* Faulty variant: the route that was found first is kept.
setRouteOnce(resolved) == route' = IF route = "none" THEN resolved ELSE route

\* The route is the address's, not the printer's.
setRoute(resolved) == route' = resolved

\* NewTransport of linux, with the endpoint that EnsureConnected returned.
KindFor(resolved) == IF resolved = "ble" THEN "gatt" ELSE "rfcomm"

\* connectOnce: EnsureConnected resolves the endpoint, the factory makes a
\* transport for it.  A refusal leaves the worker in its backoff.  On darwin a
\* node that is gone may be found again under another name, by its address.
Resolve ==
    /\ worker.at = "down" /\ ~cancelled /\ pc = "idle"
    /\ \/ /\ platform = "linux" /\ Accepts(device, preference, endpoint)
          /\ setRoute(preferredEndpoint(device, preference))
          /\ kind' = KindFor(preferredEndpoint(device, preference))
          /\ UNCHANGED snapshot
       \/ /\ platform = "darwin" /\ device.known
          /\ kind' = "serial" /\ UNCHANGED <<route, snapshot>>
       \/ /\ platform = "darwin" /\ ~device.known
          /\ kind' = "serial" /\ snapshot' \in Snapshots /\ UNCHANGED route
       \/ /\ platform = "windows"
          /\ kind' = "serial" /\ UNCHANGED <<route, snapshot>>
       \/ /\ platform = "mock"
          /\ kind' = "mock" /\ UNCHANGED <<route, snapshot>>
    /\ worker' = [at |-> "connect", source |-> "none"]
    /\ UNCHANGED <<pc, port, handle, cancelled, written, flight, reached, result, fixed,
                   device, broker, neighbour, pairing, offer, forgetting>>

\* The broker and ConnectGATT look the device up again.
Connectable ==
    /\ kind \in {"rfcomm", "gatt"} => device.known
    /\ kind = "rfcomm" => isConnectionEligible(device)

OpenBegin(h) ==
    /\ worker.at = "connect" /\ Connectable
    /\ ConnectBegin(h)
    /\ UNCHANGED driverVars

OpenRefused ==
    /\ worker.at = "connect" /\ pc = "idle" /\ ~Connectable
    /\ At("down")
    /\ UNCHANGED vars
    /\ UNCHANGED <<fixed, device, route, broker, snapshot, neighbour, pairing, offer,
                   forgetting>>

\* A connection to the device comes about: an offer made before it is void.
DeviceConnects ==
    /\ device.known
    /\ device' = [device EXCEPT !.connected = TRUE]
    /\ offer' = IF device' = device THEN offer ELSE "none"

\* ConnectGATT: Device1.Connect has connected the device.
DialOk ==
    /\ worker.at = "connect"
    /\ DialAnswers
    /\ DeviceConnects
    /\ UNCHANGED <<fixed, route, broker, snapshot, worker, neighbour, pairing,
                   forgetting>>

\* NewConnection of the broker, which accepts one socket for a device.
OpenSocket(owner) ==
    /\ broker.socket = "none"
    /\ broker' = [state |-> "up", socket |-> owner]

\* The transport is open: the broker has a socket, ConnectGATT has found the
\* print characteristic, or the node could be opened, which proves little.
OpenOk(h) ==
    /\ worker.at = "connect"
    /\ ConnectOk(h)
    /\ \/ kind = "rfcomm" /\ OpenSocket("worker") /\ DeviceConnects
       \/ /\ kind = "gatt" /\ device.known /\ hasUUID(device, "ble")
          /\ UNCHANGED <<broker, device, offer>>
       \/ kind \in {"serial", "mock"} /\ UNCHANGED <<broker, device, offer>>
    /\ snapshot' = [snapshot EXCEPT !.taken = "before_open"]
    /\ At("verify")
    /\ UNCHANGED <<fixed, route, neighbour, pairing, forgetting>>

\* A broker that gave up has reported the device as disconnected (cancelPending),
\* whoever has a socket by then; one that refused has not.
AttemptFails(k) ==
    broker' \in {broker} \cup (IF k = "rfcomm" THEN {[broker EXCEPT !.state = "down"]} ELSE {})

\* It is not.
OpenFails(h) ==
    /\ worker.at = "connect"
    /\ ConnectFail(h) \/ DialFails(h)
    /\ AttemptFails(kind)
    /\ At("down")
    /\ UNCHANGED <<fixed, device, route, snapshot, neighbour, pairing, offer,
                   forgetting>>

\* closeSocket, which runs once for a socket.
CloseSocket(owner) ==
    broker' = IF broker.socket = owner THEN [state |-> "down", socket |-> "none"] ELSE broker

\* Faulty variant: the transport is not closed.
LeaveOpen ==
    /\ At("down")
    /\ UNCHANGED <<vars, broker>>

\* The worker closes the transport and is to connect again.
Leave ==
    /\ ClosePort
    /\ CloseSocket("worker")
    /\ At("down")
    /\ UNCHANGED <<kind, pc, cancelled, written, flight, reached, result>>

Confirm(r) ==
    /\ worker' = [at |-> "up", source |-> r.source]
    /\ UNCHANGED <<vars, broker>>

\* The first reading, and after the grace period the second one.
Verify ==
    /\ worker.at \in {"verify", "again"} /\ pc = "idle"
    /\ snapshot' \in Snapshots
    /\ \E r \in linkState(snapshot') :
          \/ r.state = "connected" /\ Confirm(r)
          \/ /\ r.state # "connected" /\ worker.at = "verify"
             /\ At("grace") /\ UNCHANGED <<vars, broker>>
          \/ r.state # "connected" /\ worker.at = "again" /\ Leave
    /\ UNCHANGED <<fixed, device, route, neighbour, pairing, offer, forgetting>>

\* Faulty variant: the grace period is shorter than deviceCacheTTL.
GraceSnapshotKept == snapshot

\* The grace period outlives the cache: a snapshot from before it is too old now.
GraceSnapshot == [snapshot EXCEPT !.fresh = @ /\ snapshot.taken = "grace"]

GraceEnds ==
    /\ worker.at = "grace"
    /\ snapshot' = GraceSnapshot
    /\ At("again")
    /\ UNCHANGED vars
    /\ UNCHANGED <<fixed, device, route, broker, neighbour, pairing, offer, forgetting>>

\* The worker is stopped during the grace period, or while it is connected.
Stopped ==
    /\ worker.at \in {"grace", "up"} /\ pc = "idle" /\ cancelled
    /\ Leave
    /\ UNCHANGED <<fixed, device, route, snapshot, neighbour, pairing, offer,
                   forgetting>>

\* An operator asks a connected worker to connect again.
ManualReconnect ==
    /\ worker.at = "up" /\ pc = "idle"
    /\ Leave
    /\ UNCHANGED <<fixed, device, route, snapshot, neighbour, pairing, offer,
                   forgetting>>

\* Faulty variant: a worker that is connected trusts that it still is.
RecheckNothing == FALSE

\* connectLoop of a connected worker, every few seconds: a link that is not
\* confirmed is closed.
Recheck ==
    /\ worker.at = "up" /\ pc = "idle" /\ port # NoHandle
    /\ snapshot' \in Snapshots
    /\ \E r \in linkState(snapshot') :
          IF r.state = "connected" THEN UNCHANGED <<vars, worker, broker>> ELSE Leave
    /\ UNCHANGED <<fixed, device, route, neighbour, pairing, offer, forgetting>>

\* The worker transmits a document, possibly one that it has claimed after its
\* context was cancelled (transmission_gate.go).
Transmit ==
    /\ worker.at = "up" /\ port # NoHandle
    /\ WriteBegin
    /\ UNCHANGED driverVars

\* Write goes on (module Transports).  One that fails has closed the transport.
WriteStep ==
    /\ worker.at = "up"
    /\ WriteProceeds
    /\ IF port' = NoHandle THEN CloseSocket("worker") ELSE UNCHANGED broker
    /\ At(IF port' = NoHandle THEN "down" ELSE "up")
    /\ UNCHANGED <<fixed, device, route, snapshot, neighbour, pairing, offer,
                   forgetting>>

-----------------------------------------------------------------------------
(* The device and the operating system *)

\* A goroutine of an earlier chunk or open, and the worker's context.
Background ==
    /\ \/ \E h \in Handles : OrphanOpens(h) \/ OrphanCloses(h)
       \/ CancelContext
       \/ \E n \in 1..ChunkSize : DeviceTakes(n)
       \/ \E err \in BOOLEAN : WriteAnswers(err)
    /\ UNCHANGED driverVars

\* The device goes out of range, or the dashboard has BlueZ disconnect it.
LinkLost ==
    /\ device.connected \/ (port # NoHandle /\ handle[port] = "open")
    /\ IF port # NoHandle /\ handle[port] = "open" THEN LinkDrops ELSE UNCHANGED vars
    /\ device' = [device EXCEPT !.connected = FALSE]
    /\ offer' = "none"
    /\ UNCHANGED <<fixed, route, broker, snapshot, worker, neighbour, pairing,
                   forgetting>>

\* BlueZ asks the broker for the socket.
RequestDisconnection ==
    /\ broker.socket # "none"
    /\ broker' = [state |-> "down", socket |-> "none"]
    /\ IF broker.socket = "worker" /\ handle[port] = "open" THEN LinkDrops ELSE UNCHANGED vars
    /\ UNCHANGED <<fixed, device, route, snapshot, worker, neighbour, pairing, offer,
                   forgetting>>

\* What the operating system knows of the device changes: it is discovered, it
\* connects, its services are resolved, or its bond is lost.
DeviceChanges ==
    /\ \/ ~device.known /\ device' = [device EXCEPT !.known = TRUE]
       \/ device.known /\ ~device.connected /\ device' = [device EXCEPT !.connected = TRUE]
       \/ /\ platform = "linux" /\ device.known /\ device.services = {}
          /\ \E m \in DeviceModels : m.look = device.look /\ m.services # {}
                                     /\ device' = [device EXCEPT !.services = m.services]
       \/ device.paired /\ device' = [device EXCEPT !.paired = FALSE]
    /\ offer' = "none"
    /\ UNCHANGED vars
    /\ UNCHANGED <<fixed, route, broker, snapshot, worker, neighbour, pairing,
                   forgetting>>

\* darwin: three seconds pass; another worker or the dashboard reads the devices.
SnapshotExpires ==
    /\ snapshot.fresh
    /\ snapshot' = [snapshot EXCEPT !.fresh = FALSE]
    /\ UNCHANGED vars
    /\ UNCHANGED <<fixed, device, route, broker, worker, neighbour, pairing, offer,
                   forgetting>>

ListCandidates ==
    /\ platform = "darwin" /\ ~snapshot.fresh
    /\ snapshot' \in Snapshots
    /\ UNCHANGED vars
    /\ UNCHANGED <<fixed, device, route, broker, worker, neighbour, pairing, offer,
                   forgetting>>

-----------------------------------------------------------------------------
(* The worker of another printer with the address of the device: what it does to *)
(* the route, to the broker and to the device                                    *)

CreateNeighbour(pref) ==
    /\ platform = "linux" /\ neighbour.at = "absent"
    /\ neighbour' = [neighbour EXCEPT !.at = "down", !.pref = pref]
    /\ UNCHANGED vars
    /\ UNCHANGED <<fixed, device, route, broker, snapshot, worker, pairing, offer,
                   forgetting>>

\* Its EnsureConnected.
NeighbourResolves ==
    /\ neighbour.at = "down" /\ Accepts(device, neighbour.pref, "address")
    /\ setRoute(preferredEndpoint(device, neighbour.pref))
    /\ neighbour' = [neighbour EXCEPT !.at = "connect",
                        !.kind = KindFor(preferredEndpoint(device, neighbour.pref))]
    /\ UNCHANGED vars
    /\ UNCHANGED <<fixed, device, broker, snapshot, worker, pairing, offer, forgetting>>

\* Its Connect succeeds ...
NeighbourConnects ==
    /\ neighbour.at = "connect"
    /\ \/ neighbour.kind = "rfcomm" /\ isConnectionEligible(device) /\ OpenSocket("neighbour")
       \/ neighbour.kind = "gatt" /\ hasUUID(device, "ble") /\ UNCHANGED broker
    /\ DeviceConnects
    /\ neighbour' = [neighbour EXCEPT !.at = "open"]
    /\ UNCHANGED vars
    /\ UNCHANGED <<fixed, route, snapshot, worker, pairing, forgetting>>

\* ... or fails.
NeighbourFails ==
    /\ neighbour.at = "connect"
    /\ AttemptFails(neighbour.kind)
    /\ neighbour' = [neighbour EXCEPT !.at = "down", !.kind = "none"]
    /\ UNCHANGED vars
    /\ UNCHANGED <<fixed, device, route, snapshot, worker, pairing, offer, forgetting>>

\* It closes its transport.
NeighbourLeaves ==
    /\ neighbour.at = "open"
    /\ CloseSocket("neighbour")
    /\ neighbour' = [neighbour EXCEPT !.at = "down", !.kind = "none"]
    /\ UNCHANGED vars
    /\ UNCHANGED <<fixed, device, route, snapshot, worker, pairing, offer, forgetting>>

-----------------------------------------------------------------------------
(* Management: pairing, forgetting, and the printer's configuration *)

\* PairBluetoothDevice: a device that can be used as it is needs no pairing.
PairBegin(pref) ==
    /\ platform = "linux" /\ pairing = "none"
    /\ device.known /\ supportsConnection(device, pref)
    /\ IF \/ isUsableCandidate(device) /\ pref # "rfcomm"
          \/ pref = "rfcomm" /\ device.paired
       THEN offer' = pref /\ UNCHANGED pairing
       ELSE pairing' = pref /\ UNCHANGED offer
    /\ UNCHANGED vars
    /\ UNCHANGED <<fixed, device, route, broker, snapshot, worker, neighbour,
                   forgetting>>

\* PairDevice returns.  The device is looked up again and called ready.
PairOk ==
    /\ pairing # "none" /\ device.known
    /\ device' = [device EXCEPT !.paired = TRUE]
    /\ offer' = pairing /\ pairing' = "none"
    /\ UNCHANGED vars
    /\ UNCHANGED <<fixed, route, broker, snapshot, worker, neighbour, forgetting>>

\* It was rejected, timed out, or the device is gone.
PairFails ==
    /\ pairing # "none"
    /\ pairing' = "none"
    /\ UNCHANGED vars
    /\ UNCHANGED <<fixed, device, route, broker, snapshot, worker, neighbour, offer,
                   forgetting>>

\* configuredPrinterForAddress finds no printer.
ForgetAllowed == worker.at = "none" /\ neighbour.at = "absent"

ForgetBegin ==
    /\ platform = "linux" /\ forgetting = "none"
    /\ ForgetAllowed
    /\ forgetting' = "checked"
    /\ UNCHANGED vars
    /\ UNCHANGED <<fixed, device, route, broker, snapshot, worker, neighbour, pairing,
                   offer>>

\* RemoveDevice, or an error.
ForgetEnd ==
    /\ forgetting = "checked"
    /\ forgetting' = "none"
    /\ device' \in {device, [device EXCEPT !.known = FALSE, !.paired = FALSE,
                                           !.connected = FALSE]}
    /\ offer' = IF device' = device THEN offer ELSE "none"
    /\ UNCHANGED vars
    /\ UNCHANGED <<fixed, route, broker, snapshot, worker, neighbour, pairing>>

\* The operator adds the printer.
CreatePrinter ==
    /\ worker.at = "none"
    /\ At("down")
    /\ UNCHANGED vars
    /\ UNCHANGED <<fixed, device, route, broker, snapshot, neighbour, pairing, offer,
                   forgetting>>

-----------------------------------------------------------------------------
DriversInit ==
    /\ Init
    /\ platform \in Platforms
    /\ kind = CASE platform = "linux" -> "rfcomm" [] platform = "mock" -> "mock"
                [] OTHER -> "serial"
    \* Only linux looks at the class and the services of a device.
    /\ \E m \in IF platform = "linux" THEN DeviceModels ELSE {CHOOSE m \in DeviceModels : TRUE} :
          device = [known |-> FALSE, paired |-> FALSE, connected |-> FALSE,
                    look |-> m.look, services |-> m.services]
    /\ IF platform = "linux" THEN preference \in Preferences /\ endpoint \in Endpoints
       ELSE preference = "auto" /\ endpoint = "node"
    /\ route = "none" /\ broker = [state |-> "unknown", socket |-> "none"]
    /\ snapshot = [state |-> "unknown", fresh |-> FALSE, taken |-> "before_open"]
    /\ worker = [at |-> "none", source |-> "none"]
    /\ neighbour = [at |-> "absent", pref |-> "auto", kind |-> "none"]
    /\ pairing = "none" /\ offer = "none" /\ forgetting = "none"

DriversNext ==
    \/ Resolve \/ OpenRefused \/ Verify \/ GraceEnds \/ Stopped \/ ManualReconnect \/ Recheck
    \/ Transmit \/ WriteStep \/ Background
    \/ \E h \in Handles : OpenBegin(h) \/ OpenOk(h) \/ OpenFails(h)
    \/ DialOk
    \/ \E pref \in Neighbours : CreateNeighbour(pref)
    \/ NeighbourResolves \/ NeighbourConnects \/ NeighbourFails \/ NeighbourLeaves
    \/ LinkLost \/ RequestDisconnection \/ DeviceChanges \/ SnapshotExpires \/ ListCandidates
    \/ \E pref \in PairRequests : PairBegin(pref)
    \/ PairOk \/ PairFails \/ ForgetBegin \/ ForgetEnd \/ CreatePrinter

pathVars == <<vars, driverVars>>

DriversSpec == DriversInit /\ [][DriversNext]_pathVars

\* A step of the worker's goroutine towards the end of Connect or Write.  Where it
\* waits for Device1.Connect, that is so only when its context is cancelled.
CallStep ==
    \/ WriteStep
    \/ \E h \in Handles : OpenOk(h) \/ (OpenFails(h) /\ (pc = "dial" => cancelled))

\* The worker's goroutine runs and its timers fire; a reading of the link returns;
\* three seconds pass.
DriversFairSpec ==
    /\ DriversSpec
    /\ WF_pathVars(CallStep)
    /\ WF_pathVars(Recheck)
    /\ WF_pathVars(SnapshotExpires)

-----------------------------------------------------------------------------
(* Properties *)

\* The reading that lets a worker claim work was one of the bearer it then writes
\* to: the broker for RFCOMM, BlueZ for BLE (driver.go LinkState, routes).  With two
\* printers of one address the route may be the other's.
ConfirmedOnOwnBearer ==
    platform = "linux" /\ worker.at = "up" => (kind = "rfcomm" <=> worker.source = "broker")

\* When the two ask for one and the same protocol by name, or there is only one
\* printer, the reading is one of the worker's own bearer, although a printer in
\* "auto" may change its bearer from one connection to the next.
RoutesAgree ==
    neighbour.at = "absent" \/ (neighbour.pref = preference /\ preference # "auto")

ConfirmedWhenRoutesAgree == RoutesAgree => ConfirmedOnOwnBearer

\* A printer that the open has woken is not given up on account of an old snapshot:
\* what the second reading goes by was taken after the port was opened (worker.go:219
\* against deviceCacheTTL of darwin).
SecondReadingIsNew ==
    [][platform = "darwin" /\ worker.at = "again" /\ worker'.at = "down"
         => snapshot'.taken # "before_open"]_pathVars

\* A worker that has a transport is connected or is verifying, and one that is
\* connected has it: no port is kept across a backoff, which a reconnect would
\* find busy (worker.go connectOnce, closeTransport).
TransportBelongsToWorker ==
    port # NoHandle <=> worker.at \in {"verify", "grace", "again", "up"}

\* A device that the pairing call reports as ready is one that EnsureConnected
\* accepts, as long as it does not change (driver.go PairBluetoothDevice).
ReadyDeviceConnects ==
    offer # "none" => Accepts(device, offer, "address")

\* A worker does not stay connected while nothing is sent and its link is known to
\* be lost (worker.go:127-137), as long as its readings are of its own bearer.
Lost ==
    \/ platform = "linux" /\ kind = "rfcomm" /\ route = "rfcomm" /\ broker.state = "down"
    \/ platform = "linux" /\ kind = "gatt" /\ route = "ble" /\ ~device.connected
    \/ platform = "darwin" /\ ~device.connected

LossIsNoticed == []<>~(worker.at = "up" /\ pc = "idle" /\ Lost)
=============================================================================
