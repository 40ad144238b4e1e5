---------------------------- MODULE DriversProofs ----------------------------
(***************************************************************************)
(* Proofs about module Drivers: the connection path of a worker, for any   *)
(* set of device models and transports of any size.                        *)
(*                                                                         *)
(* The inductive invariant PathInv has a part per concern.  Of the         *)
(* properties the runs check, ConfirmedWhenRoutesAgree needs to know that  *)
(* the transport was made for the route and what the route can become      *)
(* (BearerInv), SecondReadingIsNew how old a cached snapshot is            *)
(* (SnapshotInv).  A step of the path is a step of the transport or leaves *)
(* it alone, so that TransportInv and the contract of Write carry over     *)
(* from module TransportsProofs.                                           *)
(***************************************************************************)
EXTENDS Drivers, TransportsProofs

\* Where the worker has a transport.
WithTransport == {"verify", "grace", "again", "up"}

\* As long as the routes agree, the bearer that EnsureConnected chose is the one the
\* transport was made for, and the one that a named protocol asks for; the broker has
\* an opinion about an RFCOMM connection once there was one.
BearerInv ==
    platform = "linux" =>
        /\ RoutesAgree /\ worker.at \in WithTransport \cup {"connect"} =>
              /\ route \in {"rfcomm", "ble"} /\ kind = KindFor(route)
              /\ preference # "auto" => route = preference
        /\ worker.at \in WithTransport /\ kind = "rfcomm" =>
              broker.state \in {"up", "down"}

\* A snapshot that is still in the cache at the second reading was taken after the
\* port was opened.
SnapshotInv ==
    /\ snapshot \in Snapshot
    /\ worker.at = "again" /\ snapshot.fresh => snapshot.taken # "before_open"

\* The inductive invariant.
PathInv ==
    /\ TransportInv
    /\ platform \in Platforms /\ preference \in Preferences
    /\ worker \in Worker /\ neighbour \in Neighbour /\ broker \in Broker
    /\ TransportBelongsToWorker
    /\ BearerInv
    /\ ConfirmedWhenRoutesAgree
    /\ SnapshotInv

\* A path that was never opened satisfies the inductive invariant.
LEMMA InitPath == DriversInit => PathInv
<1>. SUFFICES ASSUME DriversInit PROVE PathInv
  OBVIOUS
<1>1. TransportInv
  BY InitTransport DEF DriversInit
<1>2. /\ platform \in Platforms /\ preference \in Preferences
      /\ worker = [at |-> "none", source |-> "none"] /\ port = NoHandle
  BY DEF DriversInit, Init, Preferences
<1>3. worker \in Worker /\ TransportBelongsToWorker /\ BearerInv /\ ConfirmedWhenRoutesAgree
  BY <1>2 DEF Worker, TransportBelongsToWorker, BearerInv, WithTransport,
     ConfirmedWhenRoutesAgree, ConfirmedOnOwnBearer
<1>4. SnapshotInv /\ neighbour \in Neighbour /\ broker \in Broker
  BY <1>2 DEF DriversInit, SnapshotInv, Snapshot, LinkStates, Neighbour, Broker, Preferences
<1>5. QED
  BY <1>1, <1>2, <1>3, <1>4 DEF PathInv

\* Leaving a connection closes its transport.
LEMMA LeaveIsClose ==
    ASSUME Leave, pc = "idle"
    PROVE  [Next]_vars
BY DEF Leave, Close, ClosePort, Next, vars

\* The steps of the neighbour once it is there.
NeighbourStep ==
    NeighbourResolves \/ NeighbourConnects \/ NeighbourFails \/ NeighbourLeaves

\* What a step of the path does to the transport is a step of module Transports.
LEMMA PathStepIsTransportStep ==
    ASSUME PathInv, [DriversNext]_pathVars
    PROVE  [Next]_vars
<1>. USE DEF Next
<1>1. CASE UNCHANGED pathVars
  BY <1>1 DEF pathVars
<1>2. CASE Resolve
  <2>1. port = NoHandle
    BY <1>2 DEF PathInv, TransportBelongsToWorker, Resolve
  <2>2. kind' \in Kinds
    BY <1>2 DEF Resolve, KindFor, Kinds
  <2>3. QED
    BY <1>2, <2>1, <2>2 DEF Resolve, NewTransport
<1>3. CASE OpenRefused \/ GraceEnds \/ DeviceChanges \/ SnapshotExpires \/ ListCandidates
  BY <1>3 DEF OpenRefused, GraceEnds, DeviceChanges, SnapshotExpires, ListCandidates
<1>4. CASE PairOk \/ PairFails \/ ForgetBegin \/ ForgetEnd \/ CreatePrinter \/ NeighbourStep
  BY <1>4 DEF PairOk, PairFails, ForgetBegin, ForgetEnd, CreatePrinter, NeighbourStep,
     NeighbourResolves, NeighbourConnects, NeighbourFails, NeighbourLeaves
<1>5. ASSUME NEW pref \in Preferences, PairBegin(pref) \/ CreateNeighbour(pref)
      PROVE  UNCHANGED vars
  BY <1>5 DEF PairBegin, CreateNeighbour
<1>6. CASE Verify \/ Stopped \/ ManualReconnect \/ Recheck
  <2>1. pc = "idle" /\ (UNCHANGED vars \/ Leave)
    BY <1>6 DEF Verify, Stopped, ManualReconnect, Recheck, Confirm
  <2>2. QED
    BY <2>1, LeaveIsClose
<1>7. CASE Transmit
  BY <1>7 DEF Transmit
<1>8. CASE WriteStep
  BY <1>8 DEF WriteStep, CallerStep
<1>9. CASE Background
  BY <1>9 DEF Background
<1>10. ASSUME NEW h \in Handles, OpenBegin(h) \/ OpenOk(h) \/ OpenFails(h)
       PROVE  Next
  BY <1>10 DEF OpenBegin, OpenOk, OpenFails, CallerStep
<1>11. CASE LinkLost \/ RequestDisconnection \/ DialOk
  BY <1>11 DEF LinkLost, RequestDisconnection, DialOk
<1>12. QED
  BY <1>1, <1>2, <1>3, <1>4, <1>5, <1>6, <1>7, <1>8, <1>9, <1>10, <1>11, DriversAssumption
     DEF DriversNext, NeighbourStep

\* What the neighbour and the broker do keeps their types, and the state of the broker
\* never becomes unknown again.
LEMMA BrokerStep ==
    ASSUME PathInv, [DriversNext]_pathVars
    PROVE  /\ UNCHANGED fixed /\ neighbour' \in Neighbour /\ broker' \in Broker
           /\ broker.state # "unknown" => broker'.state # "unknown"
<1>. DEFINE Rest == /\ UNCHANGED fixed /\ neighbour' \in Neighbour /\ broker' \in Broker
                    /\ broker.state # "unknown" => broker'.state # "unknown"
<1>. USE DEF PathInv, Broker, Neighbour
<1>1. CASE UNCHANGED <<fixed, broker, neighbour>>
  BY <1>1
<1>2. CASE UNCHANGED pathVars \/ DeviceChanges \/ SnapshotExpires \/ ListCandidates \/ PairOk
           \/ PairFails \/ ForgetBegin \/ ForgetEnd \/ Resolve \/ OpenRefused \/ GraceEnds
           \/ CreatePrinter \/ Transmit \/ Background \/ LinkLost \/ DialOk
  BY <1>1, <1>2 DEF pathVars, driverVars, DeviceChanges, SnapshotExpires, ListCandidates,
     PairOk, PairFails, ForgetBegin, ForgetEnd, Resolve, OpenRefused, GraceEnds,
     CreatePrinter, Transmit, Background, LinkLost, DialOk
<1>3. ASSUME NEW pref \in Preferences, PairBegin(pref) \/ CreateNeighbour(pref)
      PROVE  Rest
  BY <1>3 DEF PairBegin, CreateNeighbour
<1>4. CASE Verify \/ Stopped \/ ManualReconnect \/ Recheck \/ WriteStep
  <2>1. UNCHANGED <<fixed, neighbour>> /\ (UNCHANGED broker \/ CloseSocket("worker"))
    BY <1>4 DEF Verify, Stopped, ManualReconnect, Recheck, WriteStep, Leave, Confirm
  <2>2. QED
    BY <2>1 DEF CloseSocket
<1>5. ASSUME NEW h \in Handles, OpenBegin(h) \/ OpenOk(h) \/ OpenFails(h)
      PROVE  Rest
  BY <1>5 DEF OpenBegin, OpenOk, OpenFails, OpenSocket, AttemptFails, driverVars
<1>6. CASE NeighbourStep
  <2>1. CASE NeighbourResolves
    BY <2>1 DEF NeighbourResolves, KindFor
  <2>2. CASE NeighbourConnects
    BY <2>2 DEF NeighbourConnects, OpenSocket
  <2>3. CASE NeighbourFails
    BY <2>3 DEF NeighbourFails, AttemptFails
  <2>4. CASE NeighbourLeaves
    BY <2>4 DEF NeighbourLeaves, CloseSocket
  <2>5. QED
    BY <1>6, <2>1, <2>2, <2>3, <2>4 DEF NeighbourStep
<1>7. CASE RequestDisconnection
  BY <1>7 DEF RequestDisconnection
<1>8. QED
  BY <1>2, <1>3, <1>4, <1>5, <1>6, <1>7, DriversAssumption DEF DriversNext, NeighbourStep

\* The parts of the invariant about the worker and its transport.
LEMMA WorkerStep ==
    ASSUME PathInv, [DriversNext]_pathVars
    PROVE  /\ worker' \in Worker
           /\ TransportBelongsToWorker' /\ BearerInv' /\ ConfirmedWhenRoutesAgree'
<1>. DEFINE Rest == /\ worker' \in Worker /\ TransportBelongsToWorker'
                    /\ BearerInv' /\ ConfirmedWhenRoutesAgree'
<1>2. /\ UNCHANGED <<platform, preference>>
      /\ broker' \in Broker /\ (broker.state # "unknown" => broker'.state # "unknown")
  BY BrokerStep DEF fixed
<1>. USE DEF PathInv, Worker, TransportBelongsToWorker, BearerInv, WithTransport,
   ConfirmedWhenRoutesAgree, ConfirmedOnOwnBearer, RoutesAgree, Broker
<1>3. CASE UNCHANGED <<worker, port, kind, route, neighbour>>
  BY <1>2, <1>3
<1>4. CASE UNCHANGED pathVars \/ DeviceChanges \/ SnapshotExpires \/ ListCandidates \/ PairOk
           \/ PairFails \/ ForgetBegin \/ ForgetEnd \/ LinkLost \/ RequestDisconnection \/ DialOk
           \/ Transmit \/ Background
  BY <1>3, <1>4, TransportsAssumption DEF pathVars, vars, driverVars, DeviceChanges,
     SnapshotExpires, ListCandidates, PairOk, PairFails, ForgetBegin, ForgetEnd, LinkLost,
     RequestDisconnection, LinkDrops, DialOk, DialAnswers, Transmit, WriteBegin, Background,
     OrphanOpens, OrphanCloses, CancelContext, DeviceTakes, WriteAnswers
<1>5. CASE Resolve
  BY <1>2, <1>5 DEF Resolve, setRoute, preferredEndpoint, endpointForDevice, Preferences
<1>6. CASE OpenRefused \/ GraceEnds \/ CreatePrinter
  BY <1>2, <1>6 DEF OpenRefused, GraceEnds, CreatePrinter, At, vars
<1>7. ASSUME NEW pref \in Preferences, PairBegin(pref) \/ CreateNeighbour(pref)
      PROVE  Rest
  BY <1>2, <1>7 DEF PairBegin, CreateNeighbour, vars
<1>8. CASE Leave /\ UNCHANGED <<route, neighbour>>
  BY <1>2, <1>8 DEF Leave, At, ClosePort
<1>9. CASE Verify
  BY <1>2, <1>8, <1>9 DEF Verify, Confirm, linkState, BrokerDecides, At, KindFor, vars
<1>10. CASE Stopped \/ ManualReconnect \/ Recheck
  BY <1>2, <1>3, <1>8, <1>10 DEF Stopped, ManualReconnect, Recheck, vars
<1>11. CASE WriteStep
  <2>1. kind' = kind /\ (port' = port \/ port' = NoHandle)
    BY <1>11 DEF WriteStep, WriteProceeds, ChunkBegin, WriteEnd, ChunkEnd, ChunkTimesOut,
       ChunkCancelled, GiveUp, DelayEnds, DelayCancelled, MockWrite, MockHangs,
       MockCancelled, Fail, ClosePort
  <2>2. QED
    BY <1>2, <1>11, <2>1 DEF WriteStep, At
<1>12. ASSUME NEW h \in Handles, OpenBegin(h) \/ OpenOk(h) \/ OpenFails(h)
       PROVE  Rest
  BY <1>2, <1>12, TransportsAssumption DEF OpenBegin, OpenOk, OpenFails, OpenSocket,
     ConnectBegin, ConnectOk, ConnectFail, DialFails, At, driverVars
\* The route may change, but where the routes agree it stays what it is.
<1>13. CASE NeighbourStep
  <2>1. UNCHANGED <<worker, port, kind>> /\ neighbour'.pref = neighbour.pref
        /\ neighbour.at # "absent" /\ neighbour'.at # "absent"
    BY <1>13 DEF NeighbourStep, NeighbourResolves, NeighbourConnects, NeighbourFails,
       NeighbourLeaves, Neighbour, vars
  <2>2. route' = route \/ (neighbour.pref # "auto" => route' = neighbour.pref)
    BY <1>13 DEF NeighbourStep, NeighbourResolves, NeighbourConnects, NeighbourFails,
       NeighbourLeaves, setRoute, preferredEndpoint
  <2>3. QED
    BY <1>2, <2>1, <2>2
<1>14. QED
  BY <1>4, <1>5, <1>6, <1>7, <1>9, <1>10, <1>11, <1>12, <1>13, DriversAssumption
     DEF DriversNext, NeighbourStep

\* The part about the snapshot of darwin.
LEMMA SnapshotStep ==
    ASSUME PathInv, [DriversNext]_pathVars
    PROVE  SnapshotInv'
<1>. USE DEF PathInv, SnapshotInv, Worker, Snapshot
<1>1. Observed \in LinkStates /\ "unknown" \in LinkStates
  BY DEF Observed, LinkStates
<1>2. ASSUME snapshot' \in Snapshots
      PROVE  /\ snapshot' \in Snapshot
             /\ worker.at = "again" /\ snapshot'.fresh => snapshot'.taken # "before_open"
  <2>1. CASE snapshot' = snapshot
    BY <2>1
  <2>2. CASE \E s \in {Observed, "unknown"} :
                snapshot' = [state |-> s, fresh |-> TRUE, taken |-> Moment]
    BY <1>1, <2>2 DEF Moment, TransportBelongsToWorker
  <2>3. QED
    BY <1>2, <2>1, <2>2 DEF Snapshots
<1>3. CASE UNCHANGED <<worker, snapshot>>
  BY <1>3
<1>4. CASE UNCHANGED pathVars \/ DeviceChanges \/ PairOk \/ PairFails \/ Transmit
           \/ Background \/ LinkLost \/ RequestDisconnection \/ DialOk \/ NeighbourStep
           \/ ForgetBegin \/ ForgetEnd
  BY <1>3, <1>4 DEF pathVars, driverVars, DeviceChanges, PairOk, PairFails, Transmit,
     Background, LinkLost, RequestDisconnection, DialOk, NeighbourStep, NeighbourResolves,
     NeighbourConnects, NeighbourFails, NeighbourLeaves, ForgetBegin, ForgetEnd
<1>5. ASSUME NEW pref \in Preferences, PairBegin(pref) \/ CreateNeighbour(pref)
      PROVE  SnapshotInv'
  BY <1>3, <1>5 DEF PairBegin, CreateNeighbour
<1>6. CASE Resolve
  BY <1>2, <1>6 DEF Resolve
<1>7. CASE OpenRefused \/ SnapshotExpires \/ CreatePrinter
  BY <1>7 DEF OpenRefused, SnapshotExpires, CreatePrinter, At
<1>8. CASE GraceEnds
  BY <1>8 DEF GraceEnds, GraceSnapshot, At
<1>9. CASE ListCandidates
  BY <1>2, <1>9 DEF ListCandidates
<1>10. CASE Verify
  BY <1>2, <1>10 DEF Verify, Confirm, Leave, At
<1>11. CASE Recheck
  BY <1>2, <1>11 DEF Recheck, Leave, At
<1>12. CASE Stopped \/ ManualReconnect \/ WriteStep
  BY <1>12 DEF Stopped, ManualReconnect, WriteStep, Leave, At
<1>13. ASSUME NEW h \in Handles, OpenBegin(h) \/ OpenOk(h) \/ OpenFails(h)
       PROVE  SnapshotInv'
  BY <1>13 DEF OpenBegin, OpenOk, OpenFails, At, driverVars
<1>14. QED
  BY <1>4, <1>5, <1>6, <1>7, <1>8, <1>9, <1>10, <1>11, <1>12, <1>13, DriversAssumption
     DEF DriversNext, NeighbourStep

\* Every step keeps the invariant.
LEMMA PathStep ==
    ASSUME PathInv, [DriversNext]_pathVars, ~LateGattErrors
    PROVE  PathInv'
<1>1. TransportInv'
  BY PathStepIsTransportStep, TransportStep DEF PathInv
<1>2. QED
  BY <1>1, BrokerStep, WorkerStep, SnapshotStep DEF PathInv, fixed

\* The inductive invariant holds: the drivers, the transport and the worker agree about
\* the connection in every reachable state.
THEOREM PathInvariant ==
    ASSUME ~LateGattErrors
    PROVE  DriversSpec => []PathInv
<1>1. DriversInit => PathInv
  BY InitPath
<1>2. PathInv /\ [DriversNext]_pathVars => PathInv'
  BY PathStep
<1>3. QED
  BY <1>1, <1>2, PTL DEF DriversSpec

\* A worker on linux is connected only on account of a reading of the bearer that it
\* writes to, when it alone has the address or its neighbour asks for the same protocol
\* by name (driver.go LinkState, EnsureConnected and setRoute); whatever the neighbour
\* does, and whatever becomes of the device between two connections.
THEOREM PathBearer ==
    ASSUME ~LateGattErrors
    PROVE  DriversSpec => []ConfirmedWhenRoutesAgree
<1>1. PathInv => ConfirmedWhenRoutesAgree
  BY DEF PathInv
<1>2. QED
  BY <1>1, PathInvariant, PTL

\* A transport is open exactly while the worker is verifying or connected (worker.go
\* connectOnce and closeTransport).
THEOREM PathTransport ==
    ASSUME ~LateGattErrors
    PROVE  DriversSpec => []TransportBelongsToWorker
<1>1. PathInv => TransportBelongsToWorker
  BY DEF PathInv
<1>2. QED
  BY <1>1, PathInvariant, PTL

\* The second reading of a link on darwin never goes by a snapshot from before the port
\* was opened (worker.go connectOnce, darwin/driver.go devices).
THEOREM PathSecondReading ==
    ASSUME ~LateGattErrors
    PROVE  DriversSpec => SecondReadingIsNew
<1>. DEFINE A == platform = "darwin" /\ worker.at = "again" /\ worker'.at = "down"
                   => snapshot'.taken # "before_open"
<1>1. ASSUME PathInv, [DriversNext]_pathVars
      PROVE  [A]_pathVars
  <2>. SUFFICES ASSUME DriversNext, platform = "darwin", worker.at = "again",
                       worker'.at = "down"
                PROVE  snapshot'.taken # "before_open"
    BY <1>1
  <2>1. Verify
    BY <1>1 DEF DriversNext, Resolve, OpenRefused, GraceEnds, DeviceChanges,
       SnapshotExpires, ListCandidates, PairOk, PairFails, ForgetBegin, ForgetEnd,
       CreatePrinter, PairBegin, Stopped, ManualReconnect, Recheck, Transmit, WriteStep,
       Background, OpenBegin, OpenOk, OpenFails, DialOk, LinkLost, RequestDisconnection,
       CreateNeighbour, NeighbourResolves, NeighbourConnects, NeighbourFails,
       NeighbourLeaves, driverVars
  <2>2. snapshot' \in Snapshots
    BY <2>1 DEF Verify
  <2>3. CASE snapshot.fresh
    BY <2>2, <2>3, <1>1 DEF Snapshots, PathInv, SnapshotInv
  <2>4. CASE ~snapshot.fresh
    <3>1. snapshot'.taken = Moment
      BY <2>2, <2>4 DEF Snapshots
    <3>2. QED
      BY <3>1, <1>1 DEF Moment, PathInv, TransportBelongsToWorker
  <2>5. QED
    BY <2>3, <2>4
<1>2. QED
  BY <1>1, PathInvariant, PTL DEF DriversSpec, SecondReadingIsNew

\* The transport that the drivers choose keeps the contract of Write, whatever the
\* worker, the drivers, the device and the operator do.
THEOREM PathKeepsContract ==
    ASSUME ~LateGattErrors
    PROVE  DriversSpec => KeepsContract
<1>1. DriversInit => Contract!Init
  BY ContractInit DEF DriversInit
<1>2. ASSUME PathInv, PathInv', [DriversNext]_pathVars
      PROVE  [Contract!Next]_(Contract!contractVars)
  BY <1>2, PathStepIsTransportStep, ContractStep DEF PathInv
<1>3. QED
  BY <1>1, <1>2, PathInvariant, PTL DEF DriversSpec, KeepsContract, Contract!Spec
=============================================================================
