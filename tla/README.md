# Verification of the print agent

The print agent accepts print jobs over a loopback HTTP API, keeps them in
SQLite and sends them to Bluetooth receipt printers. Its promise is about
paper: a ticket that was accepted is printed, or somebody is told that it was
not, and no ticket is printed twice unless an operator asks for it. A receipt
printer does not acknowledge what it prints, so the promise has to survive
writes that fail half way, crashes between a write and the commit that records
it, databases and Bluetooth daemons that go away, and operators who reprint,
cancel, pair and reconfigure at any moment. This directory models the agent in
TLA+ from the HTTP request to the bytes on the link, checks it with TLC and
proves, with TLAPS, the safety properties and the refinements for every value of
the constants.

All source paths below are relative to `src/`.

## 1. Inventory

| Component | State | Operations | Hard part |
|---|---|---|---|
| Store (`internal/jobs/repository.go`, `storage/migrations/0001_init.sql`) | tables `jobs`, `job_printers`, `print_runs`, `request_deduplication` | accept, claim, mark, retry, reprint, cancel, confirm, recover, purge; one transaction each | the same rows are changed by clients, workers and the retention loop in any order |
| Job service (`internal/jobs/service.go`) | none | Accept, Reprint, ConfirmPrinted, CancelRun, CancelJobTargets | check outside, decide inside the transaction; duplicates |
| Job view (`jobs/models.go` `DeriveJob`, `ListJobDetails`) | none; derived from the rows | state and attention flag of a Job | three independent readings of the same rows (Go, SQL filter, purge condition) |
| Worker (`internal/printers/worker.go`) | one goroutine per enabled printer: connection, claimed run, outcome | connect and back off, verify the link, materialize retries, drain, claim, render, write, persist | failure at every point between claim, first byte, last byte and commit |
| Transmission permit, persistence gate (`transmission_gate.go`, `persistence.go`) | a one-slot channel; a counter of failing writers | acquire, release; begin, end, wait | everyone waiting on everyone |
| Manager (`manager.go`) | worker map, `lifecycleMu` | start, stop, apply, enable, remove, reconnect | checks that must stay true while it waits for a worker |
| Lifecycle (`internal/app/service.go`) | none | New (crash recovery), Run, graceful stop, retention loop | crash and restart, second start on the same data |
| Transports (`internal/transport`, `platform/linux/rfcomm.go`, `gatt.go`) | an open port, socket or connection; goroutines of calls under way | connect, write in chunks, close | telling "nothing was sent" from "something may have been sent", with goroutines that outlive their caller |
| Linux profile broker (`platform/linux/profile.go`) | registration, waiters, active sockets, call tokens, link states | Connect, cancelPending, close; BlueZ's NewConnection, RequestDisconnection, Release | a connection that arrives after its waiter gave up; a daemon that restarts |
| Platform drivers (`platform/linux/driver.go`, `bluez.go`, `platform/darwin`, `platform/windows`) | routes; the cached device snapshot | resolve an endpoint, read the link, pair, disconnect, forget, list | readings that are stale or of the other bearer |
| HTTP API (`internal/api/server.go`, `middleware.go`, `handlers.go`) | rate limiters, the allowed origin | middleware, handlers | requests that run concurrently with revocation, settings and purge |
| Pairing and tokens (`internal/api/auth.go`) | the pairing code, `client_tokens` | generate, pair, validate, revoke | one code, several requests at once |
| Storage (`storage/sqlite.go`) | the database file and its write-ahead log | open, migrate, vacuum | what a commit survives |
| Configuration (`internal/config`) | `printers`, `settings` | load, save, validate | none besides the Manager's |
| Rendering, events, diagnostics, logging, dashboard, probe tool | buffers, log files | formatting and output | none that changes what is printed |

How they interact. An API request passes CORS, rate limit and token check and
calls the service, which takes `lifecycleMu` for reading (`BeginAcceptance`) and
issues one transaction; the event wakes the worker, which polls anyway. A worker
asks the platform driver for an endpoint, opens a transport, has the driver
confirm the link, and from then on claims the oldest queued run of its printer
while it holds the process-wide permit, sends it and records the outcome before
it releases the permit. If the database refuses the outcome, the worker retries
for ever and the gate keeps every worker from claiming. On Linux a transport
gets its socket from the profile broker, which BlueZ calls back. The Manager
starts and stops workers, holding `lifecycleMu` for writing. On start, rows left
in `processing` become `uncertain`.

What makes each correct is the list of properties in section 3; what could go
wrong, with its line, is the list of hazards in `PROJECT.json`.

## 2. Modules

| Module | Models | Uses |
|---|---|---|
| `PrintRuns` | the store: every transaction, in any order | |
| `JobView` | `DeriveJob`, attention filter, purge condition, as functions of the store's state | extends `PrintRuns` |
| `PrintAgent` | workers, permit, gate, Manager, lifecycle, database outages, on top of the store | extends `PrintRuns`; instantiates `PrintRuns`, `WriteContract` |
| `WriteContract` | what a worker may rely on when it calls `Transport.Write` | |
| `Transports` | one transport of any of the four kinds, byte by byte | instantiates `WriteContract` |
| `Drivers` | the way from `connectOnce` through the platform drivers to the transport, and the Bluetooth management calls | extends `Transports` |
| `ProfileBroker` | the broker between BlueZ and the RFCOMM transports | |
| `ApiServer` | access to the API, pairing, submission and query of a Job | |
| `PrintRunsProofs`, `JobViewProofs`, `PrintAgentProofs`, `TransportsProofs`, `DriversProofs`, `ProfileBrokerProofs`, `ApiServerProofs` | theorems | extend the module they are about; those of the view and of the agent also `PrintRunsProofs` |
| `MC...` | symmetry sets and function-valued constants for TLC | |

Three refinements tie the modules together. `PrintAgent` implements the store
(`ImplementsStore`): a worker never changes the tables in a way the store's
transactions do not allow, so the theorems about `PrintRuns` hold of it.
`PrintAgent` uses a transport by its contract (`WritesByContract`), and
`Transports`, alone and as `Drivers` uses it, implements that contract
(`KeepsContract`). What `PrintAgent` assumes of a write is therefore what the
four transports deliver. All three are checked by TLC and proved (section 4).

### PrintRuns

A run is identified by its `queue_sequence`; `runs[r]` is the row, `NoRun` where
there is none (numbers are never reused). A Job is its idempotency key
(`jobId`, `template`), so a resubmission is an `Accept` that is not enabled. The
columns that no transaction tests are left out: payload, hashes, texts, byte
counts, `run_number`, `reprint_of_run_uid` and timestamps, except `expires_at`,
which is in the past (`expired`) or not. An action is one transaction with all
its statements; one that returns an error is rolled back and is not a step.
`Transition` keeps the idempotent answer of `transition()`: repeating a
transition that was committed succeeds.

Anyone may issue any transaction at any time here, with any arguments. That is
more than the program does and makes the module the abstract specification of
the store.

The unique indexes and the status trigger of the schema are not guards of the
model. They are a second line of defence in the code, and the properties say
that they never have to refuse anything: a transaction that ran into one would
fail for a reason that its caller does not expect.

### PrintAgent

`worker[p].pc` names the point a worker's goroutine has reached; the module's
header lists them. A step runs to the next point at which another goroutine can
interfere: a call into the database, a channel operation, a lock, a write.
`db = "down"` makes every statement fail. `PersistAnswerLost` is a transaction
that takes effect although `persist()` sees an error (the `Ping` after it failed,
or the answer to `COMMIT` was lost). `paper` is a history variable: the runs of
which a byte may have reached the printer. `SendBytes` adds to it at some moment
of the write, before which the write may still fail unambiguously.

A Manager operation is split at its calls into the database and at its wait for
the worker, because workers run in between; `mgr` is the operation that holds
`lifecycleMu`. The handlers of requests may still run while the agent stops,
since `Shutdown` gives up after five seconds.

Two things of the code are absorbed: the wake-up channel, because a wake-up only
shortens the five-second poll; and how a connection comes about, which is
`Drivers`' subject.

Assumed, not modelled: a claim that reports an error was rolled back; no print
attempt or outage lasts the 48 hours after which a Job expires; the first start
has its printers configured.

### WriteContract and Transports

The contract has two variables: the phase of the current document and whether a
byte of it has reached the device. Success means that it was sent; an error that
is not `Ambiguous()` means that nothing was and nothing will be; after an
ambiguous error bytes may still arrive.

In `Transports` the caller, the goroutine of the current chunk (`flight`) and the
device move separately. The device takes bytes while the goroutine runs, and may
go on taking them after the caller gave up (`flight.st = "lost"`). `reached`
counts what it took. The four kinds share the loop; where they differ (a short
write, a write without a byte count, a pause between chunks, an abandoned open)
the action names the kind. Sizes are scaled down: a chunk of two bytes is the
smallest that can be cut short.

All waits of a caller end by a timer, with two exceptions that have a `pc` of their
own. In `"dial"` a GATT `Connect` waits for `Device1.Connect` (`bluez.go:395`), which
gets the worker's context; the 30 seconds start after it. In `"hang"` a mock transport
with `HangOnWrite` waits. Both end when BlueZ answers, which it need not, or when the
context is cancelled.

`LateGattErrors` is an assumption about BlueZ. `gatt.go` reports an error of the
first `WriteValue` as nothing sent unless the deadline passed or the context was
cancelled. If BlueZ may answer a delivered value with an error (a link that drops
between the delivery and its response), that is wrong: with `LateGattErrors = TRUE`
TLC violates `TransportInv`, with a part of the ticket on paper after a `not_sent`.
The runs and the theorems assume that BlueZ does not do this, which nothing in the
repository says. For a characteristic that offers only write-without-response, "delivered" means that
BlueZ has sent the value.

### Drivers

One device, one of the three platform drivers or the mock transport, and one printer
with its worker and transport. On Linux a second printer may have the same address,
the neighbour: its worker appears by what it does to the state that is kept per
address, the driver's route and the broker, and to the device; its own transport does
not. `worker.at` is where `connectLoop` and `connectOnce` are, next to the
transport's own state. `worker.source` records what the reading that confirmed
the link was of; `snapshot.taken` when the macOS driver's cached snapshot was
taken; `offer` a device that the pairing call has just reported as ready. These
are history variables of the properties. The classification of a device keeps
the source's tests; the class, icon and UUIDs are abstracted to how it looks and
which of the two print services it offers. Whether a configured address says RFCOMM
or BLE is left out: the route takes its place before anything depends on it.

The profile broker appears as `broker`: what `ConnectionState` reports and whose
socket is active. How the broker gets there is `ProfileBroker`'s subject.

### ProfileBroker

One attempt is one call of `Connect`; its number names the pending connection, the
call token and the socket. A step is a section under `mu`, or one receive or
send, so a caller of `cancelPending` goes through four steps between which BlueZ
may call. The two printers of the run share an address: that is where waiters,
tokens and sockets of different callers meet. `told` records the sockets that
BlueZ was asked to disconnect.

### ApiServer

A request is a goroutine with its origin and its token; a step is one statement
or one section under a mutex. There is one Job identity, which is submitted with
different contents by different owners, purged and submitted again. Origins come
in two spellings each, `Normal` is `normalizeOrigin` on them. The token bucket is
kept in whole fractions of a token; `since` and `passed` are an observer that
starts at an arbitrary moment. Left out: the keyed rate limit of the POS
endpoints, which can only refuse; `last_used_at`, which nothing reads back; the
pages of a Job list.

Definitions called a faulty variant in the modules are plausible bugs. Each one
differs from the definition that follows it in one respect and is used only to
confirm that a property would notice: with the variant in place TLC finds the
property violated.

## 3. Runs

Every run has `CHECK_DEADLOCK FALSE`: the agent may rest in a state in which
everything is printed, all retries are used up or the bounds are reached.
That nobody waits for ever is stated by the liveness properties instead.

### Passing

| Run | Instance | Properties |
|---|---|---|
| `store_histories` | 1 Job on 1 or 2 printers, 1 request id, 6 runs, 3 retries | `StoreInv`, `OneUnmarkedCopy`, `RetryFollowsFailure`, `RetriesBounded`, `OpenRunIsLatest`, `CancelledTargetIsQuiet`, `ReprintOnce`, `AttentionFilterAgrees`, `CompletedStays` |
| `agent_printing` | 2 printers, 3 runs, 1 outage, 1 crash, 1 second start | `AgentTypeOK`, `ProcessingIsOwned`, `PauseHasCause`, `StatusTellsTheTruth`, `NoUnmarkedDuplicate`, `WritesByContract` |
| `agent_lifecycle` | 1 printer, 2 runs, reprint, 1 outage, 2 operations, fair | `RetiredPrinterIsQuiet`, `CleanStopLeavesNothing`, `ImplementsStore`, `QueueDrains`, `PauseEnds`, `StopCompletes` |
| `agent_liveness` | 2 printers, 2 runs, fair | `QueueDrains` |
| `profile_broker` | 2 printers, 1 address, 3 attempts, 1 restart | `DescriptorsAccounted`, `WaiterHasCaller`, `ActiveIsOwned`, `TokenIsTheRunningCall` |
| `connection_path` | 4 platforms, 3 preferences, a dual-mode printer with its services resolved or not, a second printer of its address that asks for RFCOMM or BLE, document of 3 bytes in chunks of 2, 2 handles, fair | `TransportInv`, `ConfirmedWhenRoutesAgree`, `TransportBelongsToWorker`, `SecondReadingIsNew`, `LossIsNoticed`, `KeepsContract`, `CallsReturn` |
| `http_access` | 2 requests, 2 sites in 2 spellings, 2 codes, 2 Jobs, bucket of 1 | `OneTokenPerCode`, `PairingAttemptsBounded`, `ServedIsEntitled`, `AnswerIsOwnJob`, `TokenFitsItsPage` |

What they say of the program:

- `OpenRunIsLatest`: per Job and printer only the latest run still needs somebody,
  the worker or the operator. So a retry never competes with a reprint.
- `CancelledTargetIsQuiet`: a cancelled target does not come back with a reconnect.
- `OneUnmarkedCopy`, `NoUnmarkedDuplicate`: without the REPRINT mark a ticket is
  printed at most once, in the rows and on paper.
- `RetryFollowsFailure`, `RetriesBounded`: retries form chains of at most
  `MaxAutomaticRetries`, each a continuation of one failed run.
- `ReprintOnce`: a reprint request prints once per printer however often it is sent.
- `AttentionFilterAgrees`: the Job list's SQL and `DeriveJob` agree, with one
  exception, which the property states: a Job with a target whose only open run
  was cancelled by itself is shown as requiring attention but is not found by
  the filter.
- `CompletedStays`: a Job does not stop being completed.
- `ProcessingIsOwned`: one run is in flight at a time, and a worker owns it.
- `PauseHasCause`: the gate is closed exactly while a worker retries, which then
  holds the permit.
- `StatusTellsTheTruth`: a run recorded as failed sent nothing, a run recorded as
  transmitted did.
- `WritesByContract`, `KeepsContract`: the worker and the transports agree on what
  an answer of `Write` means.
- `RetiredPrinterIsQuiet`, `CleanStopLeavesNothing`: the checks of the Manager and
  of the graceful stop hold when they finish, not only when they are made.
- `QueueDrains`, `PauseEnds`, `StopCompletes`: work, pauses and stops end.
- `TransportInv`: the bytes on the device are accounted for at each point of each
  kind of write, the answer is true of them now and later, and no handle is lost.
- `CallsReturn`: `Connect` and `Write` return although the device does nothing. A
  connection that BlueZ does not answer, and a mock device that hangs, return once the
  context is cancelled, and this is all that is claimed of them.
- `ConfirmedWhenRoutesAgree`: of two printers with one address that ask for the same
  protocol by name, each is confirmed by a reading of its own bearer, whatever the
  other one does. For other preferences this is false, see `shared_address` below.
- `LossIsNoticed`: a worker does not stay connected over a link that the source it
  reads knows to be lost. If the route has become the other printer's, the source is
  not that of its own bearer, and nothing is claimed.
- `SecondReadingIsNew`: a printer is not given up by a reading older than the open.
- `TransportBelongsToWorker`: no transport stays open across a back-off. An abandoned
  open may still hold the endpoint; a reconnect then fails and is tried again.
- `DescriptorsAccounted`, `WaiterHasCaller`, `TokenIsTheRunningCall`: the broker
  loses nothing when timeouts, late callbacks and a restart overtake each other.
- `ActiveIsOwned`: an active socket has an owner, or BlueZ was told to disconnect
  it. The second case happens: `NewConnection` takes the waiter, the wait times
  out before the send (`profile.go:313`), and the socket goes to a channel that
  nobody reads. Until BlueZ answers `DisconnectProfile` with
  `RequestDisconnection`, further attempts find the device "already connected".
- `OneTokenPerCode`, `PairingAttemptsBounded`: a code is worth one token, and the
  number of guesses is what the bucket says.
- `ServedIsEntitled`, `TokenFitsItsPage`, `AnswerIsOwnJob`: who is served had a valid
  token of its own origin; a page that pairs gets a token it can use; and the Job
  in the answer is the one that was submitted.

Why the bounds are enough. The store's properties relate at most two runs of one
target or two workers. Two printers give the transactions on several targets their
cases, six runs give each target retries or reprints next to the other's, and to a
single target a full chain of the program's three retries, a reprint and its retry;
two workers are enough to contend for the permit; one crash or outage is placed at every point of every behaviour. Jobs meet only in the order of a
printer's queue, which no safety property depends on; the theorems cover any
number of them. A document of two chunks, the second shorter, has a first, a
middle and a last write; two handles are an abandoned open and its successor. With
two printers of one address the device offers both services, so that every pair of
preferences leads to a pair of bearers; `shared_address` has the neighbour in "auto"
too. The six devices of `ready_refused` cover each outcome of each test of the
classification; the theorems cover all devices. The pairing call is made for RFCOMM
where it only has to bond the device, and for every preference in `ready_refused`.
Three attempts on one address are one that was given up, its successor, and one that
is refused; two requests race for a code, a token or the UNIQUE constraint.

### Fairness

`FairSpec` of `PrintAgent` assumes weak fairness of every worker's steps (the Go
scheduler runs what can run, and the writes of the three real transports have
timeouts, which is `CallsReturn`; a mock that is told to hang is a test device and not
part of the assumption), of the Manager's steps and of the end of a stop; strong fairness
of `Acquire`, because the goroutines blocked on a channel are served in the order
of their arrival; and two things of the environment: that the database comes back
(weak), and that a printer that is tried again and again is reached (strong
fairness of `ConnectOk`, which includes that BlueZ answers some attempt to connect).
No fairness is assumed of clients, operators, outages or
crashes.

`DriversFairSpec` assumes weak fairness of the worker's own steps in a call
(`CallStep`), which include the timers of the writes and the opens; of its periodic
reading (`Recheck`); and of the three seconds after which a snapshot is too old. A
wait for `Device1.Connect` or in a hanging mock is a step of the worker only after a
cancellation. Fairness of `Recheck` presumes that the query itself returns, a D-Bus
call to BlueZ or a run of `system_profiler`, if only with an error; an unanswered
query would leave the worker connected. Nothing else is assumed of the device, the
goroutines of chunks, BlueZ and the operator; in particular nobody has to cancel.

### Disagreements between the code and what is said of it

Each of these runs ends with a counterexample; `findings` in `PROJECT.json` quotes
both sides.

| Run | Property | What happens |
|---|---|---|
| `retention_completed` | `CompletedIsPurgeable` | a Job that needed an automatic retry is never purged: the failed run before the retry has no resolution |
| `second_start` | `PauseEnds` | a second start recovers the run in flight before it finds the port taken; the first agent then retries its outcome for ever, with all printers paused |
| `outage_fails_run` | `FailedIsDeterministic` | an outage right after the claim fails the run without a retry |
| `shared_address` | `ConfirmedOnOwnBearer` | two printers with one address and different protocols: the driver keeps one route per address, and the worker with the RFCOMM socket is confirmed by BlueZ's state of the device, or the one over BLE by the broker |
| `ready_refused` | `ReadyDeviceConnects` | a BLE-only device that does not look like a printer is called ready, and `EnsureConnected` refuses it for ever for want of the Serial Port Profile |

Known, and not the subject of a run:

- `manager.go:182` tests for a processing run, saves the configuration and only
  then stops the worker, which may claim in between; the error message of line 187
  says that this cannot happen. The run is finished with the old configuration.
- `repository.go:783` lets the purge take a Job with a failed reprint on a target
  that was cancelled later, which the Job list still shows under attention.
- `sqlite.go:38` opens the database with `synchronous(NORMAL)`: a power failure may
  take back the commit of a claim whose bytes were sent, and the next start prints
  the ticket again. A crash of the process does not.
- `handlers.go:511` asks whether a printer uses the device and `handlers.go:520`
  removes it; a printer that is added in between loses its bond. In `Drivers` it is
  `CreatePrinter` between `ForgetBegin` and `ForgetEnd`. `BLUETOOTH_RECOVERY.md:149-151`
  says that Forget is unavailable until the printer is removed.
- `gatt.go:115` takes an error for the first value as proof that nothing was sent
  (`LateGattErrors`, section 2); `README.md:178` speaks of a confirmed zero-byte
  failure.
- An allowed origin saved with a default port (`https://pos.example:443`) is kept
  as it is and never equals the header a browser sends.
- After a UNIQUE violation `Accept` looks the Job up again; if it was purged in
  between, the client gets an internal error and has to submit again.

## 4. Proofs

| Module | Theorem | Property |
|---|---|---|
| `PrintRunsProofs` | `StoreInvariant` | `StoreInv`, the inductive invariant |
| | `StoreTypes` | `StoreTypeOK` |
| | `OpenRunIsAlwaysLatest` | `OpenRunIsLatest` |
| | `CancelledTargetsStayQuiet` | `CancelledTargetIsQuiet` |
| | `AtMostOneUnmarkedCopy` | `OneUnmarkedCopy` |
| | `RetriesFormChains` | `RetryFollowsFailure` |
| | `ReprintsTakeEffectOnce` | `ReprintOnce` |
| | `ChainsAreBounded` | `RetriesBounded` |
| `JobViewProofs` | `CompletedJobsStayCompleted` | `CompletedStays` |
| | `AttentionListIsComplete` | `AttentionFilterAgrees` |
| `PrintAgentProofs` | `AgentImplementsStore` | `ImplementsStore` |
| | `AgentInvariant` | `AgentInv`, the inductive invariant |
| | `AgentTypes` | `AgentTypeOK` |
| | `ProcessingAlwaysOwned`, `PauseAlwaysHasCause` | `ProcessingIsOwned`, `PauseHasCause` |
| | `StatusesTellTheTruth`, `NeverAnUnmarkedDuplicate` | `StatusTellsTheTruth`, `NoUnmarkedDuplicate` |
| | `RetiredPrintersStayQuiet`, `CleanStops` | `RetiredPrinterIsQuiet`, `CleanStopLeavesNothing` |
| | `WorkersKeepTheContract` | `WritesByContract` |
| `TransportsProofs` | `TransportIsSafe` | `TransportInv`, the inductive invariant |
| | `TransportKeepsContract` | `KeepsContract` |
| `DriversProofs` | `PathInvariant` | `PathInv`, the inductive invariant |
| | `PathBearer`, `PathTransport` | `ConfirmedWhenRoutesAgree`, `TransportBelongsToWorker` |
| | `PathSecondReading` | `SecondReadingIsNew` |
| | `PathKeepsContract` | `KeepsContract` |
| `ProfileBrokerProofs` | `BrokerInvariant` | `BrokerInv`, the inductive invariant |
| | `NoDescriptorIsLost`, `WaitersAreAwaited` | `DescriptorsAccounted`, `WaiterHasCaller` |
| | `ActiveSocketsAreOwned`, `TokensNameRunningCalls` | `ActiveIsOwned`, `TokenIsTheRunningCall` |
| `ApiServerProofs` | `ApiInvariant` | `ApiInv`, the inductive invariant |
| | `CodesYieldOneToken`, `PairingIsLimited` | `OneTokenPerCode`, `PairingAttemptsBounded` |
| | `OnlyTheEntitledAreServed`, `AnswersAreOwn`, `PagesCanUseTheirTokens` | `ServedIsEntitled`, `AnswerIsOwnJob`, `TokenFitsItsPage` |

Every inductive invariant was checked by TLC on the instances of section 3 before it
was proved.

**The store.** For any sets of Jobs, printers and request ids, any bound on the runs
and any number of retries. The only assumption is `StoreAssumption`: the two bounds
are natural numbers, and the stand-in for NULL is not a request id. None of the
parts of `StoreInv` is inductive alone. That a retry may be inserted needs
`OpenRunIsLatest` (nothing later is open); that it keeps `OneUnmarkedCopy` needs
that the run it continues failed; that a failed run keeps its only child needs that
children clear `retryable`; that a repeated request inserts nothing needs
`ReprintIsRecorded`; that a new number is fresh needs `RowsAreOwned`. The argument
has two layers. Lemma `StepPreserves` says what a change of the table has to
satisfy, row by row, to preserve the parts about pairs of runs; `InPlacePreserves`,
`TransitionPreserves` and `NewRows` instantiate it for the three shapes of change
(rows edited in place, one row through `transition()`, rows inserted). One lemma per
transaction then shows that it has one of these shapes, and `NextPreserves` collects
them.

**The retries.** `RetriesBounded` is about `RetryDepth`, a recursive function of the
table, and what such a function computes is usually shown by induction over its
argument, which is out of the provers' reach. The proof runs along the behaviour
instead. `DepthInv` says that the equation of `RetryDepth` has exactly one solution
for the present table; `DepthExtends` that after a change that keeps rows, deletes
whole chains or continues a row that was there (`ChainsExtend`) it has exactly one
again, the old one extended; and every transaction is such a change. The bound then
follows from the test that `MaterializeRetry` makes.

**The view.** `CompletedStays` follows from how rows evolve: a row that fulfils its
target keeps doing so while its Job is stored. `AttentionFilterAgrees` compares the SQL
filter with the switch in `DeriveJob`, and the hard case is the default branch of the
switch, in which the filter has to find a run that the switch does not look for. That
needs `ViewInv`: only an uncertain run is ever confirmed, and the latest run of a
target was not resolved by a reprint, because the reprint would be later.

**The agent.** For any sets of printers, Jobs and request ids and any numbers of runs,
outages, crashes, operations and second starts, from `StoreAssumption` and
`AgentAssumption`. `AgentImplementsStore` comes first: every step is a transaction of
the store or leaves the tables alone, so `StoreInv` is an invariant of the agent and
part of `AgentInv`. The other parts are what the properties lack to be inductive:

- `WorkerOK`, `GateInv`: the permit is in the channel or with exactly one worker, and
  only that worker may be counted by the gate. `PauseHasCause` and "one run in flight"
  rest on it.
- `LifecycleInv`: without a process there are no workers, and the check that
  `RemovePrinter` made stays true while it waits; `RetiredPrinterIsQuiet` is the case
  after the wait.
- `ClaimsInv`: a run a worker is working on stays in the table until its outcome is
  recorded (`KeepsRun`), and at each point of the attempt its status and the paper are
  in one of a few combinations (`AttemptOK`). A second start may have made the run
  uncertain in between, and a commit whose answer was lost may have recorded the
  outcome already; both are among the combinations.
- `OwnerInv`: a run in processing has a worker, or the process died.
- `PaperInv`: `StatusTellsTheTruth`, and nothing on paper has a number that is still to
  be handed out. With `OneUnmarkedCopy` of the store it gives `NoUnmarkedDuplicate`:
  of two unmarked runs of a target the earlier one failed, hence sent nothing.

Most steps touch one side only, and lemma `FrameStep` treats them together: steps of
the process between points where a worker holds nothing, and steps of the store that
move no row into or out of an attempt. The claim, the sending, the recording of an
outcome, the start and the crash have lemmas of their own. `WorkersKeepTheContract`
uses the invariant to show, for each worker, that a step of the agent starts a write,
sends, answers or leaves the contract's state alone.

**The transports.** For any length of a document, chunk size and set of handles, from
`TransportsAssumption` and `~LateGattErrors`. What the answer says (`AnswerIsTrue`)
is not inductive: that an unambiguous error means nothing was sent needs, at the
moment of the answer, that what the device took is what was counted plus what the
chunk in flight has lost (`BytesAddUp`), and that a transport in `Write` has its port
(`HandlesAccounted`). There is one lemma per action. The refinement of the contract
maps the caller in the loop, in the wait and in the pause to "writing"; every step of
a transport is then a step of the contract or a stutter.

**The connection path.** For any platforms, any non-empty set of devices and any
preferences of a second printer with the same address. Every step of the path is a
step of the transport or leaves it alone (`PathStepIsTransportStep`), so the
transport's invariant and its refinement carry over without a second proof.
`PathInv` adds where the worker has a transport, how old a snapshot may be
(`SnapshotInv`), and `BearerInv`: as long as the printers agree on the protocol, the
route and the kind of the worker's transport do too, although the neighbour may
resolve, connect, fail and leave between any two steps of the worker and may be added
at any moment; and a worker with an RFCOMM transport never finds the broker without a
state of the address, which would send the reading to BlueZ. `SecondReadingIsNew` is an action property and follows
from the invariant of the state before the step.

**The broker.** For any sets of printers and addresses, any assignment of one to the
other and any numbers of attempts and restarts; the assumption is that there is at
least one address. The four properties need each other, and three facts besides: an
attempt has one caller and is untouched until its waiter is installed (`CallerInv`),
so is a number that was not given out (`FreshInv`), and the tables hold an attempt
under its own address and in the right part of its life (`TableInv`): a waiter has no
descriptor yet, an active socket has an open one. That a new registration may clear
the active sockets and the tokens of the old one, and that `NewConnection` may give a
socket to a waiter without asking whose it is, rest on these. Steps that only move a
caller and steps that close sockets are treated together (`CallerMovesKeep`,
`ClosesKeep`).

**The API.** For any sets of origins, contents and requests, any normalisation that is
idempotent, and any burst, rate and cost of the limiter. `ApiInv` has one part for each
concern. `CodeInv`: a code is in one hand at a time, guessed by anybody while it is
valid, then with the one request that was accepted, then in its token; the token is
inserted outside of the lock, which is why the hand in between counts. `OriginInv`: what
a request is entitled to at each point after the check, while tokens are revoked and the
allowed origin changes. `AnswerInv`: the answer belongs to the client from the moment it
is chosen, while the Job is purged and submitted by others. `BucketInv` is the potential
of the bucket: what has passed since the observer's start and what the bucket would let
through now are paid for by a full bucket and the time since. The property itself is not
inductive, because it says nothing about the level of the bucket.

Only model-checked: the liveness properties `QueueDrains`, `PauseEnds`, `StopCompletes`,
`LossIsNoticed` and `CallsReturn`, because reasoning about fairness and `ENABLED` is out
of this prover's reach. The runs that end with a counterexample refute a property and
leave nothing to prove.

## 5. Not modelled

- Opening, migrating and vacuuming the database; the loss of power.
- Rendering, hashing and validation: they succeed or fail.
- Bluetooth discovery (a call that BlueZ keeps the state of), the parsing of
  `system_profiler`, names of device nodes; the broker's `Disconnect`, which nothing
  in the program calls.
- The pages and filters of listings other than the attention filter: `ListJobDetails`
  reads each Job in a query of its own, outside of a transaction, so a Job that is
  purged meanwhile makes the whole list an error, which a client repeats.
- The keyed rate limiter: one bucket per origin and authorization header, never
  removed.
- Events, diagnostics, logging, dashboard, the probe tool: they do not decide what is
  printed.

## 6. Plan

Done: the store and its view, the agent on top of it, the transports, the drivers,
the broker and the access to the API; the proofs of all their safety properties and
refinements. What would come next:

1. The composition of `ProfileBroker` with `Drivers` for two printers with one
   address, in place of `broker`, and the proof that `broker` abstracts it.
2. The safety half of the liveness arguments: that a worker which waits, for the gate or
   the permit, waits for somebody who can take a step, as an invariant that can be
   proved.
3. The retention of the rolling log file and of the log store.
