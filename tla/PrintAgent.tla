---------------------------- MODULE PrintAgent -----------------------------
(***************************************************************************)
(* The running agent on top of the store: one worker goroutine per enabled *)
(* printer (internal/printers/worker.go), the process-wide transmission    *)
(* permit and persistence gate, the Manager that starts and stops workers  *)
(* (manager.go), start-up, graceful stop and crash (internal/app), and the *)
(* database going away and coming back.                                    *)
(*                                                                         *)
(* A worker's program counter names the point its goroutine has reached:   *)
(*   connect     connectLoop                 claim    claimNext            *)
(*   backoff     waiting after an attempt    process  process, before Write*)
(*   materialize materializeRetries          write    inside tr.Write      *)
(*   drain       the for of drainQueue       persist  inside persist()     *)
(*   acquire     transmission.acquire        idle     the select of run()  *)
(*   none        no goroutine                                              *)
(* A test of ctx.Err() happens with the step that leads to it: a context   *)
(* cancelled a moment later is a context cancelled after the test.         *)
(*                                                                         *)
(* The transport is modelled by its contract (transport.WriteError): an    *)
(* error that is not Ambiguous() means that no byte left the machine.      *)
(***************************************************************************)
EXTENDS PrintRuns

CONSTANTS
    AutoReconnect,    \* printers configured with autoReconnect
    MaxOutages,       \* bound: database outages and lost commit answers
    MaxCrashes,       \* bound: crashes of the process
    MaxOperations,    \* bound: administrative operations
    MaxSecondStarts   \* bound: starts of a second agent on the same data

ASSUME AgentAssumption ==
    /\ AutoReconnect \subseteq Printers
    /\ MaxOutages \in Nat /\ MaxCrashes \in Nat
    /\ MaxOperations \in Nat /\ MaxSecondStarts \in Nat

VARIABLES
    agent,    \* "up", "stopping", "stopped" (by Run) or "crashed"
    db,       \* whether SQLite accepts statements: "up" or "down"
    config,   \* config[p]: the printer is "enabled", "disabled" or "absent"
    mgr,      \* the operation that holds lifecycleMu for writing
    worker,   \* worker[p]: the goroutine of printer p
    permit,   \* tokens in the channel of the transmission gate
    failures, \* persistenceGate.failures
    paper,    \* history: runs of which a byte may have reached the printer
    used      \* how much of each bound has been used up

procVars == <<mgr, worker, permit, failures>>
envVars == <<agent, db, config, paper, used>>
vars == <<storeVars, procVars, envVars>>

Pcs == {"none", "connect", "backoff", "materialize", "drain", "acquire", "claim",
        "process", "write", "persist", "idle"}
Outcomes == {"none", "transmitted", "failed", "not_sent", "uncertain"}

\* cancel: ctx is cancelled; failing: gate.begin was called and not gate.end;
\* cand: the candidates read by MaterializeRetries; reconnect: the channel.
Worker == [pc : Pcs, cancel : BOOLEAN, connected : BOOLEAN, reconnect : BOOLEAN,
           cand : SUBSET RunIds, run : 0..MaxRuns, outcome : Outcomes,
           failing : BOOLEAN]

NoWorker == [pc |-> "none", cancel |-> FALSE, connected |-> FALSE,
             reconnect |-> FALSE, cand |-> {}, run |-> 0, outcome |-> "none",
             failing |-> FALSE]

\* The condition of the for in run() and in connectLoop: a cancelled worker
\* returns, which closes the transport and the channel done.
Continue(w) == IF w.cancel THEN NoWorker ELSE [w EXCEPT !.pc = "connect"]

\* startWorker, possibly under a parent context that is already cancelled.
NewWorker == Continue([NoWorker EXCEPT !.cancel = (agent = "stopping")])

NoOp == [op |-> "none"]

Faults == {"outage", "crash", "operation", "second"}

Spend(f, max) == used[f] < max /\ used' = [used EXCEPT ![f] = @ + 1]

Set(p, w) == worker' = [worker EXCEPT ![p] = w]

-----------------------------------------------------------------------------
(* The worker's connection *)

PendingRetries(p) == {r \in Live : runs[r].printer = p /\ RetryPending(r)}

\* materializeRetries reads its candidates; a read error ends it.
Materialize(w, p) ==
    LET cand == IF db = "up" THEN PendingRetries(p) ELSE {}
    IN  [w EXCEPT !.pc = IF cand = {} THEN "drain" ELSE "materialize", !.cand = cand]

\* Faulty variant: the wait between two attempts does not watch the context.
WorkerExitUnlessWaiting(p) ==
    /\ \/ worker[p].pc = "idle"
       \/ worker[p].pc = "connect" /\ ~worker[p].connected
    /\ worker[p].cancel
    /\ Set(p, NoWorker)
    /\ UNCHANGED <<storeVars, mgr, permit, failures, envVars>>

\* A select or a failed attempt sees the cancelled context.
WorkerExit(p) ==
    /\ \/ worker[p].pc \in {"idle", "backoff"}
       \/ worker[p].pc = "connect" /\ ~worker[p].connected
    /\ worker[p].cancel
    /\ Set(p, NoWorker)
    /\ UNCHANGED <<storeVars, mgr, permit, failures, envVars>>

\* Either the link of the open transport is confirmed, or an attempt of
\* connectOnce succeeded.
ConnectOk(p) ==
    /\ worker[p].pc = "connect"
    /\ Set(p, Materialize([worker[p] EXCEPT !.connected = TRUE], p))
    /\ UNCHANGED <<storeVars, mgr, permit, failures, envVars>>

\* The OS no longer confirms the link of the open transport: it is closed, and
\* connectLoop goes on to its attempts unless the context is cancelled.
LinkLost(p) ==
    /\ worker[p].pc = "connect" /\ worker[p].connected
    /\ Set(p, Continue([worker[p] EXCEPT !.connected = FALSE]))
    /\ UNCHANGED <<storeVars, mgr, permit, failures, envVars>>

ConnectFail(p) ==
    /\ worker[p].pc = "connect" /\ ~worker[p].connected
    /\ Set(p, [worker[p] EXCEPT !.pc = "backoff"])
    /\ UNCHANGED <<storeVars, mgr, permit, failures, envVars>>

\* Faulty variant: autoReconnect is ignored.
BackoffEndManual(p) ==
    /\ worker[p].pc = "backoff" /\ ~worker[p].cancel
    /\ worker[p].reconnect
    /\ Set(p, [worker[p] EXCEPT !.pc = "connect", !.reconnect = FALSE])
    /\ UNCHANGED <<storeVars, mgr, permit, failures, envVars>>

\* The delay passes, or an operator asks for a reconnect; without autoReconnect
\* only the latter ends the wait.  A cancelled worker ends here: the condition of
\* the loop follows.
BackoffEnd(p) ==
    /\ worker[p].pc = "backoff" /\ ~worker[p].cancel
    /\ p \in AutoReconnect \/ worker[p].reconnect
    /\ Set(p, [worker[p] EXCEPT !.pc = "connect", !.reconnect = FALSE])
    /\ UNCHANGED <<storeVars, mgr, permit, failures, envVars>>

\* One candidate of MaterializeRetries, in queue order: one transaction.  A
\* candidate that is no longer pending, or blocked, is skipped; so is one for
\* which the bound leaves no row.
MaterializeStep(p, r) ==
    /\ worker[p].pc = "materialize"
    /\ r \in worker[p].cand /\ \A s \in worker[p].cand : r <= s
    /\ db = "up"
    /\ \/ ExhaustRetry(r)
       \/ \E renders \in BOOLEAN : MaterializeRetry(r, renders)
       \/ /\ r \in Live /\ RetryPending(r) /\ ~RetryExhausted(r) =>
                RetryBlocked(r) \/ nextSeq > MaxRuns
          /\ UNCHANGED storeVars
    /\ Set(p, [worker[p] EXCEPT !.cand = @ \ {r},
                  !.pc = IF worker[p].cand = {r} THEN "drain" ELSE "materialize"])
    /\ UNCHANGED <<mgr, permit, failures, envVars>>

\* The database returns an error: the other candidates wait for the next round.
MaterializeError(p) ==
    /\ worker[p].pc = "materialize"
    /\ db = "down"
    /\ Set(p, [worker[p] EXCEPT !.pc = "drain", !.cand = {}])
    /\ UNCHANGED <<storeVars, mgr, permit, failures, envVars>>

-----------------------------------------------------------------------------
(* The worker's queue *)

\* drainQueue returns to run(): to its select while connected, else to the top.
AfterDrain(w) == IF w.connected THEN [w EXCEPT !.pc = "idle"] ELSE Continue(w)

\* The loop condition, gate.wait and the start of acquire.
DrainTop(p) ==
    /\ worker[p].pc = "drain"
    /\ \/ /\ worker[p].cancel \/ ~worker[p].connected
          /\ Set(p, AfterDrain(worker[p]))
       \/ /\ ~worker[p].cancel /\ worker[p].connected
          /\ failures = 0
          /\ Set(p, [worker[p] EXCEPT !.pc = "acquire"])
    /\ UNCHANGED <<storeVars, mgr, permit, failures, envVars>>

\* Faulty variant: the permit stays in the channel.
AcquireNothing(p) ==
    /\ worker[p].pc = "acquire"
    /\ permit > 0
    /\ Set(p, [worker[p] EXCEPT !.pc = "claim"])
    /\ UNCHANGED <<storeVars, mgr, permit, failures, envVars>>

\* The select of acquire: with both channels ready it may take either.
Acquire(p) ==
    /\ worker[p].pc = "acquire"
    /\ permit > 0
    /\ permit' = permit - 1
    /\ Set(p, [worker[p] EXCEPT !.pc = "claim"])
    /\ UNCHANGED <<storeVars, mgr, failures, envVars>>

AcquireCancelled(p) ==
    /\ worker[p].pc = "acquire" /\ worker[p].cancel
    /\ Set(p, AfterDrain(worker[p]))
    /\ UNCHANGED <<storeVars, mgr, permit, failures, envVars>>

\* gate.end, if this worker has called gate.begin.
GateEnd(p) ==
    failures' = IF worker[p].failing /\ failures > 0 THEN failures - 1 ELSE failures

\* Faulty variant: gate.begin on every error.
GateBeginAgain(p) ==
    /\ failures' = failures + 1
    /\ Set(p, [worker[p] EXCEPT !.failing = TRUE])

\* gate.begin on the first error of a worker, gate.update on the later ones.
GateBegin(p) ==
    /\ failures' = IF worker[p].failing THEN failures ELSE failures + 1
    /\ Set(p, [worker[p] EXCEPT !.failing = TRUE])

Claim(p, r) ==
    /\ worker[p].pc = "claim"
    /\ db = "up"
    /\ ClaimNextQueued(p, r)
    /\ GateEnd(p)
    /\ Set(p, [worker[p] EXCEPT !.pc = "process", !.run = r, !.failing = FALSE])
    /\ UNCHANGED <<mgr, permit, envVars>>

\* Faulty variant: the early return keeps the permit.
ClaimNothingKeepsPermit(p) ==
    /\ worker[p].pc = "claim"
    /\ db = "up"
    /\ QueueEmpty(p)
    /\ GateEnd(p)
    /\ Set(p, AfterDrain([worker[p] EXCEPT !.failing = FALSE]))
    /\ UNCHANGED <<storeVars, mgr, permit, envVars>>

ClaimNothing(p) ==
    /\ worker[p].pc = "claim"
    /\ db = "up"
    /\ QueueEmpty(p)
    /\ GateEnd(p)
    /\ permit' = permit + 1
    /\ Set(p, AfterDrain([worker[p] EXCEPT !.failing = FALSE]))
    /\ UNCHANGED <<storeVars, mgr, envVars>>

ClaimError(p) ==
    /\ worker[p].pc = "claim"
    /\ db = "down"
    /\ GateBegin(p)
    /\ UNCHANGED <<storeVars, mgr, permit, envVars>>

\* process up to Write: the Job cannot be read, or cannot be rendered as it was
\* accepted.
ProcessFail(p) ==
    /\ worker[p].pc = "process"
    /\ Set(p, [worker[p] EXCEPT !.pc = "persist", !.outcome = "failed"])
    /\ UNCHANGED <<storeVars, mgr, permit, failures, envVars>>

ProcessRender(p) ==
    /\ worker[p].pc = "process"
    /\ db = "up"
    /\ Set(p, [worker[p] EXCEPT !.pc = "write"])
    /\ UNCHANGED <<storeVars, mgr, permit, failures, envVars>>

\* The first byte of the document leaves, for a Write that was given up perhaps
\* after it has returned.
SendBytes(p) ==
    /\ worker[p].pc = "write" \/ worker[p].outcome = "uncertain"
    /\ worker[p].run \notin paper
    /\ paper' = paper \cup {worker[p].run}
    /\ UNCHANGED <<storeVars, procVars, agent, db, config, used>>

\* Write succeeded and the link is confirmed afterwards.
WriteOk(p) ==
    /\ worker[p].pc = "write"
    /\ worker[p].run \in paper
    /\ Set(p, [worker[p] EXCEPT !.pc = "persist", !.outcome = "transmitted"])
    /\ UNCHANGED <<storeVars, mgr, permit, failures, envVars>>

\* Write succeeded and the link is not confirmed, or Write returned an
\* ambiguous error: bytes or a timeout.
WriteUncertain(p) ==
    /\ worker[p].pc = "write"
    /\ Set(p, [worker[p] EXCEPT !.pc = "persist", !.outcome = "uncertain",
                                !.connected = FALSE])
    /\ UNCHANGED <<storeVars, mgr, permit, failures, envVars>>

\* Faulty variant: an error counts as unambiguous although bytes were sent.
WriteCalledNotSent(p) ==
    /\ worker[p].pc = "write"
    /\ Set(p, [worker[p] EXCEPT !.pc = "persist", !.outcome = "not_sent",
                                !.connected = FALSE])
    /\ UNCHANGED <<storeVars, mgr, permit, failures, envVars>>

\* Write returned an unambiguous error.
WriteNotSent(p) ==
    /\ worker[p].pc = "write"
    /\ worker[p].run \notin paper
    /\ Set(p, [worker[p] EXCEPT !.pc = "persist", !.outcome = "not_sent",
                                !.connected = FALSE])
    /\ UNCHANGED <<storeVars, mgr, permit, failures, envVars>>

\* Faulty variant: a run that was not sent goes back to the queue.
RecordRequeue(r, outcome) ==
    \/ outcome = "transmitted" /\ MarkTransmitted(r)
    \/ outcome = "failed" /\ MarkFailed(r, FALSE)
    \/ outcome = "not_sent" /\ Transition(r, "processing", "queued", FALSE)
    \/ outcome = "uncertain" /\ MarkUncertain(r)

\* The function that persist() calls.
Record(r, outcome) ==
    \/ outcome = "transmitted" /\ MarkTransmitted(r)
    \/ outcome = "failed" /\ MarkFailed(r, FALSE)
    \/ outcome = "not_sent" /\ MarkFailed(r, TRUE)
    \/ outcome = "uncertain" /\ MarkUncertain(r)

RecordedStatus(outcome) ==
    IF outcome = "not_sent" THEN "failed" ELSE outcome

\* persist() returns, process() returns and the permit goes back.
Persist(p) ==
    /\ worker[p].pc = "persist"
    /\ db = "up"
    /\ Record(worker[p].run, worker[p].outcome)
    /\ GateEnd(p)
    /\ permit' = permit + 1
    /\ Set(p, [worker[p] EXCEPT !.pc = "drain", !.run = 0, !.outcome = "none",
                                !.failing = FALSE])
    /\ UNCHANGED <<mgr, envVars>>

\* The transaction commits and persist() sees an error all the same: the answer
\* to COMMIT was lost, or the Ping after a successful retry failed.
PersistAnswerLost(p) ==
    /\ worker[p].pc = "persist"
    /\ db = "up"
    /\ Record(worker[p].run, worker[p].outcome)
    /\ GateBegin(p)
    /\ Spend("outage", MaxOutages)
    /\ UNCHANGED <<mgr, permit, agent, db, config, paper>>

\* The database is down, or the run is neither in processing nor in the status
\* to record: ErrStateChanged, which persist() treats like an outage.
PersistError(p) ==
    /\ worker[p].pc = "persist"
    /\ \/ db = "down"
       \/ runs[worker[p].run].status \notin
            {"processing", RecordedStatus(worker[p].outcome)}
    /\ GateBegin(p)
    /\ UNCHANGED <<storeVars, mgr, permit, envVars>>

\* The select of run(): the poll interval passes.  A wake-up only shortens the
\* wait, so the wake channel is not modelled.
IdleEnd(p) ==
    /\ worker[p].pc = "idle"
    /\ Set(p, Continue(worker[p]))
    /\ UNCHANGED <<storeVars, mgr, permit, failures, envVars>>

IdleReconnect(p) ==
    /\ worker[p].pc = "idle" /\ worker[p].reconnect
    /\ Set(p, Continue([worker[p] EXCEPT !.connected = FALSE, !.reconnect = FALSE]))
    /\ UNCHANGED <<storeVars, mgr, permit, failures, envVars>>

WorkerStep(p) ==
    \/ WorkerExit(p)
    \/ ConnectOk(p) \/ LinkLost(p) \/ ConnectFail(p) \/ BackoffEnd(p)
    \/ \E r \in RunIds : MaterializeStep(p, r)
    \/ MaterializeError(p)
    \/ DrainTop(p) \/ Acquire(p) \/ AcquireCancelled(p)
    \/ \E r \in RunIds : Claim(p, r)
    \/ ClaimNothing(p) \/ ClaimError(p)
    \/ ProcessFail(p) \/ ProcessRender(p)
    \/ SendBytes(p) \/ WriteOk(p) \/ WriteUncertain(p) \/ WriteNotSent(p)
    \/ Persist(p) \/ PersistAnswerLost(p) \/ PersistError(p)
    \/ IdleEnd(p) \/ IdleReconnect(p)
-----------------------------------------------------------------------------
(* The Manager.  An operation holds lifecycleMu from its check to its end;    *)
(* the calls into the database and the wait for the worker are steps of their *)
(* own, because workers run in between.                                       *)

\* Shutdown waits five seconds for the requests under way; the handler of one
\* that takes longer goes on while the agent stops.
Serving == agent \in {"up", "stopping"} /\ db = "up"

\* stopWorker: cancel the worker's context.
CancelWorker(p) ==
    worker' = [worker EXCEPT ![p].cancel = (worker[p].pc # "none")]

\* applyPrinterLocked for CreatePrinter, UpdatePrinter and SetEnabled: the check.
ApplyCheck(p, enabled) ==
    /\ Serving /\ mgr = NoOp
    /\ ~HasProcessingRun(p)
    /\ Spend("operation", MaxOperations)
    /\ mgr' = [op |-> "save", printer |-> p, enabled |-> enabled]
    /\ UNCHANGED <<storeVars, worker, permit, failures, agent, db, config, paper>>

\* SavePrinter, then stopWorker up to its wait.
ApplySave ==
    /\ mgr.op = "save"
    /\ \/ /\ db = "up"
          /\ config' = [config EXCEPT ![mgr.printer] =
                           IF mgr.enabled THEN "enabled" ELSE "disabled"]
          /\ CancelWorker(mgr.printer)
          /\ mgr' = [mgr EXCEPT !.op = "restart"]
       \/ /\ db = "down"
          /\ mgr' = NoOp
          /\ UNCHANGED <<config, worker>>
    /\ UNCHANGED <<storeVars, permit, failures, agent, db, paper, used>>

\* The worker has ended; startWorker if the printer is enabled.
ApplyRestart ==
    /\ mgr.op = "restart"
    /\ worker[mgr.printer].pc = "none"
    /\ IF mgr.enabled THEN Set(mgr.printer, NewWorker) ELSE UNCHANGED worker
    /\ mgr' = NoOp
    /\ UNCHANGED <<storeVars, permit, failures, envVars>>

\* RemovePrinter: its checks, and stopWorker up to its wait.
RemoveCheck(p) ==
    /\ Serving /\ mgr = NoOp
    /\ ~HasActiveRuns(p)
    /\ config[p] # "absent"
    /\ Spend("operation", MaxOperations)
    /\ CancelWorker(p)
    /\ mgr' = [op |-> "remove", printer |-> p, enabled |-> config[p] = "enabled"]
    /\ UNCHANGED <<storeVars, permit, failures, agent, db, config, paper>>

\* DeletePrinter; if it fails the worker is started again.
RemoveEnd ==
    /\ mgr.op = "remove"
    /\ worker[mgr.printer].pc = "none"
    /\ \/ /\ db = "up"
          /\ config' = [config EXCEPT ![mgr.printer] = "absent"]
          /\ UNCHANGED worker
       \/ /\ db = "down"
          /\ IF mgr.enabled THEN Set(mgr.printer, NewWorker) ELSE UNCHANGED worker
          /\ UNCHANGED config
    /\ mgr' = NoOp
    /\ UNCHANGED <<storeVars, permit, failures, agent, db, paper, used>>

\* Manager.Reconnect; a signal already waiting in the channel is kept.
Reconnect(p) ==
    /\ agent = "up" /\ worker[p].pc # "none" /\ ~worker[p].cancel
    /\ Spend("operation", MaxOperations)
    /\ Set(p, [worker[p] EXCEPT !.reconnect = TRUE])
    /\ UNCHANGED <<storeVars, mgr, permit, failures, agent, db, config, paper>>

-----------------------------------------------------------------------------
(* The process *)

Enabled == {p \in Printers : config[p] = "enabled"}

\* Faulty variant: no crash recovery.
BootWithoutRecovery ==
    /\ agent \in {"stopped", "crashed"}
    /\ db = "up"
    /\ agent' = "up"
    /\ worker' = [p \in Printers |->
                     IF p \in Enabled THEN Continue(NoWorker) ELSE NoWorker]
    /\ permit' = 1 /\ failures' = 0 /\ mgr' = NoOp
    /\ UNCHANGED <<storeVars, db, config, paper, used>>

\* New, with its crash recovery, and Run up to Manager.Start.
Boot ==
    /\ agent \in {"stopped", "crashed"}
    /\ db = "up"
    /\ RecoverAbandoned
    /\ agent' = "up"
    /\ worker' = [p \in Printers |->
                     IF p \in Enabled THEN Continue(NoWorker) ELSE NoWorker]
    /\ permit' = 1 /\ failures' = 0 /\ mgr' = NoOp
    /\ UNCHANGED <<db, config, paper, used>>

\* Run after its context ended: the HTTP server is closed and stopWorkers
\* cancels the parent context of every worker.
StopBegin ==
    /\ agent = "up"
    /\ Spend("operation", MaxOperations)
    /\ agent' = "stopping"
    /\ worker' = [p \in Printers |->
                     [worker[p] EXCEPT !.cancel = (worker[p].pc # "none")]]
    /\ UNCHANGED <<storeVars, mgr, permit, failures, db, config, paper>>

\* Faulty variant: the stop does not wait for the workers.
StopEndAtOnce ==
    /\ agent = "stopping" /\ mgr = NoOp
    /\ agent' = "stopped"
    /\ UNCHANGED <<storeVars, procVars, db, config, paper, used>>

\* Manager.Stop got lifecycleMu and every worker has ended.
StopEnd ==
    /\ agent = "stopping" /\ mgr = NoOp
    /\ \A p \in Printers : worker[p].pc = "none"
    /\ agent' = "stopped"
    /\ UNCHANGED <<storeVars, procVars, db, config, paper, used>>

Crash ==
    /\ agent \in {"up", "stopping"}
    /\ Spend("crash", MaxCrashes)
    /\ agent' = "crashed"
    /\ worker' = [p \in Printers |-> NoWorker]
    /\ permit' = 1 /\ failures' = 0 /\ mgr' = NoOp
    /\ UNCHANGED <<storeVars, db, config, paper>>

\* A second agent is started on the same data directory: New recovers abandoned
\* runs before Run finds the port taken.
SecondStart ==
    /\ agent \in {"up", "stopping"}
    /\ db = "up"
    /\ Spend("second", MaxSecondStarts)
    /\ RecoverAbandoned
    /\ UNCHANGED <<procVars, agent, db, config, paper>>

DbFail ==
    /\ db = "up"
    /\ Spend("outage", MaxOutages)
    /\ db' = "down"
    /\ UNCHANGED <<storeVars, procVars, agent, config, paper>>

DbRecover ==
    /\ db = "down"
    /\ db' = "up"
    /\ UNCHANGED <<storeVars, procVars, agent, config, paper, used>>

\* Requests of API clients and the retention loop.  Accept and Reprint hold
\* lifecycleMu for reading and refuse printers that are not configured.
ServeClient ==
    /\ Serving
    /\ \/ /\ mgr = NoOp
          /\ \E j \in Jobs, ps \in PrinterLists :
                /\ \A i \in DOMAIN ps : config[ps[i]] # "absent"
                /\ Accept(j, ps) \/ \E q \in Requests : Reprint(j, ps, q)
       \/ \E j \in Jobs, ps \in SUBSET Printers : CancelTargets(j, ps)
       \/ \E r \in RunIds : CancelRun(r) \/ ConfirmPrinted(r)
    /\ UNCHANGED <<procVars, envVars>>

\* The retention loop, whose last round may overlap with a stop, and the clock.
\* No print attempt and no outage lasts the 48 hours after which a Job expires.
Retention ==
    /\ \/ Serving /\ PurgeExpired
       \/ \E j \in Jobs :
             /\ \A p \in Printers : worker[p].run # 0 => runs[worker[p].run].job # j
             /\ Expire(j)
    /\ UNCHANGED <<procVars, envVars>>

-----------------------------------------------------------------------------

\* A first start with every printer configured and enabled.
Init ==
    /\ StoreInit
    /\ agent = "up" /\ db = "up"
    /\ config = [p \in Printers |-> "enabled"]
    /\ mgr = NoOp
    /\ worker = [p \in Printers |-> Continue(NoWorker)]
    /\ permit = 1 /\ failures = 0
    /\ paper = {}
    /\ used = [f \in Faults |-> 0]

ManagerStep == ApplySave \/ ApplyRestart \/ RemoveEnd

Operate ==
    \/ \E p \in Printers, enabled \in BOOLEAN : ApplyCheck(p, enabled)
    \/ \E p \in Printers : RemoveCheck(p) \/ Reconnect(p)
    \/ StopBegin

Next ==
    \/ \E p \in Printers : WorkerStep(p)
    \/ ManagerStep \/ Operate
    \/ Boot \/ StopEnd \/ Crash \/ SecondStart \/ DbFail \/ DbRecover
    \/ ServeClient \/ Retention

Spec == Init /\ [][Next]_vars
\* The Go scheduler runs every goroutine that can run, and a write ends within
\* its timeouts: WF of the worker.  A goroutine blocked on the permit is in the
\* FIFO queue of the channel: SF of Acquire.  Assumed of the environment: the
\* database comes back, and a printer that is tried again and again is reached.
Fairness ==
    /\ WF_vars(DbRecover) /\ WF_vars(ManagerStep) /\ WF_vars(StopEnd)
    /\ \A p \in Printers : /\ WF_vars(WorkerStep(p))
                            /\ SF_vars(Acquire(p))
                            /\ SF_vars(ConnectOk(p))

FairSpec == Spec /\ Fairness

-----------------------------------------------------------------------------
(* Properties *)

\* The variables of the process have their types.
AgentTypeOK ==
    /\ agent \in {"up", "stopping", "stopped", "crashed"}
    /\ db \in {"up", "down"}
    /\ config \in [Printers -> {"enabled", "disabled", "absent"}]
    /\ mgr \in {NoOp} \cup [op : {"save", "restart", "remove"},
                           printer : Printers, enabled : BOOLEAN]
    /\ worker \in [Printers -> Worker]
    /\ permit \in {0, 1}
    /\ failures \in Nat
    /\ paper \subseteq RunIds
    /\ used \in [Faults -> Nat]

\* A worker between transmission.acquire and transmission.release.
HoldsPermit(p) == worker[p].pc \in {"claim", "process", "write", "persist"}

\* The claimed run of a worker is the only run in processing, or has just been
\* recorded: nothing is sent to two printers at a time, and while the agent runs
\* no row stays in processing that no worker is going to finish.
ProcessingIsOwned ==
    agent \in {"up", "stopping"} =>
        \A r \in Live : runs[r].status = "processing" =>
            /\ \E p \in Printers : worker[p].run = r /\ HoldsPermit(p)
            /\ \A s \in Live \ {r} : runs[s].status # "processing"
            /\ permit = 0

\* Claims are paused exactly while some worker is retrying a write, that worker
\* holds the permit, and at most one does: the pause cannot outlive its cause.
PauseHasCause ==
    /\ failures <= 1
    /\ failures = Cardinality({p \in Printers : worker[p].failing})
    /\ \A p \in Printers : worker[p].failing => HoldsPermit(p)

\* The status of a run agrees with what the printer may have received.  A run
\* that will be retried, or that was never claimed, has sent nothing; one that
\* has sent something is in flight, transmitted or uncertain.
StatusTellsTheTruth ==
    \A r \in Live :
        /\ runs[r].status = "transmitted" => r \in paper
        /\ r \in paper => runs[r].status \in {"processing", "transmitted", "uncertain"}

\* Without an operator's reprint at most one run per Job and printer has sent
\* anything: retries, lost commits, crashes and restarts never print a ticket
\* twice.
NoUnmarkedDuplicate ==
    \A r, s \in Live \cap paper :
        /\ SameTarget(r, s)
        /\ runs[r].mode = "normal" /\ runs[s].mode = "normal"
        => r = s

\* A retired printer has no work: RemovePrinter's check stays true while it
\* waits for the worker, and nothing is accepted for the printer afterwards.
RetiredPrinterIsQuiet ==
    \A p \in Printers : config[p] = "absent" =>
        ~HasActiveRuns(p) /\ worker[p].pc = "none"

\* A graceful stop waits for the outcome of the run in flight: the next start
\* has nothing to recover.
CleanStopLeavesNothing ==
    agent = "stopped" => \A p \in Printers : ~HasProcessingRun(p)

\* The agent uses the store only through its transactions, so whatever holds of
\* the store under every client holds of it under the agent.
ImplementsStore == StoreSpec

\* The worker assumes of a transport's Write what its contract promises, and the
\* contract is what the transports are shown to keep (module Transports): the write
\* actions above are steps of the contract, at every point of a crash or an outage.
Contract(p) == INSTANCE WriteContract WITH
    phase <- CASE worker[p].pc = "write" -> "writing"
               [] worker[p].pc = "persist" /\ worker[p].outcome = "transmitted" -> "ok"
               [] worker[p].pc = "persist" /\ worker[p].outcome = "not_sent" -> "not_sent"
               [] worker[p].pc = "persist" /\ worker[p].outcome = "uncertain" -> "ambiguous"
               [] OTHER -> "idle",
    sent <- /\ worker[p].pc \in {"write", "persist"} /\ worker[p].outcome # "failed"
            /\ worker[p].run \in paper

WritesByContract ==
    /\ \A p \in Printers : Contract(p)!Init
    /\ [][\A p \in Printers : [Contract(p)!Next]_(Contract(p)!contractVars)]_vars

\* A run queued for an enabled printer with autoReconnect is claimed or
\* cancelled, unless the printer is disabled or the agent ends.
Waiting(r) ==
    /\ r \in Live /\ runs[r].status = "queued"
    /\ runs[r].printer \in AutoReconnect /\ config[runs[r].printer] = "enabled"
    /\ agent = "up"

QueueDrains == \A r \in RunIds : Waiting(r) ~> ~Waiting(r)

\* README.md:190: printing resumes automatically after the database recovers.
PauseEnds == failures > 0 ~> failures = 0

\* A graceful stop ends, with workers connecting, printing, waiting for the
\* permit or retrying a write, and with an operation of the Manager under way.
StopCompletes == agent = "stopping" ~> agent # "stopping"

\* README.md:181: failed without a retry means that rendering or validation
\* failed, which a database that is down does not show.
FailedIsDeterministic ==
    [][\A p \in Printers :
          worker[p].outcome = "none" /\ worker'[p].outcome = "failed" => db = "up"]_vars
=============================================================================
