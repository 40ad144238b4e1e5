------------------------- MODULE PrintAgentProofs --------------------------
(***************************************************************************)
(* The running agent, for all sets of printers, Jobs and request ids and   *)
(* all bounds: it implements the store of PrintRuns, and AgentInv is an    *)
(* inductive invariant from which the safety properties of PrintAgent      *)
(* follow.                                                                 *)
(*                                                                         *)
(* Most steps touch one side only.  A step of the process leaves the rows  *)
(* alone and moves one worker between points where it holds nothing        *)
(* (ProcessFrame); a step of the store leaves the processes alone and      *)
(* moves no row into or out of a print attempt (StoreStep).  What remains  *)
(* are the few steps of the worker that claim a run, send it and record    *)
(* its outcome, and start, stop and crash of the process.                  *)
(***************************************************************************)
EXTENDS PrintAgent, PrintRunsProofs

HoldPcs == {"claim", "process", "write", "persist"}

\* The worker is working on a run.
Claimed(w) == w.pc \in {"process", "write", "persist"}

\* How the fields of a worker go together.
WorkerOK(w) ==
    /\ w.pc = "none" => w = NoWorker
    /\ w.run # 0 <=> Claimed(w)
    /\ w.outcome # "none" <=> w.pc = "persist"
    /\ w.failing => w.pc \in HoldPcs

\* The permit is in the channel or with exactly one worker, and that worker is
\* the only one that may have called gate.begin.
GateInv ==
    /\ \A p, q \in Printers : HoldsPermit(p) /\ HoldsPermit(q) => p = q
    /\ permit = IF \E p \in Printers : HoldsPermit(p) THEN 0 ELSE 1
    /\ failures = IF \E p \in Printers : worker[p].failing THEN 1 ELSE 0

\* Without a process there is neither a worker nor an operation of the Manager;
\* RemovePrinter's check stays true until the worker has ended.
LifecycleInv ==
    /\ agent \notin {"up", "stopping"} =>
          mgr = NoOp /\ \A p \in Printers : worker[p].pc = "none"
    /\ mgr.op \in {"restart", "remove"} => config[mgr.printer] # "absent"
    /\ mgr.op = "remove" => ~HasActiveRuns(mgr.printer)
    /\ RetiredPrinterIsQuiet

\* Run r, which a worker is working on, is stored and stays so until its outcome
\* is recorded.  Its Job can only have expired before it was claimed, and then
\* nobody has touched it since.
KeepsRun(r) ==
    /\ r \in Live
    /\ runs[r].job \in expired =>
          \/ runs[r].status = "processing"
          \/ /\ runs[r].status = "uncertain" /\ runs[r].resolution = "none"
             /\ runs[r].printer \notin cancelled[runs[r].job]

\* What the status and the paper say of a run at each point of its attempt.  A
\* second start may make a run uncertain while it is being printed, and a commit
\* whose answer was lost has already recorded the outcome.
AttemptOK(w) ==
    LET status == runs[w.run].status
    IN  /\ w.pc = "process" =>
              status \in {"processing", "uncertain"} /\ w.run \notin paper
        /\ w.pc = "write" => status \in {"processing", "uncertain"}
        /\ w.outcome = "transmitted" =>
              status \in {"processing", "uncertain", "transmitted"} /\ w.run \in paper
        /\ w.outcome \in {"failed", "not_sent"} =>
              status \in {"processing", "uncertain", "failed"} /\ w.run \notin paper
        /\ w.outcome = "uncertain" => status \in {"processing", "uncertain"}

ClaimsInv == \A p \in Printers : Claimed(worker[p]) =>
                 KeepsRun(worker[p].run) /\ AttemptOK(worker[p])

\* A run in processing belongs to a worker, or its worker died with the process.
OwnerInv ==
    \A r \in Live : runs[r].status = "processing" =>
        agent = "crashed" \/ \E p \in Printers : worker[p].run = r

\* Only numbers that were handed out have reached a printer, and the status of a
\* run agrees with that.
PaperInv == (\A r \in paper : r < nextSeq) /\ StatusTellsTheTruth

\* The inductive invariant of the agent.
AgentInv ==
    /\ StoreInv
    /\ AgentTypeOK
    /\ \A p \in Printers : WorkerOK(worker[p])
    /\ GateInv
    /\ LifecycleInv
    /\ ClaimsInv
    /\ OwnerInv
    /\ PaperInv

-----------------------------------------------------------------------------
(* The agent implements the store *)

\* Recording an outcome is a transaction of the store.
LEMMA RecordIsStoreStep ==
    ASSUME NEW r, NEW outcome, Record(r, outcome)
    PROVE  StoreNext
  <1>1. r \in RunIds
    BY DEF Record, MarkTransmitted, MarkFailed, MarkUncertain, Transition, Live
  <1>2. WorkerNext BY <1>1 DEF Record, WorkerNext
  <1> QED BY <1>2 DEF StoreNext

\* A step of a worker is a transaction of the store or leaves it alone.
LEMMA WorkerIsStoreStep ==
    ASSUME NEW p \in Printers, WorkerStep(p)
    PROVE  [StoreNext]_storeVars
  <1>1. ASSUME NEW r \in RunIds, MaterializeStep(p, r)
        PROVE  [StoreNext]_storeVars
    <2>1. CASE ExhaustRetry(r) BY <2>1 DEF StoreNext, WorkerNext
    <2>2. ASSUME NEW renders \in BOOLEAN, MaterializeRetry(r, renders)
          PROVE  [StoreNext]_storeVars
      BY <2>2 DEF StoreNext, WorkerNext
    <2>3. CASE UNCHANGED storeVars BY <2>3
    <2> QED BY <1>1, <2>1, <2>2, <2>3 DEF MaterializeStep
  <1>2. ASSUME NEW r \in RunIds, Claim(p, r)
        PROVE  [StoreNext]_storeVars
    BY <1>2 DEF Claim, StoreNext, WorkerNext
  <1>3. CASE Persist(p) \/ PersistAnswerLost(p)
    BY <1>3, RecordIsStoreStep DEF Persist, PersistAnswerLost
  <1>4. CASE UNCHANGED storeVars BY <1>4
  <1>5. CASE WorkerExit(p) \/ ConnectOk(p) \/ LinkLost(p) \/ ConnectFail(p)
             \/ BackoffEnd(p) \/ MaterializeError(p) \/ DrainTop(p) \/ Acquire(p)
             \/ AcquireCancelled(p) \/ ClaimNothing(p) \/ ClaimError(p)
             \/ ProcessFail(p) \/ ProcessRender(p) \/ SendBytes(p) \/ WriteOk(p)
             \/ WriteUncertain(p) \/ WriteNotSent(p) \/ PersistError(p)
             \/ IdleEnd(p) \/ IdleReconnect(p)
    BY <1>4, <1>5 DEF WorkerExit, ConnectOk, LinkLost, ConnectFail, BackoffEnd,
       MaterializeError, DrainTop, Acquire, AcquireCancelled, ClaimNothing, ClaimError,
       ProcessFail, ProcessRender, SendBytes, WriteOk, WriteUncertain, WriteNotSent,
       PersistError, IdleEnd, IdleReconnect
  <1> QED BY <1>1, <1>2, <1>3, <1>5 DEF WorkerStep

\* So is every other step of the agent.
LEMMA NextIsStoreStep ==
    ASSUME [Next]_vars
    PROVE  [StoreNext]_storeVars
  <1>1. ASSUME NEW p \in Printers, WorkerStep(p)
        PROVE  [StoreNext]_storeVars
    BY <1>1, WorkerIsStoreStep
  <1>2. CASE ManagerStep \/ Operate \/ StopEnd \/ Crash \/ DbFail \/ DbRecover
    <2>1. UNCHANGED storeVars
      BY <1>2 DEF ManagerStep, Operate, ApplySave, ApplyRestart, RemoveEnd, ApplyCheck,
         RemoveCheck, Reconnect, StopBegin, StopEnd, Crash, DbFail, DbRecover
    <2> QED BY <2>1
  <1>3. CASE Boot \/ SecondStart
    BY <1>3 DEF Boot, SecondStart, StoreNext, WorkerNext
  <1>4. CASE ServeClient
    <2>1. ClientNext BY <1>4 DEF ServeClient, ClientNext
    <2> QED BY <2>1 DEF StoreNext
  <1>5. CASE Retention
    <2>1. RetentionNext BY <1>5 DEF Retention, RetentionNext
    <2> QED BY <2>1 DEF StoreNext
  <1>6. CASE UNCHANGED vars BY <1>6 DEF vars, storeVars
  <1> QED BY <1>1, <1>2, <1>3, <1>4, <1>5, <1>6 DEF Next

\* The agent uses the store only through its transactions: every behaviour of the
\* agent is, seen from the database, a behaviour of the store.
THEOREM AgentImplementsStore == Spec => ImplementsStore
  <1>1. Init => StoreInit BY DEF Init
  <1>2. [Next]_vars => [StoreNext]_storeVars BY NextIsStoreStep
  <1> QED BY <1>1, <1>2, PTL DEF Spec, ImplementsStore, StoreSpec

-----------------------------------------------------------------------------
(* Steps of the store that leave the processes alone *)

ClaimedRuns == {worker[p].run : p \in {q \in Printers : Claimed(worker[q])}}

\* Row s is new and unclaimed, keeps its status, is cancelled before it was
\* claimed, or is given up by a second start.
StatusStays(s) ==
    \/ s >= nextSeq /\ runs'[s].status \in {"queued", "failed"}
    \/ /\ s \in Live
       /\ \/ runs'[s].status = runs[s].status
          \/ runs[s].status = "queued" /\ runs'[s].status = "cancelled"
          \/ runs[s].status = "processing" /\ runs'[s].status = "uncertain"

\* A transaction that neither begins nor records a print attempt, does not take
\* a run away from its worker, and gives work only to a printer that has some or
\* that may be given some.
StoreStep ==
    /\ [StoreNext]_storeVars
    /\ \A s \in Live' : StatusStays(s)
    /\ \A r \in ClaimedRuns : KeepsRun(r)'
    /\ \A p \in Printers : HasActiveRuns(p)' =>
          HasActiveRuns(p) \/ (mgr = NoOp /\ config[p] # "absent")

\* What happens to a claimed run whose Job may have expired: nothing, or it is
\* given up.
Undisturbed(r) ==
    /\ runs[r].job \in jobs'
    /\ runs[r].job \in expired' =>
          /\ runs[r].job \in expired
          /\ cancelled'[runs[r].job] = cancelled[runs[r].job]
          /\ \/ runs'[r] = runs[r]
             \/ /\ runs[r].status = "processing"
                /\ runs'[r].status = "uncertain" /\ runs'[r].resolution = "none"

\* An undisturbed run stays with its worker.
LEMMA UndisturbedKeepsRun ==
    ASSUME StoreInv, RowsEvolve, NEW r, KeepsRun(r), Undisturbed(r)
    PROVE  KeepsRun(r)'
  <1>1. r \in Live /\ r \in Live' BY RowsAfter DEF KeepsRun, Undisturbed, StoreInv
  <1>2. nextSeq \in Nat /\ r \in Nat /\ r < nextSeq
    BY <1>1, StoreAssumption DEF StoreInv, RowsAreOwned, StoreTypeOK, Live, RunIds
  <1>3. Kept(r) BY <1>1, <1>2, RowsAfter DEF StoreInv, Inserted
  <1>4. runs'[r].job = runs[r].job /\ runs'[r].printer = runs[r].printer
    BY <1>3 DEF Kept, Evolved, SameRowTarget
  <1>5. CASE runs[r].job \notin expired' BY <1>1, <1>4, <1>5 DEF KeepsRun
  <1>6. CASE runs'[r] = runs[r] /\ runs[r].job \in expired'
    BY <1>1, <1>6 DEF KeepsRun, Undisturbed
  <1>7. CASE /\ runs[r].status = "processing" /\ runs[r].job \in expired'
             /\ runs'[r].status = "uncertain" /\ runs'[r].resolution = "none"
    <2>1. runs[r].printer \notin cancelled[runs[r].job]
      BY <1>1, <1>7 DEF StoreInv, CancelledTargetIsQuiet, Active
    <2> QED BY <1>1, <1>4, <1>7, <2>1 DEF KeepsRun, Undisturbed
  <1> QED BY <1>5, <1>6, <1>7 DEF Undisturbed

\* HasActiveRuns on rows.
LEMMA ActiveRows ==
    ASSUME NEW p
    PROVE  /\ HasActiveRuns(p) <=>
                 \E r \in Live : runs[r].printer = p /\ WillPrint(runs[r])
           /\ HasActiveRuns(p)' <=>
                 \E r \in Live' : runs'[r].printer = p /\ WillPrint(runs'[r])
  BY DEF HasActiveRuns, WillPrint, Active, RetryPending

\* A row that was there gives no printer new work.
LEMMA WorkIsInserted ==
    ASSUME StoreInv, RowsEvolve, NEW p, HasActiveRuns(p)', ~HasActiveRuns(p)
    PROVE  \E s \in Live' : Inserted(s) /\ runs'[s].printer = p /\ WillPrint(runs'[s])
  <1>1. PICK s \in Live' : runs'[s].printer = p /\ WillPrint(runs'[s]) BY ActiveRows
  <1>2. CASE Kept(s)
    <2>1. s \in Live /\ runs[s].printer = p /\ WillPrint(runs[s])
      BY <1>1, <1>2 DEF Kept, Evolved, SameRowTarget
    <2> QED BY <2>1, ActiveRows
  <1> QED BY <1>1, <1>2, RowsAfter DEF StoreInv

\* A transaction that inserts no row.
LEMMA NoRowInserted ==
    ASSUME AgentInv, [StoreNext]_storeVars, nextSeq' = nextSeq,
           \A s \in Live : s \in Live' => StatusStays(s),
           \A r \in ClaimedRuns : KeepsRun(r) => Undisturbed(r)
    PROVE  StoreStep
  <1>1. RowsEvolve /\ StoreInv BY NextEvolves DEF AgentInv
  <1>2. nextSeq \in Nat BY StoreAssumption DEF AgentInv, StoreInv, StoreTypeOK
  <1>3. \A s : ~Inserted(s) BY <1>2 DEF Inserted
  <1>4. \A s \in Live' : s \in Live BY <1>1, <1>3, RowsAfter DEF Kept, StoreInv
  <1>5. \A r \in ClaimedRuns : KeepsRun(r) BY DEF AgentInv, ClaimsInv, ClaimedRuns
  <1>6. \A r \in ClaimedRuns : KeepsRun(r)' BY <1>1, <1>5, UndisturbedKeepsRun
  <1>7. \A p \in Printers : HasActiveRuns(p)' => HasActiveRuns(p)
    BY <1>1, <1>3, WorkIsInserted
  <1> QED BY <1>4, <1>6, <1>7 DEF StoreStep

\* What the cases below need to know of the store.
LEMMA StoreFacts ==
    ASSUME AgentInv
    PROVE  /\ StoreInv
           /\ \A r \in Live : /\ r \in RunIds /\ runs[r] \in PrintRun /\ RowOK(runs[r])
                              /\ runs[r].job \in jobs /\ r < nextSeq
           /\ \A r \in RunIds : r \notin Live => runs[r] = NoRun
           /\ runs = [r \in RunIds |-> runs[r]]
           /\ nextSeq \in Nat /\ nextSeq >= 1 /\ MaxRuns \in Nat
           /\ cancelled = [j \in Jobs |-> cancelled[j]]
           /\ jobs \subseteq Jobs
           /\ \A r \in ClaimedRuns : KeepsRun(r)
  <1>1. StoreInv /\ StoreTypeOK BY DEF AgentInv, StoreInv
  <1>2. \A r \in Live : r \in RunIds /\ runs[r] \in PrintRun /\ RowOK(runs[r])
    BY <1>1, RowTypes DEF RowOK
  <1>3. \A r \in Live : runs[r].job \in jobs /\ r < nextSeq
    BY <1>1 DEF StoreInv, RowsAreOwned
  <1>4. \A r \in RunIds : r \notin Live => runs[r] = NoRun BY <1>1, RowTypes
  <1>5. runs = [r \in RunIds |-> runs[r]] /\ cancelled = [j \in Jobs |-> cancelled[j]]
    BY <1>1 DEF StoreTypeOK
  <1>6. nextSeq \in Nat /\ nextSeq >= 1 /\ MaxRuns \in Nat /\ jobs \subseteq Jobs
    BY <1>1, StoreAssumption DEF StoreTypeOK
  <1>7. \A r \in ClaimedRuns : KeepsRun(r) BY DEF AgentInv, ClaimsInv, ClaimedRuns
  <1> QED BY <1>1, <1>2, <1>3, <1>4, <1>5, <1>6, <1>7

\* A step of the agent that does not use the store.
LEMMA IdleStore ==
    ASSUME AgentInv, UNCHANGED storeVars
    PROVE  StoreStep
  <1>1. nextSeq' = nextSeq /\ runs' = runs /\ Live' = Live
    BY DEF storeVars, Live
  <1>2. \A s \in Live : StatusStays(s) BY <1>1 DEF StatusStays
  <1>3. \A r \in ClaimedRuns : KeepsRun(r) => Undisturbed(r)
    BY StoreFacts DEF storeVars, Undisturbed, KeepsRun
  <1> QED BY <1>1, <1>2, <1>3, NoRowInserted

\* The operator cancels a queued run.
LEMMA CancelRunStep ==
    ASSUME AgentInv, NEW c \in RunIds, CancelRun(c)
    PROVE  StoreStep
  <1>1. [StoreNext]_storeVars BY DEF StoreNext, ClientNext
  <1>2. /\ nextSeq' = nextSeq /\ jobs' = jobs /\ cancelled' = cancelled
        /\ expired' = expired \ {runs[c].job}
        /\ \A s \in Live : s # c => runs'[s] = runs[s]
    BY StoreFacts DEF CancelRun, Transition, Touch
  <1>3. c \in Live => StatusStays(c)
    <2>1. CASE runs[c].status = "queued"
      <3>1. runs'[c] = [[runs[c] EXCEPT !.status = "cancelled"] EXCEPT !.retryable = FALSE]
        BY <2>1, StoreFacts DEF CancelRun, Transition
      <3>2. c \in Live => runs'[c].status = "cancelled"
        BY <3>1, StoreFacts DEF PrintRun
      <3> QED BY <2>1, <3>2 DEF StatusStays
    <2>2. CASE runs[c].status # "queued"
      <3>1. runs' = runs BY <2>2 DEF CancelRun, Transition
      <3> QED BY <3>1 DEF StatusStays
    <2> QED BY <2>1, <2>2
  <1>4. \A s \in Live : StatusStays(s) BY <1>2, <1>3 DEF StatusStays
  <1>5. \A r \in ClaimedRuns : KeepsRun(r) => Undisturbed(r)
    BY <1>2, StoreFacts DEF Undisturbed, KeepsRun
  <1> QED BY <1>1, <1>2, <1>4, <1>5, NoRowInserted

\* The operator confirms an uncertain run.
LEMMA ConfirmStep ==
    ASSUME AgentInv, NEW c \in RunIds, ConfirmPrinted(c)
    PROVE  StoreStep
  <1>1. [StoreNext]_storeVars BY DEF StoreNext, ClientNext
  <1>2. /\ nextSeq' = nextSeq /\ jobs' = jobs /\ cancelled' = cancelled
        /\ expired' = expired \ {runs[c].job}
        /\ \A s \in Live : s # c => runs'[s] = runs[s]
        /\ c \in Live /\ runs'[c] = [runs[c] EXCEPT !.resolution = "confirmed_printed"]
    BY StoreFacts DEF ConfirmPrinted, Touch
  <1>3. runs'[c].status = runs[c].status BY <1>2, StoreFacts DEF PrintRun
  <1>4. \A s \in Live : StatusStays(s) BY <1>2, <1>3 DEF StatusStays
  <1>5. \A r \in ClaimedRuns : KeepsRun(r) => Undisturbed(r)
    BY <1>2, StoreFacts DEF Undisturbed, KeepsRun
  <1> QED BY <1>1, <1>2, <1>4, <1>5, NoRowInserted

\* The operator cancels targets.
LEMMA CancelTargetsStep ==
    ASSUME AgentInv, NEW j \in Jobs, NEW ps \in SUBSET Printers, CancelTargets(j, ps)
    PROVE  StoreStep
  <1>1. [StoreNext]_storeVars BY DEF StoreNext, ClientNext
  <1>2. /\ nextSeq' = nextSeq /\ jobs' = jobs /\ expired' = expired \ {j}
        /\ cancelled' = [cancelled EXCEPT ![j] = @ \cup ps]
        /\ \A s \in RunIds : runs'[s] = IF \E p \in ps : s \in RunsOf(j, p)
                                        THEN CancelledRow(s) ELSE runs[s]
    BY DEF CancelTargets, Touch
  <1>3. ASSUME NEW s \in Live PROVE StatusStays(s)
    <2>1. CASE runs[s].status = "queued"
      <3>1. CancelledRow(s) =
              [[runs[s] EXCEPT !.status = "cancelled"] EXCEPT !.retryable = FALSE]
        BY <2>1 DEF CancelledRow
      <3>2. CancelledRow(s).status = "cancelled" BY <3>1, StoreFacts DEF PrintRun
      <3> QED BY <1>2, <2>1, <3>2, StoreFacts DEF StatusStays
    <2>2. CASE runs[s].status # "queued"
      <3>1. CancelledRow(s) \in {runs[s], [runs[s] EXCEPT !.retryable = FALSE]}
        BY <2>2 DEF CancelledRow
      <3>2. CancelledRow(s).status = runs[s].status BY <3>1, StoreFacts DEF PrintRun
      <3> QED BY <1>2, <3>2, StoreFacts DEF StatusStays
    <2> QED BY <2>1, <2>2
  <1>4. ASSUME NEW r \in ClaimedRuns, KeepsRun(r) PROVE Undisturbed(r)
    <2>1. r \in Live /\ r \in RunIds /\ runs[r].job \in jobs /\ runs[r].job \in Jobs
      BY <1>4, StoreFacts DEF KeepsRun
    <2>2. CASE runs[r].job = j BY <1>2, <2>1, <2>2 DEF Undisturbed
    <2>3. CASE runs[r].job # j
      <3>1. runs'[r] = runs[r] BY <1>2, <2>1, <2>3 DEF RunsOf
      <3>2. cancelled'[runs[r].job] = cancelled[runs[r].job]
        BY <1>2, <2>1, <2>3, StoreFacts
      <3> QED BY <1>2, <2>1, <3>1, <3>2 DEF Undisturbed
    <2> QED BY <2>2, <2>3
  <1> QED BY <1>1, <1>2, <1>3, <1>4, NoRowInserted

\* A Job without an attempt under way expires.
LEMMA ExpireStep ==
    ASSUME AgentInv, NEW j \in Jobs, Expire(j),
           \A p \in Printers : worker[p].run # 0 => runs[worker[p].run].job # j
    PROVE  StoreStep
  <1>1. [StoreNext]_storeVars BY DEF StoreNext, RetentionNext
  <1>2. /\ nextSeq' = nextSeq /\ jobs' = jobs /\ expired' = expired \cup {j}
        /\ cancelled' = cancelled /\ runs' = runs
    BY DEF Expire
  <1>3. \A s \in Live : StatusStays(s) BY <1>2 DEF StatusStays
  <1>4. \A r \in ClaimedRuns : runs[r].job # j BY DEF ClaimedRuns, AgentInv, WorkerOK
  <1>5. \A r \in ClaimedRuns : KeepsRun(r) => Undisturbed(r)
    BY <1>2, <1>4, StoreFacts DEF Undisturbed, KeepsRun
  <1> QED BY <1>1, <1>2, <1>3, <1>5, NoRowInserted

\* The retention loop never purges the Job of a run that a worker is working on.
LEMMA PurgeStep ==
    ASSUME AgentInv, PurgeExpired
    PROVE  StoreStep
  <1> DEFINE gone == {j \in jobs \cap expired : Purgeable(j)}
  <1>1. [StoreNext]_storeVars BY DEF StoreNext, RetentionNext
  <1>2. /\ nextSeq' = nextSeq /\ jobs' = jobs \ gone /\ expired' = expired \ gone
        /\ cancelled' = [j \in Jobs |-> IF j \in gone THEN {} ELSE cancelled[j]]
        /\ \A s \in RunIds : runs'[s] =
              IF s \in Live /\ runs[s].job \in gone THEN NoRun ELSE runs[s]
    BY DEF PurgeExpired
  <1>3. \A s \in Live : s \in Live' => StatusStays(s)
    BY <1>2, StoreFacts DEF StatusStays, Live, NoRun
  <1>4. ASSUME NEW r \in ClaimedRuns, KeepsRun(r) PROVE Undisturbed(r)
    <2>1. r \in Live /\ r \in RunIds /\ runs[r].job \in jobs /\ runs[r].job \in Jobs
      BY <1>4, StoreFacts DEF KeepsRun
    <2>2. runs[r].job \notin gone
      BY <1>4, <2>1 DEF KeepsRun, Purgeable, Active
    <2> HIDE DEF gone
    <2> QED BY <1>2, <2>1, <2>2 DEF Undisturbed
  <1> QED BY <1>1, <1>2, <1>3, <1>4, NoRowInserted

\* A second start gives up the runs in processing.
LEMMA RecoverStep ==
    ASSUME AgentInv, RecoverAbandoned
    PROVE  /\ StoreStep
           /\ \A s \in Live' : s \in Live /\ runs'[s].status # "processing"
  <1>1. [StoreNext]_storeVars BY DEF StoreNext, WorkerNext
  <1>2. /\ nextSeq' = nextSeq /\ jobs' = jobs /\ expired' = expired
        /\ cancelled' = cancelled
        /\ \A s \in RunIds : runs[s].status # "processing" => runs'[s] = runs[s]
        /\ \A s \in RunIds : runs[s].status = "processing" =>
              runs'[s] = [[runs[s] EXCEPT !.status = "uncertain"] EXCEPT !.retryable = FALSE]
    BY DEF RecoverAbandoned
  <1>3. \A s \in Live : runs[s].status = "processing" =>
           runs'[s].status = "uncertain" /\ runs'[s].resolution = "none"
    <2> SUFFICES ASSUME NEW s \in Live, runs[s].status = "processing"
                 PROVE  runs'[s].status = "uncertain" /\ runs'[s].resolution = "none"
      OBVIOUS
    <2>1. runs[s].resolution = "none" /\ runs[s] \in PrintRun BY StoreFacts DEF RowOK
    <2>2. runs'[s] = [[runs[s] EXCEPT !.status = "uncertain"] EXCEPT !.retryable = FALSE]
      BY <1>2, StoreFacts
    <2>3. runs'[s].status = "uncertain" BY <2>1, <2>2 DEF PrintRun
    <2>4. runs'[s].resolution = runs[s].resolution BY <2>1, <2>2 DEF PrintRun
    <2> QED BY <2>1, <2>3, <2>4
  <1>4. \A s \in Live : StatusStays(s) BY <1>2, <1>3, StoreFacts DEF StatusStays
  <1>5. \A r \in ClaimedRuns : KeepsRun(r) => Undisturbed(r)
    BY <1>2, <1>3, StoreFacts DEF Undisturbed, KeepsRun
  <1>6. StoreStep BY <1>1, <1>2, <1>4, <1>5, NoRowInserted
  <1>7. \A s \in Live' : s \in Live BY <1>2 DEF Live
  <1>8. \A s \in Live' : runs'[s].status # "processing"
    BY <1>2, <1>3, <1>7, StoreFacts
  <1> QED BY <1>6, <1>7, <1>8

\* materializeRetry gives up on a chain.
LEMMA ExhaustStep ==
    ASSUME AgentInv, NEW c \in RunIds, ExhaustRetry(c)
    PROVE  StoreStep
  <1>1. [StoreNext]_storeVars BY DEF StoreNext, WorkerNext
  <1>2. /\ nextSeq' = nextSeq /\ jobs' = jobs /\ cancelled' = cancelled
        /\ expired' = expired
        /\ \A s \in Live : s # c => runs'[s] = runs[s]
        /\ c \in Live /\ runs[c].status = "failed"
        /\ runs'[c] = [runs[c] EXCEPT !.retryable = FALSE]
    BY StoreFacts DEF ExhaustRetry, RetryPending
  <1>3. runs'[c].status = runs[c].status BY <1>2, StoreFacts DEF PrintRun
  <1>4. \A s \in Live : StatusStays(s) BY <1>2, <1>3 DEF StatusStays
  <1>5. \A r \in ClaimedRuns : KeepsRun(r) => Undisturbed(r)
    BY <1>2, StoreFacts DEF Undisturbed, KeepsRun
  <1> QED BY <1>1, <1>2, <1>4, <1>5, NoRowInserted

\* A transaction that inserts rows for printers that have work or may get some.
LEMMA RowsInserted ==
    ASSUME AgentInv, [StoreNext]_storeVars,
           \A s \in Live : s \in Live' => StatusStays(s),
           \A r \in ClaimedRuns : KeepsRun(r) => Undisturbed(r),
           \A s \in RunIds : s \in nextSeq..(nextSeq' - 1) =>
               /\ runs'[s].status \in {"queued", "failed"}
               /\ \/ HasActiveRuns(runs'[s].printer)
                  \/ mgr = NoOp /\ config[runs'[s].printer] # "absent"
    PROVE  StoreStep
  <1>1. RowsEvolve /\ StoreInv BY NextEvolves DEF AgentInv
  <1>2. nextSeq \in Nat BY StoreFacts
  <1>3. \A s \in Live' : s \in RunIds /\ (Kept(s) \/ Inserted(s))
    BY <1>1, RowsAfter DEF StoreInv
  <1>4. \A s \in Live' : StatusStays(s)
    <2> SUFFICES ASSUME NEW s \in Live', Inserted(s) PROVE StatusStays(s)
      BY <1>3 DEF Kept
    <2>1. s \in nextSeq..(nextSeq' - 1) /\ s \in RunIds BY <1>3 DEF Inserted
    <2>2. s >= nextSeq BY <1>2, <2>1 DEF RunIds
    <2> QED BY <2>1, <2>2 DEF StatusStays
  <1>5. \A r \in ClaimedRuns : KeepsRun(r)' BY <1>1, StoreFacts, UndisturbedKeepsRun
  <1>6. ASSUME NEW p \in Printers, HasActiveRuns(p)', ~HasActiveRuns(p)
        PROVE  mgr = NoOp /\ config[p] # "absent"
    <2>1. PICK s \in Live' : Inserted(s) /\ runs'[s].printer = p
      BY <1>1, <1>6, WorkIsInserted
    <2>2. s \in RunIds /\ s \in nextSeq..(nextSeq' - 1) BY <1>3, <2>1 DEF Inserted
    <2> QED BY <1>6, <2>1, <2>2
  <1> QED BY <1>4, <1>5, <1>6 DEF StoreStep

\* materializeRetry inserts a child: its printer had a retry to do.
LEMMA MaterializeRetryStep ==
    ASSUME AgentInv, NEW c \in RunIds, NEW renders \in BOOLEAN, MaterializeRetry(c, renders)
    PROVE  StoreStep
  <1> DEFINE child == IF renders THEN RetryOf(c)
                      ELSE [RetryOf(c) EXCEPT !.status = "failed"]
  <1>1. [StoreNext]_storeVars BY DEF StoreNext, WorkerNext
  <1>2. /\ nextSeq' = nextSeq + 1 /\ jobs' = jobs /\ cancelled' = cancelled
        /\ expired' = expired
        /\ c \in Live /\ RetryPending(c) /\ nextSeq <= MaxRuns
        /\ runs' = [runs EXCEPT ![c].retryable = FALSE, ![nextSeq] = child]
    BY DEF MaterializeRetry
  <1>3. child.status \in {"queued", "failed"} /\ child.printer = runs[c].printer
    BY DEF RetryOf, NewRun
  <1> HIDE DEF child
  <1>4. nextSeq \in RunIds /\ nextSeq # c /\ nextSeq \notin Live
    BY <1>2, StoreFacts DEF RunIds
  <1>5. /\ \A s \in Live : s # c => runs'[s] = runs[s]
        /\ runs'[c] = [runs[c] EXCEPT !.retryable = FALSE]
        /\ runs'[nextSeq] = child
    BY <1>2, <1>4, StoreFacts
  <1>6. runs[c].status = "failed" /\ runs'[c].status = runs[c].status
    BY <1>2, <1>5, StoreFacts DEF PrintRun, RetryPending
  <1>7. \A s \in Live : StatusStays(s) BY <1>2, <1>5, <1>6 DEF StatusStays
  <1>8. \A r \in ClaimedRuns : KeepsRun(r) => Undisturbed(r)
    BY <1>2, <1>5, <1>6, StoreFacts DEF Undisturbed, KeepsRun
  <1>9. HasActiveRuns(runs[c].printer) BY <1>2 DEF HasActiveRuns
  <1>10. \A s \in RunIds : s \in nextSeq..(nextSeq' - 1) => s = nextSeq
    BY <1>2, StoreFacts DEF RunIds
  <1> QED BY <1>1, <1>3, <1>5, <1>7, <1>8, <1>9, <1>10, RowsInserted

\* A Job is accepted for configured printers while no operation is under way.
LEMMA AcceptStep ==
    ASSUME AgentInv, NEW j \in Jobs, NEW ps \in PrinterLists, Accept(j, ps),
           mgr = NoOp, \A i \in DOMAIN ps : config[ps[i]] # "absent"
    PROVE  StoreStep
  <1>1. [StoreNext]_storeVars BY DEF StoreNext, ClientNext
  <1>2. /\ \A s \in RunIds : s \notin nextSeq..(nextSeq' - 1) => runs'[s] = runs[s]
        /\ \A s \in RunIds : s \in nextSeq..(nextSeq' - 1) =>
              runs'[s].status = "queued" /\ \E i \in DOMAIN ps : runs'[s].printer = ps[i]
    BY AcceptRows, StoreFacts DEF StoreInv
  <1>3. /\ jobs' = jobs \cup {j} /\ j \notin jobs /\ expired' = expired \ {j}
        /\ cancelled' = [cancelled EXCEPT ![j] = {}]
    BY DEF Accept, Touch
  <1>4. \A s \in Live : runs'[s] = runs[s] BY <1>2, StoreFacts DEF RunIds
  <1>5. \A s \in Live : StatusStays(s) BY <1>4 DEF StatusStays
  <1>6. ASSUME NEW r \in ClaimedRuns, KeepsRun(r) PROVE Undisturbed(r)
    <2>1. r \in Live /\ runs[r].job \in jobs /\ runs[r].job \in Jobs
      BY <1>6, StoreFacts DEF KeepsRun
    <2>2. cancelled'[runs[r].job] = cancelled[runs[r].job]
      BY <1>3, <2>1, StoreFacts
    <2> QED BY <1>3, <1>4, <2>1, <2>2 DEF Undisturbed
  <1> QED BY <1>1, <1>2, <1>5, <1>6, RowsInserted

\* So is a reprint.
LEMMA ReprintStep ==
    ASSUME AgentInv, NEW j \in Jobs, NEW ps \in PrinterLists, NEW q \in Requests,
           Reprint(j, ps, q),
           mgr = NoOp, \A i \in DOMAIN ps : config[ps[i]] # "absent"
    PROVE  StoreStep
  <1>1. [StoreNext]_storeVars BY DEF StoreNext, ClientNext
  <1>2. /\ \A s \in RunIds : s \notin nextSeq..(nextSeq' - 1) =>
              runs'[s] = ResolvedRow(s, j, ps)
        /\ \A s \in RunIds : s \in nextSeq..(nextSeq' - 1) =>
              runs'[s].status = "queued" /\ \E i \in DOMAIN ps : runs'[s].printer = ps[i]
    BY ReprintRows, StoreFacts DEF StoreInv
  <1>3. /\ jobs' = jobs /\ expired' = expired \ {j}
        /\ cancelled' = [cancelled EXCEPT ![j] = @ \ {ps[i] : i \in DOMAIN ps}]
    BY DEF Reprint, Touch
  <1>4. \A s \in Live : runs'[s] = ResolvedRow(s, j, ps)
    BY <1>2, StoreFacts DEF RunIds
  <1>5. \A s \in Live : ResolvedRow(s, j, ps).status = runs[s].status
    BY StoreFacts DEF ResolvedRow, PrintRun
  <1>6. \A s \in Live : StatusStays(s) BY <1>4, <1>5 DEF StatusStays
  <1>7. ASSUME NEW r \in ClaimedRuns, KeepsRun(r) PROVE Undisturbed(r)
    <2>1. r \in Live /\ runs[r].job \in jobs /\ runs[r].job \in Jobs
      BY <1>7, StoreFacts DEF KeepsRun
    <2>2. CASE runs[r].job = j BY <1>3, <2>1, <2>2 DEF Undisturbed
    <2>3. CASE runs[r].job # j
      <3>1. runs'[r] = runs[r]
        BY <1>4, <2>1, <2>3 DEF ResolvedRow, Superseded, RunsOf
      <3>2. cancelled'[runs[r].job] = cancelled[runs[r].job]
        BY <1>3, <2>1, <2>3, StoreFacts
      <3> QED BY <1>3, <2>1, <3>1, <3>2 DEF Undisturbed
    <2> QED BY <2>2, <2>3
  <1> QED BY <1>1, <1>2, <1>6, <1>7, RowsInserted

\* What clients and the retention loop do is a step of the store of this kind.
LEMMA ClientStep ==
    ASSUME AgentInv, ServeClient \/ Retention
    PROVE  StoreStep
  <1>1. CASE ServeClient
    BY <1>1, AcceptStep, ReprintStep, CancelTargetsStep, CancelRunStep, ConfirmStep
       DEF ServeClient
  <1>2. CASE Retention BY <1>2, PurgeStep, ExpireStep DEF Retention
  <1> QED BY <1>1, <1>2

-----------------------------------------------------------------------------
(* Steps that change neither who holds the permit nor what is being printed *)

\* The worker goes on with what it was doing, or had nothing and has nothing.
SameAttempt(w, v) ==
    /\ v.run = w.run /\ v.outcome = w.outcome /\ v.failing = w.failing
    /\ v.pc = w.pc \/ (v.pc \notin HoldPcs /\ w.pc \notin HoldPcs)
    /\ v.pc = "none" => v = NoWorker

\* Between two steps only cancellations, reconnects and workers outside the
\* permit have moved.
ProcessFrame ==
    /\ worker' \in [Printers -> Worker]
    /\ \A q \in Printers : SameAttempt(worker[q], worker'[q])
    /\ permit' = permit /\ failures' = failures /\ paper' = paper

\* Such a step, with a step of the store or without, preserves everything but
\* the parts that are about the life cycle.
LEMMA FrameStep ==
    ASSUME AgentInv, ProcessFrame, StoreStep, AgentTypeOK', LifecycleInv',
           agent = "crashed" => agent' = "crashed"
    PROVE  AgentInv'
  <1>1. StoreInv' BY NextPreserves DEF StoreStep, AgentInv
  <1>2. nextSeq \in Nat /\ nextSeq' \in Nat /\ nextSeq <= nextSeq' /\ paper \subseteq Nat
    <2>1. RowsEvolve BY NextEvolves DEF StoreStep, AgentInv
    <2>2. nextSeq' \in Nat /\ nextSeq <= nextSeq' BY <2>1, StoreAssumption DEF RowsEvolve
    <2> QED BY <2>2, StoreFacts DEF AgentInv, AgentTypeOK, RunIds
  <1>3. \A q \in Printers : WorkerOK(worker'[q])
    BY DEF ProcessFrame, SameAttempt, AgentInv, WorkerOK, HoldPcs, Claimed
  <1>4. GateInv'
    <2>1. \A q \in Printers : /\ HoldsPermit(q)' <=> HoldsPermit(q)
                              /\ worker'[q].failing = worker[q].failing
      BY DEF ProcessFrame, SameAttempt, HoldPcs, HoldsPermit
    <2> QED BY <2>1 DEF ProcessFrame, GateInv, AgentInv
  <1>5. \A q \in Printers :
           /\ worker'[q].run = worker[q].run /\ worker'[q].outcome = worker[q].outcome
           /\ Claimed(worker'[q]) => Claimed(worker[q]) /\ worker'[q].pc = worker[q].pc
    BY DEF ProcessFrame, SameAttempt, HoldPcs, Claimed
  <1>6. ClaimsInv'
    <2> SUFFICES ASSUME NEW q \in Printers, Claimed(worker'[q])
                 PROVE  KeepsRun(worker[q].run)' /\ AttemptOK(worker[q])'
      BY DEF ClaimsInv
    <2> DEFINE r == worker[q].run
    <2>1. /\ Claimed(worker[q]) /\ r \in ClaimedRuns
          /\ worker'[q].run = r /\ worker'[q].outcome = worker[q].outcome
          /\ worker'[q].pc = worker[q].pc
      BY <1>5 DEF ClaimedRuns
    <2>2. r \in Live /\ r < nextSeq /\ AttemptOK(worker[q])
      BY <2>1, StoreFacts DEF AgentInv, ClaimsInv, KeepsRun
    <2>3. KeepsRun(worker[q].run)' BY <2>1 DEF StoreStep, KeepsRun
    <2>4. r \in Live' /\ StatusStays(r) /\ r \in Nat
      BY <2>1, <2>3, <2>2 DEF StoreStep, KeepsRun, Live, RunIds
    <2>5. /\ runs[r].status \in {"processing", "uncertain", "transmitted", "failed"}
          /\ worker[q].pc = "process" \/ worker[q].pc = "write" \/ worker[q].outcome # "none"
      BY <2>1, <2>2 DEF AgentInv, WorkerOK, Claimed, AttemptOK, AgentTypeOK, Worker, Outcomes
    <2>6. \/ runs'[r].status = runs[r].status
          \/ runs[r].status = "processing" /\ runs'[r].status = "uncertain"
      BY <1>2, <2>2, <2>4, <2>5 DEF StatusStays
    <2>7. paper' = paper BY DEF ProcessFrame
    <2>8. AttemptOK(worker[q])' BY <2>1, <2>2, <2>6, <2>7 DEF AttemptOK
    <2> QED BY <2>1, <2>3, <2>8
  <1>7. OwnerInv'
    <2> SUFFICES ASSUME NEW r \in Live', runs'[r].status = "processing", agent' # "crashed"
                 PROVE  \E q \in Printers : worker'[q].run = r
      BY DEF OwnerInv
    <2>1. r \in Live /\ runs[r].status = "processing" BY DEF StoreStep, StatusStays
    <2>2. PICK q \in Printers : worker[q].run = r BY <2>1 DEF AgentInv, OwnerInv
    <2> QED BY <1>5, <2>2
  <1>8. PaperInv'
    <2>1. \A r \in paper' : r < nextSeq' BY <1>2 DEF ProcessFrame, AgentInv, PaperInv
    <2>2. ASSUME NEW r \in Live'
          PROVE  /\ runs'[r].status = "transmitted" => r \in paper
                 /\ r \in paper =>
                       runs'[r].status \in {"processing", "transmitted", "uncertain"}
      <3>1. CASE r >= nextSeq /\ runs'[r].status \in {"queued", "failed"}
        <4>1. r \in paper => r \in Nat /\ r < nextSeq BY <1>2 DEF AgentInv, PaperInv
        <4>2. r \notin paper BY <1>2, <3>1, <4>1
        <4> QED BY <3>1, <4>2
      <3>2. CASE r \in Live
        BY <3>1, <3>2 DEF StoreStep, StatusStays, AgentInv, PaperInv, StatusTellsTheTruth
      <3> QED BY <3>1, <3>2 DEF StoreStep, StatusStays
    <2> QED BY <2>1, <2>2 DEF PaperInv, StatusTellsTheTruth, ProcessFrame
  <1> QED BY <1>1, <1>3, <1>4, <1>6, <1>7, <1>8 DEF AgentInv

\* The life cycle is left alone by a step that starts no worker and gives no work
\* to a printer that is removed.
LEMMA LifecycleFrame ==
    ASSUME AgentInv, StoreStep, UNCHANGED <<agent, mgr, config>>,
           \A q \in Printers : worker[q].pc = "none" => worker'[q].pc = "none"
    PROVE  LifecycleInv'
  <1>1. \A q \in Printers : HasActiveRuns(q)' =>
           HasActiveRuns(q) \/ (mgr = NoOp /\ config[q] # "absent")
    BY DEF StoreStep
  <1>2. mgr = NoOp \/ mgr.printer \in Printers BY DEF AgentInv, AgentTypeOK
  <1>3. mgr = NoOp => mgr.op \notin {"restart", "remove"} BY DEF NoOp
  <1> QED BY <1>1, <1>2, <1>3 DEF AgentInv, LifecycleInv, RetiredPrinterIsQuiet

\* Worker p moves outside the permit.
Outside(w) ==
    /\ w \in Worker
    /\ w.run = 0 /\ w.outcome = "none" /\ ~w.failing /\ w.pc \notin HoldPcs
    /\ w.pc = "none" => w = NoWorker

\* A worker that holds nothing moves to a point where it holds nothing.
LEMMA OutsideStep ==
    ASSUME AgentInv, NEW p \in Printers, NEW w, worker[p].pc \notin HoldPcs,
           worker[p].pc # "none", Outside(w), Set(p, w), StoreStep,
           UNCHANGED <<mgr, permit, failures, envVars>>
    PROVE  AgentInv'
  <1>1. UNCHANGED <<mgr, permit, failures, agent, db, config, paper, used>>
    BY DEF envVars
  <1>2. worker \in [Printers -> Worker] /\ \A q \in Printers : WorkerOK(worker[q])
    BY DEF AgentInv, AgentTypeOK
  <1>3. worker' = [worker EXCEPT ![p] = w] BY DEF Set
  <1>4. /\ worker[p].run = 0 /\ worker[p].outcome = "none" /\ ~worker[p].failing
        /\ worker[p].failing \in BOOLEAN
    BY <1>2 DEF WorkerOK, HoldPcs, Claimed, Worker
  <1>5. SameAttempt(worker[p], w) BY <1>4 DEF Outside, SameAttempt, Worker
  <1>6. \A q \in Printers : SameAttempt(worker[q], worker'[q])
    BY <1>2, <1>3, <1>5 DEF SameAttempt, WorkerOK
  <1>7. worker' \in [Printers -> Worker] BY <1>2, <1>3 DEF Outside
  <1>8. ProcessFrame BY <1>1, <1>6, <1>7 DEF ProcessFrame
  <1>9. AgentTypeOK' BY <1>1, <1>7 DEF AgentInv, AgentTypeOK
  <1>10. \A q \in Printers : worker[q].pc = "none" => worker'[q].pc = "none"
    BY <1>2, <1>3
  <1>11. LifecycleInv' BY <1>1, <1>10, LifecycleFrame
  <1> QED BY <1>1, <1>8, <1>9, <1>11, FrameStep

\* Leaving a loop: a worker that holds nothing ends or starts over.
LEMMA OutsideWorkers ==
    ASSUME NEW w \in Worker, w.run = 0, w.outcome = "none", ~w.failing
    PROVE  /\ Outside(NoWorker) /\ Outside(Continue(w)) /\ Outside(AfterDrain(w))
           /\ \A pc \in {"connect", "backoff", "materialize", "drain", "acquire", "idle"} :
                 Outside([w EXCEPT !.pc = pc])
  <1>1. NoWorker \in Worker
    BY StoreAssumption DEF NoWorker, Worker, Pcs, Outcomes, RunIds
  <1>2. Outside(NoWorker) BY <1>1 DEF Outside, NoWorker, HoldPcs
  <1>3. ASSUME NEW pc \in {"connect", "backoff", "materialize", "drain", "acquire", "idle"}
        PROVE  Outside([w EXCEPT !.pc = pc])
    BY DEF Outside, Worker, Pcs, HoldPcs
  <1>4. Outside(Continue(w)) BY <1>2, <1>3 DEF Continue
  <1>5. Outside(AfterDrain(w)) BY <1>3, <1>4 DEF AfterDrain
  <1> QED BY <1>2, <1>3, <1>4, <1>5

-----------------------------------------------------------------------------
(* The worker outside the permit *)

\* The fields of a worker that is not between acquire and release.
LEMMA IdleWorker ==
    ASSUME AgentInv, NEW p \in Printers, worker[p].pc \notin HoldPcs
    PROVE  /\ worker[p] \in Worker
           /\ worker[p].run = 0 /\ worker[p].outcome = "none" /\ ~worker[p].failing
  BY DEF AgentInv, AgentTypeOK, WorkerOK, Claimed, HoldPcs

\* Connecting, waiting, reading the candidates and leaving the queue.
LEMMA WorkerMoves ==
    ASSUME AgentInv, NEW p \in Printers,
           \/ WorkerExit(p) \/ ConnectOk(p) \/ LinkLost(p) \/ ConnectFail(p)
           \/ BackoffEnd(p) \/ MaterializeError(p) \/ DrainTop(p) \/ AcquireCancelled(p)
           \/ IdleEnd(p) \/ IdleReconnect(p)
    PROVE  AgentInv'
  <1> DEFINE w == worker[p]
  <1>0. worker[p].pc \in {"idle", "backoff", "connect", "materialize", "drain", "acquire"}
    BY DEF WorkerExit, ConnectOk, LinkLost, ConnectFail, BackoffEnd, MaterializeError,
       DrainTop, AcquireCancelled, IdleEnd, IdleReconnect
  <1>1. /\ worker[p].pc \notin HoldPcs /\ worker[p].pc # "none"
        /\ w \in Worker /\ w.run = 0 /\ w.outcome = "none" /\ ~w.failing
    BY <1>0, IdleWorker DEF HoldPcs
  <1>2. /\ UNCHANGED <<mgr, permit, failures, envVars>> /\ UNCHANGED storeVars
    BY DEF WorkerExit, ConnectOk, LinkLost, ConnectFail, BackoffEnd, MaterializeError,
       DrainTop, AcquireCancelled, IdleEnd, IdleReconnect
  <1>3. StoreStep BY <1>2, IdleStore
  <1>4. ASSUME NEW v, Outside(v), Set(p, v) PROVE AgentInv'
    BY <1>1, <1>2, <1>3, <1>4, OutsideStep
  <1>7. CASE WorkerExit(p)
    BY <1>1, <1>4, <1>7, OutsideWorkers DEF WorkerExit
  <1>8. CASE ConnectOk(p)
    <2> DEFINE cand == IF db = "up" THEN PendingRetries(p) ELSE {}
               u == [w EXCEPT !.connected = TRUE]
               v == [[u EXCEPT !.pc = IF cand = {} THEN "drain" ELSE "materialize"]
                        EXCEPT !.cand = cand]
    <2>1. Set(p, v) BY <1>8 DEF ConnectOk, Materialize
    <2>2. cand \subseteq RunIds BY DEF PendingRetries, Live
    <2> HIDE DEF cand
    <2>3. Outside(v) BY <1>1, <2>2 DEF Outside, Worker, Pcs, HoldPcs
    <2> QED BY <1>4, <2>1, <2>3
  <1>9. CASE LinkLost(p)
    <2> DEFINE v == [w EXCEPT !.connected = FALSE]
    <2>1. v \in Worker /\ v.run = 0 /\ v.outcome = "none" /\ ~v.failing
      BY <1>1 DEF Worker
    <2>2. Set(p, Continue(v)) BY <1>9 DEF LinkLost
    <2> HIDE DEF v
    <2> QED BY <1>4, <2>1, <2>2, OutsideWorkers
  <1>10. CASE ConnectFail(p)
    BY <1>1, <1>4, <1>10, OutsideWorkers DEF ConnectFail
  <1>11. CASE BackoffEnd(p)
    <2> DEFINE v == [[w EXCEPT !.pc = "connect"] EXCEPT !.reconnect = FALSE]
    <2>1. Outside(v) BY <1>1 DEF Outside, Worker, Pcs, HoldPcs
    <2>2. Set(p, v) BY <1>11 DEF BackoffEnd
    <2> QED BY <1>4, <2>1, <2>2
  <1>12. CASE MaterializeError(p)
    <2> DEFINE v == [[w EXCEPT !.pc = "drain"] EXCEPT !.cand = {}]
    <2>1. Outside(v) BY <1>1 DEF Outside, Worker, Pcs, HoldPcs
    <2>2. Set(p, v) BY <1>12 DEF MaterializeError
    <2> QED BY <1>4, <2>1, <2>2
  <1>13. CASE DrainTop(p)
    BY <1>1, <1>4, <1>13, OutsideWorkers DEF DrainTop
  <1>14. CASE AcquireCancelled(p)
    BY <1>1, <1>4, <1>14, OutsideWorkers DEF AcquireCancelled
  <1>15. CASE IdleEnd(p)
    BY <1>1, <1>4, <1>15, OutsideWorkers DEF IdleEnd
  <1>16. CASE IdleReconnect(p)
    <2> DEFINE v == [[w EXCEPT !.connected = FALSE] EXCEPT !.reconnect = FALSE]
    <2>1. v \in Worker /\ v.run = 0 /\ v.outcome = "none" /\ ~v.failing
      BY <1>1 DEF Worker
    <2>2. Set(p, Continue(v)) BY <1>16 DEF IdleReconnect
    <2> HIDE DEF v
    <2> QED BY <1>4, <2>1, <2>2, OutsideWorkers
  <1> QED BY <1>7, <1>8, <1>9, <1>10, <1>11, <1>12, <1>13, <1>14, <1>15, <1>16

\* One candidate of MaterializeRetries.
LEMMA MaterializeMoves ==
    ASSUME AgentInv, NEW p \in Printers, NEW r \in RunIds, MaterializeStep(p, r)
    PROVE  AgentInv'
  <1> DEFINE w == worker[p]
             v == [[w EXCEPT !.cand = @ \ {r}]
                     EXCEPT !.pc = IF w.cand = {r} THEN "drain" ELSE "materialize"]
  <1>1. /\ w.pc \notin HoldPcs /\ w.pc # "none"
        /\ w \in Worker /\ w.run = 0 /\ w.outcome = "none" /\ ~w.failing
    BY IdleWorker DEF MaterializeStep, HoldPcs
  <1>2. StoreStep
    BY ExhaustStep, MaterializeRetryStep, IdleStore DEF MaterializeStep
  <1>3. Set(p, v) /\ UNCHANGED <<mgr, permit, failures, envVars>> BY DEF MaterializeStep
  <1>4. Outside(v) BY <1>1 DEF Outside, Worker, Pcs, HoldPcs
  <1> QED BY <1>1, <1>2, <1>3, <1>4, OutsideStep

-----------------------------------------------------------------------------
(* The worker that holds the permit *)

\* A step of the worker p that holds the permit, from its record to record w.  No
\* other worker has a run, so only w and the rows matter.
LEMMA HolderStep ==
    ASSUME AgentInv, NEW p \in Printers, NEW w, HoldsPermit(p),
           w \in Worker, WorkerOK(w), Set(p, w),
           [StoreNext]_storeVars, nextSeq' = nextSeq,
           UNCHANGED <<agent, db, config, mgr>>, used' \in [Faults -> Nat],
           permit' = IF w.pc \in HoldPcs THEN 0 ELSE 1,
           failures' = IF w.failing THEN 1 ELSE 0,
           paper' \subseteq RunIds, PaperInv',
           Claimed(w) => KeepsRun(w.run)' /\ AttemptOK(w)',
           \A r \in Live' : runs'[r].status = "processing" => w.run = r
    PROVE  AgentInv'
  <1>1. StoreInv' /\ RowsEvolve BY NextPreserves, NextEvolves DEF AgentInv
  <1>2. /\ worker \in [Printers -> Worker] /\ worker' = [worker EXCEPT ![p] = w]
        /\ \A q \in Printers : WorkerOK(worker[q])
    BY DEF AgentInv, AgentTypeOK, Set
  <1>3. worker' \in [Printers -> Worker] /\ \A q \in Printers : WorkerOK(worker'[q])
    BY <1>2
  <1>4. AgentTypeOK' BY <1>3 DEF AgentInv, AgentTypeOK
  <1>5. \A q \in Printers : q # p =>
           worker'[q] = worker[q] /\ ~HoldsPermit(q) /\ ~worker[q].failing
    BY <1>2 DEF AgentInv, GateInv, WorkerOK, HoldPcs, HoldsPermit
  <1>6. GateInv'
    <2>1. worker'[p] = w BY <1>2
    <2>2. HoldsPermit(p)' <=> w.pc \in HoldPcs BY <2>1 DEF HoldsPermit, HoldPcs
    <2>3. \A q \in Printers : q # p => ~HoldsPermit(q)' /\ ~worker'[q].failing
      BY <1>5 DEF HoldsPermit
    <2> QED BY <2>1, <2>2, <2>3 DEF GateInv
  <1>7. agent \in {"up", "stopping"} /\ worker[p].pc # "none"
    BY DEF AgentInv, LifecycleInv, AgentTypeOK, HoldsPermit
  <1>8. LifecycleInv'
    <2>1. \A s : ~Inserted(s) BY StoreFacts DEF Inserted
    <2>2. \A q : ~HasActiveRuns(q) => ~HasActiveRuns(q)'
      BY <1>1, <2>1, StoreFacts, WorkIsInserted
    <2>3. mgr = NoOp \/ mgr.printer \in Printers BY DEF AgentInv, AgentTypeOK
    <2>4. \A q \in Printers : worker[q].pc = "none" => worker'[q].pc = "none"
      BY <1>5, <1>7
    <2> QED BY <1>7, <2>2, <2>3, <2>4 DEF AgentInv, LifecycleInv, RetiredPrinterIsQuiet, NoOp
  <1>9. ClaimsInv'
    <2>1. \A q \in Printers : q # p => ~Claimed(worker'[q])
      BY <1>5 DEF HoldsPermit, Claimed
    <2>2. worker'[p] = w BY <1>2
    <2> QED BY <2>1, <2>2 DEF ClaimsInv, KeepsRun, AttemptOK
  <1>10. OwnerInv' BY <1>2 DEF OwnerInv
  <1> QED BY <1>1, <1>3, <1>4, <1>6, <1>8, <1>9, <1>10 DEF AgentInv

\* The permit is taken out of the channel: nobody else had it.
LEMMA AcquireMoves ==
    ASSUME AgentInv, NEW p \in Printers, Acquire(p)
    PROVE  AgentInv'
  <1> DEFINE w == [worker[p] EXCEPT !.pc = "claim"]
  <1>1. /\ worker[p].pc \notin HoldPcs /\ worker[p].pc = "acquire" /\ worker[p] \in Worker
        /\ worker[p].run = 0 /\ worker[p].outcome = "none" /\ ~worker[p].failing
    BY IdleWorker DEF Acquire, HoldPcs
  <1>2. /\ w \in Worker /\ w.pc = "claim" /\ w.run = 0 /\ w.outcome = "none" /\ ~w.failing
    BY <1>1 DEF Worker, Pcs
  <1>3. /\ worker' = [worker EXCEPT ![p] = w] /\ worker \in [Printers -> Worker]
        /\ UNCHANGED <<storeVars, mgr, failures, agent, db, config, paper, used>>
        /\ permit > 0 /\ permit' = permit - 1
    BY DEF Acquire, Set, envVars, AgentInv, AgentTypeOK
  <1> HIDE DEF w
  <1>4. permit = 1 /\ permit' = 0 /\ \A q \in Printers : ~HoldsPermit(q)
    BY <1>3 DEF AgentInv, AgentTypeOK, GateInv
  <1>5. StoreStep BY <1>3, IdleStore
  <1>6. worker'[p] = w /\ \A q \in Printers : q # p => worker'[q] = worker[q] BY <1>3
  <1>7. /\ worker' \in [Printers -> Worker] /\ \A q \in Printers : WorkerOK(worker'[q])
    BY <1>2, <1>3, <1>6 DEF AgentInv, WorkerOK, Claimed, HoldPcs
  <1>8. AgentTypeOK' BY <1>3, <1>4, <1>7 DEF AgentInv, AgentTypeOK
  <1>9. LifecycleInv'
    BY <1>1, <1>3, <1>5, <1>6, LifecycleFrame
  <1>10. GateInv'
    <2>1. HoldsPermit(p)' /\ \A q \in Printers : q # p => ~HoldsPermit(q)'
      BY <1>2, <1>4, <1>6 DEF HoldsPermit
    <2>2. \A q \in Printers : worker'[q].failing <=> worker[q].failing
      BY <1>1, <1>2, <1>6
    <2> QED BY <1>3, <1>4, <2>1, <2>2 DEF AgentInv, GateInv
  <1>11. StoreInv' BY <1>5, NextPreserves DEF StoreStep, AgentInv
  <1>12. ClaimsInv'
    BY <1>2, <1>4, <1>6 DEF ClaimsInv, Claimed, HoldsPermit
  <1>13. OwnerInv' /\ PaperInv'
    <2>1. Live' = Live /\ runs' = runs /\ nextSeq' = nextSeq BY <1>3 DEF storeVars, Live
    <2>2. \A q \in Printers : worker'[q].run = worker[q].run BY <1>1, <1>2, <1>6
    <2> QED BY <1>3, <2>1, <2>2 DEF AgentInv, OwnerInv, PaperInv, StatusTellsTheTruth
  <1> QED BY <1>7, <1>8, <1>9, <1>10, <1>11, <1>12, <1>13 DEF AgentInv

\* What is known while worker p holds the permit: it is the only one with a run,
\* and every run in processing is its run.
LEMMA HolderFacts ==
    ASSUME AgentInv, NEW p \in Printers, HoldsPermit(p)
    PROVE  /\ worker[p] \in Worker /\ WorkerOK(worker[p]) /\ permit = 0
           /\ failures = IF worker[p].failing THEN 1 ELSE 0
           /\ \A r \in Live : runs[r].status = "processing" => worker[p].run = r
           /\ Claimed(worker[p]) =>
                 KeepsRun(worker[p].run) /\ AttemptOK(worker[p])
                 /\ worker[p].run \in Live /\ worker[p].run \in RunIds
  <1>1. worker[p] \in Worker /\ WorkerOK(worker[p]) BY DEF AgentInv, AgentTypeOK
  <1>2. permit = 0 BY DEF AgentInv, GateInv
  <1>3. \A q \in Printers : q # p => ~HoldsPermit(q) /\ ~worker[q].failing
    BY DEF AgentInv, GateInv, WorkerOK, HoldPcs, HoldsPermit
  <1>4. failures = IF worker[p].failing THEN 1 ELSE 0
    BY <1>3 DEF AgentInv, GateInv
  <1>5. agent # "crashed" BY DEF AgentInv, LifecycleInv, HoldsPermit
  <1>6. ASSUME NEW r \in Live, runs[r].status = "processing" PROVE worker[p].run = r
    <2>1. PICK q \in Printers : worker[q].run = r BY <1>5, <1>6 DEF AgentInv, OwnerInv
    <2>2. r # 0 BY DEF Live, RunIds
    <2>3. HoldsPermit(q) BY <2>1, <2>2 DEF AgentInv, WorkerOK, Claimed, HoldsPermit
    <2> QED BY <1>3, <2>1, <2>3
  <1>7. Claimed(worker[p]) =>
           KeepsRun(worker[p].run) /\ AttemptOK(worker[p]) /\ worker[p].run \in Live
           /\ worker[p].run \in RunIds
    BY DEF AgentInv, ClaimsInv, KeepsRun, Live
  <1> QED BY <1>1, <1>2, <1>4, <1>6, <1>7

\* A step of the holder that does not use the store.
LEMMA HolderMoves ==
    ASSUME AgentInv, NEW p \in Printers, NEW w, HoldsPermit(p),
           w \in Worker, WorkerOK(w), Set(p, w), w.run = worker[p].run,
           UNCHANGED <<storeVars, mgr, agent, db, config, used>>,
           permit' = IF w.pc \in HoldPcs THEN 0 ELSE 1,
           failures' = IF w.failing THEN 1 ELSE 0,
           paper' \subseteq RunIds, PaperInv',
           Claimed(w) => AttemptOK(w)'
    PROVE  AgentInv'
  <1>1. /\ nextSeq' = nextSeq /\ runs' = runs /\ expired' = expired
        /\ cancelled' = cancelled /\ Live' = Live
    BY DEF storeVars, Live
  <1>2. \A r \in Live' : runs'[r].status = "processing" => w.run = r
    BY <1>1, HolderFacts
  <1>3. Claimed(w) => Claimed(worker[p]) BY HolderFacts DEF WorkerOK
  <1>4. Claimed(w) => KeepsRun(w.run)' BY <1>1, <1>3, HolderFacts DEF KeepsRun
  <1>5. used' \in [Faults -> Nat] BY DEF AgentInv, AgentTypeOK
  <1> QED BY <1>1, <1>2, <1>4, <1>5, HolderStep

\* The paper is left alone.
LEMMA SamePaper ==
    ASSUME AgentInv, UNCHANGED <<storeVars, paper>>
    PROVE  PaperInv' /\ paper' \subseteq RunIds
  <1>1. Live' = Live /\ runs' = runs /\ nextSeq' = nextSeq BY DEF storeVars, Live
  <1> QED BY <1>1 DEF AgentInv, AgentTypeOK, PaperInv, StatusTellsTheTruth

\* The queue is empty, or the claim fails.
LEMMA NoClaimMoves ==
    ASSUME AgentInv, NEW p \in Printers, ClaimNothing(p) \/ ClaimError(p) \/ PersistError(p)
    PROVE  AgentInv'
  <1> DEFINE w == worker[p]
  <1>0. HoldsPermit(p) BY DEF ClaimNothing, ClaimError, PersistError, HoldsPermit
  <1>1. UNCHANGED <<storeVars, mgr, agent, db, config, paper, used>>
    BY DEF ClaimNothing, ClaimError, PersistError, envVars
  <1>2. PaperInv' /\ paper' \subseteq RunIds BY <1>1, SamePaper
  <1>3. w \in Worker /\ WorkerOK(w) /\ permit = 0 /\ failures = IF w.failing THEN 1 ELSE 0
    BY <1>0, HolderFacts
  <1>4. CASE ClaimNothing(p)
    <2> DEFINE u == [w EXCEPT !.failing = FALSE]
               v == AfterDrain(u)
    <2>1. u \in Worker /\ u.run = 0 /\ u.outcome = "none" /\ ~u.failing
      BY <1>3, <1>4 DEF ClaimNothing, Worker, WorkerOK, Claimed
    <2>2. Set(p, v) /\ permit' = 1 /\ failures' = 0
      BY <1>3, <1>4 DEF ClaimNothing, GateEnd
    <2> HIDE DEF u
    <2>3. Outside(v) BY <2>1, OutsideWorkers
    <2> HIDE DEF v
    <2>4. /\ v \in Worker /\ WorkerOK(v) /\ v.pc \notin HoldPcs /\ ~v.failing
          /\ v.run = 0 /\ ~Claimed(v)
      BY <2>3 DEF Outside, WorkerOK, Claimed, HoldPcs
    <2>5. worker[p].run = 0 BY <1>3, <1>4 DEF ClaimNothing, WorkerOK, Claimed
    <2> QED BY <1>0, <1>1, <1>2, <2>2, <2>4, <2>5, HolderMoves
  <1>5. CASE ClaimError(p) \/ PersistError(p)
    <2>1. PICK v : v = [w EXCEPT !.failing = TRUE] OBVIOUS
    <2>2. Set(p, v) /\ permit' = 0 /\ failures' = 1
      BY <1>3, <1>5, <2>1 DEF ClaimError, PersistError, GateBegin
    <2>3. w.pc \in HoldPcs BY <1>0 DEF HoldsPermit, HoldPcs
    <2>4. /\ v \in Worker /\ v.pc = w.pc /\ v.run = w.run /\ v.outcome = w.outcome
          /\ v.failing
      BY <1>3, <2>1 DEF Worker
    <2>5. WorkerOK(v) BY <1>3, <2>3, <2>4 DEF WorkerOK, Claimed, HoldPcs
    <2>6. Claimed(v) => AttemptOK(v)'
      <3>1. runs' = runs /\ paper' = paper BY <1>1 DEF storeVars
      <3> QED BY <1>0, <2>4, <3>1, HolderFacts DEF Claimed, AttemptOK
    <2> QED BY <1>0, <1>1, <1>2, <2>2, <2>3, <2>4, <2>5, <2>6, HolderMoves
  <1> QED BY <1>4, <1>5

\* The attempt up to its outcome, and the bytes on their way.
LEMMA AttemptMoves ==
    ASSUME AgentInv, NEW p \in Printers,
           \/ ProcessFail(p) \/ ProcessRender(p) \/ WriteOk(p) \/ WriteUncertain(p)
           \/ WriteNotSent(p)
    PROVE  AgentInv'
  <1> DEFINE w == worker[p]
  <1>0. HoldsPermit(p) /\ w.pc \in {"process", "write"} /\ Claimed(w)
    BY DEF ProcessFail, ProcessRender, WriteOk, WriteUncertain, WriteNotSent,
       HoldsPermit, Claimed
  <1>1. UNCHANGED <<storeVars, mgr, permit, failures, agent, db, config, paper, used>>
    BY DEF ProcessFail, ProcessRender, WriteOk, WriteUncertain, WriteNotSent, envVars
  <1>2. PaperInv' /\ paper' \subseteq RunIds BY <1>1, SamePaper
  <1>3. /\ w \in Worker /\ WorkerOK(w) /\ permit = 0 /\ AttemptOK(w)
        /\ failures = IF w.failing THEN 1 ELSE 0
    BY <1>0, HolderFacts
  <1>4. ASSUME NEW v, v \in Worker, Set(p, v), v.run = w.run, v.failing = w.failing,
               v.pc \in {"write", "persist"}, v.outcome # "none" <=> v.pc = "persist",
               AttemptOK(v)
        PROVE  AgentInv'
    <2>1. WorkerOK(v) BY <1>0, <1>3, <1>4 DEF WorkerOK, Claimed, HoldPcs
    <2>2. runs' = runs /\ paper' = paper BY <1>1 DEF storeVars
    <2>3. AttemptOK(v)' BY <1>4, <2>2 DEF AttemptOK
    <2>4. v.pc \in HoldPcs BY <1>4 DEF HoldPcs
    <2> QED BY <1>0, <1>1, <1>2, <1>3, <1>4, <2>1, <2>3, <2>4, HolderMoves
  <1>5. w.outcome = "none" BY <1>0, <1>3 DEF WorkerOK
  <1>6. runs[w.run].status \in {"processing", "uncertain"}
    BY <1>0, <1>3 DEF AttemptOK
  <1>7. CASE ProcessFail(p)
    <2> DEFINE v == [[w EXCEPT !.pc = "persist"] EXCEPT !.outcome = "failed"]
    <2>1. v \in Worker /\ v.run = w.run /\ v.failing = w.failing /\ v.pc = "persist"
          /\ v.outcome = "failed"
      BY <1>3 DEF Worker, Pcs, Outcomes
    <2>2. Set(p, v) /\ w.pc = "process" BY <1>7 DEF ProcessFail
    <2> HIDE DEF v
    <2>3. AttemptOK(v) BY <1>3, <1>6, <2>1, <2>2 DEF AttemptOK
    <2> QED BY <1>4, <2>1, <2>2, <2>3
  <1>8. CASE ProcessRender(p)
    <2> DEFINE v == [w EXCEPT !.pc = "write"]
    <2>1. v \in Worker /\ v.run = w.run /\ v.failing = w.failing /\ v.pc = "write"
          /\ v.outcome = "none"
      BY <1>3, <1>5 DEF Worker, Pcs
    <2>2. Set(p, v) BY <1>8 DEF ProcessRender
    <2> HIDE DEF v
    <2>3. AttemptOK(v) BY <1>3, <1>6, <2>1, <2>2 DEF AttemptOK
    <2> QED BY <1>4, <2>1, <2>2, <2>3
  <1>9. CASE WriteOk(p)
    <2> DEFINE v == [[w EXCEPT !.pc = "persist"] EXCEPT !.outcome = "transmitted"]
    <2>1. v \in Worker /\ v.run = w.run /\ v.failing = w.failing /\ v.pc = "persist"
          /\ v.outcome = "transmitted"
      BY <1>3 DEF Worker, Pcs, Outcomes
    <2>2. Set(p, v) /\ w.run \in paper BY <1>9 DEF WriteOk
    <2> HIDE DEF v
    <2>3. AttemptOK(v) BY <1>3, <1>6, <2>1, <2>2 DEF AttemptOK
    <2> QED BY <1>4, <2>1, <2>2, <2>3
  <1>10. CASE WriteUncertain(p)
    <2> DEFINE v == [[[w EXCEPT !.pc = "persist"] EXCEPT !.outcome = "uncertain"]
                        EXCEPT !.connected = FALSE]
    <2>1. v \in Worker /\ v.run = w.run /\ v.failing = w.failing /\ v.pc = "persist"
          /\ v.outcome = "uncertain"
      BY <1>3 DEF Worker, Pcs, Outcomes
    <2>2. Set(p, v) BY <1>10 DEF WriteUncertain
    <2> HIDE DEF v
    <2>3. AttemptOK(v) BY <1>3, <1>6, <2>1, <2>2 DEF AttemptOK
    <2> QED BY <1>4, <2>1, <2>2, <2>3
  <1>11. CASE WriteNotSent(p)
    <2> DEFINE v == [[[w EXCEPT !.pc = "persist"] EXCEPT !.outcome = "not_sent"]
                        EXCEPT !.connected = FALSE]
    <2>1. v \in Worker /\ v.run = w.run /\ v.failing = w.failing /\ v.pc = "persist"
          /\ v.outcome = "not_sent"
      BY <1>3 DEF Worker, Pcs, Outcomes
    <2>2. Set(p, v) /\ w.run \notin paper BY <1>11 DEF WriteNotSent
    <2> HIDE DEF v
    <2>3. AttemptOK(v) BY <1>3, <1>6, <2>1, <2>2 DEF AttemptOK
    <2> QED BY <1>4, <2>1, <2>2, <2>3
  <1> QED BY <1>7, <1>8, <1>9, <1>10, <1>11

\* A byte leaves.
LEMMA SendMoves ==
    ASSUME AgentInv, NEW p \in Printers, SendBytes(p)
    PROVE  AgentInv'
  <1> DEFINE w == worker[p]
  <1>0. w.pc = "write" \/ (w.pc = "persist" /\ w.outcome = "uncertain")
    BY DEF SendBytes, AgentInv, WorkerOK
  <1>1. HoldsPermit(p) /\ Claimed(w) /\ w.pc \in HoldPcs
    BY <1>0 DEF HoldsPermit, Claimed, HoldPcs
  <1>2. /\ UNCHANGED <<storeVars, mgr, worker, permit, failures, agent, db, config, used>>
        /\ paper' = paper \cup {w.run}
    BY DEF SendBytes, procVars
  <1>3. /\ w \in Worker /\ WorkerOK(w) /\ permit = 0 /\ AttemptOK(w)
        /\ failures = IF w.failing THEN 1 ELSE 0
        /\ w.run \in Live /\ w.run \in RunIds
    BY <1>1, HolderFacts
  <1>4. Set(p, w) BY <1>2 DEF Set, AgentInv, AgentTypeOK
  <1>5. runs[w.run].status \in {"processing", "uncertain"} BY <1>0, <1>3 DEF AttemptOK
  <1>6. runs' = runs /\ Live' = Live /\ nextSeq' = nextSeq BY <1>2 DEF storeVars, Live
  <1>7. PaperInv' /\ paper' \subseteq RunIds
    <2>1. w.run < nextSeq BY <1>3, StoreFacts
    <2> QED BY <1>2, <1>3, <1>5, <1>6, <2>1
         DEF AgentInv, AgentTypeOK, PaperInv, StatusTellsTheTruth
  <1>8. PICK v : v = worker[p] OBVIOUS
  <1>9. AttemptOK(v)' BY <1>0, <1>2, <1>3, <1>5, <1>6, <1>8 DEF AttemptOK, WorkerOK
  <1> QED BY <1>1, <1>2, <1>3, <1>4, <1>7, <1>8, <1>9, HolderMoves

\* ClaimNextQueued: the run was queued, so nothing of it has been sent.
LEMMA ClaimMoves ==
    ASSUME AgentInv, NEW p \in Printers, NEW r \in RunIds, Claim(p, r)
    PROVE  AgentInv'
  <1>0. HoldsPermit(p) /\ worker[p].pc = "claim" BY DEF Claim, HoldsPermit
  <1>1. /\ worker[p] \in Worker /\ WorkerOK(worker[p]) /\ permit = 0
        /\ failures = IF worker[p].failing THEN 1 ELSE 0
        /\ worker[p].run = 0 /\ worker[p].outcome = "none"
        /\ \A s \in Live : runs[s].status # "processing"
    <2>1. worker[p].run = 0 /\ worker[p].outcome = "none"
      BY <1>0 DEF AgentInv, WorkerOK, Claimed
    <2>2. \A s \in Live : s # 0 BY DEF Live, RunIds
    <2> QED BY <1>0, <2>1, <2>2, HolderFacts
  <1>2. PICK w : w = [worker[p] EXCEPT !.pc = "process", !.run = r, !.failing = FALSE]
    OBVIOUS
  <1>3. /\ w \in Worker /\ w.pc = "process" /\ w.run = r /\ ~w.failing /\ w.outcome = "none"
    <2>1. r \in 0..MaxRuns BY StoreAssumption DEF RunIds
    <2>2. w \in Worker BY <1>1, <1>2, <2>1 DEF Worker, Pcs
    <2>3. w.pc = "process" /\ w.run = r /\ ~w.failing /\ w.outcome = worker[p].outcome
      BY <1>1, <1>2 DEF Worker
    <2> QED BY <1>1, <2>2, <2>3
  <1>4. /\ Set(p, w) /\ failures' = 0 /\ permit' = 0
        /\ UNCHANGED <<agent, db, config, mgr, paper, used>>
    BY <1>1, <1>2 DEF Claim, GateEnd, envVars
  <1>5. [StoreNext]_storeVars BY DEF Claim, StoreNext, WorkerNext
  <1>6. /\ r \in Live /\ runs[r].status = "queued"
        /\ nextSeq' = nextSeq /\ expired' = expired
        /\ \A s \in RunIds : s # r => runs'[s] = runs[s]
        /\ runs'[r] = [runs[r] EXCEPT !.status = "processing"]
    BY StoreFacts DEF Claim, ClaimNextQueued, IsNextQueued
  <1>7. runs'[r].status = "processing" BY <1>6, StoreFacts DEF PrintRun
  <1>8. \A s \in RunIds : s \in Live' <=> s \in Live BY <1>6, <1>7 DEF Live
  <1>9. r \notin paper BY <1>6 DEF AgentInv, PaperInv, StatusTellsTheTruth
  <1>10. WorkerOK(w) BY <1>3 DEF WorkerOK, Claimed, RunIds
  <1>11. PaperInv' /\ paper' \subseteq RunIds
    <2>1. \A s \in paper' : s < nextSeq' BY <1>4, <1>6 DEF AgentInv, PaperInv
    <2>2. StatusTellsTheTruth'
      BY <1>4, <1>6, <1>7, <1>8, <1>9
         DEF AgentInv, PaperInv, StatusTellsTheTruth, Live
    <2> QED BY <1>4, <2>1, <2>2 DEF AgentInv, AgentTypeOK, PaperInv
  <1>12. KeepsRun(w.run)' /\ AttemptOK(w)'
    BY <1>3, <1>4, <1>6, <1>7, <1>8, <1>9 DEF KeepsRun, AttemptOK
  <1>13. \A s \in Live' : runs'[s].status = "processing" => w.run = s
    BY <1>1, <1>3, <1>6, <1>8 DEF Live
  <1>14. used' \in [Faults -> Nat] BY <1>4 DEF AgentInv, AgentTypeOK
  <1>15. w.pc \in HoldPcs BY <1>3 DEF HoldPcs
  <1> QED BY <1>0, <1>3, <1>4, <1>5, <1>6, <1>10, <1>11, <1>12, <1>13, <1>14, <1>15,
             HolderStep

\* What recording the outcome of the holder's run does to the rows.
LEMMA RecordRows ==
    ASSUME AgentInv, NEW p \in Printers, worker[p].pc = "persist",
           Record(worker[p].run, worker[p].outcome)
    PROVE  LET r == worker[p].run
           IN  /\ r \in Live' /\ r \in Live /\ nextSeq' = nextSeq
               /\ runs'[r].status = RecordedStatus(worker[p].outcome)
               /\ runs'[r].status \in {"transmitted", "failed", "uncertain"}
               /\ runs'[r].job = runs[r].job
               /\ runs[r].job \notin expired'
               /\ \A s \in RunIds : s # r => runs'[s] = runs[s]
               /\ \A s \in Live' : s \in Live
  <1> DEFINE r == worker[p].run
             to == RecordedStatus(worker[p].outcome)
  <1>1. PICK retryable \in BOOLEAN : Transition(r, "processing", to, retryable)
    BY DEF Record, MarkTransmitted, MarkFailed, MarkUncertain, RecordedStatus
  <1>2. to \in {"transmitted", "failed", "uncertain"}
    BY DEF Record, RecordedStatus
  <1>3. r \in Live /\ r \in RunIds /\ nextSeq' = nextSeq /\ runs[r].job \notin expired'
    BY <1>1 DEF Transition, Touch, Live
  <1> HIDE DEF to
  <1>4. /\ \A s \in RunIds : s # r => runs'[s] = runs[s]
        /\ runs'[r].status = to /\ runs'[r].job = runs[r].job
    <2>1. CASE runs[r].status = "processing"
      <3>1. runs' = [runs EXCEPT ![r] =
                       [[runs[r] EXCEPT !.status = to] EXCEPT !.retryable = retryable]]
        BY <1>1, <1>3, <2>1, StoreFacts DEF Transition
      <3>2. runs'[r] = [[runs[r] EXCEPT !.status = to] EXCEPT !.retryable = retryable]
        BY <1>3, <3>1, StoreFacts
      <3>3. runs'[r].status = to /\ runs'[r].job = runs[r].job
        BY <1>3, <3>2, StoreFacts DEF PrintRun
      <3>4. \A s \in RunIds : s # r => runs'[s] = runs[s] BY <1>3, <3>1, StoreFacts
      <3> QED BY <3>3, <3>4
    <2>2. CASE runs[r].status # "processing"
      <3>1. runs' = runs /\ runs[r].status = to BY <1>1, <2>2 DEF Transition
      <3> QED BY <3>1
    <2> QED BY <2>1, <2>2
  <1>5. \A s \in Live' : s \in Live BY <1>3, <1>4 DEF Live
  <1>6. r \in Live' BY <1>2, <1>3, <1>4 DEF Live
  <1> QED BY <1>2, <1>3, <1>4, <1>5, <1>6 DEF to

\* The outcome is recorded; the answer may be lost.
LEMMA PersistMoves ==
    ASSUME AgentInv, NEW p \in Printers, Persist(p) \/ PersistAnswerLost(p)
    PROVE  AgentInv'
  <1>0. /\ HoldsPermit(p) /\ worker[p].pc = "persist" /\ Claimed(worker[p])
        /\ Record(worker[p].run, worker[p].outcome)
    BY DEF Persist, PersistAnswerLost, HoldsPermit, Claimed
  <1>1. /\ worker[p] \in Worker /\ WorkerOK(worker[p]) /\ permit = 0
        /\ failures = IF worker[p].failing THEN 1 ELSE 0
        /\ \A s \in Live : runs[s].status = "processing" => worker[p].run = s
        /\ AttemptOK(worker[p]) /\ worker[p].outcome # "none"
        /\ worker[p].run \in Live /\ worker[p].run \in RunIds
    BY <1>0, HolderFacts DEF WorkerOK
  <1>2. PICK r : r = worker[p].run OBVIOUS
  <1>3. PICK o : o = worker[p].outcome OBVIOUS
  <1>4. /\ r \in Live' /\ r \in Live /\ nextSeq' = nextSeq
        /\ runs'[r].status = RecordedStatus(o)
        /\ runs'[r].status \in {"transmitted", "failed", "uncertain"}
        /\ runs'[r].job = runs[r].job
        /\ runs[r].job \notin expired'
        /\ \A s \in RunIds : s # r => runs'[s] = runs[s]
        /\ \A s \in Live' : s \in Live
    BY <1>0, <1>2, <1>3, RecordRows
  <1>5. [StoreNext]_storeVars BY <1>0, RecordIsStoreStep
  <1>6. UNCHANGED <<agent, db, config, mgr, paper>>
    BY DEF Persist, PersistAnswerLost, envVars
  <1>7. used' \in [Faults -> Nat]
    BY DEF Persist, PersistAnswerLost, envVars, Spend, AgentInv, AgentTypeOK
  <1>8. o \in {"transmitted", "failed", "not_sent", "uncertain"}
    BY <1>1, <1>3 DEF Worker, Outcomes
  <1>9. /\ o = "transmitted" => r \in paper
        /\ o \in {"failed", "not_sent"} => r \notin paper
    BY <1>1, <1>2, <1>3 DEF AttemptOK
  <1>10. PaperInv' /\ paper' \subseteq RunIds
    <2>1. \A s \in paper' : s < nextSeq' BY <1>4, <1>6 DEF AgentInv, PaperInv
    <2>2. /\ runs'[r].status = "transmitted" => r \in paper
          /\ r \in paper => runs'[r].status \in {"processing", "transmitted", "uncertain"}
      BY <1>4, <1>8, <1>9 DEF RecordedStatus
    <2>3. StatusTellsTheTruth'
      BY <1>4, <1>6, <2>2 DEF AgentInv, PaperInv, StatusTellsTheTruth, Live
    <2> QED BY <1>6, <2>1, <2>3 DEF AgentInv, AgentTypeOK, PaperInv
  <1>11. \A s \in Live' : runs'[s].status # "processing"
    <2>1. \A s \in Live' : s # r => runs'[s] = runs[s] BY <1>4 DEF Live
    <2> QED BY <1>1, <1>2, <1>4, <2>1
  <1>12. CASE Persist(p)
    <2>1. PICK w : w = [worker[p] EXCEPT !.pc = "drain", !.run = 0, !.outcome = "none",
                                         !.failing = FALSE]
      OBVIOUS
    <2>2. w \in Worker /\ w.pc = "drain" /\ w.run = 0 /\ w.outcome = "none" /\ ~w.failing
      <3>1. 0 \in 0..MaxRuns BY StoreAssumption
      <3>2. w \in Worker BY <1>1, <2>1, <3>1 DEF Worker, Pcs, Outcomes
      <3>3. w.pc = "drain" /\ w.run = 0 /\ w.outcome = "none" /\ ~w.failing
        BY <1>1, <2>1 DEF Worker
      <3> QED BY <3>2, <3>3
    <2>3. Set(p, w) /\ permit' = 1 /\ failures' = 0
      BY <1>1, <1>12, <2>1 DEF Persist, GateEnd
    <2>4. WorkerOK(w) /\ ~Claimed(w) /\ w.pc \notin HoldPcs
      BY <2>2 DEF WorkerOK, Claimed, HoldPcs
    <2> QED BY <1>0, <1>4, <1>5, <1>6, <1>7, <1>10, <1>11, <2>2, <2>3, <2>4, HolderStep
  <1>13. CASE PersistAnswerLost(p)
    <2>1. PICK w : w = [worker[p] EXCEPT !.failing = TRUE] OBVIOUS
    <2>2. /\ w \in Worker /\ w.pc = "persist" /\ w.run = r /\ w.outcome = o /\ w.failing
      BY <1>0, <1>1, <1>2, <1>3, <2>1 DEF Worker
    <2>3. Set(p, w) /\ permit' = 0 /\ failures' = 1
      BY <1>1, <1>13, <2>1 DEF PersistAnswerLost, GateBegin
    <2>4. WorkerOK(w) /\ w.pc \in HoldPcs
      BY <1>1, <1>2, <1>3, <2>2 DEF WorkerOK, Claimed, HoldPcs, RunIds
    <2>5. KeepsRun(w.run)' BY <1>4, <2>2 DEF KeepsRun
    <2>6. AttemptOK(w)'
      BY <1>4, <1>6, <1>8, <1>9, <2>2 DEF AttemptOK, RecordedStatus
    <2> QED BY <1>0, <1>4, <1>5, <1>6, <1>7, <1>10, <1>11, <2>2, <2>3, <2>4, <2>5, <2>6,
               HolderStep
  <1> QED BY <1>12, <1>13

\* A step of a worker preserves the invariant.
LEMMA WorkerPreserves ==
    ASSUME AgentInv, NEW p \in Printers, WorkerStep(p)
    PROVE  AgentInv'
  BY WorkerMoves, MaterializeMoves, AcquireMoves, NoClaimMoves, AttemptMoves, SendMoves,
     ClaimMoves, PersistMoves DEF WorkerStep

-----------------------------------------------------------------------------
(* The Manager and the process *)

\* Cancelling a context changes nothing else.
LEMMA CancelledWorker ==
    ASSUME NEW w \in Worker, WorkerOK(w)
    PROVE  LET v == [w EXCEPT !.cancel = (w.pc # "none")]
           IN  v \in Worker /\ SameAttempt(w, v) /\ v.pc = w.pc
  <1> DEFINE v == [w EXCEPT !.cancel = (w.pc # "none")]
  <1>1. v \in Worker BY DEF Worker
  <1>2. v.pc = w.pc /\ v.run = w.run /\ v.outcome = w.outcome /\ v.failing = w.failing
    BY DEF Worker
  <1>3. ASSUME w.pc = "none" PROVE v = NoWorker
    <2>1. w = NoWorker /\ (w.pc # "none") = FALSE BY <1>3 DEF WorkerOK
    <2>2. w.cancel = FALSE BY <2>1 DEF NoWorker
    <2>3. v = w BY <2>1, <2>2 DEF Worker
    <2> QED BY <2>1, <2>3
  <1> QED BY <1>1, <1>2, <1>3 DEF SameAttempt

\* stopWorker up to its wait.
LEMMA CancelFrame ==
    ASSUME AgentInv, NEW p \in Printers, CancelWorker(p),
           UNCHANGED <<permit, failures, paper>>
    PROVE  /\ ProcessFrame
           /\ \A q \in Printers : worker'[q].pc = worker[q].pc
  <1> DEFINE v == [worker[p] EXCEPT !.cancel = (worker[p].pc # "none")]
  <1>1. worker \in [Printers -> Worker] /\ \A q \in Printers : WorkerOK(worker[q])
    BY DEF AgentInv, AgentTypeOK
  <1>2. worker' = [worker EXCEPT ![p] = v] BY DEF CancelWorker
  <1>3. v \in Worker /\ SameAttempt(worker[p], v) /\ v.pc = worker[p].pc
    BY <1>1, CancelledWorker
  <1> HIDE DEF v
  <1>4. worker'[p] = v /\ \A q \in Printers : q # p => worker'[q] = worker[q]
    BY <1>1, <1>2
  <1>5. \A q \in Printers : SameAttempt(worker[q], worker[q])
    BY <1>1 DEF SameAttempt, WorkerOK
  <1>6. worker' \in [Printers -> Worker] BY <1>1, <1>2, <1>3
  <1> QED BY <1>3, <1>4, <1>5, <1>6 DEF ProcessFrame

\* No worker moves.
LEMMA SameWorkers ==
    ASSUME AgentInv, UNCHANGED <<worker, permit, failures, paper>>
    PROVE  /\ ProcessFrame
           /\ \A q \in Printers : worker'[q].pc = worker[q].pc
  BY DEF AgentInv, AgentTypeOK, ProcessFrame, SameAttempt, WorkerOK

\* startWorker for printer p, which has none.
LEMMA StartFrame ==
    ASSUME AgentInv, NEW p \in Printers, worker[p].pc = "none",
           Set(p, NewWorker) \/ UNCHANGED worker,
           UNCHANGED <<permit, failures, paper>>
    PROVE  /\ ProcessFrame
           /\ \A q \in Printers : q # p => worker'[q].pc = worker[q].pc
  <1>1. worker \in [Printers -> Worker] /\ \A q \in Printers : WorkerOK(worker[q])
    BY DEF AgentInv, AgentTypeOK
  <1>2. CASE Set(p, NewWorker)
    <2> DEFINE u == [NoWorker EXCEPT !.cancel = (agent = "stopping")]
    <2>1. NoWorker \in Worker BY StoreAssumption DEF NoWorker, Worker, Pcs, Outcomes
    <2>2. u \in Worker /\ u.run = 0 /\ u.outcome = "none" /\ ~u.failing
      BY <2>1 DEF NoWorker, Worker
    <2> HIDE DEF u
    <2>3. Outside(Continue(u)) BY <2>2, OutsideWorkers
    <2>4. PICK v : v = Continue(u) OBVIOUS
    <2>5. worker' = [worker EXCEPT ![p] = v] BY <1>2, <2>4 DEF Set, NewWorker, u
    <2>6. worker[p] = NoWorker BY <1>1 DEF WorkerOK
    <2>7. SameAttempt(worker[p], v)
      <3>1. /\ v.run = 0 /\ v.outcome = "none" /\ v.failing = FALSE /\ v.pc \notin HoldPcs
            /\ v.pc = "none" => v = NoWorker
        BY <2>3, <2>4 DEF Outside, Worker
      <3>2. /\ NoWorker.run = 0 /\ NoWorker.outcome = "none" /\ NoWorker.failing = FALSE
            /\ NoWorker.pc = "none" /\ "none" \notin HoldPcs
        BY DEF NoWorker, HoldPcs
      <3> QED BY <2>6, <3>1, <3>2 DEF SameAttempt
    <2>8. worker'[p] = v /\ \A q \in Printers : q # p => worker'[q] = worker[q]
      BY <1>1, <2>5
    <2>9. \A q \in Printers : SameAttempt(worker[q], worker[q])
      BY <1>1 DEF SameAttempt, WorkerOK
    <2>10. worker' \in [Printers -> Worker] BY <1>1, <2>3, <2>4, <2>5 DEF Outside
    <2> QED BY <2>7, <2>8, <2>9, <2>10 DEF ProcessFrame
  <1>3. CASE UNCHANGED worker BY <1>3, SameWorkers
  <1> QED BY <1>2, <1>3

\* The parts of the invariant that the steps below use again and again.
LEMMA LifecycleFacts ==
    ASSUME AgentInv
    PROVE  /\ LifecycleInv /\ AgentTypeOK
           /\ mgr = NoOp \/ (mgr.printer \in Printers /\ mgr.enabled \in BOOLEAN
                             /\ mgr.op \in {"save", "restart", "remove"})
           /\ NoOp.op = "none"
  BY DEF AgentInv, AgentTypeOK, NoOp

\* The operations of the Manager.
LEMMA ManagerPreserves ==
    ASSUME AgentInv, ManagerStep
    PROVE  AgentInv'
  <1>1. UNCHANGED <<storeVars, permit, failures, paper, agent, db, used>>
    BY DEF ManagerStep, ApplySave, ApplyRestart, RemoveEnd, envVars
  <1>2. StoreStep BY <1>1, IdleStore
  <1>3. /\ mgr # NoOp /\ mgr.printer \in Printers /\ mgr.enabled \in BOOLEAN
        /\ agent \in {"up", "stopping"}
        /\ mgr \in [op : {"save", "restart", "remove"}, printer : Printers, enabled : BOOLEAN]
    BY LifecycleFacts
       DEF ManagerStep, ApplySave, ApplyRestart, RemoveEnd, LifecycleInv, AgentTypeOK
  <1>4. \A q \in Printers : HasActiveRuns(q)' <=> HasActiveRuns(q)
    BY <1>1 DEF storeVars, HasActiveRuns, Live, Active, RetryPending
  <1>5. ASSUME ProcessFrame, AgentTypeOK', LifecycleInv' PROVE AgentInv'
    BY <1>1, <1>2, <1>5, FrameStep
  <1>6. CASE ApplySave
    <2>1. CASE db = "up" /\ CancelWorker(mgr.printer) /\ mgr' = [mgr EXCEPT !.op = "restart"]
               /\ config' = [config EXCEPT ![mgr.printer] =
                               IF mgr.enabled THEN "enabled" ELSE "disabled"]
      <3>1. ProcessFrame /\ \A q \in Printers : worker'[q].pc = worker[q].pc
        BY <1>1, <1>3, <2>1, CancelFrame
      <3>2. /\ mgr' \in [op : {"save", "restart", "remove"}, printer : Printers,
                         enabled : BOOLEAN]
            /\ mgr'.op = "restart" /\ mgr'.printer = mgr.printer
        BY <1>3, <2>1
      <3>3. config' \in [Printers -> {"enabled", "disabled", "absent"}]
            /\ config'[mgr.printer] # "absent"
            /\ \A q \in Printers : config'[q] = "absent" => config[q] = "absent"
        BY <1>3, <2>1, LifecycleFacts DEF AgentTypeOK
      <3>4. AgentTypeOK'
        BY <1>1, <3>1, <3>2, <3>3, LifecycleFacts DEF AgentTypeOK, ProcessFrame
      <3>5. LifecycleInv'
        BY <1>1, <1>3, <1>4, <3>1, <3>2, <3>3, LifecycleFacts
           DEF LifecycleInv, RetiredPrinterIsQuiet
      <3> QED BY <1>5, <3>1, <3>4, <3>5
    <2>2. CASE mgr' = NoOp /\ UNCHANGED <<config, worker>>
      <3>1. ProcessFrame /\ \A q \in Printers : worker'[q].pc = worker[q].pc
        BY <1>1, <2>2, SameWorkers
      <3>2. AgentTypeOK'
        BY <1>1, <2>2, <3>1, LifecycleFacts DEF AgentTypeOK, ProcessFrame
      <3>3. LifecycleInv'
        BY <1>1, <1>3, <1>4, <2>2, <3>1, LifecycleFacts
           DEF LifecycleInv, RetiredPrinterIsQuiet
      <3> QED BY <1>5, <3>1, <3>2, <3>3
    <2> QED BY <1>6, <2>1, <2>2 DEF ApplySave
  <1>7. ASSUME mgr.op \in {"restart", "remove"}, worker[mgr.printer].pc = "none",
               Set(mgr.printer, NewWorker) \/ UNCHANGED worker, mgr' = NoOp,
               UNCHANGED config
        PROVE  AgentInv'
    <2>1. /\ ProcessFrame
          /\ \A q \in Printers : q # mgr.printer => worker'[q].pc = worker[q].pc
      BY <1>1, <1>3, <1>7, StartFrame
    <2>2. AgentTypeOK'
      BY <1>1, <1>7, <2>1, LifecycleFacts DEF AgentTypeOK, ProcessFrame
    <2>3. config[mgr.printer] # "absent" BY <1>7, LifecycleFacts DEF LifecycleInv
    <2>4. LifecycleInv'
      BY <1>1, <1>3, <1>4, <1>7, <2>1, <2>3, LifecycleFacts
         DEF LifecycleInv, RetiredPrinterIsQuiet
    <2> QED BY <1>5, <2>1, <2>2, <2>4
  <1>8. CASE ApplyRestart BY <1>7, <1>8 DEF ApplyRestart, envVars
  <1>9. CASE RemoveEnd
    <2>1. CASE /\ config' = [config EXCEPT ![mgr.printer] = "absent"] /\ UNCHANGED worker
               /\ mgr' = NoOp
      <3>1. ProcessFrame /\ \A q \in Printers : worker'[q].pc = worker[q].pc
        BY <1>1, <2>1, SameWorkers
      <3>2. config' \in [Printers -> {"enabled", "disabled", "absent"}]
            /\ \A q \in Printers : q # mgr.printer => config'[q] = config[q]
        BY <1>3, <2>1, LifecycleFacts DEF AgentTypeOK
      <3>3. AgentTypeOK'
        BY <1>1, <2>1, <3>1, <3>2, LifecycleFacts DEF AgentTypeOK, ProcessFrame
      <3>4. ~HasActiveRuns(mgr.printer) /\ worker[mgr.printer].pc = "none"
        BY <1>9, LifecycleFacts DEF RemoveEnd, LifecycleInv
      <3>5. LifecycleInv'
        BY <1>1, <1>3, <1>4, <2>1, <3>1, <3>2, <3>4, LifecycleFacts
           DEF LifecycleInv, RetiredPrinterIsQuiet
      <3> QED BY <1>5, <3>1, <3>3, <3>5
    <2>2. CASE UNCHANGED config BY <1>7, <1>9, <2>2 DEF RemoveEnd
    <2> QED BY <1>9, <2>1, <2>2 DEF RemoveEnd
  <1> QED BY <1>6, <1>8, <1>9 DEF ManagerStep

\* Operations begin, and the agent is asked to stop.
LEMMA OperatePreserves ==
    ASSUME AgentInv, Operate
    PROVE  AgentInv'
  <1>1. UNCHANGED <<storeVars, permit, failures, paper, config, db>>
        /\ used' \in [Faults -> Nat]
    <2>1. UNCHANGED <<storeVars, permit, failures, paper, config, db>>
          /\ Spend("operation", MaxOperations)
      BY DEF Operate, ApplyCheck, RemoveCheck, Reconnect, StopBegin
    <2> QED BY <2>1, LifecycleFacts DEF Spend, AgentTypeOK, Faults
  <1>2. StoreStep BY <1>1, IdleStore
  <1>3. \A q \in Printers : HasActiveRuns(q)' <=> HasActiveRuns(q)
    BY <1>1 DEF storeVars, HasActiveRuns, Live, Active, RetryPending
  <1>4. ASSUME NEW p \in Printers, NEW enabled \in BOOLEAN, ApplyCheck(p, enabled)
        PROVE  AgentInv'
    <2>1. /\ mgr' = [op |-> "save", printer |-> p, enabled |-> enabled]
          /\ UNCHANGED <<worker, agent>> /\ agent \in {"up", "stopping"}
      BY <1>4 DEF ApplyCheck, Serving
    <2>2. ProcessFrame /\ \A q \in Printers : worker'[q].pc = worker[q].pc
      BY <1>1, <2>1, SameWorkers
    <2>3. mgr'.op = "save" BY <2>1
    <2>4. AgentTypeOK'
      BY <1>1, <2>1, <2>2, LifecycleFacts DEF AgentTypeOK, ProcessFrame
    <2>5. LifecycleInv'
      BY <1>1, <1>3, <2>1, <2>2, <2>3, LifecycleFacts DEF LifecycleInv, RetiredPrinterIsQuiet
    <2> QED BY <1>2, <2>1, <2>2, <2>4, <2>5, FrameStep
  <1>5. ASSUME NEW p \in Printers, RemoveCheck(p)
        PROVE  AgentInv'
    <2>1. /\ mgr' = [op |-> "remove", printer |-> p, enabled |-> config[p] = "enabled"]
          /\ CancelWorker(p) /\ agent' = agent /\ agent \in {"up", "stopping"}
          /\ ~HasActiveRuns(p) /\ config[p] # "absent"
      BY <1>5 DEF RemoveCheck, Serving
    <2>2. ProcessFrame /\ \A q \in Printers : worker'[q].pc = worker[q].pc
      BY <1>1, <2>1, CancelFrame
    <2>3. mgr'.op = "remove" /\ mgr'.printer = p BY <2>1
    <2>4. AgentTypeOK'
      BY <1>1, <2>1, <2>2, LifecycleFacts DEF AgentTypeOK, ProcessFrame
    <2>5. LifecycleInv'
      BY <1>1, <1>3, <2>1, <2>2, <2>3, LifecycleFacts DEF LifecycleInv, RetiredPrinterIsQuiet
    <2> QED BY <1>2, <2>1, <2>2, <2>4, <2>5, FrameStep
  <1>6. ASSUME NEW p \in Printers, Reconnect(p)
        PROVE  AgentInv'
    <2>1. PICK v : v = [worker[p] EXCEPT !.reconnect = TRUE] OBVIOUS
    <2>2. worker' = [worker EXCEPT ![p] = v] /\ worker[p].pc # "none" /\ UNCHANGED <<mgr, agent>>
      BY <1>6, <2>1 DEF Reconnect, Set
    <2>3. worker \in [Printers -> Worker] /\ \A q \in Printers : WorkerOK(worker[q])
      BY DEF AgentInv, AgentTypeOK
    <2>4. /\ v \in Worker /\ v.pc = worker[p].pc /\ v.run = worker[p].run
          /\ v.outcome = worker[p].outcome /\ v.failing = worker[p].failing
      BY <2>1, <2>3 DEF Worker
    <2>5. worker'[p] = v /\ \A q \in Printers : q # p => worker'[q] = worker[q]
      BY <2>2, <2>3
    <2>6. \A q \in Printers : SameAttempt(worker[q], worker'[q])
      BY <2>2, <2>3, <2>4, <2>5 DEF SameAttempt, WorkerOK
    <2>7. worker' \in [Printers -> Worker] BY <2>2, <2>3, <2>4
    <2>8. ProcessFrame BY <1>1, <2>6, <2>7 DEF ProcessFrame
    <2>9. AgentTypeOK' BY <1>1, <2>2, <2>7, LifecycleFacts DEF AgentTypeOK
    <2>10. \A q \in Printers : worker[q].pc = "none" => worker'[q].pc = "none"
      BY <2>4, <2>5
    <2>11. LifecycleInv' BY <1>1, <1>2, <2>2, <2>10, LifecycleFrame
    <2> QED BY <1>2, <2>2, <2>8, <2>9, <2>11, FrameStep
  <1>7. CASE StopBegin
    <2>1. /\ agent = "up" /\ agent' = "stopping" /\ mgr' = mgr
          /\ \A q \in Printers :
                worker'[q] = [worker[q] EXCEPT !.cancel = (worker[q].pc # "none")]
          /\ worker' = [q \in Printers |-> worker'[q]]
      BY <1>7 DEF StopBegin
    <2>2. \A q \in Printers : worker[q] \in Worker /\ WorkerOK(worker[q])
      BY DEF AgentInv, AgentTypeOK
    <2>3. \A q \in Printers : /\ worker'[q] \in Worker /\ SameAttempt(worker[q], worker'[q])
                              /\ worker'[q].pc = worker[q].pc
      <3> TAKE q \in Printers
      <3>1. LET v == [worker[q] EXCEPT !.cancel = (worker[q].pc # "none")]
            IN  v \in Worker /\ SameAttempt(worker[q], v) /\ v.pc = worker[q].pc
        BY <2>2, CancelledWorker
      <3> QED BY <2>1, <3>1
    <2>4. worker' \in [Printers -> Worker] BY <2>1, <2>3
    <2>5. ProcessFrame BY <1>1, <2>3, <2>4 DEF ProcessFrame
    <2>6. AgentTypeOK' BY <1>1, <2>1, <2>4, LifecycleFacts DEF AgentTypeOK
    <2>7. LifecycleInv'
      BY <1>1, <1>3, <2>1, <2>3, LifecycleFacts DEF LifecycleInv, RetiredPrinterIsQuiet
    <2> QED BY <1>2, <2>1, <2>5, <2>6, <2>7, FrameStep
  <1> QED BY <1>4, <1>5, <1>6, <1>7 DEF Operate

\* Start-up recovers the runs in processing and starts the enabled workers.
LEMMA BootPreserves ==
    ASSUME AgentInv, Boot
    PROVE  AgentInv'
  <1>1. /\ RecoverAbandoned /\ UNCHANGED <<db, config, paper, used>>
        /\ agent' = "up" /\ permit' = 1 /\ failures' = 0 /\ mgr' = NoOp
        /\ worker' = [p \in Printers |->
                        IF p \in Enabled THEN Continue(NoWorker) ELSE NoWorker]
    BY DEF Boot
  <1>2. StoreStep /\ \A s \in Live' : s \in Live /\ runs'[s].status # "processing"
    BY <1>1, RecoverStep
  <1>3. StoreInv' BY <1>2, NextPreserves DEF StoreStep, AgentInv
  <1>4. Outside(NoWorker) /\ Outside(Continue(NoWorker))
    <2>1. /\ NoWorker \in Worker /\ NoWorker.run = 0 /\ NoWorker.outcome = "none"
          /\ ~NoWorker.failing
      BY StoreAssumption DEF NoWorker, Worker, Pcs, Outcomes
    <2> QED BY <2>1, OutsideWorkers
  <1>5. \A p \in Printers : Outside(worker'[p]) BY <1>1, <1>4
  <1>6. worker' \in [Printers -> Worker] BY <1>1, <1>4 DEF Outside
  <1>7. \A p \in Printers : WorkerOK(worker'[p]) /\ ~HoldsPermit(p)' /\ ~worker'[p].failing
                            /\ ~Claimed(worker'[p])
    BY <1>5 DEF Outside, WorkerOK, Claimed, HoldPcs, HoldsPermit
  <1>8. GateInv' BY <1>1, <1>7 DEF GateInv
  <1>9. AgentTypeOK' BY <1>1, <1>6, LifecycleFacts DEF AgentTypeOK
  <1>10. LifecycleInv'
    <2>1. NoWorker.pc = "none" BY DEF NoWorker
    <2>2. \A p \in Printers : config[p] = "absent" => worker'[p].pc = "none"
      BY <1>1, <2>1 DEF Enabled
    <2>3. \A p \in Printers : HasActiveRuns(p)' =>
             HasActiveRuns(p) \/ (mgr = NoOp /\ config[p] # "absent")
      BY <1>2 DEF StoreStep
    <2> QED BY <1>1, <2>2, <2>3, LifecycleFacts DEF LifecycleInv, RetiredPrinterIsQuiet
  <1>11. ClaimsInv' BY <1>7 DEF ClaimsInv
  <1>12. OwnerInv' BY <1>2 DEF OwnerInv
  <1>13. PaperInv'
    <2>1. nextSeq' = nextSeq BY <1>1 DEF RecoverAbandoned
    <2>2. \A r \in Live' :
             /\ runs'[r].status = "transmitted" => r \in paper
             /\ r \in paper =>
                   runs'[r].status \in {"processing", "transmitted", "uncertain"}
      <3> TAKE r \in Live'
      <3>1. r \in Live /\ r < nextSeq /\ StatusStays(r) /\ r \in Nat
        BY <1>2, StoreFacts DEF StoreStep, Live, RunIds
      <3>2. \/ runs'[r].status = runs[r].status
            \/ runs[r].status = "queued" /\ runs'[r].status = "cancelled"
            \/ runs[r].status = "processing" /\ runs'[r].status = "uncertain"
        BY <3>1, StoreFacts DEF StatusStays
      <3> QED BY <3>1, <3>2 DEF AgentInv, PaperInv, StatusTellsTheTruth
    <2> QED BY <1>1, <2>1, <2>2 DEF AgentInv, PaperInv, StatusTellsTheTruth
  <1> QED BY <1>3, <1>7, <1>8, <1>9, <1>10, <1>11, <1>12, <1>13 DEF AgentInv

\* The process dies: the workers are gone, the rows stay.
LEMMA CrashPreserves ==
    ASSUME AgentInv, Crash
    PROVE  AgentInv'
  <1>1. /\ UNCHANGED <<storeVars, db, config, paper>> /\ Spend("crash", MaxCrashes)
        /\ agent' = "crashed" /\ permit' = 1 /\ failures' = 0 /\ mgr' = NoOp
        /\ worker' = [p \in Printers |-> NoWorker]
    BY DEF Crash
  <1>2. StoreStep BY <1>1, IdleStore
  <1>3. StoreInv' BY <1>2, NextPreserves DEF StoreStep, AgentInv
  <1>4. NoWorker \in Worker /\ NoWorker.pc = "none" /\ NoWorker.run = 0
        /\ NoWorker.outcome = "none" /\ ~NoWorker.failing
    BY StoreAssumption DEF NoWorker, Worker, Pcs, Outcomes
  <1>5. \A p \in Printers : worker'[p] = NoWorker BY <1>1
  <1>6. \A p \in Printers : WorkerOK(worker'[p]) /\ ~HoldsPermit(p)' /\ ~worker'[p].failing
                            /\ ~Claimed(worker'[p])
    BY <1>4, <1>5 DEF WorkerOK, Claimed, HoldPcs, HoldsPermit
  <1>7. GateInv' BY <1>1, <1>6 DEF GateInv
  <1>8. AgentTypeOK'
    <2>1. used' \in [Faults -> Nat] BY <1>1, LifecycleFacts DEF Spend, AgentTypeOK, Faults
    <2>2. worker' \in [Printers -> Worker] BY <1>1, <1>4
    <2> QED BY <1>1, <2>1, <2>2, LifecycleFacts DEF AgentTypeOK
  <1>9. \A q \in Printers : HasActiveRuns(q)' <=> HasActiveRuns(q)
    BY <1>1 DEF storeVars, HasActiveRuns, Live, Active, RetryPending
  <1>10. LifecycleInv'
    BY <1>1, <1>4, <1>5, <1>9, LifecycleFacts DEF LifecycleInv, RetiredPrinterIsQuiet
  <1>11. ClaimsInv' /\ OwnerInv' BY <1>1, <1>6 DEF ClaimsInv, OwnerInv
  <1>12. PaperInv' BY <1>1, SamePaper
  <1> QED BY <1>3, <1>6, <1>7, <1>8, <1>10, <1>11, <1>12 DEF AgentInv

\* The end of a stop, a second start and the database.
LEMMA ProcessPreserves ==
    ASSUME AgentInv, StopEnd \/ SecondStart \/ DbFail \/ DbRecover
    PROVE  AgentInv'
  <1>1. UNCHANGED <<mgr, worker, permit, failures, paper, config>>
    BY DEF StopEnd, SecondStart, DbFail, DbRecover, procVars
  <1>2. ProcessFrame /\ \A q \in Printers : worker'[q].pc = worker[q].pc
    BY <1>1, SameWorkers
  <1>3. StoreStep
    BY IdleStore, RecoverStep DEF StopEnd, SecondStart, DbFail, DbRecover
  <1>4. used' \in [Faults -> Nat] /\ db' \in {"up", "down"}
        /\ agent' \in {"up", "stopping", "stopped", "crashed"}
    <2>1. CASE StopEnd BY <2>1, LifecycleFacts DEF StopEnd, AgentTypeOK
    <2>2. CASE SecondStart BY <2>2, LifecycleFacts DEF SecondStart, AgentTypeOK, Spend, Faults
    <2>3. CASE DbFail BY <2>3, LifecycleFacts DEF DbFail, AgentTypeOK, Spend, Faults
    <2>4. CASE DbRecover BY <2>4, LifecycleFacts DEF DbRecover, AgentTypeOK
    <2> QED BY <2>1, <2>2, <2>3, <2>4
  <1>5. AgentTypeOK' BY <1>1, <1>4, LifecycleFacts DEF AgentTypeOK
  <1>6. CASE agent' = agent
    <2>1. LifecycleInv' BY <1>1, <1>2, <1>3, <1>6, LifecycleFrame
    <2> QED BY <1>2, <1>3, <1>5, <1>6, <2>1, FrameStep
  <1>7. CASE StopEnd
    <2>1. /\ agent = "stopping" /\ agent' = "stopped" /\ mgr = NoOp
          /\ \A p \in Printers : worker[p].pc = "none"
          /\ UNCHANGED storeVars
      BY <1>7 DEF StopEnd
    <2>2. \A q \in Printers : HasActiveRuns(q)' <=> HasActiveRuns(q)
      BY <2>1 DEF storeVars, HasActiveRuns, Live, Active, RetryPending
    <2>3. LifecycleInv'
      BY <1>1, <1>2, <2>1, <2>2, LifecycleFacts DEF LifecycleInv, RetiredPrinterIsQuiet
    <2> QED BY <1>2, <1>3, <1>5, <2>1, <2>3, FrameStep
  <1> QED BY <1>6, <1>7 DEF SecondStart, DbFail, DbRecover

\* A step of the store alone.
LEMMA ClientPreserves ==
    ASSUME AgentInv, ServeClient \/ Retention
    PROVE  AgentInv'
  <1>1. UNCHANGED <<mgr, worker, permit, failures, agent, db, config, paper, used>>
    BY DEF ServeClient, Retention, procVars, envVars
  <1>2. StoreStep BY ClientStep
  <1>3. ProcessFrame /\ \A q \in Printers : worker'[q].pc = worker[q].pc
    BY <1>1, SameWorkers
  <1>4. AgentTypeOK' BY <1>1, LifecycleFacts DEF AgentTypeOK
  <1>5. LifecycleInv' BY <1>1, <1>2, <1>3, LifecycleFrame
  <1> QED BY <1>1, <1>2, <1>3, <1>4, <1>5, FrameStep

\* Every step of the agent preserves the invariant.
LEMMA AgentPreserves ==
    ASSUME AgentInv, [Next]_vars
    PROVE  AgentInv'
  <1>1. CASE UNCHANGED vars
    <2>1. UNCHANGED <<storeVars, mgr, worker, permit, failures, agent, db, config, paper, used>>
      BY <1>1 DEF vars, procVars, envVars
    <2>2. StoreStep BY <2>1, IdleStore
    <2>3. ProcessFrame /\ \A q \in Printers : worker'[q].pc = worker[q].pc
      BY <2>1, SameWorkers
    <2>4. AgentTypeOK' BY <2>1, LifecycleFacts DEF AgentTypeOK
    <2>5. LifecycleInv' BY <2>1, <2>2, <2>3, LifecycleFrame
    <2> QED BY <2>1, <2>2, <2>3, <2>4, <2>5, FrameStep
  <1> QED BY <1>1, WorkerPreserves, ManagerPreserves, OperatePreserves, BootPreserves,
             CrashPreserves, ProcessPreserves, ClientPreserves DEF Next

\* A first start satisfies it.
LEMMA AgentInit == Init => AgentInv
  <1> SUFFICES ASSUME Init PROVE AgentInv OBVIOUS
  <1>1. StoreInv BY InitHolds DEF Init
  <1>2. Live = {} BY DEF Init, StoreInit, Live, NoRun
  <1>3. /\ NoWorker \in Worker /\ NoWorker.run = 0 /\ NoWorker.outcome = "none"
        /\ ~NoWorker.failing
    BY StoreAssumption DEF NoWorker, Worker, Pcs, Outcomes
  <1>4. \A p \in Printers : Outside(worker[p]) BY <1>3, OutsideWorkers DEF Init
  <1>5. worker \in [Printers -> Worker] BY <1>3, OutsideWorkers DEF Init, Outside
  <1>6. \A p \in Printers : WorkerOK(worker[p]) /\ ~HoldsPermit(p) /\ ~worker[p].failing
                            /\ ~Claimed(worker[p])
    BY <1>4 DEF Outside, WorkerOK, Claimed, HoldPcs, HoldsPermit
  <1>7. AgentTypeOK BY <1>5 DEF Init, AgentTypeOK
  <1>8. GateInv BY <1>6 DEF Init, GateInv
  <1>9. LifecycleInv BY DEF Init, LifecycleInv, RetiredPrinterIsQuiet, NoOp
  <1>10. ClaimsInv /\ OwnerInv /\ PaperInv
    BY <1>2, <1>6 DEF Init, ClaimsInv, OwnerInv, PaperInv, StatusTellsTheTruth
  <1> QED BY <1>1, <1>6, <1>7, <1>8, <1>9, <1>10 DEF AgentInv

-----------------------------------------------------------------------------
(* Theorems *)

\* Whatever workers, operators, clients, crashes, outages and second starts do,
\* the agent is in a state that satisfies the inductive invariant.
THEOREM AgentInvariant == Spec => []AgentInv
  <1> QED BY AgentInit, AgentPreserves, PTL DEF Spec

\* The variables of the process always have their types; in particular the
\* channel of the permit never holds more than one token.
THEOREM AgentTypes == Spec => []AgentTypeOK
  <1>1. AgentInv => AgentTypeOK BY DEF AgentInv
  <1> QED BY <1>1, AgentInvariant, PTL

\* While the agent runs at most one row is in processing, and the worker that
\* holds the permit is going to finish it.
THEOREM ProcessingAlwaysOwned == Spec => []ProcessingIsOwned
  <1>1. ASSUME AgentInv PROVE ProcessingIsOwned
    <2> SUFFICES ASSUME agent \in {"up", "stopping"},
                        NEW r \in Live, runs[r].status = "processing"
                 PROVE  /\ \E p \in Printers : worker[p].run = r /\ HoldsPermit(p)
                        /\ \A s \in Live \ {r} : runs[s].status # "processing"
                        /\ permit = 0
      BY DEF ProcessingIsOwned
    <2>1. PICK p \in Printers : worker[p].run = r BY <1>1 DEF AgentInv, OwnerInv
    <2>2. r # 0 BY DEF Live, RunIds
    <2>3. HoldsPermit(p) BY <1>1, <2>1, <2>2 DEF AgentInv, WorkerOK, Claimed, HoldsPermit
    <2> QED BY <1>1, <2>1, <2>3, HolderFacts
  <1> QED BY <1>1, AgentInvariant, PTL

\* The pause of all workers has exactly one cause, a worker that holds the permit
\* and retries a write.
THEOREM PauseAlwaysHasCause == Spec => []PauseHasCause
  <1>1. ASSUME AgentInv PROVE PauseHasCause
    <2> DEFINE F == {p \in Printers : worker[p].failing}
    <2>1. \A p \in Printers : worker[p].failing => HoldsPermit(p)
      BY <1>1 DEF AgentInv, WorkerOK, HoldPcs, HoldsPermit
    <2>2. failures = Cardinality(F) /\ failures <= 1
      <3>1. CASE F = {}
        <4>1. failures = 0 BY <1>1, <3>1 DEF AgentInv, GateInv
        <4>2. Cardinality({}) = 0 BY FS_EmptySet
        <4>3. Cardinality(F) = Cardinality({}) BY <3>1
        <4> HIDE DEF F
        <4> QED BY <4>1, <4>2, <4>3
      <3>2. CASE F # {}
        <4>1. PICK p \in Printers : p \in F BY <3>2
        <4>2. F = {p} BY <1>1, <2>1, <4>1 DEF AgentInv, GateInv
        <4>3. failures = 1 BY <1>1, <4>1 DEF AgentInv, GateInv
        <4>4. Cardinality({p}) = 1 BY FS_Singleton
        <4>5. Cardinality(F) = Cardinality({p}) BY <4>2
        <4> HIDE DEF F
        <4> QED BY <4>3, <4>4, <4>5
      <3> QED BY <3>1, <3>2
    <2> QED BY <2>1, <2>2 DEF PauseHasCause
  <1> QED BY <1>1, AgentInvariant, PTL

\* The status of a run never claims more or less than the printer has received.
THEOREM StatusesTellTheTruth == Spec => []StatusTellsTheTruth
  <1>1. AgentInv => StatusTellsTheTruth BY DEF AgentInv, PaperInv
  <1> QED BY <1>1, AgentInvariant, PTL

\* Retries, lost commits, crashes, restarts and second starts never print a ticket
\* twice without the REPRINT mark.
THEOREM NeverAnUnmarkedDuplicate == Spec => []NoUnmarkedDuplicate
  <1>1. ASSUME AgentInv PROVE NoUnmarkedDuplicate
    <2> SUFFICES ASSUME NEW r \in Live \cap paper, NEW s \in Live \cap paper,
                        SameTarget(r, s),
                        runs[r].mode = "normal", runs[s].mode = "normal"
                 PROVE  r = s
      BY DEF NoUnmarkedDuplicate
    <2>1. \A t \in Live \cap paper : t \in Nat /\ runs[t].status # "failed"
      BY <1>1 DEF AgentInv, PaperInv, StatusTellsTheTruth, Live, RunIds
    <2>2. OneUnmarkedCopy /\ SameTarget(s, r)
      BY <1>1 DEF AgentInv, StoreInv, SameTarget
    <2>3. ~(r < s) /\ ~(s < r) BY <2>1, <2>2 DEF OneUnmarkedCopy
    <2> QED BY <2>1, <2>3
  <1> QED BY <1>1, AgentInvariant, PTL

\* A printer that was removed has no worker and no work.
THEOREM RetiredPrintersStayQuiet == Spec => []RetiredPrinterIsQuiet
  <1>1. AgentInv => RetiredPrinterIsQuiet BY DEF AgentInv, LifecycleInv
  <1> QED BY <1>1, AgentInvariant, PTL

\* After a graceful stop there is nothing to recover.
THEOREM CleanStops == Spec => []CleanStopLeavesNothing
  <1>1. ASSUME AgentInv, agent = "stopped", NEW p \in Printers, HasProcessingRun(p)
        PROVE  FALSE
    <2>1. PICK r \in Live : runs[r].status = "processing" BY <1>1 DEF HasProcessingRun
    <2>2. PICK q \in Printers : worker[q].run = r
      BY <1>1, <2>1 DEF AgentInv, OwnerInv
    <2>3. r # 0 BY DEF Live, RunIds
    <2>4. worker[q].pc # "none" BY <1>1, <2>2, <2>3 DEF AgentInv, WorkerOK, Claimed
    <2> QED BY <1>1, <2>4 DEF AgentInv, LifecycleInv
  <1>2. AgentInv => CleanStopLeavesNothing BY <1>1 DEF CleanStopLeavesNothing
  <1> QED BY <1>2, AgentInvariant, PTL

-----------------------------------------------------------------------------
(* The worker's use of Write *)

\* phase and sent of the contract as functions of a worker and the paper.
PhaseOf(w) ==
    CASE w.pc = "write" -> "writing"
      [] w.pc = "persist" /\ w.outcome = "transmitted" -> "ok"
      [] w.pc = "persist" /\ w.outcome = "not_sent" -> "not_sent"
      [] w.pc = "persist" /\ w.outcome = "uncertain" -> "ambiguous"
      [] OTHER -> "idle"
SentOf(w, sheets) ==
    w.pc \in {"write", "persist"} /\ w.outcome # "failed" /\ w.run \in sheets

\* What a step may do to a worker, as far as the contract can see it: it is done
\* with the document (or has none), it and its document are left alone, it starts
\* to write, the first byte leaves, or Write returns.
Done(v) == v.pc \notin {"write", "persist"} \/ v.outcome = "failed"
LeftAlone(w, v) ==
    /\ v.pc = w.pc /\ v.outcome = w.outcome /\ v.run = w.run
    /\ w.run \in paper <=> w.run \in paper'
Starts(w, v) ==
    /\ w.pc = "process" /\ v.pc = "write" /\ v.run = w.run
    /\ w.run \notin paper'
Sends(w, v) ==
    /\ w.pc = "write" \/ (w.pc = "persist" /\ w.outcome = "uncertain")
    /\ v = w /\ w.outcome # "failed" /\ w.run \in paper'
Returns(w, v) ==
    /\ w.pc = "write" /\ v.pc = "persist" /\ w.outcome = "none"
    /\ v.run = w.run /\ paper' = paper
    /\ \/ v.outcome = "transmitted" /\ v.run \in paper
       \/ v.outcome = "not_sent" /\ v.run \notin paper
       \/ v.outcome = "uncertain"

Seen(w, v) ==
    Done(v) \/ LeftAlone(w, v) \/ Starts(w, v) \/ Sends(w, v) \/ Returns(w, v)

\* Each of these is a step of the contract.
LEMMA SeenIsContractStep ==
    ASSUME NEW p \in Printers, worker[p] \in Worker, worker'[p] \in Worker,
           WorkerOK(worker'[p]), Seen(worker[p], worker'[p])
    PROVE  [Contract(p)!Next]_(Contract(p)!contractVars)
  <1> DEFINE w == worker[p]
             v == worker'[p]
  <1>1. CASE Done(v)
    <2>1. PhaseOf(v) = "idle" /\ SentOf(v, paper') = FALSE
      BY <1>1 DEF Done, PhaseOf, SentOf, WorkerOK
    <2>2. Contract(p)!Forget BY <2>1 DEF Contract!Forget, PhaseOf, SentOf
    <2> QED BY <2>2 DEF Contract!Next
  <1>2. CASE LeftAlone(w, v)
    <2>1. PhaseOf(v) = PhaseOf(w) /\ SentOf(v, paper') = SentOf(w, paper)
      BY <1>2 DEF LeftAlone, PhaseOf, SentOf
    <2> QED BY <2>1 DEF Contract!contractVars, PhaseOf, SentOf
  <1>3. CASE Starts(w, v)
    <2>1. /\ PhaseOf(w) = "idle" /\ PhaseOf(v) = "writing"
          /\ SentOf(v, paper') = FALSE
      BY <1>3 DEF Starts, PhaseOf, SentOf
    <2>2. Contract(p)!Begin BY <2>1 DEF Contract!Begin, PhaseOf, SentOf
    <2> QED BY <2>2 DEF Contract!Next
  <1>4. CASE Sends(w, v)
    <2>1. /\ PhaseOf(w) \in {"writing", "ambiguous"} /\ PhaseOf(v) = PhaseOf(w)
          /\ SentOf(v, paper') = TRUE
      BY <1>4 DEF Sends, PhaseOf, SentOf
    <2>2. Contract(p)!Deliver BY <2>1 DEF Contract!Deliver, PhaseOf, SentOf
    <2> QED BY <2>2 DEF Contract!Next
  <1>5. CASE Returns(w, v)
    <2>1. /\ PhaseOf(w) = "writing" /\ SentOf(v, paper') = SentOf(w, paper)
          /\ \/ PhaseOf(v) = "ok" /\ SentOf(v, paper') = TRUE
             \/ PhaseOf(v) = "not_sent" /\ SentOf(v, paper') = FALSE
             \/ PhaseOf(v) = "ambiguous"
      BY <1>5 DEF Returns, PhaseOf, SentOf
    <2>2. Contract(p)!Return BY <2>1 DEF Contract!Return, PhaseOf, SentOf
    <2> QED BY <2>2 DEF Contract!Next
  <1> QED BY <1>1, <1>2, <1>3, <1>4, <1>5 DEF Seen

\* A step of worker p is one of these for p, and leaves the others alone: no other
\* worker is near a Write, for it would hold the permit.
LEMMA WorkerStepSeen ==
    ASSUME AgentInv, NEW p \in Printers, WorkerStep(p), NEW q \in Printers
    PROVE  Seen(worker[q], worker'[q])
  <1> DEFINE w == worker[p]
  <1>0. worker \in [Printers -> Worker] /\ w \in Worker /\ WorkerOK(w)
    BY DEF AgentInv, AgentTypeOK
  <1>1. CASE SendBytes(p)
    <2>1. worker' = worker /\ paper' = paper \cup {w.run} BY <1>1 DEF SendBytes, procVars
    <2>2. w.pc = "write" \/ (w.pc = "persist" /\ w.outcome = "uncertain")
      BY <1>0, <1>1 DEF SendBytes, WorkerOK
    <2>3. CASE q = p
      <3>1. Sends(w, worker'[p]) BY <1>0, <2>1, <2>2 DEF Sends, WorkerOK
      <3> QED BY <2>3, <3>1 DEF Seen
    <2>4. CASE q # p
      <3>1. ~HoldsPermit(q) BY <2>2, <2>4 DEF AgentInv, GateInv, HoldsPermit
      <3> QED BY <2>1, <3>1 DEF Seen, Done, HoldsPermit
    <2> QED BY <2>3, <2>4
  <1>2. ASSUME NEW v, Set(p, v), paper' = paper, Seen(w, v)
        PROVE  Seen(worker[q], worker'[q])
    <2>1. CASE q = p
      <3>1. worker'[q] = v BY <1>0, <1>2, <2>1 DEF Set
      <3> QED BY <1>2, <2>1, <3>1
    <2>2. CASE q # p
      <3>1. worker'[q] = worker[q] BY <1>0, <1>2, <2>2 DEF Set
      <3> QED BY <1>2, <3>1 DEF Seen, LeftAlone
    <2> QED BY <2>1, <2>2
  <1>3. Done(Continue(w)) /\ (w.pc \in {"drain", "acquire"} => Done(AfterDrain(w)))
    BY <1>0 DEF Done, Continue, AfterDrain, NoWorker, Worker
  <1>4. Done(NoWorker) BY DEF Done, NoWorker
  <1>5. CASE WorkerExit(p)
    BY <1>2, <1>4, <1>5 DEF WorkerExit, envVars, Seen
  <1>6. CASE ConnectOk(p)
    <2> DEFINE v == Materialize([w EXCEPT !.connected = TRUE], p)
    <2>1. Done(v) BY <1>0 DEF Done, Materialize, Worker
    <2> QED BY <1>2, <1>6, <2>1 DEF ConnectOk, envVars, Seen
  <1>7. CASE LinkLost(p)
    <2> DEFINE v == Continue([w EXCEPT !.connected = FALSE])
    <2>1. Done(v) BY <1>0 DEF Done, Continue, NoWorker, Worker
    <2> QED BY <1>2, <1>7, <2>1 DEF LinkLost, envVars, Seen
  <1>8. CASE ConnectFail(p)
    <2> DEFINE v == [w EXCEPT !.pc = "backoff"]
    <2>1. Done(v) BY <1>0 DEF Done, Worker
    <2> QED BY <1>2, <1>8, <2>1 DEF ConnectFail, envVars, Seen
  <1>9. CASE BackoffEnd(p)
    <2> DEFINE v == [w EXCEPT !.pc = "connect", !.reconnect = FALSE]
    <2>1. Done(v) BY <1>0 DEF Done, Worker
    <2> QED BY <1>2, <1>9, <2>1 DEF BackoffEnd, envVars, Seen
  <1>10. ASSUME NEW r \in RunIds, MaterializeStep(p, r)
         PROVE  Seen(worker[q], worker'[q])
    <2> DEFINE v == [w EXCEPT !.cand = @ \ {r},
                        !.pc = IF w.cand = {r} THEN "drain" ELSE "materialize"]
    <2>1. Done(v) BY <1>0 DEF Done, Worker
    <2> QED BY <1>2, <1>10, <2>1 DEF MaterializeStep, envVars, Seen
  <1>11. CASE MaterializeError(p)
    <2> DEFINE v == [w EXCEPT !.pc = "drain", !.cand = {}]
    <2>1. Done(v) BY <1>0 DEF Done, Worker
    <2> QED BY <1>2, <1>11, <2>1 DEF MaterializeError, envVars, Seen
  <1>12. CASE DrainTop(p)
    <2> DEFINE v == [w EXCEPT !.pc = "acquire"]
    <2>1. Done(v) BY <1>0 DEF Done, Worker
    <2>2. Done(AfterDrain(w)) BY <1>3, <1>12 DEF DrainTop
    <2>3. (Set(p, v) \/ Set(p, AfterDrain(w))) /\ paper' = paper
      BY <1>12 DEF DrainTop, envVars
    <2> QED BY <1>2, <2>1, <2>2, <2>3 DEF Seen
  <1>13. CASE Acquire(p)
    <2> DEFINE v == [w EXCEPT !.pc = "claim"]
    <2>1. Done(v) BY <1>0 DEF Done, Worker
    <2> QED BY <1>2, <1>13, <2>1 DEF Acquire, envVars, Seen
  <1>14. CASE AcquireCancelled(p)
    <2>1. Done(AfterDrain(w)) BY <1>3, <1>14 DEF AcquireCancelled
    <2> QED BY <1>2, <1>14, <2>1 DEF AcquireCancelled, envVars, Seen
  <1>15. ASSUME NEW r \in RunIds, Claim(p, r)
         PROVE  Seen(worker[q], worker'[q])
    <2> DEFINE v == [w EXCEPT !.pc = "process", !.run = r, !.failing = FALSE]
    <2>1. Done(v) BY <1>0 DEF Done, Worker
    <2> QED BY <1>2, <1>15, <2>1 DEF Claim, envVars, Seen
  <1>16. CASE ClaimNothing(p)
    <2> DEFINE v == AfterDrain([w EXCEPT !.failing = FALSE])
    <2>1. Done(v)
      BY <1>0 DEF Done, AfterDrain, Continue, NoWorker, Worker
    <2> QED BY <1>2, <1>16, <2>1 DEF ClaimNothing, envVars, Seen
  <1>17. CASE ClaimError(p) \/ PersistAnswerLost(p) \/ PersistError(p)
    <2> DEFINE v == [w EXCEPT !.failing = TRUE]
    <2>1. Set(p, v) /\ paper' = paper
      BY <1>17 DEF ClaimError, PersistAnswerLost, PersistError, GateBegin, envVars
    <2>2. LeftAlone(w, v) BY <1>0, <2>1 DEF LeftAlone, Worker
    <2> QED BY <1>2, <2>1, <2>2 DEF Seen
  <1>18. CASE ProcessFail(p)
    <2> DEFINE v == [w EXCEPT !.pc = "persist", !.outcome = "failed"]
    <2>1. Done(v) BY <1>0 DEF Done, Worker
    <2> QED BY <1>2, <1>18, <2>1 DEF ProcessFail, envVars, Seen
  <1>19. CASE ProcessRender(p)
    <2> DEFINE v == [w EXCEPT !.pc = "write"]
    <2>1. Set(p, v) /\ paper' = paper /\ w.pc = "process"
      BY <1>19 DEF ProcessRender, envVars
    <2>2. w.run \notin paper BY <2>1 DEF AgentInv, ClaimsInv, Claimed, AttemptOK
    <2>3. Starts(w, v) BY <1>0, <2>1, <2>2 DEF Starts, Worker
    <2> QED BY <1>2, <2>1, <2>3 DEF Seen
  <1>20. ASSUME NEW v, Set(p, v), paper' = paper, w.pc = "write", v.pc = "persist",
                v.run = w.run,
                \/ v.outcome = "transmitted" /\ w.run \in paper
                \/ v.outcome = "not_sent" /\ w.run \notin paper
                \/ v.outcome = "uncertain"
         PROVE  Seen(worker[q], worker'[q])
    <2>1. Returns(w, v) BY <1>0, <1>20 DEF Returns, WorkerOK
    <2> QED BY <1>2, <1>20, <2>1 DEF Seen
  <1>21. CASE WriteOk(p)
    <2> DEFINE v == [w EXCEPT !.pc = "persist", !.outcome = "transmitted"]
    <2>1. v.pc = "persist" /\ v.run = w.run /\ v.outcome = "transmitted" BY <1>0 DEF Worker
    <2> QED BY <1>20, <1>21, <2>1 DEF WriteOk, envVars
  <1>22. CASE WriteUncertain(p)
    <2> DEFINE v == [w EXCEPT !.pc = "persist", !.outcome = "uncertain",
                              !.connected = FALSE]
    <2>1. v.pc = "persist" /\ v.run = w.run /\ v.outcome = "uncertain" BY <1>0 DEF Worker
    <2> QED BY <1>20, <1>22, <2>1 DEF WriteUncertain, envVars
  <1>23. CASE WriteNotSent(p)
    <2> DEFINE v == [w EXCEPT !.pc = "persist", !.outcome = "not_sent",
                              !.connected = FALSE]
    <2>1. v.pc = "persist" /\ v.run = w.run /\ v.outcome = "not_sent" BY <1>0 DEF Worker
    <2> QED BY <1>20, <1>23, <2>1 DEF WriteNotSent, envVars
  <1>24. CASE Persist(p)
    <2> DEFINE v == [w EXCEPT !.pc = "drain", !.run = 0, !.outcome = "none",
                              !.failing = FALSE]
    <2>1. Done(v) BY <1>0 DEF Done, Worker
    <2> QED BY <1>2, <1>24, <2>1 DEF Persist, envVars, Seen
  <1>25. CASE IdleEnd(p)
    BY <1>2, <1>3, <1>25 DEF IdleEnd, envVars, Seen
  <1>26. CASE IdleReconnect(p)
    <2> DEFINE v == Continue([w EXCEPT !.connected = FALSE, !.reconnect = FALSE])
    <2>1. Done(v) BY <1>0 DEF Done, Continue, NoWorker, Worker
    <2> QED BY <1>2, <1>26, <2>1 DEF IdleReconnect, envVars, Seen
  <1> QED
    BY <1>1, <1>5, <1>6, <1>7, <1>8, <1>9, <1>10, <1>11, <1>12, <1>13, <1>14, <1>15,
       <1>16, <1>17, <1>18, <1>19, <1>21, <1>22, <1>23, <1>24, <1>25, <1>26
    DEF WorkerStep

\* Operators, start, stop and crash, clients and outages: a worker is left alone,
\* has none of the outcomes of a Write, or is gone.
LEMMA OtherStepSeen ==
    ASSUME AgentInv, NEW q \in Printers,
           \/ ManagerStep \/ Operate \/ Boot \/ StopEnd \/ Crash \/ SecondStart
           \/ DbFail \/ DbRecover \/ ServeClient \/ Retention \/ UNCHANGED vars
    PROVE  Seen(worker[q], worker'[q])
  <1>0. worker \in [Printers -> Worker] BY DEF AgentInv, AgentTypeOK
  <1>1. Done(NoWorker) /\ Done(Continue(NoWorker)) /\ Done(NewWorker)
    BY DEF Done, NewWorker, Continue, NoWorker
  <1>2. ASSUME worker' = worker, paper' = paper PROVE Seen(worker[q], worker'[q])
    BY <1>2 DEF Seen, LeftAlone
  <1>3. ASSUME NEW p \in Printers, NEW v, Set(p, v), paper' = paper,
               LeftAlone(worker[p], v) \/ Done(v)
        PROVE  Seen(worker[q], worker'[q])
    BY <1>0, <1>3 DEF Set, Seen, LeftAlone
  <1>4. ASSUME NEW p \in Printers, CancelWorker(p), paper' = paper
        PROVE  Seen(worker[q], worker'[q])
    <2> DEFINE v == [worker[p] EXCEPT !.cancel = (worker[p].pc # "none")]
    <2>1. LeftAlone(worker[p], v) BY <1>0, <1>4 DEF LeftAlone, Worker
    <2>2. Set(p, v) BY <1>4 DEF CancelWorker, Set
    <2> QED BY <1>3, <1>4, <2>1, <2>2
  <1>5. mgr.op # "none" => mgr.printer \in Printers
    BY DEF AgentInv, AgentTypeOK, NoOp
  <1>6. CASE ManagerStep
    <2>1. paper' = paper BY <1>6 DEF ManagerStep, ApplySave, ApplyRestart, RemoveEnd, envVars
    <2>2. CASE ApplySave
      BY <1>2, <1>4, <1>5, <2>1, <2>2 DEF ApplySave
    <2>3. CASE ApplyRestart \/ RemoveEnd
      <3>1. \/ worker' = worker
            \/ mgr.printer \in Printers /\ Set(mgr.printer, NewWorker)
        BY <1>5, <2>3 DEF ApplyRestart, RemoveEnd
      <3> QED BY <1>1, <1>2, <1>3, <2>1, <3>1
    <2> QED BY <1>6, <2>2, <2>3 DEF ManagerStep
  <1>7. CASE Operate
    <2>1. ASSUME NEW p \in Printers, NEW e \in BOOLEAN, ApplyCheck(p, e)
          PROVE  Seen(worker[q], worker'[q])
      BY <1>2, <2>1 DEF ApplyCheck
    <2>2. ASSUME NEW p \in Printers, RemoveCheck(p)
          PROVE  Seen(worker[q], worker'[q])
      BY <1>4, <2>2 DEF RemoveCheck
    <2>3. ASSUME NEW p \in Printers, Reconnect(p)
          PROVE  Seen(worker[q], worker'[q])
      <3> DEFINE v == [worker[p] EXCEPT !.reconnect = TRUE]
      <3>1. Set(p, v) /\ paper' = paper BY <2>3 DEF Reconnect
      <3>2. LeftAlone(worker[p], v) BY <1>0, <3>1 DEF LeftAlone, Worker
      <3> QED BY <1>3, <3>1, <3>2
    <2>4. CASE StopBegin
      <3> DEFINE v == [worker[q] EXCEPT !.cancel = (worker[q].pc # "none")]
      <3>1. worker'[q] = v /\ paper' = paper BY <2>4 DEF StopBegin
      <3>2. LeftAlone(worker[q], v) BY <1>0, <3>1 DEF LeftAlone, Worker
      <3> QED BY <3>1, <3>2 DEF Seen
    <2> QED BY <1>7, <2>1, <2>2, <2>3, <2>4 DEF Operate
  <1>8. CASE Boot \/ Crash
    <2>1. worker'[q] \in {NoWorker, Continue(NoWorker)} BY <1>8 DEF Boot, Crash
    <2> QED BY <1>1, <2>1 DEF Seen
  <1>9. CASE StopEnd \/ SecondStart \/ DbFail \/ DbRecover \/ ServeClient \/ Retention
             \/ UNCHANGED vars
    BY <1>2, <1>9 DEF StopEnd, SecondStart, DbFail, DbRecover, ServeClient, Retention,
       procVars, envVars, vars
  <1> QED BY <1>6, <1>7, <1>8, <1>9

\* The worker calls Write, and takes its answers, as the contract of the transports
\* says, at every point of a crash, a stop, an outage or a second start.
THEOREM WorkersKeepTheContract == Spec => WritesByContract
  <1>1. ASSUME Init PROVE \A p \in Printers : Contract(p)!Init
    <2> SUFFICES ASSUME NEW p \in Printers PROVE Contract(p)!Init OBVIOUS
    <2>1. worker[p].pc = "connect" BY <1>1 DEF Init, Continue, NoWorker
    <2>2. PhaseOf(worker[p]) = "idle" /\ SentOf(worker[p], paper) = FALSE
      BY <2>1 DEF PhaseOf, SentOf
    <2> QED BY <2>2 DEF Contract!Init, PhaseOf, SentOf
  <1>2. ASSUME AgentInv, AgentInv', [Next]_vars
        PROVE  \A p \in Printers : [Contract(p)!Next]_(Contract(p)!contractVars)
    <2> SUFFICES ASSUME NEW q \in Printers
                 PROVE  [Contract(q)!Next]_(Contract(q)!contractVars)
      OBVIOUS
    <2>1. /\ worker[q] \in Worker /\ worker'[q] \in Worker /\ WorkerOK(worker'[q])
      BY <1>2 DEF AgentInv, AgentTypeOK, WorkerOK
    <2>2. Seen(worker[q], worker'[q])
      BY <1>2, WorkerStepSeen, OtherStepSeen DEF Next
    <2> QED BY <2>1, <2>2, SeenIsContractStep
  <1> QED BY <1>1, <1>2, AgentInvariant, PTL DEF Spec, WritesByContract
=============================================================================
