----------------------------- MODULE PrintRuns -----------------------------
(***************************************************************************)
(* The SQLite store of Jobs and Print Runs: the tables of                  *)
(* internal/storage/migrations/0001_init.sql and the transactions of       *)
(* internal/jobs/repository.go.  One action is one transaction.  The       *)
(* database has a single connection and every transaction is IMMEDIATE, so *)
(* transactions are serial; a transaction that returns an error is rolled  *)
(* back and is not a step.                                                 *)
(*                                                                         *)
(* Who calls which transaction, and when, is left open here: an HTTP       *)
(* handler, a worker or the retention loop may issue any of them in any    *)
(* order.  PrintAgent restricts the worker's calls to the ones it makes.   *)
(*                                                                         *)
(* Payloads, content hashes, error texts and byte counts are left out.  A  *)
(* Job is identified by its idempotency key (jobId, template).             *)
(***************************************************************************)
EXTENDS Naturals, FiniteSets

CONSTANTS
    Jobs,                 \* idempotency keys (jobId, template)
    Printers,             \* printer ids
    Requests,             \* reprintRequestIds
    MaxAutomaticRetries,  \* jobs.MaxAutomaticRetries, 3 in the program
    MaxRuns,              \* bound on queue_sequence values ever handed out
    NoRequest             \* NULL in column reprint_request_id

ASSUME StoreAssumption ==
    /\ MaxAutomaticRetries \in Nat
    /\ MaxRuns \in Nat
    /\ NoRequest \notin Requests

VARIABLES
    jobs,       \* rows of table jobs
    targets,    \* targets[j]: the job_printers rows of Job j
    cancelled,  \* cancelled[j]: its targets with cancelled_at set
    expired,    \* Jobs with expires_at in the past
    dedup,      \* rows of request_deduplication, as <<job, request>>
    runs,       \* print_runs rows by queue_sequence, NoRun where there is none
    nextSeq     \* the AUTOINCREMENT counter of queue_sequence

storeVars == <<jobs, targets, cancelled, expired, dedup, runs, nextSeq>>

RunIds == 1..MaxRuns
Statuses == {"queued", "processing", "transmitted", "failed", "uncertain",
             "cancelled"}
Resolutions == {"none", "confirmed_printed", "reprint_requested"}

\* A row of print_runs.  Column previous_run_uid is 0 where SQL has NULL.
PrintRun == [job : Jobs, printer : Printers, status : Statuses,
             trigger : {"initial", "automatic_retry", "manual_reprint"},
             mode : {"normal", "reprint"}, previous : 0..MaxRuns,
             request : Requests \cup {NoRequest}, retryable : BOOLEAN,
             resolution : Resolutions]

NoRun == [status |-> "none"]

\* The printerIds of a request: non-empty and without duplicates.
PrinterLists ==
    {s \in UNION {[1..n -> Printers] : n \in 1..Cardinality(Printers)} :
        \A i, k \in DOMAIN s : s[i] = s[k] => i = k}

-----------------------------------------------------------------------------
(* Queries *)

Live == {r \in RunIds : runs[r].status # "none"}

RunsOf(j, p) == {r \in Live : runs[r].job = j /\ runs[r].printer = p}

Active(r) == runs[r].status \in {"queued", "processing"}

\* Faulty variant: every failed run is retried, whatever its retryable flag.
RetryPendingAnyFailure(r) ==
    runs[r].status = "failed" /\ runs[r].resolution = "none"

\* The predicate of idx_runs_retry_pending.
RetryPending(r) ==
    /\ runs[r].status = "failed"
    /\ runs[r].retryable
    /\ runs[r].resolution = "none"

\* A run after which its printer counts as having the ticket.
Fulfils(r) ==
    \/ runs[r].status = "transmitted"
    \/ runs[r].status = "uncertain" /\ runs[r].resolution = "confirmed_printed"

Fulfilled(j, p) == \E r \in RunsOf(j, p) : Fulfils(r)

\* Faulty variant: a pending retry does not count as work.
HasQueuedRuns(p) == \E r \in Live : runs[r].printer = p /\ Active(r)

HasActiveRuns(p) ==
    \E r \in Live : runs[r].printer = p /\ (Active(r) \/ RetryPending(r))

HasProcessingRun(p) ==
    \E r \in Live : runs[r].printer = p /\ runs[r].status = "processing"

\* The walk along previous_run_uid at the start of materializeRetry.
RetryDepth ==
    LET depth[r \in RunIds] ==
          IF runs[r].status # "none" /\ runs[r].trigger = "automatic_retry"
          THEN 1 + (IF runs[r].previous = 0 THEN 0 ELSE depth[runs[r].previous])
          ELSE 0
    IN depth

-----------------------------------------------------------------------------
(* Building blocks of the transactions *)

NewRun(j, p, trigger, mode, previous, request) ==
    [job |-> j, printer |-> p, status |-> "queued", trigger |-> trigger,
     mode |-> mode, previous |-> previous, request |-> request,
     retryable |-> FALSE, resolution |-> "none"]

\* Every transaction on behalf of a Job moves its expires_at 48 hours ahead.
Touch(j) == expired' = expired \ {j}

\* The table with the rows New(1), ..., New(n) inserted.
InsertRuns(table, n, New(_)) ==
    [r \in RunIds |-> IF r \in nextSeq..(nextSeq + n - 1)
                      THEN New(r - nextSeq + 1) ELSE table[r]]

\* Faulty variant: repeating a transition that was committed is an error.
TransitionOnce(r, from, to, retryable) ==
    /\ r \in Live
    /\ runs[r].status = from
    /\ runs' = [runs EXCEPT ![r].status = to, ![r].retryable = retryable]
    /\ Touch(runs[r].job)
    /\ UNCHANGED <<jobs, targets, cancelled, dedup, nextSeq>>

\* transition(): the UPDATE applies to a run in status from; one that already
\* is in the target status counts as success, so that a commit whose answer was
\* lost can be repeated.  Any other status is ErrStateChanged.
Transition(r, from, to, retryable) ==
    /\ r \in Live
    /\ runs[r].status \in {from, to}
    /\ runs' = IF runs[r].status = from
               THEN [runs EXCEPT ![r].status = to, ![r].retryable = retryable]
               ELSE runs
    /\ Touch(runs[r].job)
    /\ UNCHANGED <<jobs, targets, cancelled, dedup, nextSeq>>

-----------------------------------------------------------------------------
(* Transactions *)

\* Service.Accept and InsertJob.  An identity that is already stored is answered
\* from the existing rows and changes nothing.
Accept(j, ps) ==
    /\ j \notin jobs
    /\ nextSeq + Cardinality(DOMAIN ps) - 1 <= MaxRuns
    /\ jobs' = jobs \cup {j}
    /\ targets' = [targets EXCEPT ![j] = {ps[i] : i \in DOMAIN ps}]
    /\ cancelled' = [cancelled EXCEPT ![j] = {}]
    /\ Touch(j)
    /\ runs' = InsertRuns(runs, Cardinality(DOMAIN ps),
                  LAMBDA i : NewRun(j, ps[i], "initial", "normal", 0, NoRequest))
    /\ nextSeq' = nextSeq + Cardinality(DOMAIN ps)
    /\ UNCHANGED dedup

\* Run r is the one ClaimNextQueued(p) takes: the lowest queued queue_sequence.
IsNextQueued(p, r) ==
    /\ r \in Live /\ runs[r].printer = p /\ runs[r].status = "queued"
    /\ \A s \in Live : runs[s].printer = p /\ runs[s].status = "queued" => r <= s

QueueEmpty(p) ==
    \A r \in Live : ~(runs[r].printer = p /\ runs[r].status = "queued")

ClaimNextQueued(p, r) ==
    /\ IsNextQueued(p, r)
    /\ runs' = [runs EXCEPT ![r].status = "processing"]
    /\ UNCHANGED <<jobs, targets, cancelled, expired, dedup, nextSeq>>

MarkTransmitted(r) == Transition(r, "processing", "transmitted", FALSE)

MarkFailed(r, retryable) == Transition(r, "processing", "failed", retryable)

MarkUncertain(r) == Transition(r, "processing", "uncertain", FALSE)

CancelRun(r) == Transition(r, "queued", "cancelled", FALSE)

\* ConfirmPrinted and ResolveUncertain: the operator says that it printed.
ConfirmPrinted(r) ==
    /\ r \in Live
    /\ runs[r].status = "uncertain" /\ runs[r].resolution = "none"
    /\ runs' = [runs EXCEPT ![r].resolution = "confirmed_printed"]
    /\ Touch(runs[r].job)
    /\ UNCHANGED <<jobs, targets, cancelled, dedup, nextSeq>>

\* Faulty variant: the pending retry of a cancelled target survives.
CancelledRowKeepsRetry(r) ==
    IF runs[r].status = "queued"
    THEN [runs[r] EXCEPT !.status = "cancelled", !.retryable = FALSE]
    ELSE runs[r]

\* A run of a target that is being cancelled: it will not print.
CancelledRow(r) ==
    IF runs[r].status = "queued"
    THEN [runs[r] EXCEPT !.status = "cancelled", !.retryable = FALSE]
    ELSE IF RetryPending(r) THEN [runs[r] EXCEPT !.retryable = FALSE]
    ELSE runs[r]

\* CancelTargets: all the selected printers or none of them.
CancelTargets(j, ps) ==
    /\ j \in jobs
    /\ ps # {} /\ ps \subseteq targets[j]
    /\ \A p \in ps : /\ ~Fulfilled(j, p)
                     /\ \A r \in RunsOf(j, p) : runs[r].status # "processing"
    /\ cancelled' = [cancelled EXCEPT ![j] = @ \cup ps]
    /\ runs' = [r \in RunIds |->
          IF \E p \in ps : r \in RunsOf(j, p) THEN CancelledRow(r) ELSE runs[r]]
    /\ Touch(j)
    /\ UNCHANGED <<jobs, targets, dedup, nextSeq>>

\* Faulty variant: a reprint leaves failed runs as they are.
SupersededUncertain(r, j, ps) ==
    /\ \E i \in DOMAIN ps : r \in RunsOf(j, ps[i])
    /\ runs[r].status = "uncertain" /\ runs[r].resolution = "none"

\* A failed or uncertain run of one of the printers that nobody has dealt with.
Superseded(r, j, ps) ==
    /\ \E i \in DOMAIN ps : r \in RunsOf(j, ps[i])
    /\ runs[r].status \in {"failed", "uncertain"} /\ runs[r].resolution = "none"

\* Faulty variant: a repeated request is not recognised.
ReprintableAgain(j, ps, q) ==
    /\ j \in jobs
    /\ \A i \in DOMAIN ps : /\ ps[i] \in targets[j]
                            /\ \A r \in RunsOf(j, ps[i]) : ~Active(r)

\* The tests under which InsertManualReprints inserts rows.
Reprintable(j, ps, q) ==
    /\ j \in jobs
    /\ <<j, q>> \notin dedup
    /\ \A i \in DOMAIN ps : /\ ps[i] \in targets[j]
                            /\ \A r \in RunsOf(j, ps[i]) : ~Active(r)

\* Service.Reprint and InsertManualReprints.  A request id already recorded for
\* the Job is answered from the existing rows and changes nothing.  The code sorts
\* the printers by id; ids have no order here, so any order may be the sorted one.
Reprint(j, ps, q) ==
    /\ Reprintable(j, ps, q)
    /\ nextSeq + Cardinality(DOMAIN ps) - 1 <= MaxRuns
    /\ dedup' = dedup \cup {<<j, q>>}
    /\ cancelled' = [cancelled EXCEPT ![j] = @ \ {ps[i] : i \in DOMAIN ps}]
    /\ runs' = InsertRuns(
                  [r \in RunIds |->
                      IF Superseded(r, j, ps)
                      THEN [runs[r] EXCEPT !.retryable = FALSE,
                                           !.resolution = "reprint_requested"]
                      ELSE runs[r]],
                  Cardinality(DOMAIN ps),
                  LAMBDA i : NewRun(j, ps[i], "manual_reprint", "reprint", 0, q))
    /\ nextSeq' = nextSeq + Cardinality(DOMAIN ps)
    /\ Touch(j)
    /\ UNCHANGED <<jobs, targets>>

\* Faulty variant: off by one.
RetryExhaustedLate(r) == RetryDepth[r] > MaxAutomaticRetries

\* The tests of materializeRetry, in the order the code makes them.
RetryExhausted(r) == RetryDepth[r] >= MaxAutomaticRetries

RetryBlocked(r) ==
    \/ \E s \in RunsOf(runs[r].job, runs[r].printer) : Active(s)
    \/ runs[r].printer \in cancelled[runs[r].job]

\* materializeRetry gives up on a chain that has used its retries.
ExhaustRetry(r) ==
    /\ r \in Live /\ RetryPending(r) /\ RetryExhausted(r)
    /\ runs' = [runs EXCEPT ![r].retryable = FALSE]
    /\ UNCHANGED <<jobs, targets, cancelled, expired, dedup, nextSeq>>

\* Faulty variant: the retry of a reprint loses its mark.
RetryUnmarked(r) ==
    NewRun(runs[r].job, runs[r].printer, "automatic_retry", "normal", r, NoRequest)

\* The child run of r.
RetryOf(r) ==
    NewRun(runs[r].job, runs[r].printer, "automatic_retry", runs[r].mode, r, NoRequest)

\* materializeRetry inserts the child run: queued, or failed at once when the
\* accepted content can no longer be rendered.
MaterializeRetry(r, renders) ==
    /\ r \in Live /\ RetryPending(r) /\ ~RetryExhausted(r) /\ ~RetryBlocked(r)
    /\ nextSeq <= MaxRuns
    /\ runs' = [runs EXCEPT
          ![r].retryable = FALSE,
          ![nextSeq] = IF renders THEN RetryOf(r)
                       ELSE [RetryOf(r) EXCEPT !.status = "failed"]]
    /\ nextSeq' = nextSeq + 1
    /\ UNCHANGED <<jobs, targets, cancelled, expired, dedup>>

\* Faulty variant: an abandoned run is retried.
RecoverAsFailed ==
    /\ runs' = [r \in RunIds |->
          IF runs[r].status = "processing"
          THEN [runs[r] EXCEPT !.status = "failed", !.retryable = TRUE]
          ELSE runs[r]]
    /\ UNCHANGED <<jobs, targets, cancelled, expired, dedup, nextSeq>>

\* Startup: runs left in processing may or may not have printed.
RecoverAbandoned ==
    /\ runs' = [r \in RunIds |->
          IF runs[r].status = "processing"
          THEN [runs[r] EXCEPT !.status = "uncertain", !.retryable = FALSE]
          ELSE runs[r]]
    /\ UNCHANGED <<jobs, targets, cancelled, expired, dedup, nextSeq>>

\* 48 hours pass without a transaction on Job j.
Expire(j) ==
    /\ j \in jobs \ expired
    /\ expired' = expired \cup {j}
    /\ UNCHANGED <<jobs, targets, cancelled, dedup, runs, nextSeq>>

\* The retention condition of PurgeExpired: no work that is still open.
Purgeable(j) ==
    \A r \in Live : runs[r].job = j =>
        /\ ~Active(r)
        /\ \/ runs[r].status \notin {"failed", "uncertain"}
           \/ runs[r].resolution # "none"
           \/ runs[r].printer \in cancelled[j]

\* Faulty variant: the foreign keys of the schema are not enforced.
PurgeWithoutCascade ==
    LET gone == {j \in jobs \cap expired : Purgeable(j)}
    IN  /\ gone # {}
        /\ jobs' = jobs \ gone
        /\ expired' = expired \ gone
        /\ UNCHANGED <<targets, cancelled, dedup, runs, nextSeq>>

\* PurgeExpired: the deletion cascades to targets, runs and deduplication rows.
PurgeExpired ==
    LET gone == {j \in jobs \cap expired : Purgeable(j)}
    IN  /\ gone # {}
        /\ jobs' = jobs \ gone
        /\ targets' = [j \in Jobs |-> IF j \in gone THEN {} ELSE targets[j]]
        /\ cancelled' = [j \in Jobs |-> IF j \in gone THEN {} ELSE cancelled[j]]
        /\ expired' = expired \ gone
        /\ dedup' = {d \in dedup : d[1] \notin gone}
        /\ runs' = [r \in RunIds |->
              IF r \in Live /\ runs[r].job \in gone THEN NoRun ELSE runs[r]]
        /\ UNCHANGED nextSeq

-----------------------------------------------------------------------------

StoreInit ==
    /\ jobs = {}
    /\ targets = [j \in Jobs |-> {}]
    /\ cancelled = [j \in Jobs |-> {}]
    /\ expired = {}
    /\ dedup = {}
    /\ runs = [r \in RunIds |-> NoRun]
    /\ nextSeq = 1

\* What a client of the API, an operator and the clock may do.
ClientNext ==
    \/ \E j \in Jobs, ps \in PrinterLists : Accept(j, ps)
    \/ \E j \in Jobs, ps \in PrinterLists, q \in Requests : Reprint(j, ps, q)
    \/ \E j \in Jobs, ps \in SUBSET Printers : CancelTargets(j, ps)
    \/ \E r \in RunIds : CancelRun(r)
    \/ \E r \in RunIds : ConfirmPrinted(r)

RetentionNext ==
    \/ \E j \in Jobs : Expire(j)
    \/ PurgeExpired

WorkerNext ==
    \/ \E p \in Printers, r \in RunIds : ClaimNextQueued(p, r)
    \/ \E r \in RunIds : MarkTransmitted(r)
    \/ \E r \in RunIds, retryable \in BOOLEAN : MarkFailed(r, retryable)
    \/ \E r \in RunIds : MarkUncertain(r)
    \/ \E r \in RunIds : ExhaustRetry(r)
    \/ \E r \in RunIds, renders \in BOOLEAN : MaterializeRetry(r, renders)
    \/ RecoverAbandoned

StoreNext == ClientNext \/ RetentionNext \/ WorkerNext

StoreSpec == StoreInit /\ [][StoreNext]_storeVars
-----------------------------------------------------------------------------
(* Properties *)

\* The rows have the types of the schema, CHECK constraints included: only a
\* failed run is retryable, only a failed or uncertain one has a resolution.
StoreTypeOK ==
    /\ jobs \subseteq Jobs
    /\ targets \in [Jobs -> SUBSET Printers]
    /\ cancelled \in [Jobs -> SUBSET Printers]
    /\ expired \subseteq Jobs
    /\ dedup \subseteq Jobs \X Requests
    /\ runs \in [RunIds -> PrintRun \cup {NoRun}]
    /\ nextSeq \in 1..(MaxRuns + 1)
    /\ \A r \in Live :
          /\ runs[r].retryable => runs[r].status = "failed"
          /\ runs[r].resolution # "none" => runs[r].status \in {"failed", "uncertain"}

\* Work somebody still has to do: the worker, or for an uncertain run the
\* operator.
Open(r) ==
    \/ Active(r)
    \/ RetryPending(r)
    \/ runs[r].status = "uncertain" /\ runs[r].resolution = "none"

SameTarget(r, s) ==
    runs[r].job = runs[s].job /\ runs[r].printer = runs[s].printer

\* Per Job and printer only the latest run is open.  So the unique index
\* idx_runs_one_active never has to refuse a row, the tests for an active run
\* and for a cancelled target in materializeRetry never skip a candidate, and
\* nothing is queued, by a retry or by a reprint, while an earlier run of the
\* target still waits for its worker, its retry or its operator.
OpenRunIsLatest ==
    \A r, s \in Live : SameTarget(r, s) /\ r < s => ~Open(r)

\* A target the operator cancelled has nothing left that would print: no run
\* queued or processing and no retry that a reconnect would create.
CancelledTargetIsQuiet ==
    \A r \in Live : runs[r].printer \in cancelled[runs[r].job] =>
        ~Active(r) /\ ~RetryPending(r)

\* Of the runs that print the ticket without the REPRINT mark, all but the
\* latest one of a target failed: neither automatic retries nor repeated
\* submissions lead to a second unmarked copy.
OneUnmarkedCopy ==
    \A r, s \in Live :
        /\ SameTarget(r, s) /\ r < s
        /\ runs[r].mode = "normal" /\ runs[s].mode = "normal"
        => runs[r].status = "failed" /\ ~runs[r].retryable

\* An automatic retry continues a run of the same target and content mode that
\* failed and will not be retried again, and no run has two retries
\* (idx_runs_one_retry_child never has to refuse a row).
RetryFollowsFailure ==
    \A s \in Live : runs[s].trigger = "automatic_retry" =>
        /\ runs[s].previous \in Live /\ runs[s].previous < s
        /\ LET r == runs[s].previous
           IN  /\ SameTarget(r, s) /\ runs[r].mode = runs[s].mode
               /\ runs[r].status = "failed" /\ ~runs[r].retryable
        /\ \A t \in Live : runs[t].trigger = "automatic_retry"
                              /\ runs[t].previous = runs[s].previous => t = s

\* A chain has at most MaxAutomaticRetries automatic retries, whatever reprints
\* and chains precede it on the target.
RetriesBounded == \A r \in Live : RetryDepth[r] <= MaxAutomaticRetries

\* A reprint request, however often it is sent, prints at most one ticket per
\* printer (idx_runs_reprint_request_printer never has to refuse a row).
ReprintOnce ==
    \A r, s \in Live :
        /\ SameTarget(r, s)
        /\ runs[r].trigger = "manual_reprint" /\ runs[s].trigger = "manual_reprint"
        /\ runs[r].request = runs[s].request
        => r = s

\* A row belongs to a stored Job and one of its targets, and its number has been
\* handed out: the cascades of PurgeExpired leave nothing behind and
\* AUTOINCREMENT never reuses a number.
RowsAreOwned ==
    \A r \in Live : /\ r < nextSeq
                    /\ runs[r].job \in jobs
                    /\ runs[r].printer \in targets[runs[r].job]

\* While a reprint is stored, so is the request id that created it.
ReprintIsRecorded ==
    \A r \in Live : runs[r].trigger = "manual_reprint" =>
        <<runs[r].job, runs[r].request>> \in dedup

\* The inductive invariant of the store.  None of its parts is preserved by
\* every transaction without the others.
StoreInv ==
    /\ StoreTypeOK
    /\ RowsAreOwned
    /\ OpenRunIsLatest
    /\ CancelledTargetIsQuiet
    /\ OneUnmarkedCopy
    /\ RetryFollowsFailure
    /\ ReprintIsRecorded
    /\ ReprintOnce
=============================================================================
