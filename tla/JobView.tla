------------------------------ MODULE JobView ------------------------------
(***************************************************************************)
(* What the API says about a Job: DeriveJob of internal/jobs/models.go     *)
(* computes its state from the rows, ListJobDetails of repository.go finds *)
(* the Jobs that require attention with an SQL predicate, and PurgeExpired *)
(* decides with another one when a Job may be forgotten.  The three are    *)
(* written independently of each other; this module relates them.          *)
(***************************************************************************)
EXTENDS PrintRuns

\* Faulty variant: only the latest run of a target counts.
UnfulfilledByLatest(j) ==
    {p \in targets[j] : \E r \in RunsOf(j, p) :
        ~Fulfils(r) /\ \A s \in RunsOf(j, p) : s <= r}

Unfulfilled(j) == {p \in targets[j] : ~Fulfilled(j, p)}

\* Faulty variant: a failure calls the operator even though it will be retried.
NeedsOperatorOrRetry(r) ==
    runs[r].status \in {"failed", "uncertain"} /\ runs[r].resolution = "none"

\* Unresolved and not going to be retried by the agent.
NeedsOperator(r) ==
    /\ runs[r].status \in {"failed", "uncertain"}
    /\ runs[r].resolution = "none"
    /\ ~runs[r].retryable

AnyUnfulfilledProcessing(j) ==
    \E p \in Unfulfilled(j) : \E r \in RunsOf(j, p) : runs[r].status = "processing"

AnyUnfulfilledQueued(j) ==
    \E p \in Unfulfilled(j) : \E r \in RunsOf(j, p) :
        runs[r].status = "queued" \/ RetryPending(r)

AnyUnfulfilledAttention(j) ==
    \E p \in Unfulfilled(j) \ cancelled[j] : \E r \in RunsOf(j, p) : NeedsOperator(r)

ManualReprintRequiresAttention(j) ==
    \E p \in targets[j] : \E r \in RunsOf(j, p) :
        runs[r].mode = "reprint" /\ NeedsOperator(r)

AllUnfulfilledCancelled(j) == Unfulfilled(j) \subseteq cancelled[j]

\* The switch at the end of DeriveJob.
State(j) ==
    IF targets[j] # {} /\ Unfulfilled(j) = {} THEN "completed"
    ELSE IF AnyUnfulfilledProcessing(j) THEN "printing"
    ELSE IF AnyUnfulfilledQueued(j) THEN "queued"
    ELSE IF AnyUnfulfilledAttention(j) THEN "attention_required"
    ELSE IF AllUnfulfilledCancelled(j)
         THEN IF Unfulfilled(j) # targets[j] THEN "partially_completed" ELSE "cancelled"
    ELSE "attention_required"

\* The default branch of the switch sets the flag as well.
RequiresAttention(j) ==
    \/ AnyUnfulfilledAttention(j)
    \/ ManualReprintRequiresAttention(j)
    \/ State(j) = "attention_required"

\* The predicate of ListJobDetails for attention=true.
AttentionFilter(j) ==
    \E r \in Live :
        /\ runs[r].job = j
        /\ runs[r].resolution = "none"
        /\ \/ runs[r].status = "uncertain"
           \/ runs[r].status = "failed" /\ ~runs[r].retryable
        /\ \/ runs[r].mode = "reprint"
           \/ /\ ~Fulfilled(j, runs[r].printer)
              /\ runs[r].printer \notin cancelled[j]

-----------------------------------------------------------------------------
(* Properties *)

\* The SQL filter of the Job list and the flag that DeriveJob computes agree,
\* except for a target whose last queued run was cancelled by itself: there the
\* switch falls through to its default branch and no run is failed or uncertain.
AttentionFilterAgrees ==
    \A j \in jobs :
        /\ AttentionFilter(j) => RequiresAttention(j)
        /\ RequiresAttention(j) /\ ~AttentionFilter(j) =>
              \E p \in Unfulfilled(j) \ cancelled[j] :
                  \E r \in RunsOf(j, p) : runs[r].status = "cancelled"

\* A Job reported as completed stays completed for as long as it is stored:
\* no cancellation, reprint, failed reprint or restart takes that back.
CompletedStays ==
    [][\A j \in jobs \cap jobs' : State(j) = "completed" => State(j)' = "completed"]_storeVars

\* README.md:129 and :193: the data of a Job that is completed, with nothing
\* printing, queued or waiting for an operator, is dropped after 48 hours.
CompletedIsPurgeable ==
    \A j \in jobs :
        /\ State(j) = "completed" /\ ~RequiresAttention(j)
        /\ \A r \in Live : runs[r].job = j => ~Active(r) /\ ~RetryPending(r)
        => Purgeable(j)
=============================================================================
