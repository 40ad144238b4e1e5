--------------------------- MODULE JobViewProofs ---------------------------
(***************************************************************************)
(* What the API says about a Job, for every store the transactions of      *)
(* PrintRuns can produce.  The view is computed from the rows, so both     *)
(* theorems rest on the invariant of the store and on how its rows evolve. *)
(***************************************************************************)
EXTENDS JobView, PrintRunsProofs

\* The switch of DeriveJob reports "completed" in its first branch only.
LEMMA CompletedState ==
    ASSUME NEW j
    PROVE  State(j) = "completed" <=> targets[j] # {} /\ Unfulfilled(j) = {}
  BY DEF State

\* A target that has the ticket keeps it while its Job is stored.
LEMMA FulfilledStays ==
    ASSUME StoreInv, RowsEvolve, NEW j \in jobs \cap jobs', NEW p, Fulfilled(j, p)
    PROVE  Fulfilled(j, p)'
  <1>1. PICK r \in RunsOf(j, p) : Fulfils(r) BY DEF Fulfilled
  <1>2. r \in Live /\ r \in RunIds /\ runs[r].job = j /\ runs[r].printer = p
    BY <1>1 DEF RunsOf, Live
  <1>3. r < nextSeq /\ nextSeq \in Nat /\ r \in Nat
    BY <1>2, StoreAssumption DEF StoreInv, RowsAreOwned, StoreTypeOK, RunIds
  <1>4. r \in Live' BY <1>2, RowsAfter DEF StoreInv
  <1>5. Kept(r)
    BY <1>3, <1>4, RowsAfter DEF StoreInv, Inserted
  <1>6. FulfilsRow(runs'[r]) /\ runs'[r].job = j /\ runs'[r].printer = p
    BY <1>1, <1>2, <1>5 DEF Kept, Evolved, SameRowTarget, FulfilsRow, Fulfils
  <1> QED BY <1>4, <1>6 DEF Fulfilled, RunsOf, Fulfils, FulfilsRow

\* A transaction does not take the state "completed" back.
LEMMA CompletedStep ==
    ASSUME StoreInv, [StoreNext]_storeVars, NEW j \in jobs \cap jobs',
           State(j) = "completed"
    PROVE  State(j)' = "completed"
  <1>1. RowsEvolve BY NextEvolves
  <1>2. targets'[j] = targets[j] BY <1>1 DEF RowsEvolve
  <1>3. targets[j] # {} /\ Unfulfilled(j) = {} BY CompletedState
  <1>4. \A p \in targets[j] : Fulfilled(j, p)' BY <1>1, <1>3, FulfilledStays DEF Unfulfilled
  <1>5. targets'[j] # {} /\ Unfulfilled(j)' = {} BY <1>2, <1>3, <1>4 DEF Unfulfilled
  <1> QED BY <1>5 DEF State

\* A Job reported as completed stays completed for as long as it is stored,
\* through every cancellation, reprint, failed reprint and restart.
THEOREM CompletedJobsStayCompleted == StoreSpec => CompletedStays
  <1>1. StoreInv /\ [StoreNext]_storeVars =>
          [\A j \in jobs \cap jobs' :
              State(j) = "completed" => State(j)' = "completed"]_storeVars
    BY CompletedStep
  <1> QED BY <1>1, StoreInvariant, PTL DEF StoreSpec, CompletedStays

-----------------------------------------------------------------------------
(* The flag of DeriveJob and the filter of ListJobDetails disagree only where *)
(* the switch falls through to its default branch.  That branch needs a       *)
(* target none of whose runs is open or waiting for an operator.  ViewInv     *)
(* says enough about the latest run of such a target: there is one, and it    *)
(* was not resolved by a reprint, because the reprint would be a later run.   *)

\* Only an uncertain run is confirmed as printed.
OnlyUncertainConfirmed ==
    \A r \in Live : runs[r].resolution = "confirmed_printed" =>
        runs[r].status = "uncertain"

\* Every target has a latest run, and no reprint has superseded that one.
LatestRunStands ==
    \A j \in jobs : \A p \in targets[j] : \E r \in RunsOf(j, p) :
        /\ \A s \in RunsOf(j, p) : s <= r
        /\ runs[r].resolution # "reprint_requested"

ViewInv == OnlyUncertainConfirmed /\ LatestRunStands

\* How a transaction resolves rows: a row keeps its resolution, is confirmed, or
\* is superseded by a row inserted for its target; a target gets at most one new
\* row, unresolved, and one if its Job is new.
Resolves ==
    /\ \A r \in RunIds : Kept(r) =>
          \/ runs'[r].resolution = runs[r].resolution
          \/ runs'[r].resolution = "confirmed_printed" /\ runs'[r].status = "uncertain"
          \/ /\ runs'[r].resolution = "reprint_requested"
             /\ \E s \in RunIds : Inserted(s) /\ SameRowTarget(runs'[s], runs[r])
    /\ \A r \in RunIds : Inserted(r) => runs'[r].resolution = "none"
    /\ \A r, s \in RunIds :
          Inserted(r) /\ Inserted(s) /\ SameRowTarget(runs'[r], runs'[s]) => r = s
    /\ \A j \in jobs' \ jobs : \A p \in targets'[j] :
          \E s \in RunIds : Inserted(s) /\ runs'[s].job = j /\ runs'[s].printer = p

\* A step that resolves rows in this way preserves ViewInv.
LEMMA ViewStep ==
    ASSUME StoreInv, RowsEvolve, Resolves, ViewInv
    PROVE  ViewInv'
  <1>1. /\ \A r \in Live' : r \in RunIds /\ RowOK(runs'[r]) /\ (Kept(r) \/ Inserted(r))
        /\ \A r \in Live : runs[r].job \in jobs' => r \in Live'
    BY RowsAfter DEF StoreInv
  <1>2. nextSeq \in Nat /\ \A r \in Live : r \in RunIds /\ r < nextSeq
    BY StoreAssumption DEF StoreInv, StoreTypeOK, RowsAreOwned, Live
  <1>3. \A s \in RunIds : Inserted(s) => s \in Live' /\ s >= nextSeq
    BY <1>2 DEF Inserted, Fresh, RowOK, PrintRun, Statuses, Live, RunIds
  <1>4. OnlyUncertainConfirmed'
    <2> SUFFICES ASSUME NEW r \in Live', runs'[r].resolution = "confirmed_printed"
                 PROVE  runs'[r].status = "uncertain"
      BY DEF OnlyUncertainConfirmed
    <2>1. r \in RunIds /\ RowOK(runs'[r]) BY <1>1
    <2>2. Kept(r) BY <1>1, <2>1 DEF Resolves
    <2>3. CASE runs'[r].resolution = runs[r].resolution
      <3>1. FulfilsRow(runs[r])
        BY <2>2, <2>3 DEF Kept, ViewInv, OnlyUncertainConfirmed, FulfilsRow
      <3>2. FulfilsRow(runs'[r]) BY <2>2, <3>1 DEF Kept, Evolved
      <3> QED BY <2>1, <3>2 DEF FulfilsRow, RowOK
    <2> QED BY <2>1, <2>2, <2>3 DEF Resolves
  <1>5. LatestRunStands'
    <2> SUFFICES ASSUME NEW j \in jobs', NEW p \in targets'[j]
                 PROVE  \E r \in RunsOf(j, p)' :
                           /\ \A s \in RunsOf(j, p)' : s <= r
                           /\ runs'[r].resolution # "reprint_requested"
      BY DEF LatestRunStands
    <2>1. CASE \E s \in RunIds : Inserted(s) /\ runs'[s].job = j /\ runs'[s].printer = p
      <3>1. PICK s \in RunIds : Inserted(s) /\ runs'[s].job = j /\ runs'[s].printer = p
        BY <2>1
      <3>2. s \in RunsOf(j, p)' BY <1>3, <3>1 DEF RunsOf
      <3>3. ASSUME NEW t \in RunsOf(j, p)' PROVE t <= s
        <4>1. t \in Live' /\ t \in RunIds BY <1>1 DEF RunsOf
        <4>2. CASE Inserted(t)
          <5>1. t = s BY <3>1, <4>1, <4>2 DEF Resolves, RunsOf, SameRowTarget
          <5> QED BY <5>1 DEF RunIds
        <4>3. CASE Kept(t)
          <5>1. t < nextSeq /\ s >= nextSeq BY <1>2, <1>3, <3>1, <4>3 DEF Kept
          <5> QED BY <5>1, <1>2, <4>1 DEF RunIds
        <4> QED BY <1>1, <4>1, <4>2, <4>3
      <3>4. runs'[s].resolution = "none" BY <3>1 DEF Resolves
      <3> QED BY <3>2, <3>3, <3>4
    <2>2. CASE ~ \E s \in RunIds :
                    Inserted(s) /\ runs'[s].job = j /\ runs'[s].printer = p
      <3>1. j \in jobs BY <2>2 DEF Resolves
      <3>2. p \in targets[j] BY <3>1 DEF RowsEvolve
      <3>3. PICK r \in RunsOf(j, p) : /\ \A s \in RunsOf(j, p) : s <= r
                                      /\ runs[r].resolution # "reprint_requested"
        BY <3>1, <3>2 DEF ViewInv, LatestRunStands
      <3>4. r \in Live /\ runs[r].job = j /\ runs[r].printer = p BY <3>3 DEF RunsOf
      <3>5. r \in Live' /\ Kept(r)
        BY <1>1, <1>2, <1>3, <3>4 DEF RunIds, Inserted
      <3>6. runs'[r].job = j /\ runs'[r].printer = p
        BY <3>4, <3>5 DEF Kept, Evolved, SameRowTarget
      <3>7. runs'[r].resolution # "reprint_requested"
        BY <1>2, <2>2, <3>3, <3>4, <3>5 DEF Resolves, SameRowTarget
      <3>8. ASSUME NEW t \in RunsOf(j, p)' PROVE t <= r
        <4>1. t \in Live' /\ runs'[t].job = j /\ runs'[t].printer = p BY DEF RunsOf
        <4>2. Kept(t) BY <1>1, <2>2, <4>1
        <4>3. t \in RunsOf(j, p) BY <4>1, <4>2 DEF Kept, Evolved, SameRowTarget, RunsOf
        <4> QED BY <3>3, <4>3
      <3> QED BY <3>5, <3>6, <3>7, <3>8 DEF RunsOf
    <2> QED BY <2>1, <2>2
  <1> QED BY <1>4, <1>5 DEF ViewInv

\* A transaction that inserts nothing and resolves rows only by confirming them.
LEMMA NothingInserted ==
    ASSUME StoreInv, nextSeq' = nextSeq, jobs' \subseteq jobs,
           \A r \in Live : runs'[r] # NoRun =>
               \/ runs'[r].resolution = runs[r].resolution
               \/ runs'[r].resolution = "confirmed_printed" /\ runs'[r].status = "uncertain"
    PROVE  Resolves
  <1>1. nextSeq \in Nat BY StoreAssumption DEF StoreInv, StoreTypeOK
  <1>2. \A r \in RunIds : ~Inserted(r) BY <1>1 DEF Inserted, RunIds
  <1>3. \A r \in RunIds : Kept(r) => r \in Live /\ runs'[r] # NoRun
    BY DEF Kept, Evolved, RowOK, PrintRun, NoRun, Statuses
  <1> QED BY <1>2, <1>3 DEF Resolves

\* Every transaction resolves rows in this way.
LEMMA NextResolves ==
    ASSUME StoreInv, [StoreNext]_storeVars
    PROVE  Resolves
  <1>1. \A r \in Live : r \in RunIds /\ runs[r] \in PrintRun
    BY RowTypes DEF StoreInv, RowOK
  <1>2. runs = [r \in RunIds |-> runs[r]] BY DEF StoreInv, StoreTypeOK
  <1>3. RowsEvolve BY NextEvolves
  <1>5. /\ nextSeq \in Nat /\ nextSeq >= 1
        /\ \A r \in Live : r \in RunIds /\ r < nextSeq /\ r \notin nextSeq..(nextSeq' - 1)
        /\ \A r \in RunIds : r \in nextSeq..(nextSeq' - 1) =>
              Inserted(r) \/ runs'[r] = NoRun
        /\ NoRun.status = "none"
    <2>1. nextSeq \in Nat /\ nextSeq >= 1 BY StoreAssumption DEF StoreInv, StoreTypeOK
    <2>2. \A r \in Live : r \in RunIds /\ r < nextSeq
      BY DEF StoreInv, RowsAreOwned, Live
    <2>3. \A r \in Live : r \notin nextSeq..(nextSeq' - 1) BY <2>1, <2>2 DEF RunIds
    <2>4. \A r \in RunIds : r \in nextSeq..(nextSeq' - 1) => Inserted(r) \/ runs'[r] = NoRun
      BY <1>3, <2>3 DEF RowsEvolve, Kept, Dropped, StillUnused
    <2> QED BY <2>1, <2>2, <2>3, <2>4 DEF NoRun
  <1>4. ASSUME NEW j \in Jobs, NEW ps \in PrinterLists, Accept(j, ps)
        PROVE  Resolves
    <2>1. /\ \A s \in RunIds : s \notin nextSeq..(nextSeq' - 1) => runs'[s] = runs[s]
          /\ \A s \in RunIds : s \in nextSeq..(nextSeq' - 1) =>
                /\ runs'[s].status = "queued"
                /\ runs'[s].job = j /\ runs'[s].resolution = "none"
          /\ \A i \in DOMAIN ps : \E s \in RunIds :
                s \in nextSeq..(nextSeq' - 1) /\ runs'[s].printer = ps[i]
          /\ \A s, t \in RunIds :
                /\ s \in nextSeq..(nextSeq' - 1) /\ t \in nextSeq..(nextSeq' - 1)
                /\ runs'[s].printer = runs'[t].printer
                => s = t
      BY <1>4, AcceptRows DEF StoreInv
    <2>2. \A s \in RunIds : s \in nextSeq..(nextSeq' - 1) <=> Inserted(s)
      BY <1>5, <2>1 DEF Inserted
    <2>3. \A s \in RunIds : Kept(s) => runs'[s] = runs[s]
      BY <1>5, <2>1 DEF Kept
    <2>4. jobs' = jobs \cup {j} /\ targets'[j] = {ps[i] : i \in DOMAIN ps}
      BY <1>4 DEF Accept, StoreInv, StoreTypeOK
    <2>5. \A p \in targets'[j] :
             \E s \in RunIds : Inserted(s) /\ runs'[s].job = j /\ runs'[s].printer = p
      BY <2>1, <2>2, <2>4
    <2> QED BY <2>1, <2>2, <2>3, <2>4, <2>5 DEF Resolves, SameRowTarget
  <1>6. ASSUME NEW j \in Jobs, NEW ps \in PrinterLists, NEW q \in Requests,
               Reprint(j, ps, q)
        PROVE  Resolves
    <2>1. /\ \A s \in RunIds : s \notin nextSeq..(nextSeq' - 1) =>
                runs'[s] = ResolvedRow(s, j, ps)
          /\ \A s \in RunIds : s \in nextSeq..(nextSeq' - 1) =>
                /\ runs'[s].status = "queued"
                /\ runs'[s].job = j /\ runs'[s].resolution = "none"
          /\ \A i \in DOMAIN ps : \E s \in RunIds :
                s \in nextSeq..(nextSeq' - 1) /\ runs'[s].printer = ps[i]
          /\ \A s, t \in RunIds :
                /\ s \in nextSeq..(nextSeq' - 1) /\ t \in nextSeq..(nextSeq' - 1)
                /\ runs'[s].printer = runs'[t].printer
                => s = t
      BY <1>6, ReprintRows DEF StoreInv
    <2>2. \A s \in RunIds : s \in nextSeq..(nextSeq' - 1) <=> Inserted(s)
      BY <1>5, <2>1 DEF Inserted
    <2>3. jobs' = jobs BY <1>6 DEF Reprint
    <2>4. ASSUME NEW r \in RunIds, Kept(r)
          PROVE  \/ runs'[r].resolution = runs[r].resolution
                 \/ /\ runs'[r].resolution = "reprint_requested"
                    /\ \E s \in RunIds : Inserted(s) /\ SameRowTarget(runs'[s], runs[r])
      <3>1. r \notin nextSeq..(nextSeq' - 1) /\ r \in Live BY <1>5, <2>4 DEF Kept
      <3>2. CASE Superseded(r, j, ps)
        <4>1. PICK i \in DOMAIN ps : r \in RunsOf(j, ps[i]) BY <3>2 DEF Superseded
        <4>2. PICK s \in RunIds : Inserted(s) /\ runs'[s].printer = ps[i]
          BY <2>1, <2>2
        <4>3. SameRowTarget(runs'[s], runs[r])
          BY <2>1, <2>2, <4>1, <4>2 DEF RunsOf, SameRowTarget
        <4>4. runs'[r].resolution = "reprint_requested"
          BY <1>1, <2>1, <3>1, <3>2 DEF PrintRun, ResolvedRow
        <4> QED BY <4>2, <4>3, <4>4
      <3> QED BY <2>1, <3>1, <3>2 DEF ResolvedRow
    <2> QED BY <2>1, <2>2, <2>3, <2>4 DEF Resolves, SameRowTarget
  <1>7. ASSUME NEW r \in RunIds, NEW renders \in BOOLEAN, MaterializeRetry(r, renders)
        PROVE  Resolves
    <2> DEFINE child == IF renders THEN RetryOf(r) ELSE [RetryOf(r) EXCEPT !.status = "failed"]
    <2>1. /\ r \in Live /\ nextSeq \in RunIds /\ nextSeq # r
          /\ jobs' = jobs /\ nextSeq' = nextSeq + 1
          /\ runs' = [runs EXCEPT ![r].retryable = FALSE, ![nextSeq] = child]
      BY <1>5, <1>7 DEF MaterializeRetry, RunIds
    <2>2. child.resolution = "none" BY DEF RetryOf, NewRun
    <2> HIDE DEF child
    <2>3. runs'[nextSeq] = child BY <2>1, <1>2
    <2>4. \A s \in RunIds : Inserted(s) => s = nextSeq
      BY <2>1, <1>5 DEF Inserted, RunIds
    <2>5. \A s \in Live : runs'[s].resolution = runs[s].resolution
      <3>1. \A s \in Live : s # r => runs'[s] = runs[s] BY <1>1, <1>2, <1>5, <2>1
      <3>2. runs'[r] = [runs[r] EXCEPT !.retryable = FALSE] BY <1>2, <2>1
      <3>3. runs'[r].resolution = runs[r].resolution BY <1>1, <2>1, <3>2 DEF PrintRun
      <3> QED BY <3>1, <3>3
    <2> QED BY <2>1, <2>2, <2>3, <2>4, <2>5 DEF Resolves, Kept
  <1>8. ASSUME NEW r \in RunIds, NEW from, NEW to, NEW retryable, Transition(r, from, to, retryable)
        PROVE  Resolves
    <2>1. nextSeq' = nextSeq /\ jobs' = jobs BY <1>8 DEF Transition
    <2>2. \A s \in Live : runs'[s] = runs[s] \/
             runs'[s] = [[runs[s] EXCEPT !.status = to] EXCEPT !.retryable = retryable]
      BY <1>1, <1>2, <1>8 DEF Transition
    <2>3. \A s \in Live : runs'[s].resolution = runs[s].resolution
      BY <1>1, <2>2 DEF PrintRun
    <2> QED BY <2>1, <2>3, NothingInserted
  <1>9. ASSUME NEW r \in RunIds, ConfirmPrinted(r)
        PROVE  Resolves
    <2>1. nextSeq' = nextSeq /\ jobs' = jobs BY <1>9 DEF ConfirmPrinted
    <2>2. \A s \in Live : s # r => runs'[s] = runs[s]
      BY <1>1, <1>2, <1>9 DEF ConfirmPrinted
    <2>3. /\ r \in Live /\ runs[r].status = "uncertain"
          /\ runs'[r] = [runs[r] EXCEPT !.resolution = "confirmed_printed"]
      BY <1>2, <1>9 DEF ConfirmPrinted
    <2>4. runs'[r].resolution = "confirmed_printed" /\ runs'[r].status = "uncertain"
      BY <1>1, <2>3 DEF PrintRun
    <2> QED BY <2>1, <2>2, <2>4, NothingInserted
  <1>10. ASSUME NEW j \in Jobs, NEW ps \in SUBSET Printers, CancelTargets(j, ps)
         PROVE  Resolves
    <2>1. nextSeq' = nextSeq /\ jobs' = jobs BY <1>10 DEF CancelTargets
    <2>2. \A s \in Live : runs'[s] = runs[s] \/ runs'[s] = CancelledRow(s)
      BY <1>1, <1>10 DEF CancelTargets
    <2>3. \A s \in Live : CancelledRow(s).resolution = runs[s].resolution
      BY <1>1 DEF PrintRun, CancelledRow
    <2> QED BY <2>1, <2>2, <2>3, NothingInserted
  <1>11. CASE PurgeExpired
    <2>1. nextSeq' = nextSeq /\ jobs' \subseteq jobs BY <1>11 DEF PurgeExpired
    <2>2. \A s \in Live : runs'[s] = runs[s] \/ runs'[s] = NoRun
      BY <1>1, <1>11 DEF PurgeExpired
    <2> QED BY <2>1, <2>2, NothingInserted
  <1>12. ASSUME NEW p \in Printers, NEW r \in RunIds, ClaimNextQueued(p, r)
         PROVE  Resolves
    <2>1. nextSeq' = nextSeq /\ jobs' = jobs BY <1>12 DEF ClaimNextQueued
    <2>2. \A s \in Live : runs'[s] = runs[s] \/
             runs'[s] = [runs[s] EXCEPT !.status = "processing"]
      BY <1>1, <1>2, <1>12 DEF ClaimNextQueued
    <2>3. \A s \in Live : runs'[s].resolution = runs[s].resolution
      BY <1>1, <2>2 DEF PrintRun
    <2> QED BY <2>1, <2>3, NothingInserted
  <1>13. ASSUME NEW r \in RunIds, ExhaustRetry(r)
         PROVE  Resolves
    <2>1. nextSeq' = nextSeq /\ jobs' = jobs BY <1>13 DEF ExhaustRetry
    <2>2. \A s \in Live : runs'[s] = runs[s] \/
             runs'[s] = [runs[s] EXCEPT !.retryable = FALSE]
      BY <1>1, <1>2, <1>13 DEF ExhaustRetry
    <2>3. \A s \in Live : runs'[s].resolution = runs[s].resolution
      BY <1>1, <2>2 DEF PrintRun
    <2> QED BY <2>1, <2>3, NothingInserted
  <1>14. CASE RecoverAbandoned
    <2>1. nextSeq' = nextSeq /\ jobs' = jobs BY <1>14 DEF RecoverAbandoned
    <2>2. \A s \in Live : runs'[s] = runs[s] \/
             runs'[s] = [[runs[s] EXCEPT !.status = "uncertain"] EXCEPT !.retryable = FALSE]
      BY <1>1, <1>14 DEF RecoverAbandoned
    <2>3. \A s \in Live : runs'[s].resolution = runs[s].resolution
      BY <1>1, <2>2 DEF PrintRun
    <2> QED BY <2>1, <2>3, NothingInserted
  <1>15. CASE UNCHANGED storeVars \/ \E j \in Jobs : Expire(j)
    <2>1. nextSeq' = nextSeq /\ jobs' = jobs /\ runs' = runs BY <1>15 DEF Expire, storeVars
    <2> QED BY <2>1, NothingInserted
  <1>16. CASE ClientNext
    BY <1>16, <1>4, <1>6, <1>8, <1>9, <1>10 DEF ClientNext, CancelRun
  <1>17. CASE RetentionNext BY <1>17, <1>11, <1>15 DEF RetentionNext
  <1>18. CASE WorkerNext
    BY <1>18, <1>7, <1>8, <1>12, <1>13, <1>14
       DEF WorkerNext, MarkTransmitted, MarkFailed, MarkUncertain
  <1> QED BY <1>15, <1>16, <1>17, <1>18 DEF StoreNext

\* In the empty database there is nothing to say.
LEMMA ViewInit == StoreInit => ViewInv
  <1> SUFFICES ASSUME StoreInit PROVE ViewInv OBVIOUS
  <1>1. Live = {} /\ jobs = {} BY DEF StoreInit, Live, NoRun
  <1> QED BY <1>1 DEF ViewInv, OnlyUncertainConfirmed, LatestRunStands

\* What a run that nobody waits for tells of a target without the ticket.
LEMMA DefaultBranch ==
    ASSUME StoreInv, ViewInv, NEW j \in jobs,
           State(j) = "attention_required", ~AnyUnfulfilledAttention(j)
    PROVE  \E p \in Unfulfilled(j) \ cancelled[j] :
               \E r \in RunsOf(j, p) : runs[r].status = "cancelled"
  <1>1. /\ ~AnyUnfulfilledProcessing(j) /\ ~AnyUnfulfilledQueued(j)
        /\ ~AllUnfulfilledCancelled(j)
    BY DEF State
  <1>2. PICK p \in Unfulfilled(j) : p \notin cancelled[j]
    BY <1>1 DEF AllUnfulfilledCancelled
  <1>3. p \in targets[j] /\ ~Fulfilled(j, p) BY <1>2 DEF Unfulfilled
  <1>4. PICK r \in RunsOf(j, p) : runs[r].resolution # "reprint_requested"
    BY <1>3 DEF ViewInv, LatestRunStands
  <1>5. r \in Live /\ RowOK(runs[r]) BY RowTypes DEF RunsOf, StoreInv
  <1>6. runs[r].status \notin {"queued", "processing"} /\ ~RetryPending(r)
    BY <1>1, <1>2 DEF AnyUnfulfilledProcessing, AnyUnfulfilledQueued
  <1>7. ~Fulfils(r) BY <1>3 DEF Fulfilled
  <1>8. ~NeedsOperator(r) BY <1>2 DEF AnyUnfulfilledAttention
  <1>9. runs[r].resolution = "confirmed_printed" => runs[r].status = "uncertain"
    BY <1>5 DEF ViewInv, OnlyUncertainConfirmed
  <1>10. /\ runs[r].status \in Statuses /\ runs[r].resolution \in Resolutions
         /\ runs[r].retryable \in BOOLEAN
    BY <1>5 DEF RowOK, PrintRun
  <1>11. runs[r].status = "cancelled"
    BY <1>4, <1>5, <1>6, <1>7, <1>8, <1>9, <1>10
       DEF RetryPending, Fulfils, NeedsOperator, Statuses, Resolutions, RowOK
  <1> QED BY <1>2, <1>11

\* The two predicates are related as stated in every such state.
LEMMA FilterAgrees ==
    ASSUME StoreInv, ViewInv
    PROVE  AttentionFilterAgrees
  <1> SUFFICES ASSUME NEW j \in jobs
               PROVE  /\ AttentionFilter(j) => RequiresAttention(j)
                      /\ RequiresAttention(j) /\ ~AttentionFilter(j) =>
                            \E p \in Unfulfilled(j) \ cancelled[j] :
                                \E r \in RunsOf(j, p) : runs[r].status = "cancelled"
    BY DEF AttentionFilterAgrees
  <1>1. \A r \in Live : RowOK(runs[r]) BY RowTypes DEF StoreInv
  <1>2. ASSUME AttentionFilter(j) PROVE RequiresAttention(j)
    <2>1. PICK r \in Live :
            /\ runs[r].job = j
            /\ runs[r].resolution = "none"
            /\ \/ runs[r].status = "uncertain"
               \/ runs[r].status = "failed" /\ ~runs[r].retryable
            /\ \/ runs[r].mode = "reprint"
               \/ /\ ~Fulfilled(j, runs[r].printer)
                  /\ runs[r].printer \notin cancelled[j]
      BY <1>2 DEF AttentionFilter
    <2>2. NeedsOperator(r) BY <1>1, <2>1 DEF NeedsOperator, RowOK
    <2>3. runs[r].printer \in targets[j] /\ r \in RunsOf(j, runs[r].printer)
      BY <2>1 DEF StoreInv, RowsAreOwned, RunsOf
    <2>4. CASE runs[r].mode = "reprint"
      BY <2>2, <2>3, <2>4 DEF RequiresAttention, ManualReprintRequiresAttention
    <2>5. CASE ~Fulfilled(j, runs[r].printer) /\ runs[r].printer \notin cancelled[j]
      BY <2>2, <2>3, <2>5 DEF RequiresAttention, AnyUnfulfilledAttention, Unfulfilled
    <2> QED BY <2>1, <2>4, <2>5
  <1>3. ASSUME NEW p \in targets[j], NEW r \in RunsOf(j, p), NeedsOperator(r),
               runs[r].mode = "reprint" \/ (p \in Unfulfilled(j) /\ p \notin cancelled[j])
        PROVE  AttentionFilter(j)
    BY <1>3 DEF AttentionFilter, RunsOf, NeedsOperator, Unfulfilled
  <1>4. ManualReprintRequiresAttention(j) => AttentionFilter(j)
    BY <1>3 DEF ManualReprintRequiresAttention
  <1>5. AnyUnfulfilledAttention(j) => AttentionFilter(j)
    BY <1>3 DEF AnyUnfulfilledAttention, Unfulfilled
  <1>6. ASSUME RequiresAttention(j), ~AttentionFilter(j)
        PROVE  \E p \in Unfulfilled(j) \ cancelled[j] :
                   \E r \in RunsOf(j, p) : runs[r].status = "cancelled"
    BY <1>4, <1>5, <1>6, DefaultBranch DEF RequiresAttention
  <1> QED BY <1>2, <1>6

\* In every state the filter of the Job list and the flag of the Job agree, save
\* for a target whose last queued run was cancelled by itself.
THEOREM AttentionListIsComplete == StoreSpec => []AttentionFilterAgrees
  <1>1. StoreInit => StoreInv /\ ViewInv BY InitHolds, ViewInit
  <1>2. StoreInv /\ ViewInv /\ [StoreNext]_storeVars => (StoreInv /\ ViewInv)'
    BY NextPreserves, NextEvolves, NextResolves, ViewStep
  <1>3. StoreInv /\ ViewInv => AttentionFilterAgrees BY FilterAgrees
  <1> QED BY <1>1, <1>2, <1>3, PTL DEF StoreSpec
=============================================================================
