-------------------------- MODULE PrintRunsProofs --------------------------
(***************************************************************************)
(* StoreInv is an invariant of the store, for all sets of Jobs, printers   *)
(* and request ids and all bounds.                                         *)
(*                                                                         *)
(* Every transaction does one of three things to a row of print_runs: it   *)
(* leaves the row or moves it forward in its life cycle (Evolved), deletes *)
(* it with its Job, or inserts it (Fresh).  Lemma StepPreserves shows that *)
(* a step made of such changes preserves StoreInv; what remains for each   *)
(* transaction is to show that its changes are of this form.               *)
(***************************************************************************)
EXTENDS PrintRuns, FiniteSetTheorems, TLAPS

(* The predicates of PrintRuns on a row instead of its number *)

WillPrint(row) ==
    \/ row.status \in {"queued", "processing"}
    \/ row.status = "failed" /\ row.retryable /\ row.resolution = "none"

OpenRow(row) ==
    WillPrint(row) \/ (row.status = "uncertain" /\ row.resolution = "none")

Failed(row) == row.status = "failed" /\ ~row.retryable

FulfilsRow(row) ==
    \/ row.status = "transmitted"
    \/ row.status = "uncertain" /\ row.resolution = "confirmed_printed"

RowOK(row) ==
    /\ row \in PrintRun
    /\ row.retryable => row.status = "failed"
    /\ row.resolution # "none" => row.status \in {"failed", "uncertain"}

SameRowTarget(a, b) == a.job = b.job /\ a.printer = b.printer

\* Row new is row old, or old further on in its life cycle.
Evolved(old, new) ==
    /\ RowOK(new)
    /\ SameRowTarget(old, new)
    /\ new.trigger = old.trigger /\ new.mode = old.mode
    /\ new.previous = old.previous /\ new.request = old.request
    /\ OpenRow(new) => OpenRow(old)
    /\ WillPrint(new) => WillPrint(old)
    /\ Failed(old) => Failed(new)
    /\ FulfilsRow(old) => FulfilsRow(new)

\* Row r, just inserted, fits the rows that are there after the step.
Fresh(r) ==
    LET row == runs'[r]
    IN  /\ RowOK(row)
        /\ row.job \in jobs' /\ row.printer \in targets'[row.job]
        /\ row.printer \notin cancelled'[row.job]
        /\ \A s \in Live' : s < r /\ SameRowTarget(runs'[s], row) =>
              /\ ~OpenRow(runs'[s])
              /\ row.mode = "normal" /\ runs'[s].mode = "normal" => Failed(runs'[s])
        /\ row.trigger = "automatic_retry" =>
              /\ row.previous \in Live' /\ row.previous < r
              /\ SameRowTarget(runs'[row.previous], row)
              /\ runs'[row.previous].mode = row.mode
              /\ Failed(runs'[row.previous])
              /\ \A t \in Live' : /\ runs'[t].trigger = "automatic_retry"
                                  /\ runs'[t].previous = row.previous
                                  => t = r
        /\ row.trigger = "manual_reprint" =>
              /\ <<row.job, row.request>> \in dedup'
              /\ \A s \in Live' : /\ SameRowTarget(runs'[s], row)
                                  /\ runs'[s].trigger = "manual_reprint"
                                  /\ runs'[s].request = row.request
                                  => s = r

Kept(r) == r \in Live /\ runs[r].job \in jobs' /\ Evolved(runs[r], runs'[r])

Dropped(r) == r \in Live /\ runs[r].job \notin jobs' /\ runs'[r] = NoRun

Inserted(r) == r \in nextSeq..(nextSeq' - 1) /\ Fresh(r)

StillUnused(r) == r \notin Live /\ runs'[r] = NoRun

\* What every transaction does.
RowsEvolve ==
    /\ jobs' \subseteq Jobs /\ expired' \subseteq Jobs
    /\ targets' \in [Jobs -> SUBSET Printers]
    /\ cancelled' \in [Jobs -> SUBSET Printers]
    /\ dedup' \subseteq Jobs \X Requests
    /\ nextSeq' \in 1..(MaxRuns + 1) /\ nextSeq <= nextSeq'
    /\ \A j \in jobs \cap jobs' : targets'[j] = targets[j]
    /\ \A j \in jobs', q \in Requests : <<j, q>> \in dedup => <<j, q>> \in dedup'
    /\ runs' = [r \in RunIds |-> runs'[r]]
    /\ \A r \in RunIds : Kept(r) \/ Dropped(r) \/ Inserted(r) \/ StillUnused(r)
    /\ \A r \in RunIds : Kept(r) /\ WillPrint(runs'[r]) =>
          runs[r].printer \notin cancelled'[runs[r].job]

-----------------------------------------------------------------------------

\* The types of the rows: an unused number has no row.
LEMMA RowTypes ==
    ASSUME StoreTypeOK
    PROVE  /\ \A r \in Live : r \in RunIds /\ RowOK(runs[r])
           /\ \A r \in RunIds : r \notin Live => runs[r] = NoRun
  <1>1. \A r \in RunIds : runs[r] \in PrintRun \/ runs[r] = NoRun
    BY DEF StoreTypeOK
  <1>2. \A r \in Live : r \in RunIds /\ runs[r] \in PrintRun
    BY <1>1 DEF Live, NoRun
  <1>3. \A r \in RunIds : r \notin Live => runs[r] = NoRun
    BY <1>1 DEF Live, PrintRun, Statuses
  <1> QED BY <1>2, <1>3 DEF StoreTypeOK, RowOK

\* After the step a row is a kept one or an inserted one.
LEMMA RowsAfter ==
    ASSUME StoreTypeOK, RowsEvolve
    PROVE  /\ \A r \in Live' : r \in RunIds /\ RowOK(runs'[r]) /\ (Kept(r) \/ Inserted(r))
           /\ \A r \in Live : runs[r].job \in jobs' => r \in Live'
           /\ \A r \in Live : Kept(r) \/ Dropped(r) \/ Inserted(r)
  <1>1. \A r \in Live' : r \in RunIds /\ (Kept(r) \/ Inserted(r))
    BY DEF RowsEvolve, Live, Dropped, StillUnused, NoRun
  <1>2. \A r \in Live' : RowOK(runs'[r])
    BY <1>1 DEF Kept, Inserted, Evolved, Fresh
  <1>3. \A r \in Live : Kept(r) \/ Dropped(r) \/ Inserted(r)
    BY DEF RowsEvolve, StillUnused, Live
  <1>4. ASSUME NEW r \in Live, runs[r].job \in jobs'
        PROVE  r \in Live'
    <2>1. r \in RunIds BY DEF Live
    <2>2. RowOK(runs'[r])
      BY <1>3, <1>4 DEF Kept, Dropped, Inserted, Evolved, Fresh
    <2>3. runs'[r].status \in Statuses
      BY <2>2 DEF RowOK, PrintRun
    <2> QED BY <2>1, <2>3 DEF Live, Statuses
  <1> QED BY <1>1, <1>2, <1>3, <1>4

\* A step that only keeps, drops and inserts rows preserves the invariant.
LEMMA StepPreserves ==
    ASSUME StoreInv, RowsEvolve
    PROVE  StoreInv'
  <1> USE DEF StoreInv
  <1> DEFINE Old(r) == r \in Live' /\ Kept(r)
             New(r) == r \in Live' /\ Inserted(r)
  <1>1. /\ \A r \in Live' : r \in RunIds /\ RowOK(runs'[r]) /\ (Old(r) \/ New(r))
        /\ \A r \in Live : runs[r].job \in jobs' => r \in Live'
        /\ \A r \in Live : r \in RunIds /\ RowOK(runs[r])
    BY RowsAfter, RowTypes
  <1>2. \A r \in RunIds : r \in Nat
    BY StoreAssumption DEF RunIds
  <1>3. \A r, s \in Live' : Old(r) /\ New(s) => r < s
    <2>1. \A r : Old(r) => r < nextSeq
      BY DEF RowsAreOwned, Kept
    <2>2. \A s : New(s) => nextSeq <= s
      BY DEF Inserted, StoreTypeOK, RowsEvolve
    <2>3. nextSeq \in Nat
      BY DEF StoreTypeOK
    <2> QED BY <2>1, <2>2, <2>3, <1>1, <1>2
  <1>4. \A r : Old(r) => /\ r \in Live /\ Evolved(runs[r], runs'[r])
                         /\ runs[r].job \in jobs'
    BY DEF Kept
  <1>5. ASSUME NEW r, New(r)
        PROVE  Fresh(r) /\ r < nextSeq'
    <2>1. nextSeq \in Nat /\ nextSeq' \in Nat
      BY StoreAssumption DEF StoreTypeOK, RowsEvolve
    <2>2. Fresh(r) /\ r \in nextSeq..(nextSeq' - 1)
      BY <1>5 DEF Inserted
    <2>3. ASSUME NEW m \in Nat, NEW n \in Nat, NEW i \in m..(n - 1)
          PROVE  i < n
      OBVIOUS
    <2> QED BY <2>1, <2>2, <2>3
  <1>6. StoreTypeOK'
    <2>1. \A r \in RunIds : runs'[r] \in PrintRun \cup {NoRun}
      <3> TAKE r \in RunIds
      <3>1. CASE r \in Live' BY <3>1, <1>1 DEF RowOK
      <3>2. CASE r \notin Live'
        <4>1. runs'[r].status = "none" BY <3>2 DEF Live
        <4>2. ~RowOK(runs'[r]) BY <4>1 DEF RowOK, PrintRun, Statuses
        <4>3. Dropped(r) \/ StillUnused(r)
          BY <4>2 DEF RowsEvolve, Kept, Inserted, Evolved, Fresh
        <4> QED BY <4>3 DEF Dropped, StillUnused
      <3> QED BY <3>1, <3>2
    <2>2. runs' \in [RunIds -> PrintRun \cup {NoRun}]
      BY <2>1 DEF RowsEvolve
    <2>3. \A r \in Live' :
            /\ runs'[r].retryable => runs'[r].status = "failed"
            /\ runs'[r].resolution # "none" => runs'[r].status \in {"failed", "uncertain"}
      BY <1>1 DEF RowOK
    <2> QED BY <2>2, <2>3 DEF StoreTypeOK, RowsEvolve
  <1>7. RowsAreOwned'
    <2> SUFFICES ASSUME NEW r \in Live'
                 PROVE  /\ r < nextSeq' /\ runs'[r].job \in jobs'
                        /\ runs'[r].printer \in targets'[runs'[r].job]
      BY DEF RowsAreOwned
    <2>1. CASE Old(r)
      <3>1. /\ r < nextSeq /\ runs[r].job \in jobs
            /\ runs[r].printer \in targets[runs[r].job]
        BY <2>1, <1>4 DEF RowsAreOwned
      <3>2. runs'[r].job = runs[r].job /\ runs'[r].printer = runs[r].printer
        BY <2>1, <1>4 DEF Evolved, SameRowTarget
      <3>3. r < nextSeq'
        BY <3>1, <1>1, <1>2 DEF RowsEvolve, StoreTypeOK
      <3> QED BY <3>1, <3>2, <3>3, <2>1, <1>4 DEF RowsEvolve
    <2>2. CASE New(r) BY <2>2, <1>5 DEF Fresh
    <2> QED BY <2>1, <2>2, <1>1
  <1>8. OpenRunIsLatest'
    <2> SUFFICES ASSUME NEW r \in Live', NEW s \in Live',
                        SameRowTarget(runs'[r], runs'[s]), r < s
                 PROVE  ~OpenRow(runs'[r])
      BY DEF OpenRunIsLatest, SameTarget, SameRowTarget, Open, OpenRow, WillPrint,
             Active, RetryPending
    <2>1. CASE New(s) BY <2>1, <1>5 DEF Fresh
    <2>2. CASE Old(r) /\ Old(s)
      <3>1. SameTarget(r, s)
        BY <2>2, <1>4 DEF Evolved, SameTarget, SameRowTarget
      <3>2. ~Open(r)
        BY <3>1, <2>2, <1>4 DEF OpenRunIsLatest
      <3>3. ~OpenRow(runs[r])
        BY <3>2 DEF Open, OpenRow, WillPrint, Active, RetryPending
      <3> QED BY <3>3, <2>2, <1>4 DEF Evolved
    <2>3. CASE New(r) /\ Old(s)
      BY <2>3, <1>1, <1>2, <1>3
    <2> QED BY <2>1, <2>2, <2>3, <1>1
  <1>9. CancelledTargetIsQuiet'
    <2> SUFFICES ASSUME NEW r \in Live', WillPrint(runs'[r])
                 PROVE  runs'[r].printer \notin cancelled'[runs'[r].job]
      BY DEF CancelledTargetIsQuiet, WillPrint, Active, RetryPending
    <2>1. CASE Old(r)
      BY <2>1, <1>1, <1>4 DEF RowsEvolve, Evolved, SameRowTarget
    <2>2. CASE New(r) BY <2>2, <1>5 DEF Fresh
    <2> QED BY <2>1, <2>2, <1>1
  <1>10. OneUnmarkedCopy'
    <2> SUFFICES ASSUME NEW r \in Live', NEW s \in Live',
                        SameRowTarget(runs'[r], runs'[s]), r < s,
                        runs'[r].mode = "normal", runs'[s].mode = "normal"
                 PROVE  Failed(runs'[r])
      BY DEF OneUnmarkedCopy, SameTarget, SameRowTarget, Failed
    <2>1. CASE New(s) BY <2>1, <1>5 DEF Fresh
    <2>2. CASE Old(r) /\ Old(s)
      <3>1. SameTarget(r, s) /\ runs[r].mode = "normal" /\ runs[s].mode = "normal"
        BY <2>2, <1>4 DEF Evolved, SameTarget, SameRowTarget
      <3>2. Failed(runs[r])
        BY <3>1, <2>2, <1>4 DEF OneUnmarkedCopy, Failed
      <3> QED BY <3>2, <2>2, <1>4 DEF Evolved
    <2>3. CASE New(r) /\ Old(s)
      BY <2>3, <1>1, <1>2, <1>3
    <2> QED BY <2>1, <2>2, <2>3, <1>1
  <1>11. RetryFollowsFailure'
    <2> SUFFICES ASSUME NEW s \in Live', runs'[s].trigger = "automatic_retry",
                        NEW r, r = runs'[s].previous
                 PROVE  /\ r \in Live' /\ r < s
                        /\ SameRowTarget(runs'[r], runs'[s])
                        /\ runs'[r].mode = runs'[s].mode
                        /\ Failed(runs'[r])
                        /\ \A t \in Live' : runs'[t].trigger = "automatic_retry"
                                               /\ runs'[t].previous = r => t = s
      BY DEF RetryFollowsFailure, SameTarget, SameRowTarget, Failed
    <2>1. CASE New(s) BY <2>1, <1>5 DEF Fresh
    <2>2. CASE Old(s)
      <3>1. /\ s \in Live /\ runs[s].trigger = "automatic_retry"
            /\ runs[s].previous = r /\ runs[s].job \in jobs'
        BY <2>2, <1>4 DEF Evolved
      <3>2. /\ r \in Live /\ r < s
            /\ SameRowTarget(runs[r], runs[s]) /\ runs[r].mode = runs[s].mode
            /\ Failed(runs[r])
            /\ \A t \in Live : runs[t].trigger = "automatic_retry"
                                  /\ runs[t].previous = r => t = s
        BY <3>1 DEF RetryFollowsFailure, SameTarget, SameRowTarget, Failed
      <3>3. r \in Live'
        BY <3>1, <3>2, <1>1 DEF SameRowTarget
      <3>4. Old(r)
        BY <3>2, <3>3, <2>2, <1>1, <1>2, <1>3
      <3>5. /\ SameRowTarget(runs'[r], runs'[s]) /\ runs'[r].mode = runs'[s].mode
            /\ Failed(runs'[r])
        BY <3>2, <3>4, <2>2, <1>4 DEF Evolved, SameRowTarget
      <3>6. ASSUME NEW t \in Live', runs'[t].trigger = "automatic_retry",
                   runs'[t].previous = r
            PROVE  t = s
        <4>1. CASE New(t)
          <5>1. Fresh(t) BY <4>1, <1>5
          <5>2. \A u \in Live' : runs'[u].trigger = "automatic_retry"
                                   /\ runs'[u].previous = r => u = t
            BY <5>1, <3>6 DEF Fresh
          <5> QED BY <5>2
        <4>2. CASE Old(t)
          BY <4>2, <3>2, <3>6, <1>4 DEF Evolved
        <4> QED BY <4>1, <4>2, <1>1
      <3> QED BY <3>2, <3>3, <3>5, <3>6
    <2> QED BY <2>1, <2>2, <1>1
  <1>12. ReprintIsRecorded'
    <2> SUFFICES ASSUME NEW r \in Live', runs'[r].trigger = "manual_reprint"
                 PROVE  <<runs'[r].job, runs'[r].request>> \in dedup'
      BY DEF ReprintIsRecorded
    <2>1. CASE Old(r)
      <3>1. /\ runs[r].trigger = "manual_reprint" /\ runs'[r].job = runs[r].job
            /\ runs'[r].request = runs[r].request /\ runs[r].job \in jobs'
        BY <2>1, <1>4 DEF Evolved, SameRowTarget
      <3>2. <<runs[r].job, runs[r].request>> \in dedup
        BY <3>1, <2>1, <1>4 DEF ReprintIsRecorded
      <3>3. runs[r].request \in Requests
        BY <3>2 DEF StoreTypeOK
      <3> QED BY <3>1, <3>2, <3>3 DEF RowsEvolve
    <2>2. CASE New(r) BY <2>2, <1>5 DEF Fresh
    <2> QED BY <2>1, <2>2, <1>1
  <1>13. ReprintOnce'
    <2> SUFFICES ASSUME NEW r \in Live', NEW s \in Live',
                        SameRowTarget(runs'[r], runs'[s]),
                        runs'[r].trigger = "manual_reprint",
                        runs'[s].trigger = "manual_reprint",
                        runs'[r].request = runs'[s].request
                 PROVE  r = s
      BY DEF ReprintOnce, SameTarget, SameRowTarget
    <2>1. CASE New(s) BY <2>1, <1>5 DEF Fresh
    <2>2. CASE New(r) BY <2>2, <1>5 DEF Fresh, SameRowTarget
    <2>3. CASE Old(r) /\ Old(s)
      BY <2>3, <1>4 DEF ReprintOnce, Evolved, SameTarget, SameRowTarget
    <2> QED BY <2>1, <2>2, <2>3, <1>1
  <1> QED BY <1>6, <1>7, <1>8, <1>9, <1>10, <1>11, <1>12, <1>13

-----------------------------------------------------------------------------
(* Single rows *)

\* The changes that the transactions make to one row move it forward.
LEMMA RowMoves ==
    ASSUME NEW row, RowOK(row)
    PROVE  /\ Evolved(row, row)
           /\ row.status = "queued" =>
                 Evolved(row, [row EXCEPT !.status = "processing"])
           /\ \A to \in {"transmitted", "failed", "uncertain", "cancelled"}, b \in BOOLEAN :
                 row.status \in {"queued", "processing"} /\ (b => to = "failed") =>
                    Evolved(row, [row EXCEPT !.status = to, !.retryable = b])
           /\ Evolved(row, [row EXCEPT !.retryable = FALSE])
           /\ row.status = "uncertain" =>
                 Evolved(row, [row EXCEPT !.resolution = "confirmed_printed"])
           /\ row.status \in {"failed", "uncertain"} /\ row.resolution = "none" =>
                 Evolved(row, [row EXCEPT !.retryable = FALSE,
                                          !.resolution = "reprint_requested"])
  <1> USE DEF Evolved, RowOK, PrintRun, Statuses, Resolutions, SameRowTarget,
              OpenRow, WillPrint, Failed, FulfilsRow
  <1>1. Evolved(row, row) OBVIOUS
  <1>2. row.status = "queued" => Evolved(row, [row EXCEPT !.status = "processing"])
    OBVIOUS
  <1>3. ASSUME NEW to \in {"transmitted", "failed", "uncertain", "cancelled"},
               NEW b \in BOOLEAN, row.status \in {"queued", "processing"},
               b => to = "failed"
        PROVE  Evolved(row, [row EXCEPT !.status = to, !.retryable = b])
    BY <1>3
  <1>4. Evolved(row, [row EXCEPT !.retryable = FALSE]) OBVIOUS
  <1>5. row.status = "uncertain" =>
           Evolved(row, [row EXCEPT !.resolution = "confirmed_printed"])
    OBVIOUS
  <1>6. row.status \in {"failed", "uncertain"} /\ row.resolution = "none" =>
           Evolved(row, [row EXCEPT !.retryable = FALSE,
                                    !.resolution = "reprint_requested"])
    OBVIOUS
  <1> HIDE DEF Evolved
  <1> QED BY <1>1, <1>2, <1>3, <1>4, <1>5, <1>6

\* A row as it is inserted.
LEMMA NewRows ==
    ASSUME NEW j \in Jobs, NEW p \in Printers,
           NEW trigger \in {"initial", "automatic_retry", "manual_reprint"},
           NEW mode \in {"normal", "reprint"}, NEW previous \in 0..MaxRuns,
           NEW request \in Requests \cup {NoRequest},
           NEW row,
           \/ row = NewRun(j, p, trigger, mode, previous, request)
           \/ row = [NewRun(j, p, trigger, mode, previous, request)
                        EXCEPT !.status = "failed"]
    PROVE  /\ RowOK(row)
           /\ row.job = j /\ row.printer = p /\ row.trigger = trigger
           /\ row.mode = mode /\ row.previous = previous /\ row.request = request
  <1>1. CASE row = NewRun(j, p, trigger, mode, previous, request)
    BY <1>1 DEF NewRun, RowOK, PrintRun, Statuses, Resolutions
  <1>2. CASE row = [NewRun(j, p, trigger, mode, previous, request)
                      EXCEPT !.status = "failed"]
    <2>1. row = [job |-> j, printer |-> p, status |-> "failed", trigger |-> trigger,
                 mode |-> mode, previous |-> previous, request |-> request,
                 retryable |-> FALSE, resolution |-> "none"]
      BY <1>2 DEF NewRun
    <2> QED BY <2>1 DEF RowOK, PrintRun, Statuses, Resolutions
  <1> QED BY <1>1, <1>2

\* The printerIds of a request: n different printers.
LEMMA PrinterListsFacts ==
    ASSUME NEW ps \in PrinterLists
    PROVE  /\ Cardinality(DOMAIN ps) \in Nat
           /\ DOMAIN ps = 1..Cardinality(DOMAIN ps)
           /\ \A i \in DOMAIN ps : ps[i] \in Printers
           /\ \A i, k \in DOMAIN ps : ps[i] = ps[k] => i = k
  <1>1. PICK n \in 1..Cardinality(Printers) : ps \in [1..n -> Printers]
    BY DEF PrinterLists
  <1>2. n \in Nat /\ DOMAIN ps = 1..n BY <1>1
  <1>3. Cardinality(1..n) = n BY <1>2, FS_Interval
  <1>4. \A i, k \in DOMAIN ps : ps[i] = ps[k] => i = k BY DEF PrinterLists
  <1> QED BY <1>1, <1>2, <1>3, <1>4

-----------------------------------------------------------------------------
(* Transactions that change rows in place *)

InPlace ==
    /\ UNCHANGED <<jobs, targets, cancelled, dedup, nextSeq>>
    /\ expired' \subseteq Jobs
    /\ runs' = [r \in RunIds |-> runs'[r]]
    /\ \A r \in RunIds : r \notin Live => runs'[r] = runs[r]
    /\ \A r \in Live : Evolved(runs[r], runs'[r])

\* Moving rows forward, and nothing else.
LEMMA InPlaceEvolves ==
    ASSUME StoreInv, InPlace
    PROVE  RowsEvolve
  <1>1. \A r \in Live : r \in RunIds /\ Kept(r)
    BY DEF StoreInv, RowsAreOwned, InPlace, Kept, Live
  <1>2. \A r \in RunIds : r \notin Live => StillUnused(r)
    BY RowTypes DEF StoreInv, InPlace, StillUnused
  <1>3. ASSUME NEW r \in RunIds, Kept(r), WillPrint(runs'[r])
        PROVE  runs[r].printer \notin cancelled'[runs[r].job]
    <2>1. r \in Live /\ WillPrint(runs[r])
      BY <1>3 DEF Kept, Evolved
    <2> QED BY <2>1 DEF StoreInv, CancelledTargetIsQuiet, WillPrint, Active,
                        RetryPending, InPlace
  <1> QED
    BY <1>1, <1>2, <1>3 DEF RowsEvolve, InPlace, StoreInv, StoreTypeOK

\* The transitions of a run, for the worker and for a cancellation.
LEMMA TransitionEvolves ==
    ASSUME StoreInv, NEW r \in RunIds, NEW from \in {"queued", "processing"},
           NEW to \in {"transmitted", "failed", "uncertain", "cancelled"},
           NEW b \in BOOLEAN, b => to = "failed", Transition(r, from, to, b)
    PROVE  RowsEvolve
  <1>1. \A s \in Live : RowOK(runs[s]) /\ s \in RunIds
    BY RowTypes DEF StoreInv
  <1>2. runs = [s \in RunIds |-> runs[s]]
    BY DEF StoreInv, StoreTypeOK
  <1>3. CASE runs[r].status = from
    <2>1. runs' = [runs EXCEPT ![r] = [runs[r] EXCEPT !.status = to, !.retryable = b]]
      BY <1>3, <1>2 DEF Transition
    <2>2. r \in Live /\ Evolved(runs[r], runs'[r])
      <3>1. r \in Live /\ RowOK(runs[r]) BY <1>1 DEF Transition
      <3>2. Evolved(runs[r], [runs[r] EXCEPT !.status = to, !.retryable = b])
        BY <1>3, <3>1, RowMoves
      <3>3. runs'[r] = [runs[r] EXCEPT !.status = to, !.retryable = b]
        BY <1>2, <2>1
      <3> QED BY <3>1, <3>2, <3>3
    <2>3. \A s \in Live : Evolved(runs[s], runs'[s])
      BY <1>1, <1>2, <2>1, <2>2, RowMoves
    <2>4. InPlace
      BY <1>2, <2>1, <2>2, <2>3 DEF InPlace, Transition, Touch, StoreInv, StoreTypeOK
    <2> QED BY <2>4, InPlaceEvolves
  <1>4. CASE runs[r].status # from
    <2>1. runs' = runs BY <1>4 DEF Transition
    <2>2. InPlace
      BY <1>1, <1>2, <2>1, RowMoves
         DEF InPlace, Transition, Touch, StoreInv, StoreTypeOK
    <2> QED BY <2>2, InPlaceEvolves
  <1> QED BY <1>3, <1>4

\* ClaimNextQueued: one row, queued before.
LEMMA ClaimEvolves ==
    ASSUME StoreInv, NEW p \in Printers, NEW r \in RunIds, ClaimNextQueued(p, r)
    PROVE  RowsEvolve
  <1>1. \A s \in Live : RowOK(runs[s]) /\ s \in RunIds
    BY RowTypes DEF StoreInv
  <1>2. runs = [s \in RunIds |-> runs[s]] BY DEF StoreInv, StoreTypeOK
  <1>3. r \in Live /\ runs[r].status = "queued"
    BY DEF ClaimNextQueued, IsNextQueued
  <1>4. runs' = [runs EXCEPT ![r] = [runs[r] EXCEPT !.status = "processing"]]
    BY DEF ClaimNextQueued
  <1>5. runs'[r] = [runs[r] EXCEPT !.status = "processing"] BY <1>2, <1>4
  <1>6. Evolved(runs[r], runs'[r]) BY <1>1, <1>3, <1>5, RowMoves
  <1>7. \A s \in Live : Evolved(runs[s], runs'[s])
    BY <1>1, <1>2, <1>4, <1>6, RowMoves
  <1>8. InPlace
    BY <1>2, <1>3, <1>4, <1>7 DEF InPlace, ClaimNextQueued, StoreInv, StoreTypeOK
  <1> QED BY <1>8, InPlaceEvolves

\* The operator's confirmation: one row, uncertain before.
LEMMA ConfirmEvolves ==
    ASSUME StoreInv, NEW r \in RunIds, ConfirmPrinted(r)
    PROVE  RowsEvolve
  <1>1. \A s \in Live : RowOK(runs[s]) /\ s \in RunIds
    BY RowTypes DEF StoreInv
  <1>2. runs = [s \in RunIds |-> runs[s]] BY DEF StoreInv, StoreTypeOK
  <1>3. r \in Live /\ runs[r].status = "uncertain"
    BY DEF ConfirmPrinted
  <1>4. runs' = [runs EXCEPT ![r] = [runs[r] EXCEPT !.resolution = "confirmed_printed"]]
    BY DEF ConfirmPrinted
  <1>5. runs'[r] = [runs[r] EXCEPT !.resolution = "confirmed_printed"]
    BY <1>2, <1>4
  <1>6. Evolved(runs[r], runs'[r]) BY <1>1, <1>3, <1>5, RowMoves
  <1>7. \A s \in Live : Evolved(runs[s], runs'[s])
    BY <1>1, <1>2, <1>4, <1>6, RowMoves
  <1>8. InPlace
    BY <1>2, <1>3, <1>4, <1>7
       DEF InPlace, ConfirmPrinted, Touch, StoreInv, StoreTypeOK
  <1> QED BY <1>8, InPlaceEvolves

\* Giving up on a chain of retries: one row, failed before.
LEMMA ExhaustEvolves ==
    ASSUME StoreInv, NEW r \in RunIds, ExhaustRetry(r)
    PROVE  RowsEvolve
  <1>1. \A s \in Live : RowOK(runs[s]) /\ s \in RunIds
    BY RowTypes DEF StoreInv
  <1>2. runs = [s \in RunIds |-> runs[s]] BY DEF StoreInv, StoreTypeOK
  <1>3. r \in Live BY DEF ExhaustRetry
  <1>4. runs' = [runs EXCEPT ![r] = [runs[r] EXCEPT !.retryable = FALSE]]
    BY DEF ExhaustRetry
  <1>5. runs'[r] = [runs[r] EXCEPT !.retryable = FALSE] BY <1>2, <1>4
  <1>6. Evolved(runs[r], runs'[r]) BY <1>1, <1>3, <1>5, RowMoves
  <1>7. \A s \in Live : Evolved(runs[s], runs'[s])
    BY <1>1, <1>2, <1>4, <1>6, RowMoves
  <1>8. InPlace
    BY <1>2, <1>3, <1>4, <1>7 DEF InPlace, ExhaustRetry, StoreInv, StoreTypeOK
  <1> QED BY <1>8, InPlaceEvolves

\* Crash recovery: the rows in processing.
LEMMA RecoverEvolves ==
    ASSUME StoreInv, RecoverAbandoned
    PROVE  RowsEvolve
  <1>1. \A s \in Live : RowOK(runs[s]) /\ s \in RunIds
    BY RowTypes DEF StoreInv
  <1>2. ASSUME NEW s \in Live
        PROVE  Evolved(runs[s], runs'[s])
    <2>1. CASE runs[s].status = "processing"
      <3>1. runs'[s] = [runs[s] EXCEPT !.status = "uncertain", !.retryable = FALSE]
        BY <1>1, <2>1 DEF RecoverAbandoned
      <3> QED BY <1>1, <2>1, <3>1, RowMoves
    <2>2. CASE runs[s].status # "processing"
      <3>1. runs'[s] = runs[s] BY <1>1, <2>2 DEF RecoverAbandoned
      <3> QED BY <1>1, <3>1, RowMoves
    <2> QED BY <2>1, <2>2
  <1>3. \A s \in RunIds : s \notin Live => runs'[s] = runs[s]
    BY DEF RecoverAbandoned, Live
  <1>4. InPlace
    BY <1>2, <1>3 DEF InPlace, RecoverAbandoned, StoreInv, StoreTypeOK
  <1> QED BY <1>4, InPlaceEvolves

\* The passing of time: no row.
LEMMA ExpireEvolves ==
    ASSUME StoreInv, NEW j \in Jobs, Expire(j)
    PROVE  RowsEvolve
  <1>1. \A s \in Live : RowOK(runs[s]) BY RowTypes DEF StoreInv
  <1>2. \A s \in Live : Evolved(runs[s], runs'[s])
    BY <1>1, RowMoves DEF Expire
  <1>3. InPlace
    BY <1>2 DEF InPlace, Expire, StoreInv, StoreTypeOK
  <1> QED BY <1>3, InPlaceEvolves

\* Cancelling targets: none of their runs can print afterwards.
LEMMA CancelTargetsEvolves ==
    ASSUME StoreInv, NEW j \in Jobs, NEW ps \in SUBSET Printers, CancelTargets(j, ps)
    PROVE  RowsEvolve
  <1> DEFINE Hit(r) == \E p \in ps : r \in RunsOf(j, p)
  <1>1. \A s \in Live : RowOK(runs[s]) /\ s \in RunIds
    BY RowTypes DEF StoreInv
  <1>2. \A r \in RunIds : runs'[r] = IF Hit(r) THEN CancelledRow(r) ELSE runs[r]
    BY DEF CancelTargets
  <1>3. \A r : Hit(r) => /\ r \in Live /\ runs[r].job = j /\ runs[r].printer \in ps
                         /\ runs[r].status # "processing"
    BY DEF RunsOf, CancelTargets
  <1>4. ASSUME NEW r \in Live
        PROVE  Evolved(runs[r], CancelledRow(r))
    <2>1. CASE runs[r].status = "queued"
      BY <1>1, <2>1, RowMoves DEF CancelledRow
    <2>2. CASE runs[r].status # "queued" /\ RetryPending(r)
      BY <1>1, <2>2, RowMoves DEF CancelledRow
    <2>3. CASE runs[r].status # "queued" /\ ~RetryPending(r)
      BY <1>1, <2>3, RowMoves DEF CancelledRow
    <2> QED BY <2>1, <2>2, <2>3
  <1>5. ASSUME NEW r \in Live, runs[r].status # "processing"
        PROVE  ~WillPrint(CancelledRow(r))
    <2>1. CASE runs[r].status = "queued"
      BY <1>1, <2>1 DEF CancelledRow, WillPrint, RowOK, PrintRun
    <2>2. CASE runs[r].status # "queued" /\ RetryPending(r)
      BY <1>1, <2>2 DEF CancelledRow, WillPrint, RowOK, PrintRun, RetryPending
    <2>3. CASE runs[r].status # "queued" /\ ~RetryPending(r)
      BY <1>5, <2>3 DEF CancelledRow, WillPrint, RetryPending
    <2> QED BY <2>1, <2>2, <2>3
  <1>6. \A r \in Live : Kept(r)
    <2>1. \A r \in Live : Evolved(runs[r], runs'[r])
      BY <1>1, <1>2, <1>4, RowMoves
    <2> QED BY <2>1 DEF Kept, CancelTargets, StoreInv, RowsAreOwned
  <1>7. \A r \in RunIds : r \notin Live => StillUnused(r)
    BY <1>2, <1>3, RowTypes DEF StoreInv, StillUnused
  <1>8. ASSUME NEW r \in RunIds, Kept(r), WillPrint(runs'[r])
        PROVE  runs[r].printer \notin cancelled'[runs[r].job]
    <2>1. r \in Live /\ WillPrint(runs[r])
      BY <1>8 DEF Kept, Evolved
    <2>2. ~Hit(r)
      BY <1>2, <1>3, <1>5, <1>8
    <2>3. runs[r].job = j => runs[r].printer \notin ps
      BY <2>1, <2>2 DEF RunsOf
    <2>4. runs[r].printer \notin cancelled[runs[r].job]
      BY <2>1 DEF StoreInv, CancelledTargetIsQuiet, WillPrint, Active, RetryPending
    <2>5. runs[r].job \in Jobs
      BY <2>1, <1>1 DEF RowOK, PrintRun
    <2> QED BY <2>3, <2>4, <2>5 DEF CancelTargets, StoreInv, StoreTypeOK
  <1> QED
    <2>1. /\ jobs' \subseteq Jobs /\ expired' \subseteq Jobs
          /\ targets' \in [Jobs -> SUBSET Printers]
          /\ cancelled' \in [Jobs -> SUBSET Printers]
          /\ dedup' \subseteq Jobs \X Requests
          /\ nextSeq' \in 1..(MaxRuns + 1) /\ nextSeq <= nextSeq'
      BY DEF CancelTargets, Touch, StoreInv, StoreTypeOK
    <2>2. /\ \A i \in jobs \cap jobs' : targets'[i] = targets[i]
          /\ \A i \in jobs', q \in Requests : <<i, q>> \in dedup => <<i, q>> \in dedup'
          /\ runs' = [r \in RunIds |-> runs'[r]]
      BY DEF CancelTargets
    <2> QED BY <2>1, <2>2, <1>6, <1>7, <1>8 DEF RowsEvolve

\* Retention: rows go with their Job.
LEMMA PurgeEvolves ==
    ASSUME StoreInv, PurgeExpired
    PROVE  RowsEvolve
  <1> DEFINE gone == {j \in jobs \cap expired : Purgeable(j)}
  <1>1. \A s \in Live : RowOK(runs[s]) /\ s \in RunIds
    BY RowTypes DEF StoreInv
  <1>2. /\ jobs' = jobs \ gone
        /\ targets' = [j \in Jobs |-> IF j \in gone THEN {} ELSE targets[j]]
        /\ cancelled' = [j \in Jobs |-> IF j \in gone THEN {} ELSE cancelled[j]]
        /\ expired' = expired \ gone
        /\ dedup' = {d \in dedup : d[1] \notin gone}
        /\ runs' = [r \in RunIds |->
              IF r \in Live /\ runs[r].job \in gone THEN NoRun ELSE runs[r]]
        /\ nextSeq' = nextSeq
    BY DEF PurgeExpired
  <1> HIDE DEF gone
  <1>3. \A r \in Live : runs[r].job \in jobs BY DEF StoreInv, RowsAreOwned
  <1>4. \A r \in Live : Kept(r) \/ Dropped(r)
    BY <1>1, <1>2, <1>3, RowMoves DEF Kept, Dropped
  <1>5. \A r \in RunIds : r \notin Live => StillUnused(r)
    BY <1>2, RowTypes DEF StoreInv, StillUnused
  <1>6. ASSUME NEW r \in RunIds, Kept(r), WillPrint(runs'[r])
        PROVE  runs[r].printer \notin cancelled'[runs[r].job]
    <2>1. r \in Live /\ WillPrint(runs[r]) /\ runs[r].job \notin gone
      BY <1>2, <1>6 DEF Kept, Evolved
    <2>2. runs[r].printer \notin cancelled[runs[r].job]
      BY <2>1 DEF StoreInv, CancelledTargetIsQuiet, WillPrint, Active, RetryPending
    <2>3. runs[r].job \in Jobs BY <2>1, <1>1 DEF RowOK, PrintRun
    <2> QED BY <1>2, <2>1, <2>2, <2>3
  <1> QED
    <2>1. /\ jobs' \subseteq Jobs /\ expired' \subseteq Jobs
          /\ targets' \in [Jobs -> SUBSET Printers]
          /\ cancelled' \in [Jobs -> SUBSET Printers]
          /\ dedup' \subseteq Jobs \X Requests
          /\ nextSeq' \in 1..(MaxRuns + 1) /\ nextSeq <= nextSeq'
      BY <1>2 DEF StoreInv, StoreTypeOK
    <2>2. /\ \A i \in jobs \cap jobs' : targets'[i] = targets[i]
          /\ \A i \in jobs', q \in Requests : <<i, q>> \in dedup => <<i, q>> \in dedup'
      BY <1>2 DEF StoreInv, StoreTypeOK
    <2>3. runs' = [r \in RunIds |-> runs'[r]] BY <1>2
    <2> QED BY <2>1, <2>2, <2>3, <1>4, <1>5, <1>6 DEF RowsEvolve

-----------------------------------------------------------------------------
(* Transactions that insert rows *)

\* The rows that Accept inserts, and those it leaves alone.
LEMMA AcceptRows ==
    ASSUME StoreTypeOK, NEW j \in Jobs, NEW ps \in PrinterLists, Accept(j, ps)
    PROVE  /\ \A s \in RunIds : s \notin nextSeq..(nextSeq' - 1) => runs'[s] = runs[s]
           /\ \A s \in RunIds : s \in nextSeq..(nextSeq' - 1) =>
                 /\ runs'[s].status = "queued" /\ runs'[s].trigger = "initial"
                 /\ runs'[s].job = j /\ runs'[s].resolution = "none"
                 /\ \E i \in DOMAIN ps : runs'[s].printer = ps[i]
           /\ \A i \in DOMAIN ps : \E s \in RunIds :
                 s \in nextSeq..(nextSeq' - 1) /\ runs'[s].printer = ps[i]
           /\ \A s, t \in RunIds :
                 /\ s \in nextSeq..(nextSeq' - 1) /\ t \in nextSeq..(nextSeq' - 1)
                 /\ runs'[s].printer = runs'[t].printer
                 => s = t
  <1> DEFINE n == Cardinality(DOMAIN ps)
             Row(i) == NewRun(j, ps[i], "initial", "normal", 0, NoRequest)
  <1>1. n \in Nat /\ DOMAIN ps = 1..n BY PrinterListsFacts
  <1>0. \A i, k \in DOMAIN ps : ps[i] = ps[k] => i = k BY PrinterListsFacts
  <1>2. nextSeq' = nextSeq + n /\ nextSeq + n - 1 <= MaxRuns BY DEF Accept
  <1>3. nextSeq \in Nat /\ nextSeq >= 1 /\ MaxRuns \in Nat
    BY StoreAssumption DEF StoreTypeOK
  <1>4. \A s \in RunIds :
           runs'[s] = IF s \in nextSeq..(nextSeq + n - 1)
                      THEN Row(s - nextSeq + 1) ELSE runs[s]
    BY DEF Accept, InsertRuns
  <1>5. \A i : Row(i).status = "queued" /\ Row(i).trigger = "initial"
               /\ Row(i).printer = ps[i] /\ Row(i).job = j
               /\ Row(i).resolution = "none"
    BY DEF NewRun
  <1> HIDE DEF n, Row
  <1>6. nextSeq' - 1 = nextSeq + n - 1 BY <1>1, <1>2, <1>3
  <1>7. \A s \in nextSeq..(nextSeq + n - 1) : s - nextSeq + 1 \in DOMAIN ps
    BY <1>1, <1>3
  <1>8. \A s \in RunIds : s \in nextSeq..(nextSeq' - 1) =>
                 /\ runs'[s].status = "queued" /\ runs'[s].trigger = "initial"
                 /\ runs'[s].job = j /\ runs'[s].resolution = "none"
                 /\ \E i \in DOMAIN ps : runs'[s].printer = ps[i]
    BY <1>4, <1>5, <1>6, <1>7
  <1>9. \A s \in RunIds : s \notin nextSeq..(nextSeq' - 1) => runs'[s] = runs[s]
    BY <1>4, <1>6
  <1>10. \A i \in DOMAIN ps :
           /\ nextSeq + i - 1 \in RunIds
           /\ nextSeq + i - 1 \in nextSeq..(nextSeq + n - 1)
           /\ (nextSeq + i - 1) - nextSeq + 1 = i
    BY <1>1, <1>2, <1>3 DEF RunIds
  <1>11. \A i \in DOMAIN ps : \E s \in RunIds :
           s \in nextSeq..(nextSeq' - 1) /\ runs'[s].printer = ps[i]
    BY <1>4, <1>5, <1>6, <1>10
  <1>12. \A s, t \in RunIds :
           /\ s \in nextSeq..(nextSeq' - 1) /\ t \in nextSeq..(nextSeq' - 1)
           /\ runs'[s].printer = runs'[t].printer
           => s = t
    <2> SUFFICES ASSUME NEW s \in RunIds, NEW t \in RunIds,
                        s \in nextSeq..(nextSeq' - 1), t \in nextSeq..(nextSeq' - 1),
                        runs'[s].printer = runs'[t].printer
                 PROVE  s = t
      OBVIOUS
    <2>1. ps[s - nextSeq + 1] = ps[t - nextSeq + 1] BY <1>4, <1>5, <1>6
    <2>2. s - nextSeq + 1 = t - nextSeq + 1 BY <2>1, <1>6, <1>7, <1>0
    <2> QED BY <2>2, <1>3 DEF RunIds
  <1> QED BY <1>8, <1>9, <1>11, <1>12

\* Row s after the UPDATE of a reprint.
ResolvedRow(s, j, ps) ==
    IF Superseded(s, j, ps)
    THEN [runs[s] EXCEPT !.retryable = FALSE, !.resolution = "reprint_requested"]
    ELSE runs[s]

\* The rows that Reprint inserts and those it resolves.
LEMMA ReprintRows ==
    ASSUME StoreTypeOK, NEW j \in Jobs, NEW ps \in PrinterLists, NEW q \in Requests,
           Reprint(j, ps, q)
    PROVE  /\ \A s \in RunIds : s \notin nextSeq..(nextSeq' - 1) =>
                 runs'[s] = ResolvedRow(s, j, ps)
           /\ \A s \in RunIds : s \in nextSeq..(nextSeq' - 1) =>
                 /\ runs'[s].status = "queued" /\ runs'[s].trigger = "manual_reprint"
                 /\ runs'[s].job = j /\ runs'[s].resolution = "none"
                 /\ \E i \in DOMAIN ps : runs'[s].printer = ps[i]
           /\ \A i \in DOMAIN ps : \E s \in RunIds :
                 s \in nextSeq..(nextSeq' - 1) /\ runs'[s].printer = ps[i]
           /\ \A s, t \in RunIds :
                 /\ s \in nextSeq..(nextSeq' - 1) /\ t \in nextSeq..(nextSeq' - 1)
                 /\ runs'[s].printer = runs'[t].printer
                 => s = t
  <1> DEFINE n == Cardinality(DOMAIN ps)
             Row(i) == NewRun(j, ps[i], "manual_reprint", "reprint", 0, q)
  <1>1. n \in Nat /\ DOMAIN ps = 1..n BY PrinterListsFacts
  <1>0. \A i, k \in DOMAIN ps : ps[i] = ps[k] => i = k BY PrinterListsFacts
  <1>2. nextSeq' = nextSeq + n /\ nextSeq + n - 1 <= MaxRuns BY DEF Reprint
  <1>3. nextSeq \in Nat /\ nextSeq >= 1 /\ MaxRuns \in Nat
    BY StoreAssumption DEF StoreTypeOK
  <1>4. \A s \in RunIds :
           runs'[s] = IF s \in nextSeq..(nextSeq + n - 1)
                      THEN Row(s - nextSeq + 1) ELSE ResolvedRow(s, j, ps)
    BY DEF Reprint, InsertRuns, ResolvedRow
  <1>5. \A i : Row(i).status = "queued" /\ Row(i).trigger = "manual_reprint"
               /\ Row(i).printer = ps[i] /\ Row(i).job = j
               /\ Row(i).resolution = "none"
    BY DEF NewRun
  <1> HIDE DEF n, Row
  <1>6. nextSeq' - 1 = nextSeq + n - 1 BY <1>1, <1>2, <1>3
  <1>7. \A s \in nextSeq..(nextSeq + n - 1) : s - nextSeq + 1 \in DOMAIN ps
    BY <1>1, <1>3
  <1>8. \A s \in RunIds : s \in nextSeq..(nextSeq' - 1) =>
                 /\ runs'[s].status = "queued" /\ runs'[s].trigger = "manual_reprint"
                 /\ runs'[s].job = j /\ runs'[s].resolution = "none"
                 /\ \E i \in DOMAIN ps : runs'[s].printer = ps[i]
    BY <1>4, <1>5, <1>6, <1>7
  <1>9. \A s \in RunIds : s \notin nextSeq..(nextSeq' - 1) => runs'[s] = ResolvedRow(s, j, ps)
    BY <1>4, <1>6
  <1>10. \A i \in DOMAIN ps :
           /\ nextSeq + i - 1 \in RunIds
           /\ nextSeq + i - 1 \in nextSeq..(nextSeq + n - 1)
           /\ (nextSeq + i - 1) - nextSeq + 1 = i
    BY <1>1, <1>2, <1>3 DEF RunIds
  <1>11. \A i \in DOMAIN ps : \E s \in RunIds :
           s \in nextSeq..(nextSeq' - 1) /\ runs'[s].printer = ps[i]
    BY <1>4, <1>5, <1>6, <1>10
  <1>12. \A s, t \in RunIds :
           /\ s \in nextSeq..(nextSeq' - 1) /\ t \in nextSeq..(nextSeq' - 1)
           /\ runs'[s].printer = runs'[t].printer
           => s = t
    <2> SUFFICES ASSUME NEW s \in RunIds, NEW t \in RunIds,
                        s \in nextSeq..(nextSeq' - 1), t \in nextSeq..(nextSeq' - 1),
                        runs'[s].printer = runs'[t].printer
                 PROVE  s = t
      OBVIOUS
    <2>1. ps[s - nextSeq + 1] = ps[t - nextSeq + 1] BY <1>4, <1>5, <1>6
    <2>2. s - nextSeq + 1 = t - nextSeq + 1 BY <2>1, <1>6, <1>7, <1>0
    <2> QED BY <2>2, <1>3 DEF RunIds
  <1> QED BY <1>8, <1>9, <1>11, <1>12

\* Accepting a Job: no row of the Job exists before.
LEMMA AcceptEvolves ==
    ASSUME StoreInv, NEW j \in Jobs, NEW ps \in PrinterLists, Accept(j, ps)
    PROVE  RowsEvolve
  <1> DEFINE n == Cardinality(DOMAIN ps)
             New(r) == r \in nextSeq..(nextSeq + n - 1)
             Row(i) == NewRun(j, ps[i], "initial", "normal", 0, NoRequest)
  <1>1. /\ n \in Nat /\ DOMAIN ps = 1..n
        /\ \A i \in 1..n : ps[i] \in Printers
        /\ \A i, k \in 1..n : ps[i] = ps[k] => i = k
    BY PrinterListsFacts
  <1>2. nextSeq \in Nat /\ nextSeq >= 1 /\ nextSeq' = nextSeq + n /\ MaxRuns \in Nat
        /\ nextSeq + n - 1 <= MaxRuns
    BY StoreAssumption DEF StoreInv, StoreTypeOK, Accept
  <1>3. \A r \in RunIds :
           runs'[r] = IF New(r) THEN Row(r - nextSeq + 1) ELSE runs[r]
    BY DEF Accept, InsertRuns
  <1>4. /\ jobs' = jobs \cup {j} /\ j \notin jobs
        /\ targets' = [targets EXCEPT ![j] = {ps[i] : i \in DOMAIN ps}]
        /\ cancelled' = [cancelled EXCEPT ![j] = {}]
        /\ expired' = expired \ {j} /\ dedup' = dedup
        /\ runs' = [r \in RunIds |-> runs'[r]]
    BY DEF Accept, Touch, InsertRuns
  <1> HIDE DEF n
  <1>5. \A r : New(r) => r \in RunIds /\ r - nextSeq + 1 \in 1..n
    BY <1>1, <1>2 DEF RunIds
  <1>6. \A s \in Live : /\ s \in RunIds /\ ~New(s) /\ RowOK(runs[s])
                        /\ runs[s].job \in jobs
    BY <1>2, RowTypes DEF StoreInv, RowsAreOwned, RunIds
  <1>7. ASSUME NEW r, New(r)
        PROVE  /\ RowOK(runs'[r]) /\ runs'[r].job = j
               /\ runs'[r].printer = ps[r - nextSeq + 1]
               /\ runs'[r].trigger = "initial" /\ runs'[r].mode = "normal"
    <2>1. runs'[r] = Row(r - nextSeq + 1) BY <1>3, <1>5, <1>7
    <2>2. ps[r - nextSeq + 1] \in Printers BY <1>1, <1>5, <1>7
    <2>3. 0 \in 0..MaxRuns BY <1>2
    <2> QED BY <2>1, <2>2, <2>3, NewRows
  <1>8. \A s \in Live' : (s \in Live /\ runs'[s] = runs[s]) \/ New(s)
    BY <1>3 DEF Live
  <1>9. ASSUME NEW r, New(r)
        PROVE  Fresh(r)
    <2>1. ASSUME NEW s \in Live', s < r, SameRowTarget(runs'[s], runs'[r])
          PROVE  FALSE
      <3>1. New(s)
        BY <2>1, <1>4, <1>6, <1>7, <1>8, <1>9 DEF SameRowTarget
      <3>2. ps[s - nextSeq + 1] = ps[r - nextSeq + 1]
        BY <2>1, <3>1, <1>7, <1>9 DEF SameRowTarget
      <3>3. s - nextSeq + 1 = r - nextSeq + 1
        BY <3>1, <3>2, <1>1, <1>5, <1>9
      <3> QED BY <2>1, <3>1, <3>3, <1>2, <1>9
    <2>2. runs'[r].printer \in {ps[i] : i \in DOMAIN ps}
      BY <1>1, <1>5, <1>7, <1>9
    <2>3. /\ targets'[j] = {ps[i] : i \in DOMAIN ps} /\ cancelled'[j] = {}
      BY <1>4 DEF StoreInv, StoreTypeOK
    <2> QED BY <2>1, <2>2, <2>3, <1>4, <1>7, <1>9 DEF Fresh
  <1>10. \A r \in RunIds : Kept(r) \/ Inserted(r) \/ StillUnused(r)
    <2>1. \A r \in Live : Kept(r)
      BY <1>3, <1>4, <1>6, RowMoves DEF Kept
    <2>2. \A r \in RunIds : New(r) => Inserted(r)
      BY <1>1, <1>2, <1>9 DEF Inserted
    <2>3. \A r \in RunIds : r \notin Live /\ ~New(r) => StillUnused(r)
      BY <1>3, RowTypes DEF StoreInv, StillUnused
    <2> QED BY <2>1, <2>2, <2>3
  <1>11. ASSUME NEW r \in RunIds, Kept(r), WillPrint(runs'[r])
         PROVE  runs[r].printer \notin cancelled'[runs[r].job]
    <2>1. r \in Live /\ WillPrint(runs[r])
      BY <1>11 DEF Kept, Evolved
    <2>2. runs[r].printer \notin cancelled[runs[r].job]
      BY <2>1 DEF StoreInv, CancelledTargetIsQuiet, WillPrint, Active, RetryPending
    <2>3. runs[r].job # j BY <2>1, <1>4, <1>6
    <2> QED BY <1>4, <2>2, <2>3 DEF StoreInv, StoreTypeOK
  <1> QED
    <2>1. {ps[i] : i \in DOMAIN ps} \subseteq Printers BY <1>1
    <2>2. /\ jobs' \subseteq Jobs /\ expired' \subseteq Jobs
          /\ targets' \in [Jobs -> SUBSET Printers]
          /\ cancelled' \in [Jobs -> SUBSET Printers]
          /\ dedup' \subseteq Jobs \X Requests
      BY <1>4, <2>1 DEF StoreInv, StoreTypeOK
    <2>3. nextSeq' \in 1..(MaxRuns + 1) /\ nextSeq <= nextSeq'
      BY <1>1, <1>2
    <2>4. /\ \A i \in jobs \cap jobs' : targets'[i] = targets[i]
          /\ \A i \in jobs', q \in Requests : <<i, q>> \in dedup => <<i, q>> \in dedup'
      BY <1>4 DEF StoreInv, StoreTypeOK
    <2> QED BY <2>2, <2>3, <2>4, <1>4, <1>10, <1>11 DEF RowsEvolve

\* A reprint: it closes what was open on its targets and
\* its request id is new to the Job.
LEMMA ReprintEvolves ==
    ASSUME StoreInv, NEW j \in Jobs, NEW ps \in PrinterLists, NEW q \in Requests,
           Reprint(j, ps, q)
    PROVE  RowsEvolve
  <1> DEFINE n == Cardinality(DOMAIN ps)
             New(r) == r \in nextSeq..(nextSeq + n - 1)
             Row(i) == NewRun(j, ps[i], "manual_reprint", "reprint", 0, q)
             Resolved(r) == [runs[r] EXCEPT !.retryable = FALSE,
                                            !.resolution = "reprint_requested"]
  <1>1. /\ n \in Nat /\ DOMAIN ps = 1..n
        /\ \A i \in 1..n : ps[i] \in Printers
        /\ \A i, k \in 1..n : ps[i] = ps[k] => i = k
    BY PrinterListsFacts
  <1>2. nextSeq \in Nat /\ nextSeq >= 1 /\ nextSeq' = nextSeq + n /\ MaxRuns \in Nat
        /\ nextSeq + n - 1 <= MaxRuns
    <2>1. nextSeq \in Nat /\ nextSeq >= 1 /\ MaxRuns \in Nat
      BY StoreAssumption DEF StoreInv, StoreTypeOK
    <2>2. nextSeq' = nextSeq + n /\ nextSeq + n - 1 <= MaxRuns
      BY DEF Reprint
    <2> QED BY <2>1, <2>2
  <1>3. \A r \in RunIds :
           runs'[r] = IF New(r) THEN Row(r - nextSeq + 1)
                      ELSE IF Superseded(r, j, ps) THEN Resolved(r) ELSE runs[r]
    BY DEF Reprint, InsertRuns
  <1>4. /\ jobs' = jobs /\ targets' = targets /\ j \in jobs
        /\ cancelled' = [cancelled EXCEPT ![j] = @ \ {ps[i] : i \in DOMAIN ps}]
        /\ expired' = expired \ {j}
        /\ dedup' = dedup \cup {<<j, q>>} /\ <<j, q>> \notin dedup
        /\ \A i \in DOMAIN ps : /\ ps[i] \in targets[j]
                                /\ \A r \in RunsOf(j, ps[i]) : ~Active(r)
        /\ runs' = [r \in RunIds |-> runs'[r]]
    BY DEF Reprint, Reprintable, Touch, InsertRuns
  <1> HIDE DEF n
  <1>5. \A r : New(r) => r \in RunIds /\ r - nextSeq + 1 \in 1..n
    BY <1>1, <1>2 DEF RunIds
  <1>6. \A s \in Live : /\ s \in RunIds /\ ~New(s) /\ RowOK(runs[s])
                        /\ runs[s].job \in jobs
    BY <1>2, RowTypes DEF StoreInv, RowsAreOwned, RunIds
  <1>7. ASSUME NEW r, New(r)
        PROVE  /\ RowOK(runs'[r]) /\ runs'[r].job = j
               /\ runs'[r].printer = ps[r - nextSeq + 1]
               /\ runs'[r].trigger = "manual_reprint" /\ runs'[r].mode = "reprint"
               /\ runs'[r].request = q
    <2>1. runs'[r] = Row(r - nextSeq + 1) BY <1>3, <1>5, <1>7
    <2>2. ps[r - nextSeq + 1] \in Printers BY <1>1, <1>5, <1>7
    <2>3. 0 \in 0..MaxRuns BY <1>2
    <2> QED BY <2>1, <2>2, <2>3, NewRows
  <1>8. ASSUME NEW s \in Live
        PROVE  Evolved(runs[s], runs'[s])
    <2>1. CASE Superseded(s, j, ps)
      <3>1. runs'[s] = Resolved(s) BY <1>3, <1>6, <2>1
      <3>2. runs[s].status \in {"failed", "uncertain"} /\ runs[s].resolution = "none"
        BY <2>1 DEF Superseded
      <3>3. RowOK(runs[s]) BY <1>6
      <3>4. Evolved(runs[s], Resolved(s)) BY <3>2, <3>3, RowMoves
      <3> HIDE DEF Resolved
      <3> QED BY <3>1, <3>4
    <2>2. CASE ~Superseded(s, j, ps)
      <3>1. runs'[s] = runs[s] BY <1>3, <1>6, <2>2
      <3>2. RowOK(runs[s]) BY <1>6
      <3>3. Evolved(runs[s], runs[s]) BY <3>2, RowMoves
      <3> QED BY <3>1, <3>3
    <2> QED BY <2>1, <2>2
  <1>9. ASSUME NEW s \in Live, NEW i \in DOMAIN ps,
               runs[s].job = j, runs[s].printer = ps[i]
        PROVE  ~OpenRow(runs'[s])
    <2>1. s \in RunsOf(j, ps[i]) BY <1>9 DEF RunsOf
    <2>2. ~Active(s) BY <1>4, <2>1
    <2>3. CASE Superseded(s, j, ps)
      <3>1. runs'[s] = Resolved(s) BY <1>3, <1>6, <2>3
      <3>2. runs[s] \in PrintRun BY <1>6 DEF RowOK
      <3>3. runs'[s].status = runs[s].status /\ runs'[s].resolution = "reprint_requested"
        BY <3>1, <3>2 DEF PrintRun
      <3> QED BY <2>2, <3>3 DEF OpenRow, WillPrint, Active
    <2>4. CASE ~Superseded(s, j, ps)
      <3>1. runs'[s] = runs[s] BY <1>3, <1>6, <2>4
      <3>2. runs[s].status \in {"failed", "uncertain"} => runs[s].resolution # "none"
        BY <2>1, <2>4 DEF Superseded
      <3> QED BY <2>2, <3>1, <3>2 DEF OpenRow, WillPrint, Active
    <2> QED BY <2>3, <2>4
  <1>10. \A s \in Live' : s \in Live \/ New(s)
    <2> SUFFICES ASSUME NEW s \in RunIds, s \notin Live, ~New(s)
                 PROVE  s \notin Live'
      BY DEF Live
    <2>1. ~Superseded(s, j, ps) BY DEF Superseded, RunsOf
    <2>2. runs'[s] = runs[s] BY <2>1, <1>3
    <2> QED BY <2>2 DEF Live
  <1>11. ASSUME NEW r, New(r), NEW s \in Live', SameRowTarget(runs'[s], runs'[r]), New(s)
         PROVE  s = r
    <2>1. ps[s - nextSeq + 1] = ps[r - nextSeq + 1]
      BY <1>7, <1>11 DEF SameRowTarget
    <2>2. s - nextSeq + 1 = r - nextSeq + 1
      BY <2>1, <1>1, <1>5, <1>11
    <2> QED BY <2>2, <1>2, <1>11
  <1>12. ASSUME NEW r, New(r)
         PROVE  Fresh(r)
    <2> DEFINE i == r - nextSeq + 1
    <2>1. i \in DOMAIN ps /\ runs'[r].job = j /\ runs'[r].printer = ps[i]
      BY <1>1, <1>5, <1>7, <1>12
    <2>2. ASSUME NEW s \in Live', s < r, SameRowTarget(runs'[s], runs'[r])
          PROVE  ~OpenRow(runs'[s])
      <3>1. s # r BY <2>2, <1>2, <1>12
      <3>2. s \in Live BY <2>2, <3>1, <1>10, <1>11, <1>12
      <3>3. runs[s].job = j /\ runs[s].printer = ps[i]
        BY <2>1, <2>2, <3>2, <1>8 DEF Evolved, SameRowTarget
      <3> QED BY <2>1, <3>2, <3>3, <1>9
    <2>3. ASSUME NEW s \in Live', SameRowTarget(runs'[s], runs'[r]),
                 runs'[s].trigger = "manual_reprint", runs'[s].request = runs'[r].request
          PROVE  s = r
      <3>1. CASE New(s) BY <2>3, <3>1, <1>11, <1>12
      <3>2. CASE s \in Live
        <4>1. runs[s].trigger = "manual_reprint" /\ runs[s].job = j /\ runs[s].request = q
          BY <2>1, <2>3, <3>2, <1>7, <1>8, <1>12 DEF Evolved, SameRowTarget
        <4>2. <<j, q>> \in dedup BY <4>1, <3>2 DEF StoreInv, ReprintIsRecorded
        <4> QED BY <4>2, <1>4
      <3> QED BY <3>1, <3>2, <1>10
    <2>4. runs'[r].printer \notin cancelled'[j]
      BY <2>1, <1>4 DEF StoreInv, StoreTypeOK
    <2>5. runs'[r].printer \in targets'[j] BY <2>1, <1>4
    <2>6. <<j, q>> \in dedup' BY <1>4
    <2> HIDE DEF i
    <2> QED BY <2>1, <2>2, <2>3, <2>4, <2>5, <2>6, <1>4, <1>7, <1>12 DEF Fresh
  <1>13. \A r \in RunIds : Kept(r) \/ Inserted(r) \/ StillUnused(r)
    <2>1. \A r \in Live : Kept(r)
      BY <1>4, <1>6, <1>8 DEF Kept
    <2>2. \A r \in RunIds : New(r) => Inserted(r)
      BY <1>1, <1>2, <1>12 DEF Inserted
    <2>3. \A r \in RunIds : r \notin Live /\ ~New(r) => StillUnused(r)
      <3>1. \A r \in RunIds : r \notin Live => ~Superseded(r, j, ps)
        BY DEF Superseded, RunsOf
      <3> QED BY <3>1, <1>3, RowTypes DEF StoreInv, StillUnused
    <2> QED BY <2>1, <2>2, <2>3
  <1>14. ASSUME NEW r \in RunIds, Kept(r), WillPrint(runs'[r])
         PROVE  runs[r].printer \notin cancelled'[runs[r].job]
    <2>1. r \in Live /\ WillPrint(runs[r])
      BY <1>14 DEF Kept, Evolved
    <2>2. runs[r].printer \notin cancelled[runs[r].job]
      BY <2>1 DEF StoreInv, CancelledTargetIsQuiet, WillPrint, Active, RetryPending
    <2>3. runs[r].job \in Jobs BY <2>1, <1>6 DEF RowOK, PrintRun
    <2> QED BY <1>4, <2>2, <2>3 DEF StoreInv, StoreTypeOK
  <1> QED
    <2>1. /\ jobs' \subseteq Jobs /\ expired' \subseteq Jobs
          /\ targets' \in [Jobs -> SUBSET Printers]
          /\ cancelled' \in [Jobs -> SUBSET Printers]
          /\ dedup' \subseteq Jobs \X Requests
      BY <1>4 DEF StoreInv, StoreTypeOK
    <2>2. nextSeq' \in 1..(MaxRuns + 1) /\ nextSeq <= nextSeq'
      BY <1>1, <1>2
    <2>3. /\ \A i \in jobs \cap jobs' : targets'[i] = targets[i]
          /\ \A i \in jobs', k \in Requests : <<i, k>> \in dedup => <<i, k>> \in dedup'
      BY <1>4
    <2> QED BY <2>1, <2>2, <2>3, <1>4, <1>13, <1>14 DEF RowsEvolve

\* An automatic retry: by OpenRunIsLatest the run it follows is the latest of its
\* target, and by RetryFollowsFailure it has no child.
LEMMA RetryEvolves ==
    ASSUME StoreInv, NEW r \in RunIds, NEW renders \in BOOLEAN,
           MaterializeRetry(r, renders)
    PROVE  RowsEvolve
  <1> DEFINE Parent == [runs[r] EXCEPT !.retryable = FALSE]
             Child == IF renders THEN RetryOf(r)
                      ELSE [RetryOf(r) EXCEPT !.status = "failed"]
             c == nextSeq
  <1>1. /\ r \in Live /\ RetryPending(r) /\ ~RetryBlocked(r)
        /\ nextSeq <= MaxRuns /\ nextSeq' = nextSeq + 1
        /\ UNCHANGED <<jobs, targets, cancelled, expired, dedup>>
    BY DEF MaterializeRetry
  <1>2. \A s \in Live : s \in RunIds /\ RowOK(runs[s])
    BY RowTypes DEF StoreInv
  <1>3. /\ c \in Nat /\ c \in RunIds /\ c \notin Live /\ MaxRuns \in Nat
        /\ \A s \in Live : s \in Nat /\ s < c
    <2>1. \A s \in Live : s < c BY DEF StoreInv, RowsAreOwned
    <2>2. c \in Nat /\ c >= 1 /\ MaxRuns \in Nat
      BY StoreAssumption DEF StoreInv, StoreTypeOK
    <2>3. \A s \in Live : s \in Nat BY <1>2, <2>2 DEF RunIds
    <2> QED BY <1>1, <2>1, <2>2, <2>3 DEF RunIds
  <1>4. /\ runs' = [s \in RunIds |-> runs'[s]]
        /\ runs'[r] = Parent /\ runs'[c] = Child
        /\ \A s \in RunIds : s # r /\ s # c => runs'[s] = runs[s]
    BY <1>1, <1>3 DEF MaterializeRetry, StoreInv, StoreTypeOK
  <1>5. /\ RowOK(Child)
        /\ Child.job = runs[r].job /\ Child.printer = runs[r].printer
        /\ Child.trigger = "automatic_retry" /\ Child.mode = runs[r].mode
        /\ Child.previous = r
    <2>1. /\ runs[r].job \in Jobs /\ runs[r].printer \in Printers
          /\ runs[r].mode \in {"normal", "reprint"}
      BY <1>1, <1>2 DEF RowOK, PrintRun
    <2>2. r \in 0..MaxRuns BY <1>3 DEF RunIds
    <2> QED BY <2>1, <2>2, NewRows DEF RetryOf
  <1>6. /\ Evolved(runs[r], Parent)
        /\ Failed(Parent) /\ ~OpenRow(Parent)
        /\ Parent.job = runs[r].job /\ Parent.printer = runs[r].printer
        /\ Parent.mode = runs[r].mode
    <2>1. Evolved(runs[r], Parent) BY <1>1, <1>2, RowMoves
    <2>2. runs[r] \in PrintRun /\ runs[r].status = "failed"
      BY <1>1, <1>2 DEF RowOK, RetryPending
    <2> QED BY <2>1, <2>2 DEF PrintRun, Failed, OpenRow, WillPrint
  <1> HIDE DEF Parent, Child, c
  <1>7. /\ \A s \in Live : Evolved(runs[s], runs'[s])
        /\ \A s \in Live' : s \in Live \/ s = c
        /\ r \in Live'
    <2>1. \A s \in Live : Evolved(runs[s], runs'[s])
      BY <1>2, <1>3, <1>4, <1>6, RowMoves
    <2>2. \A s \in Live' : s \in Live \/ s = c
      BY <1>1, <1>4 DEF Live
    <2>3. runs'[r].status \in Statuses
      BY <1>1, <2>1 DEF Evolved, RowOK, PrintRun
    <2> QED BY <2>1, <2>2, <2>3, <1>1 DEF Live, Statuses
  <1>8. ASSUME NEW s \in Live, SameTarget(s, r), s # r
        PROVE  s < r /\ ~OpenRow(runs[s])
    <2>1. Open(r) BY <1>1 DEF Open
    <2>2. ~(r < s)
      BY <1>1, <1>8, <2>1 DEF StoreInv, OpenRunIsLatest, SameTarget
    <2>3. s < r BY <1>1, <1>3, <1>8, <2>2
    <2>4. ~Open(s) BY <1>1, <1>8, <2>3 DEF StoreInv, OpenRunIsLatest
    <2> QED BY <2>3, <2>4 DEF Open, OpenRow, WillPrint, Active, RetryPending
  <1>9. Fresh(c)
    <2>1. ASSUME NEW s \in Live', s < c, SameRowTarget(runs'[s], Child)
          PROVE  /\ ~OpenRow(runs'[s])
                 /\ Child.mode = "normal" /\ runs'[s].mode = "normal" => Failed(runs'[s])
      <3>1. CASE s = r BY <3>1, <1>4, <1>6
      <3>2. CASE s # r
        <4>1. s \in Live /\ runs'[s] = runs[s]
          BY <2>1, <3>2, <1>2, <1>3, <1>4, <1>7
        <4>2. SameTarget(s, r)
          BY <2>1, <4>1, <1>5 DEF SameTarget, SameRowTarget
        <4>3. s < r /\ ~OpenRow(runs'[s]) BY <4>1, <4>2, <3>2, <1>8
        <4>4. runs[r].mode = "normal" /\ runs[s].mode = "normal" => Failed(runs[s])
          BY <4>1, <4>2, <4>3, <1>1 DEF StoreInv, OneUnmarkedCopy, Failed
        <4> QED BY <4>1, <4>3, <4>4, <1>5
      <3> QED BY <3>1, <3>2
    <2>2. ASSUME NEW t \in Live', runs'[t].trigger = "automatic_retry",
                 runs'[t].previous = r, t # c
          PROVE  FALSE
      <3>1. t \in Live /\ runs[t].trigger = "automatic_retry" /\ runs[t].previous = r
        BY <2>2, <1>7 DEF Evolved
      <3>2. ~runs[r].retryable BY <3>1 DEF StoreInv, RetryFollowsFailure
      <3> QED BY <3>2, <1>1 DEF RetryPending
    <2>3. /\ runs[r].job \in jobs' /\ runs[r].printer \in targets'[runs[r].job]
          /\ runs[r].printer \notin cancelled'[runs[r].job]
      BY <1>1 DEF StoreInv, RowsAreOwned, RetryBlocked
    <2>4. SameRowTarget(runs'[r], Child) /\ runs'[r].mode = Child.mode
      BY <1>4, <1>5, <1>6 DEF SameRowTarget
    <2>5. r < c /\ Failed(runs'[r]) BY <1>1, <1>3, <1>4, <1>6
    <2> QED BY <2>1, <2>2, <2>3, <2>4, <2>5, <1>4, <1>5, <1>7 DEF Fresh
  <1>10. \A s \in RunIds : Kept(s) \/ Inserted(s) \/ StillUnused(s)
    <2>1. \A s \in Live : Kept(s)
      BY <1>1, <1>7 DEF Kept, StoreInv, RowsAreOwned
    <2>2. Inserted(c) BY <1>1, <1>3, <1>9 DEF Inserted, c
    <2>3. \A s \in RunIds : s \notin Live /\ s # c => StillUnused(s)
      BY <1>1, <1>4, RowTypes DEF StoreInv, StillUnused
    <2> QED BY <2>1, <2>2, <2>3
  <1>11. ASSUME NEW s \in RunIds, Kept(s), WillPrint(runs'[s])
         PROVE  runs[s].printer \notin cancelled'[runs[s].job]
    <2>1. s \in Live /\ WillPrint(runs[s])
      BY <1>11 DEF Kept, Evolved
    <2> QED BY <2>1, <1>1 DEF StoreInv, CancelledTargetIsQuiet, WillPrint, Active,
                              RetryPending
  <1> QED
    <2>1. nextSeq' \in 1..(MaxRuns + 1) /\ nextSeq <= nextSeq'
      BY <1>1, <1>3 DEF c
    <2> QED BY <2>1, <1>1, <1>4, <1>10, <1>11 DEF RowsEvolve, StoreInv, StoreTypeOK

-----------------------------------------------------------------------------

\* The empty database satisfies the invariant.
LEMMA InitHolds ==
    StoreInit => StoreInv
  <1> SUFFICES ASSUME StoreInit PROVE StoreInv OBVIOUS
  <1>1. Live = {} BY DEF StoreInit, Live, NoRun
  <1>2. StoreTypeOK
    BY <1>1, StoreAssumption DEF StoreInit, StoreTypeOK
  <1> QED BY <1>1, <1>2 DEF StoreInv, RowsAreOwned, OpenRunIsLatest,
       CancelledTargetIsQuiet, OneUnmarkedCopy, RetryFollowsFailure,
       ReprintIsRecorded, ReprintOnce

\* Every transaction of the store keeps, drops and inserts rows.
LEMMA NextEvolves ==
    ASSUME StoreInv, [StoreNext]_storeVars
    PROVE  RowsEvolve
  <1>1. ASSUME NEW j \in Jobs, NEW ps \in PrinterLists, Accept(j, ps)
        PROVE  RowsEvolve
    BY <1>1, AcceptEvolves
  <1>2. ASSUME NEW j \in Jobs, NEW ps \in PrinterLists, NEW q \in Requests,
               Reprint(j, ps, q)
        PROVE  RowsEvolve
    BY <1>2, ReprintEvolves
  <1>3. ASSUME NEW j \in Jobs, NEW ps \in SUBSET Printers, CancelTargets(j, ps)
        PROVE  RowsEvolve
    BY <1>3, CancelTargetsEvolves
  <1>4. ASSUME NEW r \in RunIds, CancelRun(r)
        PROVE  RowsEvolve
    BY <1>4, TransitionEvolves DEF CancelRun
  <1>5. ASSUME NEW r \in RunIds, ConfirmPrinted(r)
        PROVE  RowsEvolve
    BY <1>5, ConfirmEvolves
  <1>6. ASSUME NEW j \in Jobs, Expire(j)
        PROVE  RowsEvolve
    BY <1>6, ExpireEvolves
  <1>7. CASE PurgeExpired BY <1>7, PurgeEvolves
  <1>8. ASSUME NEW p \in Printers, NEW r \in RunIds, ClaimNextQueued(p, r)
        PROVE  RowsEvolve
    BY <1>8, ClaimEvolves
  <1>9. ASSUME NEW r \in RunIds, MarkTransmitted(r)
        PROVE  RowsEvolve
    BY <1>9, TransitionEvolves DEF MarkTransmitted
  <1>10. ASSUME NEW r \in RunIds, NEW b \in BOOLEAN, MarkFailed(r, b)
         PROVE  RowsEvolve
    BY <1>10, TransitionEvolves DEF MarkFailed
  <1>11. ASSUME NEW r \in RunIds, MarkUncertain(r)
         PROVE  RowsEvolve
    BY <1>11, TransitionEvolves DEF MarkUncertain
  <1>12. ASSUME NEW r \in RunIds, ExhaustRetry(r)
         PROVE  RowsEvolve
    BY <1>12, ExhaustEvolves
  <1>13. ASSUME NEW r \in RunIds, NEW renders \in BOOLEAN, MaterializeRetry(r, renders)
         PROVE  RowsEvolve
    BY <1>13, RetryEvolves
  <1>14. CASE RecoverAbandoned BY <1>14, RecoverEvolves
  <1>15. CASE UNCHANGED storeVars
    <2>1. \A s \in Live : Evolved(runs[s], runs'[s])
      BY <1>15, RowTypes, RowMoves DEF storeVars, StoreInv
    <2>2. InPlace
      BY <1>15, <2>1 DEF storeVars, InPlace, StoreInv, StoreTypeOK
    <2> QED BY <2>2, InPlaceEvolves
  <1>16. CASE ClientNext BY <1>16, <1>1, <1>2, <1>3, <1>4, <1>5 DEF ClientNext
  <1>17. CASE RetentionNext BY <1>17, <1>6, <1>7 DEF RetentionNext
  <1>18. CASE WorkerNext
    BY <1>18, <1>8, <1>9, <1>10, <1>11, <1>12, <1>13, <1>14 DEF WorkerNext
  <1> QED BY <1>15, <1>16, <1>17, <1>18 DEF StoreNext

\* Every transaction of the store preserves the invariant.
LEMMA NextPreserves ==
    ASSUME StoreInv, [StoreNext]_storeVars
    PROVE  StoreInv'
  BY NextEvolves, StepPreserves

-----------------------------------------------------------------------------
(* The length of a chain of retries.  What a recursive function computes is   *)
(* usually shown by induction over its argument.  Here the induction runs     *)
(* along the behaviour instead: a step of the store extends the one solution  *)
(* of the equation of RetryDepth to the one solution for the new table.       *)

Chained(table, r) ==
    table[r].status # "none" /\ table[r].trigger = "automatic_retry"

IsDepth(table, f) ==
    f = [r \in RunIds |->
            IF Chained(table, r)
            THEN 1 + (IF table[r].previous = 0 THEN 0 ELSE f[table[r].previous])
            ELSE 0]

TheDepth(table, f) ==
    /\ IsDepth(table, f)
    /\ \A g : IsDepth(table, g) => g = f
    /\ f \in [RunIds -> Nat]

DepthInv == TheDepth(runs, RetryDepth) /\ RetriesBounded

\* RetryDepth is a solution of its equation, if there is one.
LEMMA DepthIsChosen ==
    ASSUME NEW f, TheDepth(runs, f)
    PROVE  RetryDepth = f
  <1>1. RetryDepth = CHOOSE g : IsDepth(runs, g)
    BY DEF RetryDepth, IsDepth, Chained
  <1>2. IsDepth(runs, RetryDepth) BY <1>1 DEF TheDepth
  <1> QED BY <1>2 DEF TheDepth

\* How the chains of a table may change: a row keeps its predecessor, is deleted
\* together with it, or is new and continues a row that was there.
ChainsExtend(old, new) ==
    /\ \A r \in RunIds : Chained(old, r) => old[r].previous \in RunIds
    /\ \A r \in RunIds : old[r].status # "none" /\ new[r].status # "none" =>
          /\ Chained(new, r) <=> Chained(old, r)
          /\ Chained(new, r) => /\ new[r].previous = old[r].previous
                                /\ old[old[r].previous].status # "none"
                                /\ new[old[r].previous].status # "none"
    /\ \A r \in RunIds : Chained(old, r) /\ new[r].status = "none" =>
          new[old[r].previous].status = "none"
    /\ \A r \in RunIds : Chained(new, r) /\ old[r].status = "none" =>
          /\ new[r].previous \in RunIds
          /\ old[new[r].previous].status # "none"
          /\ new[new[r].previous].status # "none"

\* The depth of the new table is the depth of the old one where a row is kept, and
\* one more than that of its predecessor where a row continues a chain.
LEMMA DepthExtends ==
    ASSUME NEW old, NEW new, NEW f, TheDepth(old, f), ChainsExtend(old, new)
    PROVE  \E h : /\ TheDepth(new, h)
                  /\ \A r \in RunIds : new[r].status # "none" =>
                        h[r] = IF old[r].status # "none" THEN f[r]
                               ELSE IF Chained(new, r) THEN 1 + f[new[r].previous] ELSE 0
  <1> DEFINE Kind(r) == IF new[r].status = "none" THEN 0
                        ELSE IF old[r].status # "none" THEN f[r]
                        ELSE IF Chained(new, r) THEN 1 + f[new[r].previous] ELSE 0
             h == [r \in RunIds |-> Kind(r)]
  <1>1. 0 \notin RunIds BY StoreAssumption DEF RunIds
  <1>2. \A r \in RunIds : f[r] = IF Chained(old, r) THEN 1 + f[old[r].previous] ELSE 0
    BY <1>1 DEF TheDepth, IsDepth, ChainsExtend
  <1>3. h \in [RunIds -> Nat]
    <2> SUFFICES ASSUME NEW r \in RunIds PROVE Kind(r) \in Nat OBVIOUS
    <2> QED BY DEF TheDepth, ChainsExtend
  <1>4. \A r \in RunIds : Chained(new, r) => /\ new[r].previous \in RunIds
                                             /\ new[r].previous # 0
                                             /\ h[new[r].previous] = f[new[r].previous]
    BY <1>1 DEF ChainsExtend, Chained
  <1>5. ASSUME NEW r \in RunIds
        PROVE  h[r] = IF Chained(new, r)
                      THEN 1 + (IF new[r].previous = 0 THEN 0 ELSE h[new[r].previous])
                      ELSE 0
    <2>1. CASE new[r].status = "none" BY <2>1 DEF Chained
    <2>2. CASE new[r].status # "none" /\ old[r].status # "none"
      BY <2>2, <1>2, <1>4 DEF ChainsExtend
    <2>3. CASE new[r].status # "none" /\ old[r].status = "none"
      BY <2>3, <1>4
    <2> QED BY <2>1, <2>2, <2>3
  <1>6. IsDepth(new, h)
    BY <1>5 DEF IsDepth
  <1>7. ASSUME NEW g, IsDepth(new, g)
        PROVE  g = h
    <2> DEFINE back == [r \in RunIds |->
                  IF old[r].status # "none" /\ new[r].status # "none" THEN g[r] ELSE f[r]]
    <2> HIDE DEF h
    <2>1. \A r \in RunIds :
             g[r] = IF Chained(new, r) THEN 1 + g[new[r].previous] ELSE 0
      BY <1>4, <1>7 DEF IsDepth
    <2>2. ASSUME NEW r \in RunIds
          PROVE  back[r] = IF Chained(old, r)
                           THEN 1 + (IF old[r].previous = 0 THEN 0
                                     ELSE back[old[r].previous])
                           ELSE 0
      <3>1. Chained(old, r) => old[r].previous \in RunIds /\ old[r].previous # 0
        BY <1>1 DEF ChainsExtend
      <3>2. CASE old[r].status # "none" /\ new[r].status # "none"
        BY <3>1, <3>2, <2>1 DEF ChainsExtend
      <3>3. CASE old[r].status = "none"
        BY <3>3, <1>2 DEF Chained
      <3>4. CASE old[r].status # "none" /\ new[r].status = "none"
        BY <3>1, <3>4, <1>2 DEF ChainsExtend
      <3> QED BY <3>2, <3>3, <3>4
    <2>3. IsDepth(old, back) BY <2>2 DEF IsDepth
    <2>4. back = f BY <2>3 DEF TheDepth
    <2>5. \A r \in RunIds : old[r].status # "none" /\ new[r].status # "none" => g[r] = f[r]
      BY <2>4
    <2> HIDE DEF back
    <2>6. ASSUME NEW r \in RunIds PROVE g[r] = h[r]
      <3>1. CASE new[r].status = "none" BY <3>1, <2>1 DEF Chained, h
      <3>2. CASE new[r].status # "none" /\ old[r].status # "none"
        BY <3>2, <2>5 DEF h
      <3>3. CASE new[r].status # "none" /\ old[r].status = "none"
        BY <3>3, <2>1, <2>5 DEF h, ChainsExtend
      <3> QED BY <3>1, <3>2, <3>3
    <2>7. g = [r \in RunIds |-> g[r]] BY <1>7 DEF IsDepth
    <2> QED BY <2>6, <2>7, <1>3
  <1>8. \A r \in RunIds : new[r].status # "none" =>
           h[r] = IF old[r].status # "none" THEN f[r]
                  ELSE IF Chained(new, r) THEN 1 + f[new[r].previous] ELSE 0
    OBVIOUS
  <1> HIDE DEF h
  <1> QED BY <1>3, <1>6, <1>7, <1>8 DEF TheDepth

\* A step of the store whose new retries continue chains that have retries left
\* keeps all chains within the bound.
LEMMA DepthStep ==
    ASSUME StoreInv, DepthInv, RowsEvolve, StoreInv',
           \A s \in RunIds : Inserted(s) /\ runs'[s].trigger = "automatic_retry" =>
              /\ runs'[s].previous \in Live
              /\ RetryDepth[runs'[s].previous] < MaxAutomaticRetries
    PROVE  DepthInv'
  <1> DEFINE f == RetryDepth
  <1>1. \A r \in RunIds : /\ r \in Live <=> runs[r].status # "none"
                          /\ r \in Live' <=> runs'[r].status # "none"
    BY DEF Live
  <1>2. \A r \in RunIds : Chained(runs, r) =>
           /\ runs[r].previous \in RunIds /\ runs[r].previous \in Live
           /\ runs[runs[r].previous].job = runs[r].job
    BY <1>1 DEF Chained, StoreInv, RetryFollowsFailure, SameTarget, Live
  <1>3. \A r \in RunIds : Chained(runs', r) =>
           /\ runs'[r].previous \in RunIds /\ runs'[r].previous \in Live'
    BY <1>1 DEF Chained, StoreInv, RetryFollowsFailure, Live
  <1>4. \A r \in RunIds : r \in Live => ~Inserted(r)
    <2>1. \A r \in RunIds : r \in Nat BY StoreAssumption DEF RunIds
    <2>2. nextSeq \in Nat /\ nextSeq' \in Nat
      BY StoreAssumption DEF StoreInv, StoreTypeOK
    <2>3. \A r \in Live : r < nextSeq BY DEF StoreInv, RowsAreOwned
    <2> QED BY <2>1, <2>2, <2>3 DEF Inserted
  <1>5. \A r \in RunIds : r \in Live' => IF r \in Live THEN Kept(r) ELSE Inserted(r)
    BY <1>4, RowsAfter DEF StoreInv, Kept
  <1>6. \A r \in RunIds : r \in Live =>
           (r \in Live' <=> runs[r].job \in jobs')
    <2>1. \A r \in Live : Kept(r) \/ Dropped(r) BY <1>4, RowsAfter DEF StoreInv, Live
    <2>2. \A r \in Live : runs[r].job \in jobs' => r \in Live'
      BY RowsAfter DEF StoreInv
    <2>3. \A r \in Live : runs[r].job \notin jobs' => r \notin Live'
      BY <2>1 DEF Kept, Dropped, Live, NoRun
    <2> QED BY <2>2, <2>3
  <1>7. ChainsExtend(runs, runs')
    <2>1. ASSUME NEW r \in RunIds, runs[r].status # "none", runs'[r].status # "none"
          PROVE  /\ Chained(runs', r) <=> Chained(runs, r)
                 /\ Chained(runs', r) => runs'[r].previous = runs[r].previous
      BY <2>1, <1>1, <1>5 DEF Kept, Evolved, Chained
    <2>2. ASSUME NEW r \in RunIds, Chained(runs, r), runs'[r].status = "none"
          PROVE  runs'[runs[r].previous].status = "none"
      <3>1. r \in Live /\ r \notin Live' BY <2>2, <1>1 DEF Chained
      <3> QED BY <3>1, <2>2, <1>1, <1>2, <1>6
    <2>3. ASSUME NEW r \in RunIds, Chained(runs', r), runs[r].status = "none"
          PROVE  runs[runs'[r].previous].status # "none"
      <3>1. r \in Live' /\ r \notin Live BY <2>3, <1>1 DEF Chained
      <3>2. runs'[r].previous \in Live BY <3>1, <2>3, <1>5 DEF Chained
      <3> QED BY <3>2 DEF Live
    <2> QED BY <2>1, <2>2, <2>3, <1>1, <1>2, <1>3 DEF ChainsExtend
  <1>8. TheDepth(runs, f) BY DEF DepthInv
  <1> HIDE DEF f
  <1>9. PICK h : /\ TheDepth(runs', h)
                 /\ \A r \in RunIds : runs'[r].status # "none" =>
                       h[r] = IF runs[r].status # "none" THEN f[r]
                              ELSE IF Chained(runs', r) THEN 1 + f[runs'[r].previous]
                              ELSE 0
    BY <1>7, <1>8, DepthExtends
  <1>10. RetryDepth' = h
    <2>1. RetryDepth' = CHOOSE g : IsDepth(runs', g)
      BY DEF RetryDepth, IsDepth, Chained
    <2>2. IsDepth(runs', RetryDepth') BY <2>1, <1>9 DEF TheDepth
    <2> QED BY <2>2, <1>9 DEF TheDepth
  <1>11. ASSUME NEW r \in Live'
         PROVE  h[r] <= MaxAutomaticRetries
    <2>1. r \in RunIds /\ runs'[r].status # "none" BY DEF Live
    <2>2. CASE r \in Live
      BY <2>1, <2>2, <1>1, <1>9 DEF DepthInv, RetriesBounded, f
    <2>3. CASE r \notin Live /\ Chained(runs', r)
      <3>1. runs'[r].previous \in Live /\ f[runs'[r].previous] < MaxAutomaticRetries
        BY <2>1, <2>3, <1>5 DEF Chained, f
      <3>2. f[runs'[r].previous] \in Nat BY <3>1, <1>8 DEF TheDepth, Live
      <3>3. h[r] = 1 + f[runs'[r].previous] BY <2>1, <2>3, <1>1, <1>9
      <3> QED BY <3>1, <3>2, <3>3, StoreAssumption
    <2>4. CASE r \notin Live /\ ~Chained(runs', r)
      BY <2>1, <2>4, <1>1, <1>9, StoreAssumption
    <2> QED BY <2>2, <2>3, <2>4
  <1> QED BY <1>9, <1>10, <1>11 DEF DepthInv, RetriesBounded

\* Only MaterializeRetry inserts retries, after it has tested the length of the chain.
LEMMA DepthPreserved ==
    ASSUME StoreInv, DepthInv, [StoreNext]_storeVars
    PROVE  DepthInv'
  <1> DEFINE Guarded == \A s \in RunIds :
                Inserted(s) /\ runs'[s].trigger = "automatic_retry" =>
                   /\ runs'[s].previous \in Live
                   /\ RetryDepth[runs'[s].previous] < MaxAutomaticRetries
  <1>1. nextSeq \in Nat BY DEF StoreInv, StoreTypeOK
  <1>2. ASSUME NEW j \in Jobs, NEW ps \in PrinterLists, Accept(j, ps)
        PROVE  Guarded
    BY <1>2, AcceptRows DEF Inserted, StoreInv
  <1>3. ASSUME NEW j \in Jobs, NEW ps \in PrinterLists, NEW q \in Requests,
               Reprint(j, ps, q)
        PROVE  Guarded
    BY <1>3, ReprintRows DEF Inserted, StoreInv, ResolvedRow
  <1>4. ASSUME NEW r \in RunIds, NEW renders \in BOOLEAN, MaterializeRetry(r, renders)
        PROVE  Guarded
    <2> SUFFICES ASSUME NEW s \in RunIds, Inserted(s)
                 PROVE  runs'[s].previous = r
      <3>1. r \in Live /\ ~(RetryDepth[r] >= MaxAutomaticRetries)
        BY <1>4 DEF MaterializeRetry, RetryExhausted
      <3>2. RetryDepth[r] \in Nat BY DEF DepthInv, TheDepth
      <3>3. RetryDepth[r] < MaxAutomaticRetries BY <3>1, <3>2, StoreAssumption
      <3> QED BY <3>1, <3>3
    <2>1. s = nextSeq BY <1>1, <1>4 DEF Inserted, MaterializeRetry
    <2>2. r \in Live /\ r # nextSeq
      BY <1>1, <1>4, StoreAssumption
         DEF MaterializeRetry, StoreInv, RowsAreOwned, RunIds
    <2>3. runs'[s] = IF renders THEN RetryOf(r) ELSE [RetryOf(r) EXCEPT !.status = "failed"]
      BY <2>1, <2>2, <1>4 DEF MaterializeRetry, StoreInv, StoreTypeOK
    <2> QED BY <2>3 DEF RetryOf, NewRun
  <1>5. ASSUME nextSeq' = nextSeq PROVE Guarded
    BY <1>1, <1>5 DEF Inserted
  <1>6. Guarded
    <2>1. CASE ClientNext
      BY <2>1, <1>2, <1>3, <1>5 DEF ClientNext, CancelTargets, CancelRun, ConfirmPrinted,
         Transition
    <2>2. CASE RetentionNext BY <2>2, <1>5 DEF RetentionNext, Expire, PurgeExpired
    <2>3. CASE WorkerNext
      BY <2>3, <1>4, <1>5 DEF WorkerNext, ClaimNextQueued, MarkTransmitted, MarkFailed,
         MarkUncertain, Transition, ExhaustRetry, RecoverAbandoned
    <2>4. CASE UNCHANGED storeVars BY <2>4, <1>5 DEF storeVars
    <2> QED BY <2>1, <2>2, <2>3, <2>4 DEF StoreNext
  <1> QED BY <1>6, NextEvolves, NextPreserves, DepthStep

\* The empty table has chains of length zero.
LEMMA DepthInit == StoreInit => DepthInv
  <1> SUFFICES ASSUME StoreInit PROVE DepthInv OBVIOUS
  <1> DEFINE zero == [r \in RunIds |-> 0]
  <1>1. \A r \in RunIds : ~Chained(runs, r) /\ r \notin Live
    BY DEF StoreInit, Chained, NoRun, Live
  <1>2. TheDepth(runs, zero)
    BY <1>1 DEF TheDepth, IsDepth
  <1>3. RetryDepth = zero BY <1>2, DepthIsChosen
  <1>4. Live = {} BY <1>1 DEF Live
  <1> QED BY <1>2, <1>3, <1>4 DEF DepthInv, RetriesBounded

-----------------------------------------------------------------------------
(* Theorems *)

\* Whatever clients, operators, workers and the retention loop do, the store is
\* in a state that satisfies the inductive invariant.
THEOREM StoreInvariant == StoreSpec => []StoreInv
  <1> QED BY InitHolds, NextPreserves, PTL DEF StoreSpec

\* The rows always satisfy the CHECK constraints of the schema.
THEOREM StoreTypes == StoreSpec => []StoreTypeOK
  <1>1. StoreInv => StoreTypeOK BY DEF StoreInv
  <1> QED BY <1>1, StoreInvariant, PTL

\* Only the latest run of a target is open, so neither a retry nor a reprint is
\* ever queued next to work that is still under way.
THEOREM OpenRunIsAlwaysLatest == StoreSpec => []OpenRunIsLatest
  <1>1. StoreInv => OpenRunIsLatest BY DEF StoreInv
  <1> QED BY <1>1, StoreInvariant, PTL

\* No interleaving of cancellations, retries and reprints leaves a cancelled
\* target with something that would print.
THEOREM CancelledTargetsStayQuiet == StoreSpec => []CancelledTargetIsQuiet
  <1>1. StoreInv => CancelledTargetIsQuiet BY DEF StoreInv
  <1> QED BY <1>1, StoreInvariant, PTL

\* Of the unmarked runs of a target only the latest can have printed.
THEOREM AtMostOneUnmarkedCopy == StoreSpec => []OneUnmarkedCopy
  <1>1. StoreInv => OneUnmarkedCopy BY DEF StoreInv
  <1> QED BY <1>1, StoreInvariant, PTL

\* Retries form chains of failed runs of one target, without branches.
THEOREM RetriesFormChains == StoreSpec => []RetryFollowsFailure
  <1>1. StoreInv => RetryFollowsFailure BY DEF StoreInv
  <1> QED BY <1>1, StoreInvariant, PTL

\* A reprint request takes effect at most once per printer.
THEOREM ReprintsTakeEffectOnce == StoreSpec => []ReprintOnce
  <1>1. StoreInv => ReprintOnce BY DEF StoreInv
  <1> QED BY <1>1, StoreInvariant, PTL

\* No chain has more than MaxAutomaticRetries automatic retries, whatever reprints,
\* cancellations and purges happen between them.
THEOREM ChainsAreBounded == StoreSpec => []RetriesBounded
  <1>1. StoreInit => StoreInv /\ DepthInv BY InitHolds, DepthInit
  <1>2. StoreInv /\ DepthInv /\ [StoreNext]_storeVars => (StoreInv /\ DepthInv)'
    BY NextPreserves, DepthPreserved
  <1>3. DepthInv => RetriesBounded BY DEF DepthInv
  <1> QED BY <1>1, <1>2, <1>3, PTL DEF StoreSpec
=============================================================================
