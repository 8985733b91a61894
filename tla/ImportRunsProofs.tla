-------------------------- MODULE ImportRunsProofs --------------------------
(***************************************************************************)
(* Facts about the statements of the run ledger, for the proofs about the  *)
(* jobs: each yields a row again, and which of them can close a run.  And  *)
(* the fact behind every "latest run" the jobs ask for: there is one.      *)
(***************************************************************************)
EXTENDS ImportRuns, TLAPS, WellFoundedInduction

(* A new row is a row: createImportJobRun. *)
LEMMA NewRunType ==
  ASSUME NEW status \in Statuses, NEW selected \in Nat
  PROVE  NewRun(status, selected) \in RunRow
BY DEF NewRun, RunRow

(* The three counting statements yield a row. *)
LEMMA RecountType ==
  ASSUME NEW row \in RunRow, NEW s \in Nat, NEW p \in Nat, NEW e \in Nat
  PROVE  Recount(row, s, p, e) \in RunRow
<1>1. CountedStatus(s, p, e) \in Statuses
  BY DEF CountedStatus, Statuses, ActiveStatuses, TerminalStatuses,
         CompleteStatuses
<1>2. row.ended \/ CountReached(s, p) \in BOOLEAN
  BY DEF RunRow, CountReached
<1>3. QED
  BY <1>1, <1>2 DEF Recount, RunRow

(* recordImportJobQueueMessageCompletion's UPDATE yields a row. *)
LEMMA AddCompletionType ==
  ASSUME NEW row \in RunRow, NEW p \in Nat, NEW e \in Nat
  PROVE  AddCompletion(row, p, e) \in RunRow
<1>1. row.selected \in Nat /\ row.processed + p \in Nat /\ row.errors + e \in Nat
  BY DEF RunRow
<1>2. QED
  BY <1>1, RecountType DEF AddCompletion

(* refreshImportJobRunProgressFromQueueMessages yields a row. *)
LEMMA RefreshType ==
  ASSUME NEW row \in RunRow, NEW p \in Nat, NEW e \in Nat
  PROVE  RefreshFromMessages(row, p, e) \in RunRow
<1>1. row.selected \in Nat
  BY DEF RunRow
<1>2. QED
  BY <1>1, RecountType DEF RefreshFromMessages

(* setImportJobRunQueueTotals yields a row. *)
LEMMA SetQueueTotalsType ==
  ASSUME NEW row \in RunRow, NEW s \in Nat
  PROVE  SetQueueTotals(row, s) \in RunRow
<1>1. row.processed \in Nat /\ row.errors \in Nat
  BY DEF RunRow
<1>2. QED
  BY <1>1, RecountType DEF SetQueueTotals

(* finishImportJobRun yields a row. *)
LEMMA FinishRunType ==
  ASSUME NEW status \in TerminalStatuses, NEW s \in Nat, NEW p \in Nat,
         NEW e \in Nat
  PROVE  FinishRun(status, s, p, e) \in RunRow
BY DEF FinishRun, RunRow, Statuses

(* cancelImportJobRun yields a row. *)
LEMMA CancelRunType ==
  ASSUME NEW row \in RunRow, NEW p \in Nat, NEW e \in Nat
  PROVE  CancelRun(row, p, e) \in RunRow
<1>1. row.processed + p \in Nat /\ row.errors + e \in Nat
  BY DEF RunRow
<1>2. "cancelled" \in Statuses
  BY DEF Statuses, TerminalStatuses
<1>3. QED
  BY <1>1, <1>2 DEF CancelRun, RunRow

(* failActiveImportJobRun yields a row, and it changes an active run only: *)
(* to failed, with its progress counts preserved.                          *)
LEMMA FailActiveRunFacts ==
  ASSUME NEW row \in RunRow
  PROVE  /\ FailActiveRun(row) \in RunRow
         /\ FailActiveRun(row).selected = row.selected
         /\ FailActiveRun(row).processed = row.processed
         /\ FailActiveRun(row).status =
              (IF row.status \in ActiveStatuses THEN "failed" ELSE row.status)
BY DEF FailActiveRun, RunRow, Statuses, ActiveStatuses, TerminalStatuses

(* A counting statement closes a run exactly when the count is reached. *)
LEMMA CountedStatusFacts ==
  ASSUME NEW s \in Nat, NEW p \in Nat, NEW e \in Nat
  PROVE  /\ CountedStatus(s, p, e) \in CompleteStatuses <=> CountReached(s, p)
         /\ CountedStatus(s, p, e) = "complete" =>
              CountReached(s, p) /\ e = 0
         /\ CountedStatus(s, p, e) \in CompleteStatuses \cup {"running"}
BY DEF CountedStatus, CompleteStatuses

(* A set of positions in a sequence has a last one.                        *)
LEMMA LastOf ==
  ASSUME NEW n \in Nat, NEW S \in SUBSET (1..n), S # {}
  PROVE  \E k \in S : \A j \in S : j <= k
<1> DEFINE R == OpToRel(<, Nat)
           T == {n - k : k \in S}
<1>1. IsWellFoundedOn(R, Nat)
  BY NatLessThanWellFounded, Zenon
<1>2. \A x, y \in Nat : <<y, x>> \in R <=> y < x
  BY Zenon DEF OpToRel
<1> HIDE DEF R
<1>3. T \subseteq Nat /\ T # {}
  <2>1. \A k \in S : n - k \in Nat
    OBVIOUS
  <2>2. QED
    BY <2>1
<1>4. PICK x \in T : \A y \in T : ~ (<<y, x>> \in R)
  BY <1>1, <1>3, WFMin
<1>5. PICK k \in S : x = n - k
  OBVIOUS
<1>6. \A j \in S : j <= k
  <2> TAKE j \in S
  <2>1. n - j \in T
    OBVIOUS
  <2>2. ~ (n - j < x)
    BY <1>2, <1>3, <1>4, <2>1
  <2>3. QED
    BY <1>5, <2>2
<1>7. QED
  BY <1>6
=============================================================================
