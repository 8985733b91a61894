----------------------------- MODULE ImportRuns -----------------------------
(***************************************************************************)
(* The run ledger: one row of import_job_runs and the SQL statements of    *)
(* src/jobs/importJobRuns.ts that change it, as operators from a row to    *)
(* the row it becomes.  Every job of the system reports through these      *)
(* statements; the modules of the jobs apply them in their actions.        *)
(*                                                                         *)
(* A row keeps the columns that decide what happens next.  selected and    *)
(* processed are selected_count and processed_count, errors is             *)
(* error_count, ended says that ended_at is not NULL.  The other counts,   *)
(* the timestamps and the error texts are left out.                        *)
(***************************************************************************)
EXTENDS Integers

ActiveStatuses   == {"queued", "running"}
CompleteStatuses == {"complete", "complete_with_errors"}
TerminalStatuses == CompleteStatuses \cup {"cancelled", "failed", "skipped"}
Statuses         == ActiveStatuses \cup TerminalStatuses

RunRow == [status: Statuses, selected: Nat, processed: Nat, errors: Nat,
           ended: BOOLEAN]

(* createImportJobRun: a row created in a terminal status is born ended. *)
NewRun(status, selected) ==
  [status |-> status, selected |-> selected, processed |-> 0, errors |-> 0,
   ended |-> status \in TerminalStatuses]

(* The CASE expressions the counting statements share. *)
CountReached(selected, processed) == selected > 0 /\ processed >= selected

CountedStatus(selected, processed, errors) ==
  IF CountReached(selected, processed)
    THEN IF errors > 0 THEN "complete_with_errors" ELSE "complete"
    ELSE "running"

Recount(row, selected, processed, errors) ==
  [status    |-> CountedStatus(selected, processed, errors),
   selected  |-> selected,
   processed |-> processed,
   errors    |-> errors,
   ended     |-> row.ended \/ CountReached(selected, processed)]

(* Mutant of Countable: the statements lose their condition on the status. *)
CountsAlways(row) == TRUE

(* A work message counts only for a run in one of these statuses. *)
Countable(row) == row.status \in ActiveStatuses \cup CompleteStatuses

(* The progress UPDATE of recordImportJobQueueMessageCompletion. *)
AddCompletion(row, processed, errors) ==
  IF Countable(row)
    THEN Recount(row, row.selected, row.processed + processed,
                 row.errors + errors)
    ELSE row

(* refreshImportJobRunProgressFromQueueMessages: the sums over the ledger  *)
(* of completed messages replace the counts of the row.                    *)
RefreshFromMessages(row, processedSum, errorSum) ==
  IF Countable(row)
    THEN Recount(row, row.selected, processedSum, errorSum)
    ELSE row

(* setImportJobRunQueueTotals: no condition on the status it finds. *)
SetQueueTotals(row, selected) ==
  Recount(row, selected, row.processed, row.errors)

(* finishImportJobRun: overwrites whatever is there; counts that the      *)
(* caller leaves out become 0.                                             *)
FinishRun(status, selected, processed, errors) ==
  [status |-> status, selected |-> selected, processed |-> processed,
   errors |-> errors, ended |-> TRUE]

(* cancelImportJobRun *)
CancelRun(row, processed, errors) ==
  IF row.status \in ActiveStatuses
    THEN [row EXCEPT !.status = "cancelled", !.processed = @ + processed,
                     !.errors = @ + errors, !.ended = TRUE]
    ELSE row

(* failActiveImportJobRun *)
FailActiveRun(row) ==
  IF row.status \in ActiveStatuses
    THEN [row EXCEPT !.status = "failed", !.ended = TRUE,
                     !.errors = IF @ > 0 THEN @ ELSE 1]
    ELSE row

(* updateImportJobRunProgress: also unconditional, and back to running. *)
UpdateProgress(row, selected, processed, errors) ==
  [row EXCEPT !.status = "running", !.selected = selected,
              !.processed = processed, !.errors = errors]
=============================================================================
