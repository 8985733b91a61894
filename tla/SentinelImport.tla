--------------------------- MODULE SentinelImport ---------------------------
(***************************************************************************)
(* One run of a file import, IMDb ratings or TMDb popularity: a producer   *)
(* streams a file into queue messages while consumers already stage them,  *)
(* and a finalizer message is the sentinel that lets the run complete.     *)
(* The queue delivers at least once, in any order, and hands a message     *)
(* that failed too often to the dead-letter queue.                         *)
(*                                                                         *)
(* Sources: src/imports/imdbRatings.ts, src/imports/tmdbPopularity.ts,     *)
(* src/jobs/queueHandler.ts, src/jobs/importJobRuns.ts and, for the audit, *)
(* src/jobs/weeklyImportValidation.ts.                                     *)
(***************************************************************************)
EXTENDS ImportRuns, FiniteSets

CONSTANTS
  Lines,        \* the rows of the export file
  Keys,         \* the primary keys the rows carry (imdb_id, tmdb_id)
  Files,        \* the files that may arrive: functions from Lines to Keys
  RowMessages,  \* the row messages of the run, named by their message_id
  LinesOf,      \* the lines each row message carries
  Finalizer,    \* the message_id of the finalizer
  Workers,      \* consumer invocations that may run at the same time
  NoMessage,    \* the message of an idle worker
  MaxRetries    \* max_retries of the queue

Messages == RowMessages \cup {Finalizer}

ASSUME FileAssumption ==
  /\ IsFiniteSet(Lines)
  /\ Files \subseteq [Lines -> Keys]

ASSUME MessageAssumption ==
  /\ LinesOf \in [RowMessages -> (SUBSET Lines) \ {{}}]
  /\ \A m, n \in RowMessages : m # n => LinesOf[m] \cap LinesOf[n] = {}
  /\ UNION {LinesOf[m] : m \in RowMessages} = Lines
  /\ Finalizer \notin RowMessages
  /\ NoMessage \notin Messages

ASSUME QueueAssumption == MaxRetries \in Nat

VARIABLES
  file,         \* the contents of the export
  producer,     \* where the enqueueing invocation is
  run,          \* the row of import_job_runs
  recorded,     \* the message_ids in import_job_queue_messages
  finalErrors,  \* error_count of the finalizer's row there
  staged,       \* the keys in this run's staging partition
  queue,        \* what the queue holds of each message
  tries,        \* how often each message was delivered
  worker,       \* the handler each consumer invocation is executing
  audited       \* whether the weekly validation is through with the run

importVars == <<run, recorded, finalErrors, staged>>
queueVars  == <<queue, tries, worker>>
vars       == <<file, producer, importVars, queueVars, audited>>

ProducerOver == producer \in {"done", "stopped"}

RowTotal == Cardinality(Lines)

LinesIn(ms) == UNION {LinesOf[m] : m \in ms \cap RowMessages}

(* SUM(processed_count) over the ledger when ms are its messages: a row    *)
(* message counts its rows, the finalizer counts one.                      *)
ProcessedSum(ms) ==
  Cardinality(LinesIn(ms)) + (IF Finalizer \in ms THEN 1 ELSE 0)

Idle == [at |-> "idle", msg |-> NoMessage, errors |-> 0]

Goto(w, step) == worker' = [worker EXCEPT ![w].at = step]

-----------------------------------------------------------------------------
(* The run row exists and the download has been requested.  The weekly     *)
(* validation never looks at a manual run: it is through with it already.  *)
Init ==
  /\ file \in Files
  /\ producer = "streaming"
  /\ run = NewRun("running", 0)
  /\ recorded = {}
  /\ finalErrors = 0
  /\ staged = {}
  /\ queue = [m \in Messages |-> "unsent"]
  /\ tries = [m \in Messages |-> 0]
  /\ worker = [w \in Workers |-> Idle]
  /\ audited \in BOOLEAN

-----------------------------------------------------------------------------
(* The producer.  A call that throws may still have taken effect on the    *)
(* other side, so a step with an effect goes on either to the step after   *)
(* it or to the catch block.                                               *)

SendRows(ms) ==
  /\ producer = "streaming"
  /\ ms # {} /\ \A m \in ms : queue[m] = "unsent"
  /\ queue' = [m \in Messages |-> IF m \in ms THEN "ready" ELSE queue[m]]
  /\ producer' \in {"streaming", "cancelling"}
  /\ UNCHANGED <<file, importVars, tries, worker, audited>>

(* Mutant of RecordTotals: the finalizer is not counted in the total. *)
RecordRowTotals ==
  /\ producer = "streaming"
  /\ \A m \in RowMessages : queue[m] # "unsent"
  /\ run' = SetQueueTotals(run, RowTotal)
  /\ producer' \in {"finalizer", "cancelling"}
  /\ UNCHANGED <<file, recorded, finalErrors, staged, queueVars, audited>>

RecordTotals ==
  /\ producer = "streaming"
  /\ \A m \in RowMessages : queue[m] # "unsent"
  /\ run' = SetQueueTotals(run, RowTotal + 1)
  /\ producer' \in {"finalizer", "cancelling"}
  /\ UNCHANGED <<file, recorded, finalErrors, staged, queueVars, audited>>

SendFinalizer ==
  /\ producer = "finalizer"
  /\ queue' = [queue EXCEPT ![Finalizer] = "ready"]
  /\ producer' \in {"done", "cancelling"}
  /\ UNCHANGED <<file, importVars, tries, worker, audited>>

(* The download, the parser, D1 or the queue throws without an effect. *)
EnqueueThrows ==
  /\ producer \in {"streaming", "finalizer"}
  /\ producer' = "cancelling"
  /\ UNCHANGED <<file, importVars, queueVars, audited>>

CancelEnqueue ==
  /\ producer = "cancelling"
  /\ run' = FinishRun("cancelled", 0, 0, 1)
  /\ producer' = "done"
  /\ UNCHANGED <<file, recorded, finalErrors, staged, queueVars, audited>>

(* The invocation is evicted: no catch block runs. *)
ProducerStops ==
  /\ ~ProducerOver
  /\ producer' = "stopped"
  /\ UNCHANGED <<file, importVars, queueVars, audited>>

-----------------------------------------------------------------------------
(* The queue and its consumers. *)

Deliver(w, m) ==
  /\ worker[w] = Idle
  /\ queue[m] = "ready" /\ tries[m] <= MaxRetries
  /\ tries' = [tries EXCEPT ![m] = @ + 1]
  /\ worker' = [worker EXCEPT
       ![w] = [at |-> IF m = Finalizer THEN "read" ELSE "batch",
               msg |-> m, errors |-> 0]]
  /\ UNCHANGED <<file, producer, importVars, queue, audited>>

(* Mutant of StageRows: the progress update loses its changes() test. *)
StageRowsAgain(w) ==
  LET m == worker[w].msg
  IN  /\ worker[w].at = "batch"
      /\ staged' = staged \cup {file[l] : l \in LinesOf[m]}
      /\ recorded' = recorded \cup {m}
      /\ Goto(w, "ack")
      /\ run' = AddCompletion(run, Cardinality(LinesOf[m]), 0)
      /\ UNCHANGED <<file, producer, finalErrors, queue, tries, audited>>

(* insertImdbRatingQueueRows, processTmdbPopularityRows: one D1 batch      *)
(* upserts the rows, inserts the completion or ignores it, and counts it   *)
(* when it was inserted.                                                   *)
StageRows(w) ==
  LET m == worker[w].msg
  IN  /\ worker[w].at = "batch"
      /\ staged' = staged \cup {file[l] : l \in LinesOf[m]}
      /\ recorded' = recorded \cup {m}
      /\ IF m \in recorded
           THEN Goto(w, "refresh") /\ UNCHANGED run
           ELSE Goto(w, "ack")
                /\ run' = AddCompletion(run, Cardinality(LinesOf[m]), 0)
      /\ UNCHANGED <<file, producer, finalErrors, queue, tries, audited>>

(* The statement a duplicate delivery runs after its batch. *)
RefreshCounts(w) ==
  /\ worker[w].at = "refresh"
  /\ run' = RefreshFromMessages(run, ProcessedSum(recorded), finalErrors)
  /\ Goto(w, "ack")
  /\ UNCHANGED <<file, producer, recorded, finalErrors, staged, queue, tries,
                 audited>>

(* Mutant of FinalizerWaits: off by one, as if the total included it. *)
FinalizerWaitsLess(row) == row.processed + 1 < RowTotal

(* The finalizer handler reads the run row ... *)
FinalizerDone(row)  == row.status \in TerminalStatuses
FinalizerWaits(row) == row.processed < RowTotal

ReadRun(w) ==
  /\ worker[w].at = "read"
  /\ worker' = [worker EXCEPT ![w] =
       IF FinalizerDone(run) THEN [@ EXCEPT !.at = "ack"]
       ELSE IF FinalizerWaits(run) THEN Idle   \* message.retry
       ELSE [@ EXCEPT !.at = "count"]]
  /\ UNCHANGED <<file, producer, importVars, queue, tries, audited>>

(* ... then counts the staged rows against the expected number and against *)
(* thresholds that other tables decide ...                                 *)
StagingUnchecked == TRUE   \* mutant of StagingAccepted: no row count

StagingAccepted == Cardinality(staged) = RowTotal

CountStaged(w) ==
  /\ worker[w].at = "count"
  /\ \E thresholdsMet \in BOOLEAN :
       worker' = [worker EXCEPT
         ![w].at = "record",
         ![w].errors = IF StagingAccepted /\ thresholdsMet THEN 0 ELSE 1]
  /\ UNCHANGED <<file, producer, importVars, queue, tries, audited>>

(* Mutant of RecordFinal: a second delivery adds its issues to the first.  *)
RecordFinalAgain(w) ==
  /\ worker[w].at = "record"
  /\ recorded' = recorded \cup {Finalizer}
  /\ Goto(w, "ack")
  /\ finalErrors' = finalErrors + worker[w].errors
  /\ run' = AddCompletion(run, 1, worker[w].errors)
  /\ UNCHANGED <<file, producer, staged, queue, tries, audited>>

(* ... and records its own completion, which lets the run complete. *)
RecordFinal(w) ==
  /\ worker[w].at = "record"
  /\ recorded' = recorded \cup {Finalizer}
  /\ IF Finalizer \in recorded
       THEN Goto(w, "refresh") /\ UNCHANGED <<run, finalErrors>>
       ELSE /\ Goto(w, "ack")
            /\ finalErrors' = worker[w].errors
            /\ run' = AddCompletion(run, 1, worker[w].errors)
  /\ UNCHANGED <<file, producer, staged, queue, tries, audited>>

Ack(w) ==
  /\ worker[w].at = "ack"
  /\ worker' = [worker EXCEPT ![w] = Idle]
  /\ queue' = [queue EXCEPT
       ![worker[w].msg] = IF @ = "ready" THEN "acked" ELSE @]
  /\ UNCHANGED <<file, producer, importVars, tries, audited>>

(* An exception, an eviction or a lost acknowledgement: the queue will     *)
(* deliver the message again if it has deliveries left.                    *)
DeliveryFails(w) ==
  /\ worker[w] # Idle
  /\ worker' = [worker EXCEPT ![w] = Idle]
  /\ UNCHANGED <<file, producer, importVars, queue, tries, audited>>

Exhausted(m) ==
  /\ queue[m] = "ready" /\ tries[m] > MaxRetries
  /\ \A w \in Workers : worker[w].msg # m

(* Mutant of DeadLetter: the message is acknowledged and the run forgotten. *)
DeadLetterDropped(m) ==
  /\ Exhausted(m)
  /\ queue' = [queue EXCEPT ![m] = "buried"]
  /\ UNCHANGED <<file, producer, importVars, tries, worker, audited>>

(* handleDeadLetterQueue on a message of this import. *)
DeadLetter(m) ==
  /\ Exhausted(m)
  /\ queue' = [queue EXCEPT ![m] = "buried"]
  /\ run' = FailActiveRun(run)
  /\ UNCHANGED <<file, producer, recorded, finalErrors, staged, tries, worker,
                 audited>>

-----------------------------------------------------------------------------
(* The weekly validation closes scheduled runs that are still active.  It  *)
(* starts hours after the enqueueing invocation has ended.                 *)
WeeklyAudit ==
  /\ ~audited /\ ProducerOver
  /\ audited' = TRUE
  /\ run' = FailActiveRun(run)
  /\ UNCHANGED <<file, producer, recorded, finalErrors, staged, queueVars>>

Finished ==
  /\ ProducerOver /\ audited
  /\ \A m \in Messages : queue[m] # "ready"
  /\ \A w \in Workers : worker[w] = Idle
  /\ UNCHANGED vars

ProducerStep ==
  \/ \E ms \in SUBSET RowMessages : SendRows(ms)
  \/ RecordTotals
  \/ SendFinalizer
  \/ CancelEnqueue

HandlerStep(w) ==
  \/ StageRows(w)
  \/ RefreshCounts(w)
  \/ ReadRun(w)
  \/ CountStaged(w)
  \/ RecordFinal(w)
  \/ Ack(w)

QueueStep ==
  \/ \E w \in Workers, m \in Messages : Deliver(w, m)
  \/ \E w \in Workers : HandlerStep(w)
  \/ \E m \in Messages : DeadLetter(m)

Next ==
  \/ ProducerStep
  \/ EnqueueThrows
  \/ ProducerStops
  \/ QueueStep
  \/ \E w \in Workers : DeliveryFails(w)
  \/ WeeklyAudit
  \/ Finished

Spec == Init /\ [][Next]_vars

(* A Worker invocation is not suspended for ever: it moves on or stops;    *)
(* the queue keeps delivering what it holds; cron fires.                   *)
Fairness ==
  /\ WF_vars(ProducerStep)
  /\ WF_vars(QueueStep)
  /\ WF_vars(WeeklyAudit)

FairSpec == Spec /\ Fairness
-----------------------------------------------------------------------------
(* The shape of every variable. *)
TypeOK ==
  /\ file \in Files
  /\ producer \in {"streaming", "finalizer", "done", "cancelling", "stopped"}
  /\ run \in RunRow
  /\ recorded \subseteq Messages
  /\ finalErrors \in {0, 1}
  /\ staged \subseteq Keys
  /\ queue \in [Messages -> {"unsent", "ready", "acked", "buried"}]
  /\ tries \in [Messages -> Nat]
  /\ worker \in [Workers -> [at: {"idle", "batch", "refresh", "read", "count",
                                  "record", "ack"},
                             msg: Messages \cup {NoMessage},
                             errors: {0, 1}]]
  /\ audited \in BOOLEAN

(* The sentinel holds: the finalizer is recorded only after every row      *)
(* message was, whatever was delivered twice, late or while the run was    *)
(* closed and reopened (finalizeImdbRatingRun's processed_count test).     *)
FinalizerLast == Finalizer \in recorded => RowMessages \subseteq recorded

(* A run that reads "complete" has every row of its file in its staging    *)
(* partition, under as many keys as the file has rows, and no validation   *)
(* issue recorded: what lets the Movie List build take it as a source.     *)
CompleteMeansLoaded ==
  run.status = "complete" =>
    /\ \A l \in Lines : file[l] \in staged
    /\ Cardinality(staged) = RowTotal
    /\ recorded = Messages /\ finalErrors = 0

(* The scoreboard never counts a message twice: once the totals are known  *)
(* processed_count stays within selected_count, and it is never more than  *)
(* what the ledger of completed messages accounts for.                     *)
ScoreboardBounded ==
  /\ run.selected > 0 => run.processed <= run.selected
  /\ run.processed <= ProcessedSum(recorded)

(* Once the producer is over, a closed run stays closed, and a failed or   *)
(* cancelled one keeps its status: no late, duplicate or dead-lettered     *)
(* message reopens it.                                                     *)
ClosedRunStaysClosed ==
  [][ProducerOver /\ run.status \in TerminalStatuses =>
       /\ run'.status \in TerminalStatuses
       /\ run.status \in {"failed", "cancelled"} => run'.status = run.status
    ]_vars

(* A run is closed in the end: a scheduled one always, a manual one unless *)
(* its producer was evicted.  Retries run out, the dead-letter handler     *)
(* fails the run, and the weekly audit catches what nothing else closed.   *)
EveryRunCloses ==
  (~audited \/ <>[](producer = "done")) =>
    <>[](run.status \in TerminalStatuses)

(* An import as its readers see it: FileImport says what they rely on. *)
Verdict ==
  IF run.status = "complete" THEN "accepted"
  ELSE IF run.status \in ActiveStatuses THEN "open" ELSE "rejected"

Promise == INSTANCE FileImport WITH loaded <- staged, verdict <- Verdict

KeepsPromise == Promise!Spec
=============================================================================
